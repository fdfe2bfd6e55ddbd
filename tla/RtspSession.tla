---------------------------- MODULE RtspSession -----------------------------
(***************************************************************************)
(* Package rtsp: one Client session from Dial to the end of its reader     *)
(* goroutine.  The goroutines are the reader, the caller of the lifecycle  *)
(* verbs (lifecycleMu makes Describe, Setup and Play one sequential        *)
(* process), the keepalive timer, two receivers per UDP track, and the     *)
(* callers of Close and Wait.  A step is one critical section, one channel *)
(* operation or one socket call.                                           *)
(*                                                                         *)
(* Time is abstract.  A read deadline is "none", "now" (set by a shutdown),*)
(* "teardown", or "watch": the read-idle watchdog, expired exactly while   *)
(* the anchor it was computed from is idle.  An anchor nobody has stamped  *)
(* yet is the zero time, hence idle.  A message is its kind; of the digest *)
(* credentials it carries the server's nonce, a number, and the nonce      *)
(* count.  The client never compares nonces: whether a challenge may carry *)
(* one that was issued before is up to the server (FreshNonces).           *)
(***************************************************************************)
EXTENDS Naturals, FiniteSets

CONSTANTS
    Tracks,      \* the tracks Describe resolves; also their RTP receivers
    Closers, Waiters,
    Preference,  \* Config.Transport: "TCP", "UDP" or "UDPThenTCP"
    Replies,     \* the kinds of response the server may give
    FreshNonces, \* the server never issues a nonce a second time
    MaxFrames,   \* bound: frames delivered
    MaxTicks,    \* bound: keepalive ticks and server requests
    MaxGen,      \* bound: digest nonces issued by the server
    MaxNc        \* bound: nonce count from which on no verb is called

Workers == {"reader", "lifecycle", "keepalive"}
Callers == Closers \cup Waiters
Actors == Workers \cup Tracks \cup Callers

ASSUME ActorsAssumption ==
    /\ IsFiniteSet(Tracks)
    /\ Closers \cap Waiters = {}
    /\ Tracks \cap (Workers \cup Callers) = {}
    /\ Workers \cap Callers = {}
    /\ {"free", "fired"} \cap Actors = {}
    /\ "control" \notin Tracks
ASSUME ConfigAssumption ==
    /\ Preference \in {"TCP", "UDP", "UDPThenTCP"}
    /\ Replies \subseteq {"ok", "badTransport", "noSession", "refused",
                          "redirect", "unauth", "stale"}
    /\ FreshNonces \in BOOLEAN
    /\ {MaxFrames, MaxTicks, MaxGen, MaxNc} \subseteq Nat

NoErr == "nil"
Causes == {"errClosed", "ctxErr", "reqTimeout", "connClosed", "readTimeout",
           "serverTeardown", "framing", "panic"}

VARIABLES
    pc,          \* control point of each actor
    ret, cause,  \* initiateShutdown's return point and argument, per actor
    job,         \* what a writer is sending
    msg,         \* the credentials marshalled into it
    call,        \* the lifecycle verb under way
    once, termErr, state, closing, shuttingDown,  \* the shutdown funnel
    conn, rdl, wdl,         \* the control connection and its deadlines
    writeMu,
    slot,        \* the pending entry of the verb's request and its channel
    serverHas,   \* the server has the request and has not answered it
    sessionID,   \* a session id is recorded
    auth,        \* authState: the nonce in use (0: inactive) and its count
    lastAuth,    \* the credentials that reached the wire last
    pin, udpPinned, published,
    sock, media, \* UDP socket pairs, and the ones registered for shutdown
    rtpDl, rtcpDl, rtcpPc,
    playing, idle, elapsed,
    wg, udpWG,
    frames, ticks, result

shutVars == <<once, termErr, state, closing, shuttingDown>>
connVars == <<conn, rdl, wdl>>
reqVars == <<slot, serverHas>>
authVars == <<auth, lastAuth, msg>>
trackVars == <<pin, udpPinned, published>>
sockVars == <<sock, media>>
recvVars == <<rtpDl, rtcpDl, rtcpPc>>
watchVars == <<playing, idle, elapsed>>
joinVars == <<wg, udpWG>>
countVars == <<frames, ticks>>
vars == <<pc, ret, cause, job, call, shutVars, connVars, writeMu, reqVars,
          sessionID, authVars, trackVars, sockVars, recvVars, watchVars,
          joinVars, countVars, result>>

NoAuth == [gen |-> 0, nc |-> 0]
Anchors == Tracks \cup {"control"}   \* lastFrameAt, and each track's own

Init ==
    /\ pc = [a \in Actors |->
               CASE a = "reader"    -> "loop"
                 [] a = "lifecycle" -> "wlock"      \* Dial's OPTIONS
                 [] a \in Callers   -> "idle"
                 [] OTHER           -> "off"]
    /\ ret = [a \in Actors |-> "none"]
    /\ cause = [a \in Actors |-> NoErr]
    /\ job = [a \in Workers |-> "request"]
    /\ msg = [a \in Workers |-> NoAuth]
    /\ call = [verb |-> "OPTIONS", track |-> "none", udp |-> FALSE,
               fallback |-> FALSE, try |-> 0]
    /\ once = "free" /\ termErr = NoErr /\ state = "idle"
    /\ closing = FALSE /\ shuttingDown = FALSE
    /\ conn = "open" /\ rdl = "none" /\ wdl = "none"
    /\ writeMu = "free"
    /\ slot = "open" /\ serverHas = FALSE
    /\ sessionID = FALSE /\ auth = NoAuth /\ lastAuth = NoAuth
    /\ pin = "none" /\ udpPinned = FALSE /\ published = {}
    /\ sock = [t \in Tracks |-> "none"] /\ media = {}
    /\ rtpDl = [t \in Tracks |-> "none"]
    /\ rtcpDl = [t \in Tracks |-> "none"]
    /\ rtcpPc = [t \in Tracks |-> "off"]
    /\ playing = FALSE
    /\ idle = [x \in Anchors |-> TRUE]
    /\ elapsed = FALSE
    /\ wg = 0 /\ udpWG = 0
    /\ frames = 0 /\ ticks = 0
    /\ result = [w \in Waiters |-> NoErr]

Done == pc["reader"] = "done"                  \* close(c.done) has run

At(a, p) == pc[a] = p
Go(a, p) == pc' = [pc EXCEPT ![a] = p]

-----------------------------------------------------------------------------
(* initiateShutdown, for whichever actor calls it with cause c; r is where *)
(* that actor continues afterwards.                                        *)

Shutdown(a, c, r) ==
    /\ Go(a, "once")
    /\ cause' = [cause EXCEPT ![a] = c]
    /\ ret' = [ret EXCEPT ![a] = r]

FunnelFrame == UNCHANGED <<ret, cause, job, call, conn, writeMu, reqVars,
                           sessionID, authVars, trackVars, sockVars, rtcpPc,
                           watchVars, joinVars, countVars, result>>

OnceDo(a) ==
    /\ At(a, "once")
    /\ \/ once = "free" /\ once' = a /\ Go(a, "setTerm")
       \/ once = "fired" /\ UNCHANGED once /\ Go(a, ret[a])
    /\ FunnelFrame
    /\ UNCHANGED <<termErr, state, closing, shuttingDown, rdl, wdl, rtpDl,
                   rtcpDl>>

SetTermErr(a) ==
    /\ At(a, "setTerm") /\ Go(a, "closeClosing")
    /\ termErr' = IF termErr = NoErr THEN cause[a] ELSE termErr
    /\ state' = "closed"
    /\ FunnelFrame
    /\ UNCHANGED <<once, closing, shuttingDown, rdl, wdl, rtpDl, rtcpDl>>

CloseClosing(a) ==
    /\ At(a, "closeClosing") /\ Go(a, "interrupt")
    /\ closing' = TRUE
    /\ FunnelFrame
    /\ UNCHANGED <<once, termErr, state, shuttingDown, rdl, wdl, rtpDl, rtcpDl>>

\* Mutant of Interrupt: the flag is set, the blocked socket calls are not woken.
InterruptFlagOnly(a) ==
    /\ At(a, "interrupt") /\ Go(a, "mediaNow")
    /\ shuttingDown' = TRUE
    /\ FunnelFrame
    /\ UNCHANGED <<once, termErr, state, closing, rdl, wdl, rtpDl, rtcpDl>>

Interrupt(a) ==
    /\ At(a, "interrupt") /\ Go(a, "mediaNow")
    /\ shuttingDown' = TRUE
    /\ rdl' = "now" /\ wdl' = "now"
    /\ FunnelFrame
    /\ UNCHANGED <<once, termErr, state, closing, rtpDl, rtcpDl>>

MediaNow(a) ==
    /\ At(a, "mediaNow") /\ Go(a, ret[a])
    /\ once' = "fired"
    /\ rtpDl' = [t \in Tracks |-> IF t \in media THEN "now" ELSE rtpDl[t]]
    /\ rtcpDl' = [t \in Tracks |-> IF t \in media THEN "now" ELSE rtcpDl[t]]
    /\ FunnelFrame
    /\ UNCHANGED <<termErr, state, closing, shuttingDown, rdl, wdl>>

Funnel(a) ==
    OnceDo(a) \/ SetTermErr(a) \/ CloseClosing(a) \/ Interrupt(a) \/ MediaNow(a)

\* classifyReadErr: a recorded cause first, then the watchdog, then the rest.
ReadErr(timeout) ==
    IF closing /\ termErr # NoErr THEN termErr
    ELSE IF playing /\ timeout THEN "readTimeout"
    ELSE "connClosed"

-----------------------------------------------------------------------------
(* Writing on the control connection.  A job is one message: "request" (a  *)
(* verb through roundTrip), "keepalive", "report", "reply" (to a server    *)
(* request), "reject" (teardownRejectedStream) or "teardown" (on close).   *)

WriteFrame == UNCHANGED <<call, shutVars, conn, sessionID, trackVars, sockVars,
                          recvVars, watchVars, joinVars, countVars, result>>

\* Mutant of WriteLock: the marshal and the write are not one critical section.
WriteLockNone(a) ==
    /\ At(a, "wlock")
    /\ Go(a, IF job[a] \in {"request", "keepalive", "teardown"}
             THEN "attach" ELSE "warm")
    /\ WriteFrame
    /\ UNCHANGED <<ret, cause, job, rdl, wdl, writeMu, reqVars, authVars>>

WriteLock(a) ==
    /\ At(a, "wlock")
    /\ writeMu = "free"
    /\ writeMu' = a
    /\ Go(a, IF job[a] \in {"request", "keepalive", "teardown"}
             THEN "attach" ELSE "warm")
    /\ WriteFrame
    /\ UNCHANGED <<ret, cause, job, rdl, wdl, reqVars, authVars>>

\* attachAuthorization, under writeMu except for a rejected stream.
Attach(a) ==
    /\ At(a, "attach")
    /\ Go(a, IF job[a] = "reject" THEN "wlock" ELSE "warm")
    /\ auth' = IF auth.gen = 0 THEN auth ELSE [auth EXCEPT !.nc = @ + 1]
    /\ msg' = [msg EXCEPT ![a] = auth']
    /\ WriteFrame
    /\ UNCHANGED <<ret, cause, job, rdl, wdl, writeMu, reqVars, lastAuth>>

\* armWriteDeadline, or armTeardownDeadlines for the close-time TEARDOWN.
WriteArm(a) ==
    /\ At(a, "warm") /\ Go(a, "write")
    /\ \/ /\ job[a] = "teardown"
          /\ wdl' = "teardown" /\ rdl' = "teardown"
       \/ /\ job[a] # "teardown"
          /\ wdl' = IF shuttingDown THEN "now" ELSE "timeout"
          /\ UNCHANGED rdl
    /\ WriteFrame
    /\ UNCHANGED <<ret, cause, job, writeMu, reqVars, authVars>>

\* conn.Write succeeds: the message is on the wire and the lock is released.
AfterWrite(a) ==
    CASE job[a] = "request"               -> "await"
      [] job[a] = "reject"                -> "idle"
      [] job[a] = "teardown"              -> "discardRead"
      [] OTHER                            -> "loop"

WriteOk(a) ==
    /\ At(a, "write") /\ Go(a, AfterWrite(a))
    /\ conn = "open" /\ wdl # "now"
    /\ writeMu' = "free"
    /\ lastAuth' = IF msg[a].gen = 0 \/ job[a] \in {"reply", "report"}
                   THEN lastAuth ELSE msg[a]
    /\ serverHas' = (serverHas \/ job[a] = "request")
    /\ WriteFrame
    /\ UNCHANGED <<ret, cause, job, rdl, wdl, slot, auth, msg>>

\* It fails: refused after an interrupt, the peer gone, or a peer that does
\* not read until the deadline.  Only roundTrip and a reply end the session.
WriteFail(a) ==
    /\ At(a, "write")
    /\ writeMu' = "free"
    /\ \/ job[a] = "request" /\ Shutdown(a, "connClosed", "fail")
       \/ job[a] = "reply" /\ Shutdown(a, "connClosed", "loop")
       \/ /\ job[a] \in {"keepalive", "report", "reject"}
          /\ Go(a, AfterWrite(a)) /\ UNCHANGED <<ret, cause>>
       \/ job[a] = "teardown" /\ Go(a, "closeMedia") /\ UNCHANGED <<ret, cause>>
    /\ WriteFrame
    /\ UNCHANGED <<job, rdl, wdl, reqVars, authVars>>

Writer(a) ==
    WriteLock(a) \/ Attach(a) \/ WriteArm(a) \/ WriteOk(a) \/ WriteFail(a)

-----------------------------------------------------------------------------
(* The lifecycle verbs: roundTrip, do and authenticate, then the verb's    *)
(* own commit.  A verb called in an illegal state returns a StateError and *)
(* changes nothing.                                                        *)

Life == "lifecycle"
VerbFrame == UNCHANGED <<closing, shuttingDown, once, termErr, conn, wdl,
                         writeMu, result, countVars, elapsed>>

\* Sends a request: a pending entry is registered before the write.
Send(c) ==
    /\ call' = c
    /\ slot' = "open"
    /\ job' = [job EXCEPT ![Life] = "request"]
    /\ Go(Life, "wlock")

Request(v, t, udp, fb) ==
    [verb |-> v, track |-> t, udp |-> udp, fallback |-> fb, try |-> 0]

MayCall == At(Life, "idle") /\ auth.nc < MaxNc

CallDescribe ==
    /\ MayCall
    /\ state = "idle"
    /\ Send(Request("DESCRIBE", "none", FALSE, FALSE))
    /\ VerbFrame
    /\ UNCHANGED <<ret, cause, state, rdl, serverHas, sessionID, authVars,
                   trackVars, sockVars, recvVars, playing, idle, joinVars>>

\* resolveTransport: the pin of an earlier track wins over the preference.
AttemptUDP == pin = "UDP" \/ (pin = "none" /\ Preference # "TCP")

\* Mutant of AllowFallback: the pin of an earlier track is ignored.
AllowFallbackAlways == Preference = "UDPThenTCP"

AllowFallback == pin = "none" /\ Preference = "UDPThenTCP"

CallSetup(t) ==
    /\ MayCall
    /\ state \in {"described", "setup"}
    /\ t \notin published
    /\ Send(Request("SETUP", t, AttemptUDP, AllowFallback))
    /\ sock' = IF AttemptUDP THEN [sock EXCEPT ![t] = "open"] ELSE sock
    /\ VerbFrame
    /\ UNCHANGED <<ret, cause, state, rdl, serverHas, sessionID, authVars,
                   trackVars, media, recvVars, playing, idle, joinVars>>

CallPlay ==
    /\ MayCall
    /\ state = "setup"
    /\ Send(Request("PLAY", "none", FALSE, FALSE))
    /\ VerbFrame
    /\ UNCHANGED <<ret, cause, state, rdl, serverHas, sessionID, authVars,
                   trackVars, sockVars, recvVars, playing, idle, joinVars>>

\* Mutant of GiveUp: no timer and no context, only the end of the reader.
GiveUpDone ==
    /\ At(Life, "await") /\ slot = "open" /\ Done
    /\ Go(Life, "fail")
    /\ VerbFrame
    /\ UNCHANGED <<ret, cause, job, call, state, rdl, reqVars, sessionID,
                   authVars, trackVars, sockVars, recvVars, playing, idle,
                   joinVars>>

\* roundTrip gives up: its context, its timer, or the end of the reader.  The
\* drain of the channel makes an answer that is already there win.
GiveUp ==
    /\ At(Life, "await")
    /\ slot = "open"
    /\ \/ Shutdown(Life, "ctxErr", "fail")
       \/ Shutdown(Life, "reqTimeout", "fail")
       \/ Done /\ Go(Life, "fail") /\ UNCHANGED <<ret, cause>>
    /\ VerbFrame
    /\ UNCHANGED <<job, call, state, rdl, reqVars, sessionID, authVars,
                   trackVars, sockVars, recvVars, playing, idle, joinVars>>

\* The answer's status decides: authenticate and resend, fall back to TCP,
\* fail the verb, or go on to its commit.  OPTIONS ignores the status.
Issued == {g \in 1 .. MaxGen :
             g = auth.gen + 1 \/ (~FreshNonces /\ g <= auth.gen)}
\* activateAuth and refreshNonce: the count restarts, whatever the nonce.
NewNonce == \E g \in Issued : auth' = [gen |-> g, nc |-> 0]
Unauthorized == slot \in {"unauth", "stale"} /\ call.verb # "OPTIONS"
Retries == \/ call.try = 0
           \/ call.try = 1 /\ slot = "stale"
FallsBack == slot = "refused" /\ call.verb = "SETUP" /\ call.fallback

Authenticate ==
    /\ At(Life, "await") /\ Unauthorized
    /\ \/ /\ Retries
          /\ NewNonce
          /\ Send([call EXCEPT !.try = @ + 1])
       \/ /\ Go(Life, "fail")      \* also: no challenge can be answered
          /\ UNCHANGED <<auth, call, slot, job>>
    /\ VerbFrame
    /\ UNCHANGED <<ret, cause, state, rdl, serverHas, sessionID, lastAuth, msg,
                   trackVars, sockVars, recvVars, playing, idle, joinVars>>

Fallback ==
    /\ At(Life, "await") /\ FallsBack
    /\ Send(Request("SETUP", call.track, FALSE, FALSE))
    /\ sock' = [sock EXCEPT ![call.track] = "closed"]
    /\ VerbFrame
    /\ UNCHANGED <<ret, cause, state, rdl, serverHas, sessionID, authVars,
                   trackVars, media, recvVars, playing, idle, joinVars>>

Answered ==
    /\ At(Life, "await")
    /\ slot \in Replies /\ ~Unauthorized /\ ~FallsBack
    /\ Go(Life, CASE call.verb = "OPTIONS"            -> "idle"
                  [] slot \in {"refused", "redirect"} -> "fail"
                  [] call.verb = "SETUP"              -> "recordSession"
                  [] call.verb = "PLAY"               -> "stamp"
                  [] OTHER                            -> "commitDescribe")
    /\ VerbFrame
    /\ UNCHANGED <<ret, cause, job, call, state, rdl, reqVars, sessionID,
                   authVars, trackVars, sockVars, recvVars, playing, idle,
                   joinVars>>

\* A verb fails.  SETUP closes the sockets it opened; Dial, whose OPTIONS
\* failed, waits for the reader to finish before it returns.
CloseOwn == IF call.udp THEN [sock EXCEPT ![call.track] = "closed"] ELSE sock

VerbFails ==
    /\ At(Life, "fail")
    /\ \/ call.verb = "OPTIONS" /\ Done /\ Go(Life, "dialFailed")
       \/ call.verb # "OPTIONS" /\ Go(Life, "idle")
    /\ slot' = "none"
    /\ sock' = CloseOwn
    /\ VerbFrame
    /\ UNCHANGED <<ret, cause, job, call, state, rdl, serverHas, sessionID,
                   authVars, trackVars, media, recvVars, playing, idle,
                   joinVars>>

\* What Describe, publishTrack, publishUDPTrack and Play check under the lock
\* that setTermErr takes: no cause is recorded yet.
MayCommit == termErr = NoErr

\* Describe ends: not an SDP, or the funnel has fired, or the state moves on.
CommitDescribe ==
    /\ At(Life, "commitDescribe") /\ Go(Life, "idle")
    /\ state' = IF MayCommit /\ slot = "ok" THEN "described" ELSE state
    /\ VerbFrame
    /\ UNCHANGED <<ret, cause, job, call, rdl, reqVars, sessionID, authVars,
                   trackVars, sockVars, recvVars, playing, idle, joinVars>>

RecordSession ==
    /\ At(Life, "recordSession")
    /\ sessionID' = (sessionID \/ slot # "noSession")
    /\ \/ /\ slot = "badTransport"
          /\ Go(Life, "attach")
          /\ job' = [job EXCEPT ![Life] = "reject"]
          /\ sock' = CloseOwn
       \/ /\ slot # "badTransport"
          /\ Go(Life, "publish")
          /\ UNCHANGED <<job, sock>>
    /\ VerbFrame
    /\ UNCHANGED <<ret, cause, call, state, rdl, reqVars, authVars, trackVars,
                   media, recvVars, playing, idle, joinVars>>

\* publishTrack and publishUDPTrack: nothing is bound once a cause is recorded.
Publish ==
    /\ At(Life, "publish")
    /\ \/ /\ ~MayCommit
          /\ Go(Life, "idle")
          /\ sock' = CloseOwn
          /\ UNCHANGED <<state, trackVars>>
       \/ /\ MayCommit
          /\ Go(Life, IF call.udp THEN "register" ELSE "idle")
          /\ published' = published \cup {call.track}
          /\ pin' = IF call.udp THEN "UDP" ELSE "TCP"
          /\ udpPinned' = (udpPinned \/ call.udp)
          /\ state' = "setup"
          /\ UNCHANGED sock
    /\ VerbFrame
    /\ UNCHANGED <<ret, cause, job, call, rdl, reqVars, sessionID, authVars,
                   media, recvVars, playing, idle, joinVars>>

RegisterFrame ==
    /\ VerbFrame
    /\ UNCHANGED <<ret, cause, job, call, state, rdl, reqVars, sessionID,
                   authVars, trackVars, recvVars, playing, idle, joinVars>>

\* Mutant of RegisterMedia: c.closing is not checked.
RegisterUnchecked ==
    /\ At(Life, "register") /\ Go(Life, "idle")
    /\ media' = media \cup {call.track}
    /\ RegisterFrame /\ UNCHANGED sock

\* registerMediaSockets: under mediaMu, a closed c.closing closes the pair.
RegisterMedia ==
    /\ At(Life, "register") /\ Go(Life, "idle")
    /\ \/ closing /\ sock' = CloseOwn /\ UNCHANGED media
       \/ ~closing /\ media' = media \cup {call.track} /\ UNCHANGED sock
    /\ RegisterFrame

\* Mutant of StampPlay: playing is set while the anchor is still the zero time.
StampNothing ==
    /\ At(Life, "stamp") /\ Go(Life, "commitPlay")
    /\ VerbFrame
    /\ UNCHANGED <<ret, cause, job, call, state, rdl, reqVars, sessionID,
                   authVars, trackVars, sockVars, recvVars, playing, idle,
                   joinVars>>

\* Play: stamp the watchdog's anchor, commit, re-arm, then spawn.
StampPlay ==
    /\ At(Life, "stamp") /\ Go(Life, "commitPlay")
    /\ idle' = [idle EXCEPT !["control"] = FALSE]
    /\ VerbFrame
    /\ UNCHANGED <<ret, cause, job, call, state, rdl, reqVars, sessionID,
                   authVars, trackVars, sockVars, recvVars, playing, joinVars>>

CommitPlay ==
    /\ At(Life, "commitPlay")
    /\ \/ /\ ~MayCommit
          /\ Go(Life, "idle")
          /\ UNCHANGED <<state, playing, joinVars>>
       \/ /\ MayCommit
          /\ Go(Life, "armRead")
          /\ state' = "playing"
          /\ playing' = TRUE
          /\ wg' = wg + 1
          /\ udpWG' = IF udpPinned THEN udpWG + 2 * Cardinality(published)
                      ELSE udpWG
    /\ VerbFrame
    /\ UNCHANGED <<ret, cause, job, call, rdl, reqVars, sessionID, authVars,
                   trackVars, sockVars, recvVars, idle>>

\* armReadDeadline, called by Play and by the reader before every read.
ReadDeadline == IF shuttingDown THEN "now"
                ELSE IF playing /\ ~udpPinned THEN "watch"
                ELSE "none"

ArmReadPlay ==
    /\ At(Life, "armRead") /\ Go(Life, "spawn")
    /\ rdl' = ReadDeadline
    /\ VerbFrame
    /\ UNCHANGED <<ret, cause, job, call, state, reqVars, sessionID, authVars,
                   trackVars, sockVars, recvVars, playing, idle, joinVars>>

\* startUDPReceivers stamps each track before its receivers run; a track with
\* no registered sockets gives its two counts back.
Spawn ==
    /\ At(Life, "spawn")
    /\ LET run == IF udpPinned THEN published \cap media ELSE {}
           missing == IF udpPinned THEN published \ media ELSE {}
       IN  /\ pc' = [a \in Actors |-> CASE a = Life -> "idle"
                                        [] a = "keepalive" -> "loop"
                                        [] a \in run -> "arm"
                                        [] OTHER -> pc[a]]
           /\ rtcpPc' = [t \in Tracks |-> IF t \in run THEN "arm"
                                          ELSE rtcpPc[t]]
           /\ idle' = [x \in Anchors |-> idle[x] /\ x \notin run]
           /\ udpWG' = udpWG - 2 * Cardinality(missing)
    /\ VerbFrame
    /\ UNCHANGED <<ret, cause, job, call, state, rdl, reqVars, sessionID,
                   authVars, trackVars, sockVars, rtpDl, rtcpDl, playing, wg>>

Lifecycle ==
    \/ GiveUp \/ Authenticate \/ Fallback \/ Answered \/ VerbFails
    \/ CommitDescribe \/ RecordSession \/ Publish \/ RegisterMedia
    \/ StampPlay \/ CommitPlay \/ ArmReadPlay \/ Spawn
    \/ Writer(Life) \/ Funnel(Life)

-----------------------------------------------------------------------------
(* The reader goroutine.  One unit is handled at a time, from the buffer   *)
(* or from a new read; what the server sends is up to it.                  *)

Read == "reader"
ReadFrame == UNCHANGED <<call, closing, shuttingDown, once, termErr, state,
                         wdl, authVars, sessionID, trackVars, recvVars, playing,
                         elapsed, joinVars, result>>

ReaderLoop ==
    /\ At(Read, "loop")
    /\ Go(Read, IF closing THEN "unwind" ELSE "fill")
    /\ ReadFrame
    /\ UNCHANGED <<ret, cause, job, conn, rdl, writeMu, reqVars, sockVars, idle,
                   countVars>>

Fill ==
    /\ At(Read, "fill") /\ Go(Read, "read")
    /\ rdl' = ReadDeadline
    /\ ReadFrame
    /\ UNCHANGED <<ret, cause, job, conn, writeMu, reqVars, sockVars, idle,
                   countVars>>

ReadExpired == rdl = "now" \/ (rdl = "watch" /\ idle["control"])

\* A unit to handle: buffered by an earlier read, or read now.
CanRead ==
    \/ At(Read, "fill")
    \/ At(Read, "read") /\ conn = "open" /\ ~ReadExpired

\* OnFrame returns, or calls Close on this goroutine, or panics.
Callback(a, next, unwind) ==
    \/ Go(a, next) /\ UNCHANGED <<ret, cause>>
    \/ Shutdown(a, "errClosed", next)
    \/ Shutdown(a, "panic", unwind)

\* handleInterleaved: any frame stamps the session's anchor; one on a bound
\* channel is delivered.
ReadMedia ==
    /\ CanRead
    /\ idle' = [idle EXCEPT !["control"] = FALSE]
    /\ \/ /\ published # {} /\ ~udpPinned
          /\ frames < MaxFrames
          /\ frames' = frames + 1
          /\ Callback(Read, "loop", "unwind")
       \/ Go(Read, "loop") /\ UNCHANGED <<ret, cause, frames>>
    /\ ReadFrame
    /\ UNCHANGED <<job, conn, rdl, writeMu, reqVars, sockVars, ticks>>

\* dispatchResponse: an answer nobody waits for is dropped.
ReadResponse(k) ==
    /\ CanRead /\ Go(Read, "loop")
    /\ serverHas
    /\ serverHas' = FALSE
    /\ slot' = IF slot = "open" THEN k ELSE slot
    /\ ReadFrame
    /\ UNCHANGED <<ret, cause, job, conn, rdl, writeMu, sockVars, idle,
                   countVars>>

\* handleServerRequest: a TEARDOWN ends the session, the rest is answered.
ReadRequest ==
    /\ CanRead
    /\ \/ Shutdown(Read, "serverTeardown", "loop") /\ UNCHANGED <<job, ticks>>
       \/ /\ ticks < MaxTicks
          /\ ticks' = ticks + 1
          /\ job' = [job EXCEPT ![Read] = "reply"]
          /\ Go(Read, "wlock") /\ UNCHANGED <<ret, cause>>
    /\ ReadFrame
    /\ UNCHANGED <<conn, rdl, writeMu, reqVars, sockVars, idle, frames>>

\* Mutant of ReadFails: a failed read leaves the loop without a shutdown.
ReadFailsSilently ==
    /\ At(Read, "read") /\ Go(Read, "unwind")
    /\ conn # "open" \/ ReadExpired
    /\ ReadFrame
    /\ UNCHANGED <<ret, cause, job, conn, rdl, writeMu, reqVars, sockVars, idle,
                   countVars>>

\* The bytes that arrive cannot be framed any more.
ReadGarbage ==
    /\ CanRead /\ Shutdown(Read, "framing", "unwind")
    /\ ReadFrame
    /\ UNCHANGED <<job, conn, rdl, writeMu, reqVars, sockVars, idle, countVars>>

\* The read itself fails.
ReadFails ==
    /\ At(Read, "read")
    /\ conn # "open" \/ ReadExpired
    /\ Shutdown(Read, ReadErr(ReadExpired), "unwind")
    /\ ReadFrame
    /\ UNCHANGED <<job, conn, rdl, writeMu, reqVars, sockVars, idle, countVars>>

\* teardownAndJoin, one deferred call after the other.
Unwind ==
    /\ At(Read, "unwind")
    /\ Go(Read, IF sessionID THEN "wlock" ELSE "closeMedia")
    /\ job' = [job EXCEPT ![Read] = "teardown"]
    /\ ReadFrame
    /\ UNCHANGED <<ret, cause, conn, rdl, writeMu, reqVars, sockVars, idle,
                   countVars>>

DiscardRead ==
    /\ At(Read, "discardRead") /\ Go(Read, "closeMedia")
    /\ ReadFrame
    /\ UNCHANGED <<ret, cause, job, conn, rdl, writeMu, reqVars, sockVars, idle,
                   countVars>>

CloseMedia ==
    /\ At(Read, "closeMedia") /\ Go(Read, "joinUDP")
    /\ sock' = [t \in Tracks |-> IF t \in media THEN "closed" ELSE sock[t]]
    /\ ReadFrame
    /\ UNCHANGED <<ret, cause, job, conn, rdl, writeMu, reqVars, media, idle,
                   countVars>>

JoinUDP ==
    /\ At(Read, "joinUDP") /\ Go(Read, "join")
    /\ udpWG = 0
    /\ conn' = "closed"
    /\ ReadFrame
    /\ UNCHANGED <<ret, cause, job, rdl, writeMu, reqVars, sockVars, idle,
                   countVars>>

\* Mutant of Join: close(done) without waiting for the keepalive goroutine.
JoinEarly ==
    /\ At(Read, "join") /\ Go(Read, "done")
    /\ ReadFrame
    /\ UNCHANGED <<ret, cause, job, conn, rdl, writeMu, reqVars, sockVars, idle,
                   countVars>>

Join ==
    /\ At(Read, "join") /\ Go(Read, "done")
    /\ wg = 0
    /\ ReadFrame
    /\ UNCHANGED <<ret, cause, job, conn, rdl, writeMu, reqVars, sockVars, idle,
                   countVars>>

ReaderStep ==
    \/ ReaderLoop \/ Fill \/ ReadFails \/ Unwind \/ DiscardRead \/ CloseMedia
    \/ JoinUDP \/ Join \/ Writer(Read) \/ Funnel(Read)

-----------------------------------------------------------------------------
(* The keepalive timer: OPTIONS or GET_PARAMETER with credentials, and     *)
(* receiver reports, which on TCP share the control connection.            *)

Keep == "keepalive"

KeepaliveLoop ==
    /\ At(Keep, "loop")
    /\ \/ closing /\ Go(Keep, "off") /\ wg' = wg - 1 /\ UNCHANGED <<job, ticks>>
       \/ /\ ticks < MaxTicks
          /\ ticks' = ticks + 1
          /\ \E j \in {"keepalive"} \cup IF udpPinned THEN {} ELSE {"report"} :
                job' = [job EXCEPT ![Keep] = j]
          /\ Go(Keep, "wlock")
          /\ UNCHANGED wg
    /\ UNCHANGED <<ret, cause, call, shutVars, connVars, writeMu, reqVars,
                   sessionID, authVars, trackVars, sockVars, recvVars,
                   watchVars, udpWG, frames, result>>

KeepaliveStep == KeepaliveLoop \/ Writer(Keep)

-----------------------------------------------------------------------------
(* UDP receivers: t itself is the RTP receiver of track t.                 *)

RecvFrame == UNCHANGED <<job, call, shutVars, connVars, writeMu, reqVars,
                         sessionID, authVars, trackVars, sockVars, playing,
                         elapsed, wg, ticks, result>>

\* Mutants of RecvArm: it arms past a shutdown; it arms no watchdog.
RecvArmForward(t) ==
    /\ At(t, "arm") /\ Go(t, "recv")
    /\ rtpDl' = [rtpDl EXCEPT ![t] = IF playing THEN "watch" ELSE "none"]
    /\ RecvFrame
    /\ UNCHANGED <<ret, cause, rtcpDl, rtcpPc, idle, udpWG, frames>>

RecvArmNone(t) ==
    /\ At(t, "arm")
    /\ Go(t, IF shuttingDown THEN "exit" ELSE "recv")
    /\ rtpDl' = [rtpDl EXCEPT ![t] = IF shuttingDown THEN "now" ELSE "none"]
    /\ RecvFrame
    /\ UNCHANGED <<ret, cause, rtcpDl, rtcpPc, idle, udpWG, frames>>

\* armMediaReadDeadline refuses once the shutdown has begun.
RecvArm(t) ==
    /\ At(t, "arm")
    /\ Go(t, IF shuttingDown THEN "exit" ELSE "recv")
    /\ rtpDl' = [rtpDl EXCEPT ![t] = IF shuttingDown THEN "now"
                                     ELSE IF playing THEN "watch" ELSE "none"]
    /\ RecvFrame
    /\ UNCHANGED <<ret, cause, rtcpDl, rtcpPc, idle, udpWG, frames>>

RecvExpired(t) == rtpDl[t] = "now" \/ (rtpDl[t] = "watch" /\ idle[t])

\* A datagram: from a foreign host (dropped), malformed, or a frame.
Stamp(t) == idle' = [idle EXCEPT ![t] = FALSE, !["control"] = FALSE]

RecvDatagram(t) ==
    /\ At(t, "recv")
    /\ sock[t] = "open" /\ ~RecvExpired(t)
    /\ \/ Go(t, "arm") /\ UNCHANGED <<ret, cause, idle, frames>>
       \/ Stamp(t) /\ Go(t, "arm") /\ UNCHANGED <<ret, cause, frames>>
       \/ /\ Stamp(t)
          /\ frames < MaxFrames
          /\ frames' = frames + 1
          /\ Callback(t, "arm", "exit")
    /\ RecvFrame
    /\ UNCHANGED <<recvVars, udpWG>>

RecvFails(t) ==
    /\ At(t, "recv")
    /\ sock[t] # "open" \/ RecvExpired(t)
    /\ Shutdown(t, ReadErr(RecvExpired(t)), "exit")
    /\ RecvFrame
    /\ UNCHANGED <<recvVars, idle, udpWG, frames>>

RecvExit(t) ==
    /\ At(t, "exit") /\ Go(t, "off")
    /\ udpWG' = udpWG - 1
    /\ RecvFrame
    /\ UNCHANGED <<ret, cause, recvVars, idle, frames>>

\* The RTCP receiver has no watchdog and ends nothing when its read fails.
RtcpRecv(t) ==
    /\ \/ /\ rtcpPc[t] = "arm" /\ ~shuttingDown
          /\ rtcpPc' = [rtcpPc EXCEPT ![t] = "recv"]
          /\ rtcpDl' = [rtcpDl EXCEPT ![t] = "none"]
          /\ UNCHANGED udpWG
       \/ /\ \/ rtcpPc[t] = "arm" /\ shuttingDown
             \/ rtcpPc[t] = "recv" /\ (sock[t] # "open" \/ rtcpDl[t] = "now")
          /\ rtcpPc' = [rtcpPc EXCEPT ![t] = "off"]
          /\ udpWG' = udpWG - 1
          /\ UNCHANGED rtcpDl
    /\ RecvFrame
    /\ UNCHANGED <<pc, ret, cause, rtpDl, idle, frames>>

RtcpReport(t) ==
    /\ rtcpPc[t] = "recv"
    /\ sock[t] = "open" /\ rtcpDl[t] # "now"
    /\ rtcpPc' = [rtcpPc EXCEPT ![t] = "arm"]
    /\ RecvFrame
    /\ UNCHANGED <<pc, ret, cause, rtpDl, rtcpDl, idle, udpWG, frames>>

ReceiverStep(t) ==
    RecvArm(t) \/ RecvFails(t) \/ RecvExit(t) \/ Funnel(t)

-----------------------------------------------------------------------------
(* Close, Wait, the network and the clock.                                 *)

CallerFrame == UNCHANGED <<job, call, shutVars, connVars, writeMu, reqVars,
                           sessionID, authVars, trackVars, sockVars, recvVars,
                           watchVars, joinVars, countVars>>
Dialled == call.verb # "OPTIONS" \/ At(Life, "idle")

CallClose(c) ==
    /\ At(c, "idle") /\ Dialled
    /\ Shutdown(c, "errClosed", "returned")
    /\ CallerFrame
    /\ UNCHANGED result

\* Wait's select: c.done, or the context it was given.
WaitCtx(w) ==
    /\ At(w, "idle") /\ Dialled
    /\ Shutdown(w, "ctxErr", "waitDone")
    /\ CallerFrame
    /\ UNCHANGED result

WaitDone(w) ==
    /\ pc[w] \in {"idle", "waitDone"} /\ Dialled /\ Done
    /\ Go(w, "returned")
    /\ result' = [result EXCEPT ![w] = termErr]
    /\ CallerFrame
    /\ UNCHANGED <<ret, cause>>

PeerCloses ==
    /\ conn = "open"
    /\ conn' = "peerClosed"
    /\ UNCHANGED <<pc, ret, cause, job, call, shutVars, rdl, wdl, writeMu,
                   reqVars, sessionID, authVars, trackVars, sockVars, recvVars,
                   watchVars, joinVars, countVars, result>>

\* ReadIdle passes without a frame for an anchor some deadline depends on.
IdleElapses(x) ==
    /\ playing /\ ~idle[x]
    /\ x = "control" => ~udpPinned
    /\ idle' = [idle EXCEPT ![x] = TRUE]
    /\ elapsed' = TRUE
    /\ UNCHANGED <<pc, ret, cause, job, call, shutVars, connVars, writeMu,
                   reqVars, sessionID, authVars, trackVars, sockVars, recvVars,
                   playing, joinVars, countVars, result>>

Environment ==
    \/ ReadMedia \/ ReadRequest \/ ReadGarbage \/ PeerCloses
    \/ \E k \in Replies : ReadResponse(k)
    \/ \E t \in Tracks : RecvDatagram(t) \/ RtcpReport(t)
    \/ \E x \in Anchors : IdleElapses(x)

Goroutines ==
    \/ CallDescribe \/ CallPlay \/ \E t \in Tracks : CallSetup(t)
    \/ Lifecycle \/ ReaderStep \/ KeepaliveStep
    \/ \E t \in Tracks : ReceiverStep(t) \/ RtcpRecv(t)
    \/ \E c \in Callers : Funnel(c)
    \/ \E c \in Closers : CallClose(c)
    \/ \E w \in Waiters : WaitCtx(w) \/ WaitDone(w)

\* The only place the system may stop: the reader has finished, and so has
\* every call that was made.
Terminated ==
    /\ Done
    /\ pc[Life] \in {"idle", "dialFailed"}
    /\ \A c \in Callers : pc[c] \in {"idle", "returned"}
    /\ UNCHANGED vars

Next == Goroutines \/ Environment \/ Terminated
Spec == Init /\ [][Next]_vars

(***************************************************************************)
(* Fairness: goroutines are scheduled, every write and the discard read    *)
(* end by their deadlines, and a request's timer fires.  Nobody has to     *)
(* call anything, and the server need not send anything.                   *)
(***************************************************************************)
Fairness ==
    /\ WF_vars(Lifecycle)
    /\ WF_vars(ReaderStep)
    /\ WF_vars(KeepaliveLoop /\ closing) /\ WF_vars(Writer(Keep))
    /\ \A t \in Tracks : WF_vars(ReceiverStep(t)) /\ WF_vars(RtcpRecv(t))
    /\ \A c \in Callers : WF_vars(Funnel(c))
    /\ \A w \in Waiters : WF_vars(WaitDone(w) /\ At(w, "waitDone"))
FairSpec == Spec /\ Fairness

-----------------------------------------------------------------------------
(* Properties.                                                             *)

\* setupUDP, registerMediaSockets, closeMediaSockets: when the reader is done
\* and no verb is under way, every UDP socket pair ever opened is closed.
NoSocketLeak ==
    (Done /\ pc[Life] \in {"idle", "dialFailed"}) =>
        \A t \in Tracks : sock[t] # "open"

\* teardownAndJoin: when c.done is closed no keepalive or receiver goroutine
\* runs, and Play is not about to start one.
Joined ==
    Done => /\ wg = 0 /\ udpWG = 0
            /\ pc[Keep] = "off" /\ pc[Life] \notin {"armRead", "spawn"}
            /\ \A t \in Tracks : pc[t] = "off" /\ rtcpPc[t] = "off"

\* armReadDeadline, armWriteDeadline, armMediaReadDeadline: no goroutine pushes
\* a deadline forward past the interrupt of a shutdown; only the close-time
\* TEARDOWN is exempt.
InterruptSticks ==
    /\ shuttingDown => {rdl, wdl} \subseteq {"now", "teardown"}
    /\ once = "fired" =>
          \A t \in media : rtpDl[t] = "now" /\ rtcpDl[t] = "now"

\* resolveTransport: the first SETUP that succeeds fixes the transport of the
\* session, so after a fallback UDP is not proposed again and after a UDP track
\* nothing falls back; and the two records of it, sessionTransport and
\* udpPinned, agree.
TransportPinned ==
    [][/\ pin # "none" => pin' = pin
       /\ udpPinned' <=> pin' = "UDP"]_<<pin, udpPinned>>

\* Play stamps lastFrameAt before it sets playing, startUDPReceivers stamps a
\* track before its receiver arms: ErrReadTimeout needs an interval without
\* media while playing, a session is never timed out against the zero time.
NoFalseTimeout == termErr = "readTimeout" => elapsed

\* attachAuthorization under writeMu: the nonce counts of one nonce reach the
\* wire in increasing order, and an older nonce never follows a newer one.  It
\* asks for a server that does not reissue a nonce (FreshNonces): the count
\* restarts at 1 with every challenge the client answers.
NonceOrder ==
    [][\/ lastAuth'.gen > lastAuth.gen
       \/ lastAuth'.gen = lastAuth.gen /\ lastAuth'.nc > lastAuth.nc]_lastAuth

\* The Source interface (source.go), implemented by the session.
Contract == INSTANCE SourceContract WITH
    NoCause <- NoErr, Deliveries <- 0 .. MaxFrames,
    cause <- termErr, ended <- Done, delivered <- frames
ImplementsSource == Contract!Spec

\* initiateShutdown: once a shutdown has begun every goroutine is joined, and
\* the Close or Wait that began it returns, whoever is blocked on the socket,
\* on writeMu or on a join.
ShutdownCompletes ==
    /\ closing ~> Done
    /\ \A c \in Callers : pc[c] = "once" ~> pc[c] = "returned"

\* roundTrip: a verb always returns, and Dial after a failed OPTIONS too: it
\* waits for c.done, which only a fired funnel closes.
VerbReturns == pc[Life] = "wlock" ~> pc[Life] \in {"idle", "dialFailed"}

\* The read-idle watchdog: when ReadIdle has passed without media on the
\* control connection (TCP) or on a track (UDP), the session ends unless
\* media resumes.
WatchdogFires ==
    /\ (playing /\ ~udpPinned /\ idle["control"]) ~> (Done \/ ~idle["control"])
    /\ \A t \in Tracks : (pc[t] = "recv" /\ idle[t]) ~> (Done \/ ~idle[t])

=============================================================================
