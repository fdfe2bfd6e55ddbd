----------------------------- MODULE RtpStream ------------------------------
(***************************************************************************)
(* Package rtp, stream.go: what one track learns from the headers it       *)
(* observes.  Sequence numbers wrap at SeqMod and cycles at CycleMod; raw  *)
(* timestamps wrap at TsMod and are extended without wrapping.             *)
(*                                                                         *)
(* A packet is its position p in the stream of its source: it carries the  *)
(* sequence number p % SeqMod and the timestamp of media time Step * p.    *)
(* Packets may be lost, repeated and reordered, but stay less than half a  *)
(* circle from the newest one, in sequence and in time.                    *)
(***************************************************************************)
EXTENDS SeqCircle

CONSTANTS
    CycleMod,   \* 2^16
    TsMod,      \* 2^32
    Step,       \* media time between two packets, in timestamp units
    Sources,    \* SSRCs
    MaxPackets  \* bound: packets observed

NoSource == "none"

ASSUME TimestampAssumption ==
    /\ {CycleMod, TsMod, Step} \subseteq Nat \ {0}
    /\ TsMod % 2 = 0 /\ MaxPackets \in Nat
    /\ NoSource \notin Sources

VARIABLES
    init, ssrc, lastSeq, cycles, lastTS, ts64,
    received, seqGaps, duplicates, ssrcResets,
    update,      \* what Observe returned last
    first, high, \* ghosts: first and highest position of the current source
    span,        \* ghost: positions covered by the earlier sources
    seen         \* ghost: the position observed last

view == <<init, ssrc, lastSeq, cycles, lastTS, ts64>>
counters == <<received, seqGaps, duplicates, ssrcResets>>
streamVars == <<view, counters, update, first, high, span, seen>>

Raw(p) == (Step * p) % TsMod

StreamInit ==
    /\ init = FALSE /\ ssrc = NoSource
    /\ lastSeq = 0 /\ cycles = 0 /\ lastTS = 0 /\ ts64 = 0
    /\ received = 0 /\ seqGaps = 0 /\ duplicates = 0 /\ ssrcResets = 0
    /\ update = [gap |-> 0, ts |-> 0, reset |-> FALSE, dup |-> FALSE]
    /\ first = 0 /\ high = 0 /\ span = 0 /\ seen = 0

\* Mutant of ExtendTS: a backward step is taken for a forward one.
ExtendForward(ts) == ts64 + ((ts - lastTS) % TsMod)

\* extendTS: forward across the wrap, or backward and clamped at zero.
ExtendTS(ts) ==
    LET d == (ts - lastTS) % TsMod
        back == TsMod - d
    IN  IF d < Half(TsMod) THEN ts64 + d
        ELSE IF back > ts64 THEN 0 ELSE ts64 - back

\* A new view of the stream that starts at position p.
Baseline(p) ==
    /\ lastSeq' = SeqOf(p)
    /\ lastTS' = Raw(p) /\ ts64' = Raw(p)
    /\ first' = p /\ high' = p

Report(g, t, r, d) == update' = [gap |-> g, ts |-> t, reset |-> r, dup |-> d]

ObserveFirst(s, p) ==
    /\ ~init
    /\ init' = TRUE /\ ssrc' = s
    /\ Baseline(p)
    /\ Report(0, Raw(p), FALSE, FALSE)
    /\ UNCHANGED <<cycles, seqGaps, duplicates, ssrcResets, span>>

ObserveReset(s, p) ==
    /\ init /\ s # ssrc
    /\ ssrc' = s /\ cycles' = 0
    /\ Baseline(p)
    /\ ssrcResets' = ssrcResets + 1
    /\ span' = span + (high - first)
    /\ Report(0, Raw(p), TRUE, FALSE)
    /\ UNCHANGED <<init, seqGaps, duplicates>>

\* The distance Observe computes, on the circle.
Distance(p) == (SeqOf(p) - lastSeq) % SeqMod

ObserveForward(s, p) ==
    /\ init /\ s = ssrc
    /\ Distance(p) \in 1 .. Half(SeqMod) - 1
    /\ lastSeq' = SeqOf(p)
    /\ cycles' = IF SeqOf(p) < lastSeq THEN (cycles + 1) % CycleMod ELSE cycles
    /\ seqGaps' = seqGaps + Distance(p) - 1
    /\ ts64' = ExtendTS(Raw(p)) /\ lastTS' = Raw(p)
    /\ high' = p
    /\ Report(Distance(p) - 1, ts64', FALSE, FALSE)
    /\ UNCHANGED <<init, ssrc, duplicates, ssrcResets, first, span>>

\* A repeated or an old packet gets a timestamp and moves nothing.
ObserveOld(s, p) ==
    /\ init /\ s = ssrc
    /\ Distance(p) \notin 1 .. Half(SeqMod) - 1
    /\ duplicates' = duplicates + 1
    /\ Report(0, ExtendTS(Raw(p)), FALSE, TRUE)
    /\ UNCHANGED <<view, seqGaps, ssrcResets, first, high, span>>

Observe(s, p) ==
    /\ received < MaxPackets
    /\ received' = received + 1
    /\ seen' = p
    /\ \/ ObserveFirst(s, p) \/ ObserveReset(s, p)
       \/ ObserveForward(s, p) \/ ObserveOld(s, p)

\* What the transport may deliver next.
InReach(s, p) ==
    s = ssrc =>
        /\ p - high < Half(SeqMod) /\ high - p <= Half(SeqMod)
        /\ Step * (p - high) < Half(TsMod) /\ Step * (high - p) <= Half(TsMod)

-----------------------------------------------------------------------------
(* Properties.                                                             *)

\* StreamStats.ExtendedHighestSeq: the highest position of the source, counted
\* from the wrap before its first packet, modulo the width of the report.
ExtendedSeqExact ==
    cycles * SeqMod + lastSeq
        = (high - (first - SeqOf(first))) % (CycleMod * SeqMod)

\* Stats: over every source, each position passed was received in order or
\* counted as a gap, so a wrap or an old packet never inflates the loss.
GapsExact ==
    span + (high - first)
        = seqGaps + (received - duplicates) - (ssrcResets + 1)

\* extendTS: the timestamp reported for a packet, old ones included, is its
\* media time counted from the wrap before the source's first packet; one
\* before that wrap is reported as zero.
TimestampExact ==
    LET t == Step * (seen - first) + Raw(first)
    IN  update.ts = IF t < 0 THEN 0 ELSE t

\* What Observe and Stats tell about a stream is the truth about it, whatever
\* was lost, repeated or reordered, across every wrap and change of source.
AccountingExact ==
    init => ExtendedSeqExact /\ GapsExact /\ TimestampExact
=============================================================================
