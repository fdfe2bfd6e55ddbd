----------------------------- MODULE RtpPackets -----------------------------
(***************************************************************************)
(* What the RTSP tracks and the raw UDP source do with an RTP packet       *)
(* between the socket and a frame, on positions of the sender's stream:    *)
(* the resequencer (rtp/reorder.go), the observer (rtp/stream.go) and the  *)
(* depacketizers that reassemble units.  RtpPath shows that the first two, *)
(* with the sequence numbers and the ring of the code, do compute this.    *)
(*                                                                         *)
(* Position p belongs to unit Units[p + 1].  The packets of a unit are its *)
(* fragments: they share a timestamp, and the last one has the marker.     *)
(***************************************************************************)
EXTENDS Naturals, SequencesExt

CONSTANTS
    Window,   \* MaxReorderWindow
    Units     \* the unit of every position, in order

ASSUME UnitsAssumption ==
    /\ Window \in Nat \ {0}
    /\ Units \in Seq(Nat) /\ Units # <<>>
    /\ \A i \in 1 .. Len(Units) - 1 : Units[i + 1] \in {Units[i], Units[i] + 1}

MaxPos == Len(Units) - 1
Positions == 0 .. MaxPos
UnitOf(p) == Units[p + 1]
Fragments(p) == {q \in Positions : UnitOf(q) = UnitOf(p)}
Parts(p) == Cardinality(Fragments(p))
Part(p) == Cardinality({q \in Fragments(p) : q <= p})
Marker(p) == Part(p) = Parts(p)

\* Packets of different positions, as they leave the ring (Flush): the i-th
\* one has i - 1 before it.
InOrder(pkts) ==
    [i \in 1 .. Cardinality(pkts) |->
        CHOOSE p \in pkts : Cardinality({q \in pkts : q.pos <= p.pos}) = i]

\* Reorderer.Push on positions: [late, out, buf, next].
Push(buf, nxt, pkt) ==
    LET low  == IF pkt.pos < nxt + Window THEN nxt ELSE pkt.pos + 1 - Window
        full == buf \cup {pkt}
        free == {n \in low .. MaxPos + 1 : \A b \in full : b.pos # n}
        stop == CHOOSE n \in free : \A m \in free : n <= m
        run  == {b \in full : b.pos < stop}
    IN  IF pkt.pos < nxt \/ \E b \in buf : b.pos = pkt.pos
        THEN [late |-> 1, out |-> <<>>, buf |-> buf, next |-> nxt]
        ELSE [late |-> 0, out |-> InOrder(run), buf |-> full \ run,
              next |-> stop]

\* Stream.Observe of pkt when stream is the source and highest position so far.
NoStream == [ssrc |-> "none", high |-> 0]
Observe(stream, pkt) ==
    LET fresh == stream.ssrc # pkt.src
        ahead == pkt.pos > stream.high
    IN  [reset |-> fresh /\ stream.ssrc # "none",
         dup   |-> ~fresh /\ ~ahead,
         gap   |-> IF ~fresh /\ ahead THEN pkt.pos - stream.high - 1 ELSE 0]

-----------------------------------------------------------------------------
(* The depacketizers: [frag, unit, bad].  A unit is the packets it came in.*)

Bad == [frag |-> <<>>, unit |-> <<>>, bad |-> TRUE]
Buffer(f) == [frag |-> f, unit |-> <<>>, bad |-> FALSE]
Complete(f) == [frag |-> <<>>, unit |-> f, bad |-> FALSE]

\* flac: a fragment with another timestamp starts a new frame.
DepacketizeFlac(f, pkt) ==
    LET g == IF f # <<>> /\ UnitOf(Head(f).pos) # UnitOf(pkt.pos)
             THEN <<>> ELSE f
    IN  IF Marker(pkt.pos) THEN Complete(Append(g, pkt))
        ELSE Buffer(Append(g, pkt))

\* aac: every fragment declares the size of the whole unit, and the marker
\* has to come with the last byte.
DepacketizeAac(f, pkt) ==
    LET g    == Append(f, pkt)
        size == Parts(pkt.pos)
    IN  IF \/ f # <<>> /\ size # Parts(Head(f).pos)
           \/ Marker(pkt.pos) # (Len(g) = size) THEN Bad
        ELSE IF Len(g) = size THEN Complete(g) ELSE Buffer(g)

\* mp3: a packet says where its bytes lie in the frame.
DepacketizeMp3(f, pkt) ==
    LET g == Append(f, pkt)
    IN  IF Part(pkt.pos) = 1
        THEN IF Parts(pkt.pos) = 1 THEN Complete(<<pkt>>) ELSE Buffer(<<pkt>>)
        ELSE IF \/ f = <<>> \/ Part(pkt.pos) # Len(g)
                \/ UnitOf(Head(g).pos) # UnitOf(pkt.pos) THEN Bad
        ELSE IF Len(g) = Parts(pkt.pos) THEN Complete(g) ELSE Buffer(g)

\* One unit after another: a lost or foreign fragment is never spliced over,
\* so a unit is a run of consecutive fragments of one source up to the marker,
\* and of an AAC or MP3 unit the run is complete.
Unspliced(unit, codec) ==
    unit # <<>> =>
        /\ \A i \in 1 .. Len(unit) - 1 :
              /\ unit[i].src = unit[i + 1].src
              /\ unit[i].pos + 1 = unit[i + 1].pos
              /\ UnitOf(unit[i].pos) = UnitOf(unit[i + 1].pos)
        /\ codec \in {"aac", "flac", "mp3"} => Marker(Last(unit).pos)
        /\ codec \in {"aac", "mp3"} => Len(unit) = Parts(Last(unit).pos)
=============================================================================
