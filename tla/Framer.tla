------------------------------- MODULE Framer -------------------------------
(***************************************************************************)
(* The two byte-stream framers, mp3Stream (httpsource/mp3.go) and          *)
(* adtsframe.Stream, one loop iteration at a time.  A body is a sequence   *)
(* of cells: a sync of configuration "a" or "b", "m" (an ADTS header that  *)
(* announces several raw blocks, configuration a), "t" (the start of an    *)
(* ID3v2 tag), "T" (a tag larger than maxID3v2SkipBytes) or "x" (anything  *)
(* else).  A header takes HeaderLen cells, a frame FrameLen, a tag TagLen. *)
(* Positions are absolute, so Compact, which only moves bytes to the front *)
(* of the buffer, leaves them alone: the buffer holds the cells after off  *)
(* that have been fed.                                                     *)
(***************************************************************************)
EXTENDS Naturals, Sequences, FiniteSets

CONSTANTS HeaderLen, FrameLen, TagLen

ASSUME FramerAssumption ==
    /\ {HeaderLen, FrameLen, TagLen} \subseteq Nat \ {0}
    /\ HeaderLen <= FrameLen /\ HeaderLen <= TagLen

Headers == {"a", "b", "m"}
Cells == Headers \cup {"t", "T", "x"}
Config(c) == IF c = "m" THEN "a" ELSE c

NewStream ==
    [off |-> 0, skip |-> 0, synced |-> FALSE, ended |-> FALSE, gaps |-> 0]

\* scanHeader, scanADTS: the places in rem where a whole header starts.
Candidates(rem) ==
    {i \in 1..Len(rem) : rem[i] \in Headers /\ i + HeaderLen <= Len(rem) + 1}

First(S) == CHOOSE i \in S : \A j \in S : i <= j

\* headerConsistent, Consistent: the header one frame after i agrees.
Consistent(rem, i) ==
    /\ rem[i + FrameLen] \in Headers
    /\ Config(rem[i + FrameLen]) = Config(rem[i])

Reads(st, s) == [st |-> st, s |-> s]

Discard(s, n) == [s EXCEPT !.off = @ + n, !.gaps = @ + 1]

\* Mutant of DropUnsynced: nothing is kept for a header split across reads.
DropUnsyncedAll(s, n) ==
    IF n < HeaderLen THEN s ELSE [Discard(s, n) EXCEPT !.synced = FALSE]

\* A run without a header: keep what may be the front of a split one.
DropUnsynced(s, n) ==
    IF n < HeaderLen THEN s
    ELSE [Discard(s, n - (HeaderLen - 1)) EXCEPT !.synced = FALSE]

ConsumeID3(s, n) ==
    LET drop == IF s.skip < n THEN s.skip ELSE n
    IN  [s EXCEPT !.off = @ + drop, !.skip = @ - drop]

\* A whole frame is there: mp3 delivers it, ADTS drops one it cannot split.
Take(codec, s, cell) ==
    LET t == [s EXCEPT !.off = @ + FrameLen]
    IN  IF codec = "aac" /\ cell = "m" THEN Reads("again", [t EXCEPT !.gaps = @ + 1])
        ELSE Reads("frame", t)

\* The candidate is the first cell of rem and its frame is in the buffer.
Confirm(codec, s, rem) ==
    IF Len(rem) >= FrameLen + HeaderLen
    THEN IF Consistent(rem, 1)
           THEN Take(codec, [s EXCEPT !.synced = TRUE], rem[1])
         ELSE IF codec = "mp3" /\ s.synced
           THEN Take(codec, [s EXCEPT !.synced = FALSE], rem[1])
         ELSE Reads("again", [Discard(s, 1) EXCEPT !.synced = FALSE])
    ELSE IF ~s.synced /\ ~s.ended THEN Reads("wait", s)
    ELSE Take(codec, s, rem[1])

\* Resynchronise on the first candidate of rem.
Scan(codec, s, rem) ==
    IF Candidates(rem) = {} THEN Reads("wait", DropUnsynced(s, Len(rem)))
    ELSE LET i == First(Candidates(rem))
             t == IF i > 1 THEN [Discard(s, i - 1) EXCEPT !.synced = FALSE] ELSE s
             at == SubSeq(rem, i, Len(rem))
         IN  IF Len(at) < FrameLen THEN Reads("wait", t) ELSE Confirm(codec, t, at)

\* One iteration of next / NextFrame on the unconsumed cells rem.
NextFrame(codec, s, rem) ==
    IF codec = "mp3" /\ s.skip > 0
    THEN LET t == ConsumeID3(s, Len(rem))
         IN  Reads(IF t.skip > 0 THEN "wait" ELSE "again", t)
    ELSE IF codec = "mp3" /\ rem # <<>> /\ Head(rem) \in {"t", "T"}
    THEN IF Len(rem) < HeaderLen THEN Reads("wait", s)
         ELSE Reads("again", [s EXCEPT !.skip = TagLen])
    ELSE Scan(codec, s, rem)

SetEOF(s) == [s EXCEPT !.ended = TRUE]

Finish(s, n) == IF n > 0 THEN [s EXCEPT !.gaps = @ + 1] ELSE s

\* probeADTS: the candidate Open takes the AudioSpecificConfig from, or none.
\* A frame that runs past the prefix is trusted at its very start only.
ProbeADTS(head) ==
    {i \in Candidates(head) :
        /\ IF i + FrameLen + HeaderLen <= Len(head) + 1
           THEN Consistent(head, i) ELSE i = 1}

-----------------------------------------------------------------------------
(* What a body really holds, for the properties of the sources.            *)

HeaderAt(body, p) == p \in DOMAIN body /\ body[p] \in Headers

\* Nothing that starts just before p can swallow the cell p.
Exposed(body, p) ==
    \A q \in DOMAIN body :
        /\ q < p /\ p < q + FrameLen => body[q] \notin Headers
        /\ q < p /\ p < q + TagLen => body[q] \notin {"t", "T"}

\* A frame no framer may miss: exposed, and followed by a header that agrees.
MustDeliver(codec, body, p) ==
    /\ HeaderAt(body, p)
    /\ codec = "aac" => body[p] # "m"
    /\ p + FrameLen + HeaderLen <= Len(body) + 1
    /\ Consistent(body, p)
    /\ Exposed(body, p)

InTag(body, p) ==
    \E q \in DOMAIN body : body[q] \in {"t", "T"} /\ q <= p /\ p < q + TagLen
=============================================================================
