------------------------------ MODULE Playlist ------------------------------
(***************************************************************************)
(* The m3u8 parser of the HLS source (hlssource/playlist.go).  A body is a *)
(* sequence of lines, a line a record [t, v]: its tag and the one value    *)
(* the parser takes from it.  Lexing, attribute lists and URL resolution   *)
(* are left out: a value has already been read, "bad" stands for one that  *)
(* does not parse.                                                         *)
(***************************************************************************)
EXTENDS Naturals, Sequences

CONSTANTS
    MaxSegments,   \* MaxSegmentsPerPlaylist
    MaxSeqNo       \* the largest media sequence number, math.MaxUint64

ASSUME PlaylistAssumption ==
    MaxSegments \in Nat \ {0} /\ MaxSeqNo \in Nat /\ MaxSegments <= MaxSeqNo

\* The empty string: no value, no URI.
Blank == ""

NoVariant == [bw |-> 0, group |-> "none", uri |-> "none"]

NewParser ==
    [isMedia |-> FALSE, isMaster |-> FALSE, haveTgt |-> FALSE, seq |-> 0,
     endList |-> FALSE, segs |-> <<>>, extinf |-> FALSE, disc |-> FALSE, gap |-> FALSE,
     map |-> Blank, pend |-> NoVariant, variants |-> <<>>, audio |-> <<>>, err |-> "ok"]

\* A body: the media sequence number, a Nat, comes before the first URI, where
\* RFC 8216 (4.3.3.2) wants it.
Body(lines) ==
    /\ Len(lines) \in Nat /\ lines = [i \in 1..Len(lines) |-> lines[i]]
    /\ \A i, j \in 1..Len(lines) :
          lines[i].t = "seq" => lines[i].v \in Nat /\ (lines[j].t = "uri" => i < j)

Refuse(p, e) == [p EXCEPT !.err = e]

\* handleURI: the line belongs to the pending variant or the pending EXTINF.
HandleURI(p, uri) ==
    IF p.pend # NoVariant
      THEN [p EXCEPT !.variants = Append(@, [p.pend EXCEPT !.uri = uri]),
                     !.pend = NoVariant, !.isMaster = TRUE]
    ELSE IF ~p.extinf THEN Refuse(p, "malformedPlaylist")
    ELSE IF Len(p.segs) >= MaxSegments THEN Refuse(p, "unsupportedPlaylist")
    ELSE [p EXCEPT !.segs = Append(@, [seq |-> (p.seq + Len(p.segs)) % (MaxSeqNo + 1),
                                       uri |-> uri, disc |-> p.disc, gap |-> p.gap,
                                       init |-> p.map]),
                   !.extinf = FALSE, !.disc = FALSE, !.gap = FALSE]

\* A first number from which no index of a full playlist wraps round.
SeqFits(n) == n + (MaxSegments - 1) <= MaxSeqNo

\* handleTag.
HandleTag(p, t, v) ==
    CASE t = "target" -> IF v = "bad" THEN Refuse(p, "malformedPlaylist")
                         ELSE [p EXCEPT !.isMedia = TRUE, !.haveTgt = TRUE]
      [] t = "seq" -> IF SeqFits(v) THEN [p EXCEPT !.seq = v]
                      ELSE Refuse(p, "malformedPlaylist")
      [] t = "endlist" -> [p EXCEPT !.isMedia = TRUE, !.endList = TRUE]
      [] t = "extinf" -> IF v = "bad" THEN Refuse(p, "malformedPlaylist")
                         ELSE [p EXCEPT !.isMedia = TRUE, !.extinf = TRUE]
      [] t = "disc" -> [p EXCEPT !.disc = TRUE]
      [] t = "gap" -> [p EXCEPT !.gap = TRUE]
      [] t = "key" -> IF v = "none" THEN p ELSE Refuse(p, "unsupportedPlaylist")
      [] t = "map" -> IF v = "range" THEN Refuse(p, "unsupportedPlaylist")
                      ELSE IF v = Blank THEN Refuse(p, "malformedPlaylist")
                      ELSE [p EXCEPT !.isMedia = TRUE, !.map = v]
      [] t = "byterange" -> Refuse(p, "unsupportedPlaylist")
      [] t = "variant" -> [p EXCEPT !.isMaster = TRUE, !.pend = v]
      [] t = "audio" -> [p EXCEPT !.isMaster = TRUE, !.audio = Append(@, v)]
      [] OTHER -> p

ParseLine(p, l) ==
    IF p.err # "ok" THEN p
    ELSE IF l.t = "uri" THEN HandleURI(p, l.v) ELSE HandleTag(p, l.t, l.v)

\* result: a media playlist, a master playlist, or neither.
Result(p) ==
    IF p.err # "ok" THEN p.err
    ELSE IF p.isMaster = p.isMedia THEN "malformedPlaylist"
    ELSE IF p.isMaster THEN "master"
    ELSE IF p.haveTgt THEN "media" ELSE "malformedPlaylist"

ParsePlaylist(lines) ==
    LET P[i \in 1..Len(lines)] ==
            IF i = 1 THEN NewParser ELSE ParseLine(P[i - 1], lines[i])
        last == P[Len(lines)]
    IN  IF lines = <<>> \/ lines[1].t # "m3u"
        THEN [kind |-> "malformedPlaylist", p |-> NewParser]
        ELSE [kind |-> Result(last), p |-> last]

Least(S) == CHOOSE i \in S : \A j \in S : i <= j

\* pickAudio: the group's default rendition, else its first; 0 when it has none.
PickAudio(audio, group) ==
    LET C == {i \in DOMAIN audio : group = Blank \/ audio[i].group = group}
        D == {i \in C : audio[i].dflt}
    IN  IF C = {} THEN 0 ELSE Least(IF D # {} THEN D ELSE C)

\* selectMediaURL: the lowest bandwidth, or the audio rendition it refers to.
SelectMediaURL(p) ==
    LET V == DOMAIN p.variants
        lowest == Least({i \in V : \A j \in V : p.variants[i].bw <= p.variants[j].bw})
        group == IF V = {} THEN Blank ELSE p.variants[lowest].group
        a == IF V # {} /\ group = Blank THEN 0 ELSE PickAudio(p.audio, group)
    IN  IF a # 0 /\ p.audio[a].uri # Blank THEN p.audio[a].uri
        ELSE IF V # {} THEN p.variants[lowest].uri ELSE Blank
=============================================================================
