----------------------------- MODULE MCRtpTrack -----------------------------
(* Instances of RtpTrack for TLC: one whole unit and two fragmented ones,   *)
(* and each codec family over the transport and with the peer that matters  *)
(* to it.                                                                   *)
EXTENDS RtpTrack

CONSTANTS s1, s2, media, event, tone, c1, c2

SourceSymmetry == Permutations({s1, s2})

MCUnits == <<0, 1, 1, 2, 2>>

Base == [codec |-> "one", udp |-> FALSE, onFrame |-> TRUE, sdpPT |-> media,
         latm |-> "none", types |-> {media}, strays |-> FALSE, resends |-> FALSE,
         rtcp |-> FALSE, info |-> FALSE]
Udp == [Base EXCEPT !.udp = TRUE]

MCSetups ==
    {[Base EXCEPT !.types = {media, event, tone}],
     [Base EXCEPT !.codec = "pcm", !.onFrame = FALSE, !.rtcp = TRUE],
     [Base EXCEPT !.codec = "discard"],
     [Base EXCEPT !.codec = "latm", !.latm = "inband", !.resends = TRUE],
     [Base EXCEPT !.codec = "mp3", !.sdpPT = "unknown", !.resends = TRUE,
                  !.types = {media, event}, !.info = TRUE],
     [Base EXCEPT !.codec = "flac", !.resends = TRUE],
     [Base EXCEPT !.codec = "aac"],
     [Udp EXCEPT !.codec = "latm", !.latm = "known", !.rtcp = TRUE],
     [Udp EXCEPT !.codec = "flac", !.types = {media, event}],
     [Udp EXCEPT !.codec = "aac", !.info = TRUE],
     [Udp EXCEPT !.codec = "mp3", !.types = {media, event}, !.strays = TRUE],
     [Udp EXCEPT !.codec = "discard"]}

ClockSetups == {[Udp EXCEPT !.rtcp = TRUE]}
SeededSetups == {[Base EXCEPT !.codec = "latm", !.latm = "seeded"]}
=============================================================================
