---------------------------- MODULE MCUdpSource -----------------------------
(* Instance of UdpSource for TLC: two senders, a Close and a Wait, and      *)
(* each codec family under the options that matter to it.                   *)
EXTENDS UdpSource

CONSTANTS s1, s2, c1, w1

SourceSymmetry == Permutations({s1, s2})

MCUnits == <<0, 0, 1, 1>>

MCSetups ==
    {[codec |-> "single", reorder |-> TRUE, rtcp |-> "mux"],
     [codec |-> "aac", reorder |-> FALSE, rtcp |-> "port"],
     [codec |-> "flac", reorder |-> TRUE, rtcp |-> "off"],
     [codec |-> "pcm", reorder |-> FALSE, rtcp |-> "off"]}
=============================================================================
