--------------------------- MODULE MCRtspSession ----------------------------
(* Instances of RtspSession for TLC.                                        *)
EXTENDS RtspSession, TLC

CONSTANTS t1, t2, c1, w1

\* Tracks are interchangeable: SETUP takes them in any order.
TrackSymmetry == Permutations(Tracks)
=============================================================================
