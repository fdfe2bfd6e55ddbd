----------------------------- MODULE MCRtpPath ------------------------------
(* A circle of eight sequence numbers and a timestamp circle of 32 ticks,   *)
(* which a short stream wraps around, and a ring of two slots.              *)
EXTENDS RtpPath

CONSTANTS s1, s2
=============================================================================
