------------------------------ MODULE RtpPath -------------------------------
(***************************************************************************)
(* The way of an RTP packet from the wire to the pipeline: through the     *)
(* resequencer in UDP mode (rtsp/udprecv.go, runRTPReceiver), straight to  *)
(* the observer over TCP.  Every packet the resequencer releases is        *)
(* observed in the same step (drainReleased, process).                     *)
(***************************************************************************)
EXTENDS Reorderer, RtpStream

VARIABLES
    udp,        \* the transport
    lastSSRC,   \* runRTPReceiver's view of the source, NoSource before one
    coming      \* the new source a flush is making room for

pathVars == <<vars, streamVars, udp, lastSSRC, coming>>

PathInit ==
    /\ Init /\ StreamInit
    /\ udp \in BOOLEAN
    /\ lastSSRC = NoSource /\ coming = NoSource

\* process observes what the step released.
Drained ==
    IF out' = -1 THEN UNCHANGED streamVars ELSE Observe(lastSSRC', out')

\* handleInterleaved.
TcpPacket(s, p) ==
    /\ ~udp
    /\ InReach(s, p) /\ Observe(s, p)
    /\ UNCHANGED <<vars, udp, lastSSRC, coming>>

UdpPacket(s, p) ==
    /\ udp /\ coming = NoSource
    /\ lastSSRC \in {s, NoSource}
    /\ Near(p) /\ InReach(s, p) /\ Push(p)
    /\ lastSSRC' = s
    /\ Drained
    /\ UNCHANGED <<udp, coming>>

\* Another source: its predecessor's packets drain, then the ring is reset
\* and its first packet pushed.
SwitchFlush(s) ==
    /\ udp /\ coming = NoSource /\ initialized
    /\ lastSSRC \notin {s, NoSource}
    /\ Flush
    /\ coming' = s
    /\ UNCHANGED <<streamVars, udp, lastSSRC>>

\* Mutant of SwitchReset: the ring is kept for the new source.
SwitchKeeps ==
    /\ coming # NoSource /\ pc = "ready"
    /\ lastSSRC' = coming /\ coming' = NoSource
    /\ UNCHANGED <<vars, streamVars, udp>>

SwitchReset ==
    /\ coming # NoSource
    /\ Reset
    /\ lastSSRC' = coming /\ coming' = NoSource
    /\ UNCHANGED <<streamVars, udp>>

RingStep ==
    /\ UNCHANGED <<udp, lastSSRC, coming>>
    /\ Loop
    /\ Drained

PathNext ==
    \/ \E s \in Sources, p \in 0 .. MaxPos : TcpPacket(s, p) \/ UdpPacket(s, p)
    \/ \E s \in Sources : SwitchFlush(s)
    \/ SwitchReset \/ RingStep

PathSpec == PathInit /\ [][PathNext]_pathVars

-----------------------------------------------------------------------------
(* Properties.                                                             *)

\* runRTPReceiver: "drains released packets through c.process in sequence
\* order": whatever the network did, across wraps, flushes and new sources, the
\* observer behind the resequencer never takes a packet for an old one, and
\* its newest packet is the one the resequencer released last.
FedInOrder ==
    udp => /\ duplicates = 0
           /\ last # -1 => ssrc = lastSSRC /\ high = last
=============================================================================
