----------------------------- MODULE SeqCircle ------------------------------
(***************************************************************************)
(* The circle of RTP sequence numbers.  A packet is its position in the    *)
(* stream of its sender (its payload, which neither the resequencer nor    *)
(* the observer looks at); its sequence number is the position modulo      *)
(* SeqMod.                                                                 *)
(***************************************************************************)
EXTENDS Integers

CONSTANTS
    SeqMod,   \* 2^16
    MaxPos    \* bound: the last position of a sender's stream

ASSUME CircleAssumption ==
    /\ SeqMod \in Nat \ {0} /\ SeqMod % 2 = 0
    /\ MaxPos \in Nat

Half(m) == m \div 2
SeqOf(p) == p % SeqMod
=============================================================================
