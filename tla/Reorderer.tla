----------------------------- MODULE Reorderer ------------------------------
(***************************************************************************)
(* Package rtp, reorder.go: the resequencing buffer between a UDP socket   *)
(* and the packet pipeline.  Sequence numbers live on a circle of SeqMod   *)
(* values and index a ring of Window slots.  Push, Flush and their loops   *)
(* are one step per iteration; the buffer has one owner, so nothing        *)
(* interleaves.                                                            *)
(*                                                                         *)
(* The network may lose, repeat and reorder packets, as long as one        *)
(* arrives less than half the circle away from the release point.          *)
(***************************************************************************)
EXTENDS SeqCircle, FiniteSets

CONSTANTS
    Window,      \* MaxReorderWindow
    MaxArrivals  \* bound: packets pushed between two Resets

ASSUME WindowAssumption ==
    /\ Window \in Nat \ {0}
    /\ SeqMod % Window = 0 /\ 2 * Window <= SeqMod
    /\ MaxArrivals \in Nat

VARIABLES
    pc,          \* "ready", or the loop of Push or Flush under way
    initialized, nextSeq, slots, buffered, late, forced,
    seq, pos,    \* Push's arguments; Flush's cursor
    i,           \* Flush's iterations
    out,         \* the position released by the last step, -1 when none
    nextPos,     \* ghost: the stream position nextSeq stands for
    base,        \* ghost: the first position, plus what Flush passed over
    released, arrived, last   \* ghosts: see the properties

ring == <<initialized, nextSeq, slots, buffered, late, forced>>
ghosts == <<nextPos, base, released, arrived, last>>
vars == <<pc, ring, seq, pos, i, out, ghosts>>

Empty == [present |-> FALSE, seq |-> 0, pos |-> 0]

\* ahead: the signed distance on the circle, int16(a - b).
Ahead(a, b) ==
    LET d == (a - b) % SeqMod IN IF d < Half(SeqMod) THEN d ELSE d - SeqMod

NoSlots == [x \in 0 .. Window - 1 |-> Empty]

Init ==
    /\ pc = "ready"
    /\ initialized = FALSE /\ nextSeq = 0 /\ buffered = 0
    /\ slots = NoSlots
    /\ late = 0 /\ forced = 0
    /\ nextPos = 0 /\ base = 0 /\ released = 0 /\ arrived = 0 /\ last = -1
    /\ out = -1 /\ seq = 0 /\ pos = 0 /\ i = 0

-----------------------------------------------------------------------------

\* Releases the slot of sequence number s, which is present.
Slot(s) == slots[s % Window]
Release(s) ==
    /\ out' = Slot(s).pos
    /\ slots' = [slots EXCEPT ![s % Window] = Empty]
    /\ buffered' = buffered - 1
    /\ released' = released + 1
    /\ last' = Slot(s).pos

\* The release point moves to s, which is k positions on.
MoveTo(s, k) ==
    /\ nextSeq' = s % SeqMod
    /\ nextPos' = nextPos + k

\* A packet p at distance d is never emitted by the distance check itself: one
\* behind the release point is counted and dropped.
CountLate(d, p) ==
    /\ late' = IF d < 0 THEN late + 1 ELSE late
    /\ out' = -1
    /\ UNCHANGED last

\* Push, up to its first loop: the first packet sets the release point, and
\* one behind it is dropped.
Push(p) ==
    /\ pc = "ready"
    /\ arrived < MaxArrivals
    /\ arrived' = arrived + 1
    /\ seq' = SeqOf(p) /\ pos' = p
    /\ initialized' = TRUE
    /\ IF initialized THEN UNCHANGED <<nextSeq, nextPos, base>>
       ELSE nextSeq' = SeqOf(p) /\ nextPos' = p /\ base' = p
    /\ LET d == Ahead(seq', nextSeq') IN
       /\ pc' = IF d < 0 THEN "ready"
                ELSE IF d >= Window THEN "force" ELSE "insert"
       /\ CountLate(d, p)
    /\ UNCHANGED <<slots, buffered, forced, i, released>>

\* Mutant of ForceRelease: a released slot is counted as loss too.
ForceCountsAll ==
    /\ pc = "force"
    /\ \/ Slot(nextSeq).present /\ Release(nextSeq)
       \/ /\ ~Slot(nextSeq).present
          /\ out' = -1
          /\ UNCHANGED <<slots, buffered, released, last>>
    /\ forced' = forced + 1
    /\ MoveTo(nextSeq + 1, 1)
    /\ pc' = IF Ahead(seq, nextSeq') >= Window THEN "force" ELSE "insert"
    /\ UNCHANGED <<initialized, late, seq, pos, i, arrived, base>>

\* Make room: release the oldest slot, or count its absence as forced loss.
ForceRelease ==
    /\ pc = "force"
    /\ \/ Slot(nextSeq).present /\ Release(nextSeq) /\ UNCHANGED forced
       \/ /\ ~Slot(nextSeq).present
          /\ forced' = forced + 1
          /\ out' = -1
          /\ UNCHANGED <<slots, buffered, released, last>>
    /\ MoveTo(nextSeq + 1, 1)
    /\ pc' = IF Ahead(seq, nextSeq') >= Window THEN "force" ELSE "insert"
    /\ UNCHANGED <<initialized, late, seq, pos, i, arrived, base>>

\* An occupied slot is a duplicate.
Insert ==
    /\ pc = "insert"
    /\ \/ /\ Slot(seq).present
          /\ late' = late + 1
          /\ pc' = "ready"
          /\ UNCHANGED <<slots, buffered>>
       \/ /\ ~Slot(seq).present
          /\ slots' = [slots EXCEPT ![seq % Window] =
                         [present |-> TRUE, seq |-> seq, pos |-> pos]]
          /\ buffered' = buffered + 1
          /\ pc' = "drain"
          /\ UNCHANGED late
    /\ out' = -1
    /\ UNCHANGED <<initialized, nextSeq, forced, seq, pos, i, ghosts>>

\* Release the run that starts at the release point.
Drain ==
    /\ pc = "drain"
    /\ \/ /\ Slot(nextSeq).present
          /\ Release(nextSeq)
          /\ MoveTo(nextSeq + 1, 1)
          /\ UNCHANGED pc
       \/ /\ ~Slot(nextSeq).present
          /\ pc' = "ready"
          /\ out' = -1
          /\ UNCHANGED <<nextSeq, nextPos, slots, buffered, released, last>>
    /\ UNCHANGED <<initialized, late, forced, seq, pos, i, arrived, base>>

\* Flush: one turn of the ring, in sequence order, while anything is buffered.
Flush ==
    /\ pc = "ready"
    /\ pc' = "flush"
    /\ seq' = nextSeq /\ i' = 0 /\ out' = -1
    /\ UNCHANGED <<ring, pos, ghosts>>

FlushStep ==
    /\ pc = "flush"
    /\ i < Window /\ buffered > 0
    /\ \/ /\ Slot(seq).present
          /\ Release(seq)
          /\ MoveTo(seq + 1, Ahead(seq, nextSeq) + 1)
          /\ base' = base + Ahead(seq, nextSeq)
       \/ /\ ~Slot(seq).present
          /\ out' = -1
          /\ UNCHANGED <<nextSeq, nextPos, slots, buffered, released, last,
                         base>>
    /\ seq' = (seq + 1) % SeqMod
    /\ i' = i + 1
    /\ UNCHANGED <<pc, initialized, late, forced, pos, arrived>>

FlushEnd ==
    /\ pc = "flush"
    /\ i = Window \/ buffered = 0
    /\ pc' = "ready"
    /\ out' = -1 /\ seq' = 0 /\ i' = 0
    /\ UNCHANGED <<ring, pos, ghosts>>

Reset ==
    /\ pc = "ready"
    /\ initialized' = FALSE /\ nextSeq' = 0 /\ buffered' = 0
    /\ slots' = NoSlots
    /\ late' = 0 /\ forced' = 0
    /\ nextPos' = 0 /\ base' = 0 /\ released' = 0 /\ arrived' = 0 /\ last' = -1
    /\ out' = -1 /\ seq' = 0 /\ pos' = 0
    /\ UNCHANGED <<pc, i>>

\* The network delivers some packet less than half a circle away.
Near(p) == ~initialized \/ (p - nextPos < Half(SeqMod) /\ nextPos - p <= Half(SeqMod))
Loop == ForceRelease \/ Insert \/ Drain \/ FlushStep \/ FlushEnd
-----------------------------------------------------------------------------
(* Properties.                                                             *)

\* Stats: every packet pushed is released, late or still buffered, exactly
\* once, and buffered counts the occupied slots; every position between the
\* first packet and the release point was released, counted as forced, or
\* passed over by a Flush, and none was counted twice.
Conservation ==
    /\ buffered = Cardinality({x \in 0 .. Window - 1 : slots[x].present})
    /\ pc \in {"ready", "flush"} => arrived = late + released + buffered
    /\ nextPos = base + released + forced
=============================================================================
