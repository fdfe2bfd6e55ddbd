--------------------------- MODULE RtpPathProofs ----------------------------
(***************************************************************************)
(* Proofs about RtpPath and the two components it composes, for every      *)
(* size of the sequence, timestamp and cycle circles, every window that    *)
(* divides the sequence circle and is at most half of it, every packet     *)
(* spacing and every set of sources.                                       *)
(***************************************************************************)
EXTENDS RtpPath, FiniteSetTheorems, TLAPS

-----------------------------------------------------------------------------
(* Arithmetic on a circle of m values.                                     *)

\* Division with remainder.
LEMMA ModDef ==
    ASSUME NEW m \in Nat \ {0}, NEW x \in Int
    PROVE  /\ x % m \in 0 .. m - 1 /\ x \div m \in Int
           /\ x = (x \div m) * m + (x % m)
  OBVIOUS

\* The only multiple between minus the modulus and the modulus is zero.
LEMMA Multiple ==
    ASSUME NEW m \in Nat \ {0}, NEW k \in Int, k * m < m, -m < k * m
    PROVE  k = 0
  <1>1. CASE k >= 1
    BY <1>1, k * m >= m
  <1>2. CASE k <= -1
    BY <1>2, k * m <= -m
  <1> QED BY <1>1, <1>2

\* The remainder is unique.
LEMMA ModUnique ==
    ASSUME NEW m \in Nat \ {0}, NEW x \in Int, NEW q \in Int, NEW r \in 0 .. m - 1, x = q * m + r
    PROVE  x % m = r /\ x \div m = q
  <1> DEFINE q2 == x \div m  r2 == x % m
  <1>1. r2 \in 0 .. m - 1 /\ q2 \in Int /\ x = q2 * m + r2
    BY ModDef
  <1> HIDE DEF q2, r2
  <1>2. (q - q2) * m = r2 - r
    BY <1>1
  <1>3. q - q2 = 0
    BY <1>1, <1>2, Multiple
  <1> QED BY <1>1, <1>3 DEF q2, r2

\* Whole turns do not change a remainder.
LEMMA ModShift ==
    ASSUME NEW m \in Nat \ {0}, NEW x \in Int, NEW k \in Int
    PROVE  (x + k * m) % m = x % m
  <1>1. x = (x \div m) * m + (x % m) /\ x % m \in 0 .. m - 1 /\ x \div m \in Int
    BY ModDef
  <1>2. x + k * m = ((x \div m) + k) * m + (x % m)
    BY <1>1
  <1> QED BY <1>1, <1>2, ModUnique, (x \div m) + k \in Int, x + k * m \in Int

\* A remainder taken first does not change a difference,
LEMMA ModMinus ==
    ASSUME NEW m \in Nat \ {0}, NEW a \in Int, NEW b \in Int
    PROVE  ((a % m) - (b % m)) % m = (a - b) % m
  <1> DEFINE k == (b \div m) - (a \div m)
  <1>1. k \in Int /\ (a % m) - (b % m) = (a - b) + k * m
    BY ModDef
  <1> HIDE DEF k
  <1> QED BY <1>1, ModShift, a - b \in Int

\* nor a sum.
LEMMA ModPlus ==
    ASSUME NEW m \in Nat \ {0}, NEW a \in Int, NEW b \in Int
    PROVE  ((a % m) + b) % m = (a + b) % m
  <1> DEFINE k == -(a \div m)
  <1>1. k \in Int /\ (a % m) + b = (a + b) + k * m
    BY ModDef
  <1> HIDE DEF k
  <1> QED BY <1>1, ModShift, a + b \in Int

\* A number below the modulus is its own remainder.
LEMMA ModSmall ==
    ASSUME NEW m \in Nat \ {0}, NEW x \in Int
    PROVE  /\ x \in 0 .. m - 1 => x % m = x
           /\ x \in (-m) .. -1 => x % m = x + m
  <1>1. ASSUME x \in 0 .. m - 1 PROVE x % m = x
    BY <1>1, ModUnique, x = 0 * m + x
  <1>2. ASSUME x \in (-m) .. -1 PROVE x % m = x + m
    <2>1. x = (-1) * m + (x + m) /\ x + m \in 0 .. m - 1
      BY <1>2
    <2> QED BY <2>1, ModUnique
  <1> QED BY <1>1, <1>2

\* The remainder by a divisor of the modulus.
LEMMA ModDivides ==
    ASSUME NEW m \in Nat \ {0}, NEW w \in Nat \ {0}, m % w = 0, NEW x \in Int
    PROVE  (x % m) % w = x % w
  <1> DEFINE k == -(x \div m)  j == m \div w
  <1>1. j \in Int /\ m = j * w
    BY ModDef
  <1>2. k \in Int /\ x % m \in Int /\ x % m = x + k * m
    BY ModDef
  <1> HIDE DEF k, j
  <1>3. x % m = x + (k * j) * w /\ k * j \in Int
    BY <1>1, <1>2
  <1> QED BY <1>3, ModShift

\* Numbers closer than the modulus have different remainders.
LEMMA ModApart ==
    ASSUME NEW m \in Nat \ {0}, NEW a \in Int, NEW b \in Int, a % m = b % m, a - b \in (1-m) .. m-1
    PROVE  a = b
  <1>1. (a - b) % m = 0 % m
    BY ModMinus, ModDef, (a % m) - (b % m) = 0
  <1>2. 0 % m = 0
    BY ModSmall
  <1> QED BY <1>1, <1>2, ModSmall, a - b \in Int

Slots == 0 .. Window - 1
Occupied == {x \in Slots : slots[x].present}
\* A packet that Push accepted and has not stored yet.
InHand == pc \in {"force", "insert"}

RingType ==
    /\ pc \in {"ready", "force", "insert", "drain", "flush"}
    /\ initialized \in BOOLEAN
    /\ slots \in [Slots -> [present : BOOLEAN, seq : Nat, pos : Nat]]
    /\ {nextPos, base, pos, buffered, late, forced, released, arrived} \subseteq Nat
    /\ last \in Nat \cup {-1} /\ seq \in Nat /\ i \in 0 .. Window

\* An occupied slot holds a packet of the window, in the slot of its own
\* sequence number; nothing released is at or past the release point.
RingInv ==
    /\ nextSeq = SeqOf(nextPos)
    /\ last < nextPos
    /\ \A x \in Occupied : /\ slots[x].pos % Window = x
                           /\ slots[x].pos - nextPos \in Slots
    /\ ~initialized => /\ pc = "ready" /\ last = -1 /\ Occupied = {}
                       /\ released = 0 /\ forced = 0
    /\ InHand => seq = SeqOf(pos) /\ pos - nextPos \in 0 .. Half(SeqMod) - 1
    /\ pc = "force" => pos - nextPos >= Window
    /\ pc = "insert" => pos - nextPos \in Slots
    /\ pc = "flush" => \E k \in 0 .. i :
          /\ seq = SeqOf(nextPos + k)
          /\ \A x \in Occupied : slots[x].pos >= nextPos + k

Counts ==
    /\ buffered = Cardinality(Occupied)
    /\ arrived = late + released + buffered + (IF InHand THEN 1 ELSE 0)
    /\ nextPos = base + released + forced

StreamType ==
    /\ {ts64, received, seqGaps, duplicates, ssrcResets, first, high, span,
        seen} \subseteq Nat
    /\ init \in BOOLEAN

MediaTime(p) == Step * (p - first) + Raw(first)

\* The cycle count is the number of wraps between first and high.
StreamInv ==
    /\ init => /\ ssrc \in Sources
               /\ lastSeq = SeqOf(high) /\ lastTS = Raw(high)
               /\ cycles = ((high \div SeqMod) - (first \div SeqMod)) % CycleMod
               /\ first <= high /\ ts64 = MediaTime(high)
               /\ GapsExact /\ TimestampExact
    /\ ~init => /\ ssrc = NoSource
                /\ received = 0 /\ seqGaps = 0 /\ duplicates = 0
                /\ ssrcResets = 0 /\ span = 0 /\ cycles = 0

\* p can be told from the newest packet observed, in sequence and in time.
Reach(p) == p - high < Half(SeqMod) /\ Step * (p - high) < Half(TsMod)

Fresh ==
    /\ initialized => pc \in {"insert", "drain"} /\ pos = nextPos
    /\ pc = "insert" => Occupied = {}
    /\ pc = "drain" => Occupied = {nextPos % Window}
    /\ IF lastSSRC = NoSource THEN ~initialized /\ ~init ELSE ssrc # lastSSRC

Running ==
    /\ init /\ ssrc = lastSSRC /\ high = last
    /\ \A x \in Occupied : Reach(slots[x].pos)
    /\ InHand => Reach(pos)

PathInv ==
    /\ udp \in BOOLEAN
    /\ lastSSRC \in Sources \cup {NoSource}
    /\ coming \in Sources \cup {NoSource}
    /\ coming # NoSource => /\ pc \in {"ready", "flush"} /\ initialized
                            /\ lastSSRC # coming /\ lastSSRC # NoSource
    /\ initialized => lastSSRC # NoSource
    /\ ~udp => pc = "ready" /\ coming = NoSource /\ ~initialized
    /\ udp => duplicates = 0 /\ IF last = -1 THEN Fresh ELSE Running

IInv == RingType /\ RingInv /\ Counts /\ StreamType /\ StreamInv /\ PathInv

\* SeqMod is even, and Window divides it and is at most half of it.
LEMMA CircleFacts ==
    /\ SeqMod \in Nat \ {0} /\ Window \in Nat \ {0}
    /\ Half(SeqMod) \in Nat \ {0} /\ SeqMod = 2 * Half(SeqMod)
    /\ Window <= Half(SeqMod)
  BY CircleAssumption, WindowAssumption DEF Half

\* There are sequence numbers.
LEMMA SeqModPositive == SeqMod \in Nat \ {0}
  BY CircleAssumption

\* A position is whole turns of the circle and a sequence number.
LEMMA SeqSplit ==
    ASSUME NEW p \in Int
    PROVE  /\ p = (p \div SeqMod) * SeqMod + SeqOf(p)
           /\ SeqOf(p) \in 0 .. SeqMod - 1 /\ p \div SeqMod \in Int
  BY ModDef, SeqModPositive DEF SeqOf

\* The slots of the ring divide the circle.
LEMMA WindowDivides == SeqMod % Window = 0
  BY WindowAssumption

\* The signed distance on the circle is the distance of the positions, for
\* positions less than half a circle apart.
LEMMA AheadExact ==
    ASSUME NEW a \in Int, NEW b \in Int,
           a - b < Half(SeqMod), b - a <= Half(SeqMod)
    PROVE  Ahead(SeqOf(a), SeqOf(b)) = a - b
  <1>1. (SeqOf(a) - SeqOf(b)) % SeqMod = (a - b) % SeqMod
    BY ModMinus, CircleFacts DEF SeqOf
  <1>2. CASE a >= b
    <2>1. (a - b) % SeqMod = a - b
      BY <1>2, ModSmall, CircleFacts, a - b \in 0 .. SeqMod - 1
    <2> QED BY <1>1, <2>1, CircleFacts DEF Ahead
  <1>3. CASE a < b
    <2>1. (a - b) % SeqMod = (a - b) + SeqMod
      <3>1. a - b \in (-SeqMod) .. -1 /\ a - b \in Int
        BY <1>3, CircleFacts
      <3> QED BY <3>1, ModSmall, CircleFacts
    <2> QED BY <1>1, <1>3, <2>1, CircleFacts DEF Ahead
  <1> QED BY <1>2, <1>3

\* The slot of a sequence number is the slot of its position.
LEMMA SlotOfPosition ==
    ASSUME NEW p \in Int
    PROVE  SeqOf(p) % Window = p % Window /\ p % Window \in Slots
  <1>1. (p % SeqMod) % Window = p % Window
    BY ModDivides, WindowDivides, CircleFacts
  <1>2. p % Window \in 0 .. Window - 1
    BY ModDef, CircleFacts
  <1> QED BY <1>1, <1>2 DEF SeqOf, Slots

\* The next position has the next sequence number.
LEMMA SeqOfNext ==
    ASSUME NEW p \in Int
    PROVE  (SeqOf(p) + 1) % SeqMod = SeqOf(p + 1) /\ SeqOf(p) \in Nat
  <1>1. ((p % SeqMod) + 1) % SeqMod = (p + 1) % SeqMod
    BY ModPlus, CircleFacts, 1 \in Int
  <1>2. p % SeqMod \in 0 .. SeqMod - 1
    BY ModDef, CircleFacts
  <1> QED BY <1>1, <1>2 DEF SeqOf

\* The occupied slots are finitely many, so Cardinality counts them.
LEMMA OccupiedFinite == IsFiniteSet(Occupied) /\ Cardinality(Occupied) \in Nat
  <1>1. IsFiniteSet(Slots)
    BY FS_Interval, CircleFacts DEF Slots
  <1> QED BY <1>1, FS_Subset, FS_CardinalityType DEF Occupied

\* What Release does to the ring.
LEMMA ReleaseFacts ==
    ASSUME RingType, NEW s \in Nat, Slot(s).present, Release(s)
    PROVE  /\ s % Window \in Occupied
           /\ Occupied' = Occupied \ {s % Window}
           /\ \A x \in Occupied' : slots'[x] = slots[x]
           /\ Cardinality(Occupied') = Cardinality(Occupied) - 1
           /\ slots' \in [Slots -> [present : BOOLEAN, seq : Nat, pos : Nat]]
           /\ out' = slots[s % Window].pos /\ last' = out' /\ out' \in Nat
  <1>1. s % Window \in Slots
    BY ModDef, CircleFacts DEF Slots
  <1>2. s % Window \in Occupied
    BY <1>1 DEF Slot, Occupied
  <1>3. slots' \in [Slots -> [present : BOOLEAN, seq : Nat, pos : Nat]]
    BY <1>1 DEF RingType, Release, Empty
  <1>4. \A x \in Slots : slots'[x] = IF x = s % Window THEN Empty ELSE slots[x]
    BY <1>1 DEF RingType, Release
  <1>5. Occupied' = Occupied \ {s % Window}
    BY <1>1, <1>4 DEF Occupied, Empty, Slots
  <1>6. \A x \in Occupied' : slots'[x] = slots[x]
    BY <1>4, <1>5 DEF Occupied
  <1>7. Cardinality(Occupied') = Cardinality(Occupied) - 1
    BY <1>2, <1>5, OccupiedFinite, FS_RemoveElement
  <1>8. out' = slots[s % Window].pos /\ last' = out' /\ out' \in Nat
    BY <1>1 DEF Release, Slot, RingType
  <1> QED BY <1>2, <1>3, <1>5, <1>6, <1>7, <1>8

\* In an occupied slot that is the slot of position p of the window is p.
LEMMA SlotHolds ==
    ASSUME RingType, RingInv, NEW p \in Int, p - nextPos \in Slots,
           p % Window \in Occupied
    PROVE  slots[p % Window].pos = p
  <1> DEFINE q == slots[p % Window].pos
  <1>1. q \in Int /\ q % Window = p % Window /\ q - nextPos \in Slots
    <2>1. p % Window \in Slots
      BY SlotOfPosition
    <2>2. q \in Nat
      BY <2>1 DEF RingType
    <2> QED BY <2>2 DEF RingInv
  <1> HIDE DEF q
  <1>2. q - p \in (1 - Window) .. Window - 1
    <2>1. nextPos \in Nat
      BY DEF RingType
    <2> QED BY <1>1, <2>1, CircleFacts DEF Slots
  <1> QED BY <1>1, <1>2, ModApart, CircleFacts DEF q

RInv == RingType /\ RingInv /\ Counts

\* Push counts the packet in, and keeps one that the window may take.
LEMMA PushRing ==
    ASSUME RInv, NEW p \in Nat, Near(p), Push(p)
    PROVE  /\ RInv'
           /\ out' = -1 /\ last' = last /\ pos' = p /\ initialized'
           /\ slots' = slots /\ Occupied' = Occupied
           /\ initialized => nextPos' = nextPos
           /\ ~initialized => nextPos' = p /\ pc' = "insert"
           /\ pc' \in {"ready", "force", "insert"}
  <1> USE DEF RInv
  <1>1. /\ nextPos' \in Nat /\ nextSeq' = SeqOf(nextPos') /\ seq' = SeqOf(p)
        /\ pos' = p /\ p - nextPos' < Half(SeqMod) /\ nextPos' - p <= Half(SeqMod)
        /\ nextPos' = IF initialized THEN nextPos ELSE p
    BY CircleFacts DEF Push, Near, RingType, RingInv
  <1>2. Ahead(seq', nextSeq') = p - nextPos'
    BY <1>1, AheadExact
  <1> DEFINE d == p - nextPos'
  <1>3. d \in Int /\ d < Half(SeqMod) /\ (~initialized => d = 0)
    BY <1>1, CircleFacts
  <1>4. /\ pc' = IF d < 0 THEN "ready" ELSE IF d >= Window THEN "force" ELSE "insert"
        /\ late' = IF d < 0 THEN late + 1 ELSE late
        /\ out' = -1 /\ last' = last
    BY <1>2 DEF Push, CountLate
  <1>5. slots' = slots /\ Occupied' = Occupied
    BY DEF Push, Occupied
  <1> HIDE DEF d
  <1>6. RingType'
    <2>1. seq' \in Nat
      BY <1>1, ModDef, CircleFacts DEF SeqOf
    <2> QED BY <1>1, <1>3, <1>4, <1>5, <2>1 DEF RingType, Push
  <1>7. Counts'
    <2>1. buffered' = Cardinality(Occupied')
      BY <1>5 DEF Counts, Push
    <2>2. arrived' = late' + released' + buffered' + (IF InHand' THEN 1 ELSE 0)
      <3>1. ~InHand /\ {arrived, late, released, buffered} \subseteq Nat
        BY DEF Push, InHand, RingType
      <3> QED BY <1>3, <1>4, <3>1 DEF Counts, Push, InHand
    <2>3. nextPos' = base' + released' + forced'
      BY <1>1 DEF Counts, Push, RingType, RingInv
    <2> QED BY <2>1, <2>2, <2>3 DEF Counts
  <1>8. RingInv'
    <2>1. last' < nextPos'
      BY <1>1, <1>4 DEF RingInv, RingType
    <2>2. \A x \in Occupied' : /\ slots'[x].pos % Window = x
                               /\ slots'[x].pos - nextPos' \in Slots
      BY <1>1, <1>5 DEF RingInv
    <2>3. InHand' => seq' = SeqOf(pos') /\ pos' - nextPos' \in 0 .. Half(SeqMod) - 1
      BY <1>1, <1>3, <1>4, CircleFacts DEF InHand, d
    <2>6. pc' = "force" => pos' - nextPos' >= Window
      BY <1>1, <1>3, <1>4, CircleFacts DEF d
    <2>4. pc' = "insert" => pos' - nextPos' \in Slots
      BY <1>1, <1>3, <1>4, CircleFacts DEF Slots, d
    <2>5. initialized' /\ pc' # "flush"
      BY <1>4 DEF Push
    <2> QED BY <1>1, <2>1, <2>2, <2>3, <2>4, <2>5, <2>6 DEF RingInv
  <1> QED BY <1>1, <1>3, <1>4, <1>5, <1>6, <1>7, <1>8, CircleFacts DEF Push

\* What a step of ForceRelease, Drain or FlushStep may do: release the packet at the
\* release point or past it, or none.
Takes(x) ==
    /\ out' = slots[x].pos /\ last' = out'
    /\ Occupied' = Occupied \ {x}
    /\ \A y \in Occupied' : slots'[y] = slots[y]
Emits ==
    /\ initialized' = initialized /\ pos' = pos /\ nextPos' >= nextPos
    /\ \/ out' = -1 /\ last' = last /\ Occupied' = Occupied /\ slots' = slots
       \/ \E x \in Occupied : Takes(x)

\* A packet in the ring is in its own slot, inside the window.
LEMMA WindowAhead ==
    ASSUME RInv, NEW x \in Occupied
    PROVE  /\ slots[x].pos \in Nat /\ slots[x].pos >= nextPos
           /\ slots[x].pos < nextPos + Window /\ slots[x].pos % Window = x
  <1>1. x \in Slots
    BY DEF Occupied
  <1>2. slots[x].pos \in Nat /\ nextPos \in Nat
    BY <1>1 DEF RInv, RingType
  <1>3. slots[x].pos % Window = x /\ slots[x].pos - nextPos \in 0 .. Window - 1
    BY DEF RInv, RingInv, Slots
  <1> QED BY <1>2, <1>3, CircleFacts

\* The window after the release point passed k positions that are now empty.
LEMMA PassWindow ==
    ASSUME RInv, NEW k \in 1 .. Window, nextPos' = nextPos + k,
           Occupied' \subseteq Occupied,
           \A x \in Occupied' : slots'[x] = slots[x] /\ slots[x].pos >= nextPos + k
    PROVE  \A x \in Occupied' : /\ slots'[x].pos % Window = x
                                /\ slots'[x].pos - nextPos' \in Slots
  <1> SUFFICES ASSUME NEW x \in Occupied'
               PROVE  /\ slots'[x].pos % Window = x
                      /\ slots'[x].pos - nextPos' \in Slots
    OBVIOUS
  <1>1. x \in Occupied /\ x \in Slots /\ slots'[x] = slots[x]
    BY DEF Occupied
  <1>2. slots[x].pos \in Nat /\ nextPos \in Nat
    BY <1>1 DEF RInv, RingType
  <1>3. slots[x].pos % Window = x /\ slots[x].pos - nextPos \in Slots
    BY <1>1 DEF RInv, RingInv
  <1> QED BY <1>1, <1>2, <1>3, CircleFacts DEF Slots

\* Releasing position nextPos + k, when nothing before it is buffered, empties
\* its slot and leaves a window that starts right after it.
LEMMA HeadReleased ==
    ASSUME RInv, NEW k \in 0 .. Window - 1,
           \A x \in Occupied : slots[x].pos >= nextPos + k,
           Slot(SeqOf(nextPos + k)).present, Release(SeqOf(nextPos + k)),
           nextPos' = nextPos + k + 1
    PROVE  /\ out' = nextPos + k /\ last' = out' /\ last' < nextPos'
           /\ slots' \in [Slots -> [present : BOOLEAN, seq : Nat, pos : Nat]]
           /\ buffered' = Cardinality(Occupied') /\ buffered' = buffered - 1
           /\ buffered' \in Nat /\ released' = released + 1
           /\ \A x \in Occupied' : /\ slots'[x].pos % Window = x
                                   /\ slots'[x].pos - nextPos' \in Slots
           /\ \E x \in Occupied : Takes(x)
  <1> DEFINE p == nextPos + k
             h == p % Window
  <1>1. nextPos \in Nat /\ p \in Nat /\ SeqOf(p) \in Nat
    BY SeqOfNext, CircleFacts DEF RInv, RingType
  <1>2. SeqOf(p) % Window = h
    BY <1>1, SlotOfPosition
  <1>3. /\ h \in Occupied /\ Occupied' = Occupied \ {h}
        /\ \A x \in Occupied' : slots'[x] = slots[x]
        /\ Cardinality(Occupied') = Cardinality(Occupied) - 1
        /\ slots' \in [Slots -> [present : BOOLEAN, seq : Nat, pos : Nat]]
        /\ out' = slots[h].pos /\ last' = out'
    BY <1>1, <1>2, ReleaseFacts DEF RInv
  <1>4. slots[h].pos = p
    BY <1>1, <1>3, SlotHolds, p - nextPos = k DEF RInv, Slots
  <1>5. \A x \in Occupied' : slots[x].pos >= nextPos + (k + 1)
    <2> SUFFICES ASSUME NEW x \in Occupied' PROVE slots[x].pos >= nextPos + (k + 1)
      OBVIOUS
    <2>1. x \in Occupied /\ x # h
      BY <1>3
    <2>2. slots[x].pos \in Nat /\ slots[x].pos % Window = x /\ slots[x].pos >= p
      BY <2>1 DEF RInv, RingType, RingInv, Occupied
    <2>3. slots[x].pos # p
      BY <2>1, <2>2
    <2> QED BY <1>1, <2>2, <2>3
  <1>6. k + 1 \in 1 .. Window /\ nextPos' = nextPos + (k + 1)
    BY <1>1, CircleFacts
  <1>7. \A x \in Occupied' : /\ slots'[x].pos % Window = x
                             /\ slots'[x].pos - nextPos' \in Slots
    BY <1>3, <1>5, <1>6, PassWindow
  <1>8. /\ buffered' = Cardinality(Occupied') /\ buffered' = buffered - 1
        /\ buffered' \in Nat /\ released' = released + 1
    <2>1. IsFiniteSet(Occupied')
      BY <1>3, OccupiedFinite, FS_RemoveElement
    <2>2. Cardinality(Occupied') \in Nat
      BY <2>1, FS_CardinalityType
    <2> QED BY <1>3, <2>2 DEF RInv, Counts, Release
  <1>9. Takes(h)
    BY <1>3 DEF Takes
  <1> QED BY <1>1, <1>3, <1>4, <1>7, <1>8, <1>9

\* The release point passes its own slot, released or found empty.
LEMMA ForceRing ==
    ASSUME RInv, ForceRelease
    PROVE  RInv' /\ Emits /\ pc' \in {"force", "insert"}
  <1> USE DEF RInv
  <1>1. /\ nextPos \in Nat /\ nextPos' = nextPos + 1 /\ nextSeq' = SeqOf(nextPos')
        /\ nextSeq = SeqOf(nextPos) /\ seq' = seq /\ pos' = pos
        /\ seq = SeqOf(pos) /\ pos \in Nat /\ nextSeq \in Nat
        /\ pos - nextPos \in Window .. Half(SeqMod) - 1
    BY SeqOfNext, CircleFacts DEF ForceRelease, MoveTo, RingType, RingInv, InHand
  <1>2. \A x \in Occupied : slots[x].pos >= nextPos + 0
    BY <1>1, WindowAhead
  <1>3. nextSeq % Window = nextPos % Window /\ nextPos % Window \in Slots
    BY <1>1, SlotOfPosition
  <1>4. Ahead(seq, nextSeq') = pos - nextPos'
    <2>1. nextPos' \in Int /\ pos - nextPos' < Half(SeqMod) /\ nextPos' - pos <= Half(SeqMod)
      BY <1>1, CircleFacts
    <2> QED BY <1>1, <2>1, AheadExact
  <1>5. /\ pc' = IF pos - nextPos' >= Window THEN "force" ELSE "insert"
        /\ InHand /\ InHand' /\ initialized' = initialized /\ initialized
    BY <1>4 DEF ForceRelease, InHand, RingInv
  <1> DEFINE Window1 ==
        /\ last' < nextPos'
        /\ slots' \in [Slots -> [present : BOOLEAN, seq : Nat, pos : Nat]]
        /\ \A x \in Occupied' : /\ slots'[x].pos % Window = x
                                /\ slots'[x].pos - nextPos' \in Slots
        /\ buffered' = Cardinality(Occupied') /\ buffered' \in Nat
        /\ released' \in Nat /\ forced' \in Nat /\ last' \in Nat \cup {-1}
        /\ released' + forced' = released + forced + 1
        /\ released' + buffered' = released + buffered
        /\ Emits
  <1>6. ASSUME Slot(nextSeq).present /\ Release(nextSeq) /\ UNCHANGED forced
        PROVE  Window1
    <2>1. 0 \in 0 .. Window - 1 /\ nextPos + 0 = nextPos /\ nextPos' = nextPos + 0 + 1
      BY <1>1, CircleFacts
    <2>2. /\ out' = nextPos /\ last' = out' /\ last' < nextPos'
          /\ slots' \in [Slots -> [present : BOOLEAN, seq : Nat, pos : Nat]]
          /\ buffered' = Cardinality(Occupied') /\ buffered' = buffered - 1
          /\ buffered' \in Nat /\ released' = released + 1
          /\ \A x \in Occupied' : /\ slots'[x].pos % Window = x
                                  /\ slots'[x].pos - nextPos' \in Slots
          /\ \E x \in Occupied : Takes(x)
      BY <1>1, <1>2, <1>6, <2>1, HeadReleased
    <2>3. Emits
      BY <1>1, <1>5, <2>2 DEF Emits
    <2>4. {released, forced, buffered} \subseteq Nat /\ last' \in Nat
      BY <1>1, <2>2 DEF RingType
    <2> QED BY <1>1, <1>6, <2>2, <2>3, <2>4
  <1>7. ASSUME /\ ~Slot(nextSeq).present /\ out' = -1 /\ forced' = forced + 1
               /\ UNCHANGED <<slots, buffered, released, last>>
        PROVE  Window1
    <2>1. Occupied' = Occupied
      BY <1>7 DEF Occupied
    <2>2. \A x \in Occupied : slots[x].pos >= nextPos + 1
      <3> SUFFICES ASSUME NEW x \in Occupied PROVE slots[x].pos >= nextPos + 1
        OBVIOUS
      <3>1. x # nextPos % Window
        BY <1>3, <1>7 DEF Slot, Occupied
      <3>2. slots[x].pos \in Nat /\ slots[x].pos % Window = x /\ slots[x].pos >= nextPos
        BY <1>1, <1>2 DEF RingType, RingInv, Occupied
      <3>3. slots[x].pos # nextPos
        BY <3>1, <3>2
      <3> QED BY <1>1, <3>2, <3>3
    <2>3. \A x \in Occupied' : /\ slots'[x].pos % Window = x
                               /\ slots'[x].pos - nextPos' \in Slots
      <3>1. 1 \in 1 .. Window
        BY CircleFacts
      <3> QED BY <1>1, <1>7, <2>1, <2>2, <3>1, PassWindow
    <2>4. Emits
      BY <1>1, <1>5, <1>7, <2>1 DEF Emits
    <2>5. /\ {released, forced, buffered} \subseteq Nat /\ last < nextPos
          /\ buffered = Cardinality(Occupied) /\ last \in Nat \cup {-1}
          /\ slots \in [Slots -> [present : BOOLEAN, seq : Nat, pos : Nat]]
      BY DEF RingType, RingInv, Counts
    <2> QED BY <1>1, <1>7, <2>1, <2>3, <2>4, <2>5
  <1>8. Window1
    BY <1>6, <1>7 DEF ForceRelease
  <1>9. UNCHANGED <<initialized, late, seq, pos, i, arrived, base>>
    BY DEF ForceRelease
  <1>10. RingType'
    BY <1>1, <1>5, <1>8, <1>9 DEF RingType
  <1>11. Counts'
    BY <1>1, <1>5, <1>8, <1>9 DEF Counts, RingType
  <1>12. RingInv'
    <2>1. pos' - nextPos' \in 0 .. Half(SeqMod) - 1
      BY <1>1, CircleFacts
    <2>2. pc' = "insert" => pos' - nextPos' \in Slots
      BY <1>1, <1>5, <2>1, CircleFacts DEF Slots
    <2> QED BY <1>1, <1>5, <1>8, <2>1, <2>2 DEF RingInv
  <1> QED BY <1>5, <1>8, <1>10, <1>11, <1>12

\* The packet in hand takes its own slot, or finds it taken.
LEMMA InsertRing ==
    ASSUME RInv, Insert
    PROVE  /\ RInv' /\ out' = -1 /\ last' = last /\ nextPos' = nextPos
           /\ initialized' = initialized /\ pos' = pos
           /\ \/ pc' = "ready" /\ slots' = slots /\ Occupied' = Occupied
                 /\ pos % Window \in Occupied
              \/ /\ pc' = "drain" /\ Occupied' = Occupied \cup {pos % Window}
                 /\ pos % Window \notin Occupied
                 /\ slots'[pos % Window].pos = pos
                 /\ \A x \in Occupied : slots'[x] = slots[x]
  <1> USE DEF RInv
  <1> DEFINE h == pos % Window
  <1>1. /\ pc = "insert" /\ pos \in Nat /\ seq = SeqOf(pos) /\ seq \in Nat
        /\ nextPos \in Nat /\ pos - nextPos \in Slots
        /\ initialized
    BY DEF Insert, RingType, RingInv, InHand
  <1>2. seq % Window = h /\ h \in Slots
    BY <1>1, SlotOfPosition
  <1>3. /\ out' = -1 /\ pc' # "flush" /\ ~InHand'
        /\ UNCHANGED <<initialized, nextSeq, forced, seq, pos, i, ghosts>>
    BY DEF Insert, InHand
  <1> HIDE DEF h
  <1>4. CASE slots[h].present
    <2>1. pc' = "ready" /\ late' = late + 1 /\ UNCHANGED <<slots, buffered>>
      BY <1>2, <1>4 DEF Insert, Slot
    <2>2. Occupied' = Occupied /\ h \in Occupied
      BY <1>2, <1>4, <2>1 DEF Occupied
    <2>3. RingType' /\ Counts'
      BY <1>1, <1>3, <2>1, <2>2 DEF RingType, Counts, InHand, ghosts
    <2>4. RingInv'
      BY <1>1, <1>3, <2>1, <2>2 DEF RingInv, ghosts
    <2> QED BY <1>3, <2>1, <2>2, <2>3, <2>4 DEF ghosts, h
  <1>5. CASE ~slots[h].present
    <2>1. /\ pc' = "drain" /\ late' = late /\ buffered' = buffered + 1
          /\ slots' = [slots EXCEPT ![h] = [present |-> TRUE, seq |-> seq, pos |-> pos]]
      BY <1>2, <1>5 DEF Insert, Slot
    <2>2. /\ slots' \in [Slots -> [present : BOOLEAN, seq : Nat, pos : Nat]]
          /\ slots'[h] = [present |-> TRUE, seq |-> seq, pos |-> pos]
          /\ \A x \in Slots : x # h => slots'[x] = slots[x]
      BY <1>1, <1>2, <2>1 DEF RingType
    <2>3. Occupied' = Occupied \cup {h} /\ h \notin Occupied
      BY <1>2, <1>5, <2>2 DEF Occupied, Slots
    <2>4. Cardinality(Occupied') = Cardinality(Occupied) + 1
      BY <2>3, OccupiedFinite, FS_AddElement
    <2>5. \A x \in Occupied' : /\ slots'[x].pos % Window = x
                               /\ slots'[x].pos - nextPos' \in Slots
      <3>1. /\ slots'[h].pos % Window = h
            /\ slots'[h].pos - nextPos' \in Slots
        BY <1>1, <1>3, <2>2 DEF h, ghosts
      <3>2. ASSUME NEW x \in Occupied
            PROVE  slots'[x].pos % Window = x /\ slots'[x].pos - nextPos' \in Slots
        <4>1. slots'[x] = slots[x]
          BY <2>2, <2>3 DEF Occupied
        <4> QED BY <1>3, <4>1 DEF RingInv, ghosts
      <3> QED BY <2>3, <3>1, <3>2
    <2>6. RingType'
      BY <1>1, <1>3, <2>1, <2>2 DEF RingType, ghosts
    <2>7. Counts'
      BY <1>1, <1>3, <2>1, <2>4 DEF RingType, Counts, InHand, ghosts
    <2>8. RingInv'
      BY <1>1, <1>3, <2>1, <2>5 DEF RingInv, ghosts
    <2>9. \A x \in Occupied : slots'[x] = slots[x]
      BY <2>2, <2>3 DEF Occupied
    <2> QED BY <1>3, <2>1, <2>2, <2>3, <2>6, <2>7, <2>8, <2>9 DEF ghosts, h
  <1> QED BY <1>4, <1>5

\* A step of drain releases the packet at the front or finds none.
LEMMA DrainRing ==
    ASSUME RInv, Drain
    PROVE  /\ RInv' /\ Emits
           /\ \/ pc' = "drain"
              \/ pc' = "ready" /\ out' = -1 /\ nextPos % Window \notin Occupied
  <1> USE DEF RInv
  <1>1. /\ pc = "drain" /\ nextPos \in Nat /\ nextSeq = SeqOf(nextPos)
        /\ initialized /\ ~InHand
        /\ UNCHANGED <<initialized, late, forced, seq, pos, i, arrived, base>>
    BY DEF Drain, RingType, RingInv, InHand
  <1>2. nextSeq % Window = nextPos % Window /\ nextPos % Window \in Slots
    BY <1>1, SlotOfPosition
  <1>3. CASE Slot(nextSeq).present
    <2>0. Release(nextSeq) /\ MoveTo(nextSeq + 1, 1) /\ pc' = pc
      BY <1>3 DEF Drain
    <2>1. nextPos + 0 = nextPos /\ nextPos' = nextPos + 0 + 1 /\ nextPos' = nextPos + 1
          /\ nextSeq' = SeqOf(nextPos')
      BY <1>1, <2>0, SeqOfNext DEF MoveTo
    <2>2. 0 \in 0 .. Window - 1 /\ \A x \in Occupied : slots[x].pos >= nextPos + 0
      BY <2>1, WindowAhead, CircleFacts
    <2>3. /\ out' = nextPos /\ last' = out' /\ last' < nextPos'
          /\ slots' \in [Slots -> [present : BOOLEAN, seq : Nat, pos : Nat]]
          /\ buffered' = Cardinality(Occupied') /\ buffered' = buffered - 1
          /\ buffered' \in Nat /\ released' = released + 1
          /\ \A x \in Occupied' : /\ slots'[x].pos % Window = x
                                  /\ slots'[x].pos - nextPos' \in Slots
          /\ \E x \in Occupied : Takes(x)
      BY <1>1, <1>3, <2>0, <2>1, <2>2, HeadReleased
    <2>4. Emits
      BY <1>1, <2>1, <2>3 DEF Emits
    <2>5. RingType' /\ Counts'
      BY <1>1, <2>0, <2>1, <2>3 DEF RingType, Counts, InHand
    <2>6. RingInv'
      BY <1>1, <2>0, <2>1, <2>3 DEF RingInv, InHand
    <2> QED BY <1>1, <2>0, <2>4, <2>5, <2>6
  <1>4. CASE ~Slot(nextSeq).present
    <2>1. pc' = "ready" /\ out' = -1
          /\ UNCHANGED <<nextSeq, nextPos, slots, buffered, released, last>>
      BY <1>4 DEF Drain
    <2>2. Occupied' = Occupied /\ nextPos % Window \notin Occupied
      BY <1>2, <1>4, <2>1 DEF Occupied, Slot
    <2>3. Emits
      BY <1>1, <2>1, <2>2 DEF Emits
    <2>4. RingType' /\ Counts'
      BY <1>1, <2>1, <2>2 DEF RingType, Counts, InHand
    <2>5. RingInv'
      BY <1>1, <2>1, <2>2 DEF RingInv, InHand
    <2> QED BY <2>1, <2>2, <2>3, <2>4, <2>5
  <1> QED BY <1>3, <1>4

\* The cursor of Flush starts at the release point.
LEMMA FlushRing ==
    ASSUME RInv, Flush, initialized
    PROVE  /\ RInv' /\ pc = "ready" /\ pc' = "flush" /\ pos' = pos /\ out' = -1
           /\ UNCHANGED <<slots, last, initialized, nextPos>> /\ Occupied' = Occupied
  <1> USE DEF RInv
  <1>1. pc = "ready" /\ pc' = "flush" /\ seq' = nextSeq /\ i' = 0 /\ out' = -1
        /\ UNCHANGED <<ring, pos, ghosts>>
    BY DEF Flush
  <1>2. Occupied' = Occupied
    BY <1>1 DEF Occupied, ring
  <1>3. RingType'
    BY <1>1, SeqOfNext, CircleFacts DEF RingType, RingInv, ring, ghosts
  <1>4. Counts'
    BY <1>1, <1>2 DEF Counts, InHand, ring, ghosts
  <1>5. \E k \in 0 .. i' : /\ seq' = SeqOf(nextPos' + k)
                           /\ \A x \in Occupied' : slots'[x].pos >= nextPos' + k
    <2>1. nextPos \in Nat /\ nextPos + 0 = nextPos /\ 0 \in 0 .. i'
      BY <1>1 DEF RingType
    <2>2. seq' = SeqOf(nextPos' + 0)
      BY <1>1, <2>1 DEF RingInv, ghosts
    <2>3. \A x \in Occupied' : slots'[x].pos >= nextPos' + 0
      BY <1>1, <1>2, <2>1, WindowAhead DEF ring, ghosts
    <2> QED BY <2>1, <2>2, <2>3
  <1>6. RingInv'
    BY <1>1, <1>2, <1>5 DEF RingInv, InHand, ring, ghosts
  <1> QED BY <1>1, <1>2, <1>3, <1>4, <1>6 DEF ring, ghosts

\* The end of a flush keeps the ring.
LEMMA FlushEndRing ==
    ASSUME RInv, FlushEnd
    PROVE  /\ RInv' /\ pc = "flush" /\ pc' = "ready" /\ pos' = pos /\ out' = -1
           /\ UNCHANGED <<slots, last, initialized, nextPos>> /\ Occupied' = Occupied
  <1> USE DEF RInv
  <1>1. pc = "flush" /\ pc' = "ready" /\ seq' = 0 /\ i' = 0 /\ out' = -1
        /\ UNCHANGED <<ring, pos, ghosts>>
    BY DEF FlushEnd
  <1>2. Occupied' = Occupied
    BY <1>1 DEF Occupied, ring
  <1>3. RingType'
    BY <1>1, CircleFacts DEF RingType, ring, ghosts
  <1>4. Counts'
    BY <1>1, <1>2 DEF Counts, InHand, ring, ghosts
  <1>5. RingInv'
    BY <1>1, <1>2 DEF RingInv, InHand, ring, ghosts
  <1> QED BY <1>1, <1>2, <1>3, <1>4, <1>5 DEF ring, ghosts

\* A step of Flush: the cursor is k positions past the release point, with
\* nothing buffered between the two.
LEMMA FlushStepRing ==
    ASSUME RInv, FlushStep
    PROVE  RInv' /\ Emits /\ pc = "flush" /\ pc' = "flush"
  <1> USE DEF RInv
  <1>1. /\ pc = "flush" /\ pc' = "flush" /\ nextPos \in Nat /\ i \in 0 .. Window - 1
        /\ initialized /\ nextSeq = SeqOf(nextPos) /\ ~InHand /\ ~InHand'
        /\ seq' = (seq + 1) % SeqMod /\ i' = i + 1 /\ i' \in 0 .. Window
        /\ UNCHANGED <<pc, initialized, late, forced, pos, arrived>>
    BY CircleFacts DEF FlushStep, RingType, RingInv, InHand
  <1>2. PICK k \in 0 .. i : /\ seq = SeqOf(nextPos + k)
                            /\ \A x \in Occupied : slots[x].pos >= nextPos + k
    BY <1>1 DEF RingInv
  <1> DEFINE p == nextPos + k
  <1>3. k \in 0 .. Window - 1 /\ k \in Nat /\ p \in Nat /\ p - nextPos = k
    BY <1>1, <1>2, CircleFacts
  <1>4. /\ Ahead(seq, nextSeq) = k /\ seq' = SeqOf(p + 1) /\ seq' \in Nat
        /\ seq % Window = p % Window /\ p % Window \in Slots
    <2>1. p - nextPos < Half(SeqMod) /\ nextPos - p <= Half(SeqMod)
      BY <1>1, <1>3, CircleFacts
    <2>2. Ahead(SeqOf(p), SeqOf(nextPos)) = p - nextPos
      BY <1>1, <1>3, <2>1, AheadExact
    <2>3. SeqOf(p + 1) \in Nat
      BY <1>3, SeqOfNext
    <2> QED BY <1>1, <1>2, <1>3, <2>2, <2>3, SeqOfNext, SlotOfPosition
  <1>5. CASE Slot(seq).present
    <2>0. Release(seq) /\ MoveTo(seq + 1, k + 1) /\ base' = base + k
      BY <1>4, <1>5 DEF FlushStep
    <2>1. nextPos' = nextPos + k + 1 /\ nextSeq' = SeqOf(nextPos') /\ nextPos' = p + 1
          /\ nextPos' \in Nat /\ nextPos' >= nextPos
      BY <1>1, <1>2, <1>3, <1>4, <2>0 DEF MoveTo
    <2>2. /\ out' = nextPos + k /\ last' = out' /\ last' < nextPos'
          /\ slots' \in [Slots -> [present : BOOLEAN, seq : Nat, pos : Nat]]
          /\ buffered' = Cardinality(Occupied') /\ buffered' = buffered - 1
          /\ buffered' \in Nat /\ released' = released + 1
          /\ \A x \in Occupied' : /\ slots'[x].pos % Window = x
                                  /\ slots'[x].pos - nextPos' \in Slots
          /\ \E x \in Occupied : Takes(x)
      BY <1>2, <1>3, <1>5, <2>0, <2>1, HeadReleased
    <2>3. Emits
      BY <1>1, <2>1, <2>2 DEF Emits
    <2>4. RingType'
      BY <1>1, <1>3, <1>4, <2>0, <2>1, <2>2 DEF RingType
    <2>5. Counts'
      BY <1>1, <1>3, <2>0, <2>1, <2>2 DEF RingType, Counts
    <2>6. \E j \in 0 .. i' : /\ seq' = SeqOf(nextPos' + j)
                             /\ \A x \in Occupied' : slots'[x].pos >= nextPos' + j
      <3>1. 0 \in 0 .. i' /\ nextPos' + 0 = nextPos'
        BY <1>1, <2>1
      <3>2. \A x \in Occupied' : slots'[x].pos >= nextPos' + 0
        <4> SUFFICES ASSUME NEW x \in Occupied' PROVE slots'[x].pos >= nextPos' + 0
          OBVIOUS
        <4>1. x \in Slots
          BY DEF Occupied, Slots
        <4>2. slots'[x].pos \in Nat /\ slots'[x].pos - nextPos' \in Slots
          BY <2>2, <4>1
        <4> QED BY <2>1, <4>2, CircleFacts DEF Slots
      <3> QED BY <1>4, <2>1, <3>1, <3>2
    <2>7. RingInv'
      BY <1>1, <2>1, <2>2, <2>6 DEF RingInv
    <2> QED BY <1>1, <2>3, <2>4, <2>5, <2>7
  <1>6. CASE ~Slot(seq).present
    <2>1. out' = -1
          /\ UNCHANGED <<nextSeq, nextPos, slots, buffered, released, last, base>>
      BY <1>6 DEF FlushStep
    <2>2. Occupied' = Occupied /\ p % Window \notin Occupied
      BY <1>4, <1>6, <2>1 DEF Occupied, Slot
    <2>3. Emits
      BY <1>1, <2>1, <2>2 DEF Emits
    <2>4. RingType'
      BY <1>1, <1>4, <2>1 DEF RingType
    <2>5. Counts'
      BY <1>1, <2>1, <2>2 DEF RingType, Counts
    <2>6. \E j \in 0 .. i' : /\ seq' = SeqOf(nextPos' + j)
                             /\ \A x \in Occupied' : slots'[x].pos >= nextPos' + j
      <3>1. k + 1 \in 0 .. i' /\ nextPos' + (k + 1) = p + 1
        BY <1>1, <1>2, <1>3, <2>1
      <3>2. \A x \in Occupied' : slots'[x].pos >= nextPos' + (k + 1)
        <4> SUFFICES ASSUME NEW x \in Occupied PROVE slots[x].pos >= p + 1
          BY <2>1, <2>2, <3>1
        <4>1. slots[x].pos \in Nat /\ slots[x].pos % Window = x /\ slots[x].pos >= p
          BY <1>2, WindowAhead
        <4>2. slots[x].pos # p
          BY <2>2, <4>1
        <4> QED BY <1>3, <4>1, <4>2
      <3> QED BY <1>4, <3>1, <3>2
    <2>7. RingInv'
      BY <1>1, <2>1, <2>2, <2>6 DEF RingInv
    <2> QED BY <1>1, <2>3, <2>4, <2>5, <2>7
  <1> QED BY <1>5, <1>6

\* An empty ring is in order.
LEMMA EmptyRing ==
    ASSUME slots = NoSlots
    PROVE  /\ Occupied = {} /\ Cardinality(Occupied) = 0
           /\ slots \in [Slots -> [present : BOOLEAN, seq : Nat, pos : Nat]]
  <1>1. Occupied = {}
    BY DEF NoSlots, Empty, Occupied, Slots
  <1> QED BY <1>1, FS_EmptySet DEF NoSlots, Empty, Slots

\* Position 0 has sequence number 0.
LEMMA SeqOfZero == SeqOf(0) = 0
  BY ModSmall, CircleFacts, 0 \in 0 .. SeqMod - 1 DEF SeqOf

\* The resequencer starts in its invariant.
LEMMA InitRing == Init => RInv
  <1> SUFFICES ASSUME Init PROVE RInv
    OBVIOUS
  <1>1. /\ Occupied = {} /\ Cardinality(Occupied) = 0
        /\ slots \in [Slots -> [present : BOOLEAN, seq : Nat, pos : Nat]]
    BY EmptyRing DEF Init
  <1>2. RingType
    <2>1. /\ {nextPos, base, pos, buffered, late, forced, released, arrived} \subseteq Nat
          /\ seq \in Nat /\ last = -1
      BY DEF Init
    <2>2. i \in 0 .. Window
      BY CircleFacts DEF Init
    <2>3. initialized \in BOOLEAN /\ pc = "ready"
      BY DEF Init
    <2> QED BY <1>1, <2>1, <2>2, <2>3 DEF RingType
  <1>3. RingInv /\ Counts
    BY <1>1, SeqOfZero DEF Init, RingInv, Counts, InHand
  <1> QED BY <1>2, <1>3 DEF RInv

\* Reset puts it back there.
LEMMA ResetRing ==
    ASSUME RInv, Reset
    PROVE  RInv' /\ pc = "ready" /\ pc' = pc /\ last' = -1 /\ ~initialized' /\ out' = -1
  <1>0. slots' = NoSlots
    BY DEF Reset
  <1>1. /\ Occupied' = {} /\ Cardinality(Occupied') = 0
        /\ slots' \in [Slots -> [present : BOOLEAN, seq : Nat, pos : Nat]]
    <2>1. Occupied' = {}
      BY <1>0 DEF NoSlots, Empty, Occupied, Slots
    <2> QED BY <1>0, <2>1, FS_EmptySet DEF NoSlots, Empty, Slots
  <1>2. RingType'
    <2>1. /\ {nextPos', base', pos', buffered', late', forced', released', arrived'} \subseteq Nat
          /\ seq' \in Nat /\ last' = -1
      BY DEF Reset
    <2>2. i' \in 0 .. Window /\ initialized' \in BOOLEAN /\ pc' = "ready"
      BY CircleFacts DEF Reset, RInv, RingType
    <2> QED BY <1>1, <2>1, <2>2 DEF RingType
  <1>3. RingInv' /\ Counts'
    BY <1>1, SeqOfZero DEF Reset, RingInv, Counts, InHand
  <1> QED BY <1>2, <1>3 DEF RInv, Reset

-----------------------------------------------------------------------------
(* The observer.                                                           *)

\* The circle of timestamps, the step between packets and the sources.
LEMMA TimeFacts ==
    /\ TsMod \in Nat \ {0} /\ Half(TsMod) \in Nat \ {0} /\ TsMod = 2 * Half(TsMod)
    /\ Step \in Nat \ {0} /\ CycleMod \in Nat \ {0} /\ NoSource \notin Sources
  BY TimestampAssumption DEF Half

\* Timestamps advance with positions.
LEMMA StepTimes ==
    ASSUME NEW a \in Int, NEW b \in Int
    PROVE  /\ Step * a \in Int /\ Step * (a - b) = Step * a - Step * b
           /\ a <= b => Step * a <= Step * b
           /\ a < b => Step * a < Step * b
           /\ Step * 0 = 0
  <1>1. Step * a \in Int /\ Step * (a - b) = Step * a - Step * b /\ Step * 0 = 0
    BY TimeFacts
  <1>2. ASSUME a < b PROVE Step * a < Step * b
    <2>1. (b - a) \in Nat \ {0} /\ Step \in Nat \ {0}
      BY <1>2, TimeFacts
    <2>2. Step * (b - a) >= 1
      BY <2>1
    <2> QED BY <2>2, TimeFacts
  <1> QED BY <1>1, <1>2, TimeFacts

\* Distance is the distance of the positions, for those in reach: a packet past
\* the newest one is told from one that is not.
LEMMA DistanceExact ==
    ASSUME NEW p \in Nat, NEW h \in Nat, lastSeq = SeqOf(h),
           p - h < Half(SeqMod), h - p <= Half(SeqMod)
    PROVE  /\ Distance(p) \in Nat
           /\ Distance(p) \in 1 .. Half(SeqMod) - 1 <=> p > h
           /\ p > h => Distance(p) = p - h
  <1>1. Distance(p) = (p - h) % SeqMod
    <2>1. ((p % SeqMod) - (h % SeqMod)) % SeqMod = (p - h) % SeqMod
      BY ModMinus, SeqModPositive, p \in Int, h \in Int
    <2> QED BY <2>1 DEF Distance, SeqOf
  <1>2. CASE p >= h
    <2>1. p - h \in 0 .. SeqMod - 1 /\ p - h \in Int
      BY <1>2, CircleFacts
    <2>2. Distance(p) = p - h
      BY <1>1, <2>1, ModSmall, CircleFacts
    <2> QED BY <1>2, <2>1, <2>2, CircleFacts
  <1>3. CASE p < h
    <2>1. p - h \in (-SeqMod) .. -1 /\ p - h \in Int
      BY <1>3, CircleFacts
    <2>2. Distance(p) = p - h + SeqMod
      BY <1>1, <2>1, ModSmall, CircleFacts
    <2> QED BY <1>3, <2>1, <2>2, CircleFacts
  <1> QED BY <1>2, <1>3

\* extendTS moves the extended timestamp by the media time between the packets,
\* and stops at zero.
LEMMA ExtendExact ==
    ASSUME NEW p \in Nat, NEW h \in Nat, lastTS = Raw(h), ts64 \in Nat,
           Step * (p - h) < Half(TsMod), Step * (h - p) <= Half(TsMod)
    PROVE  LET t == ts64 + Step * (p - h)
           IN  ExtendTS(Raw(p)) = IF t < 0 THEN 0 ELSE t
  <1> DEFINE d == Step * (p - h)
             D == (Raw(p) - lastTS) % TsMod
  <1>1. d \in Int /\ d = Step * p - Step * h /\ Step * (h - p) = -d
        /\ Step * p \in Int /\ Step * h \in Int
    BY TimeFacts
  <1>2. D = d % TsMod
    <2>1. (Raw(p) - Raw(h)) % TsMod = (Step * p - Step * h) % TsMod
      BY <1>1, ModMinus, TimeFacts DEF Raw
    <2> QED BY <1>1, <2>1
  <1>3. d < Half(TsMod) /\ -d <= Half(TsMod)
    BY <1>1
  <1>4. ExtendTS(Raw(p)) = IF D < Half(TsMod) THEN ts64 + D
                           ELSE IF TsMod - D > ts64 THEN 0 ELSE ts64 - (TsMod - D)
    BY DEF ExtendTS
  <1> HIDE DEF d, D
  <1>5. CASE d >= 0
    <2>1. d \in 0 .. TsMod - 1
      BY <1>1, <1>3, <1>5, TimeFacts
    <2>2. D = d
      BY <1>1, <1>2, <2>1, ModSmall, TimeFacts
    <2>3. ExtendTS(Raw(p)) = ts64 + d
      BY <1>3, <1>4, <2>2
    <2> QED BY <1>1, <1>5, <2>3 DEF d
  <1>6. CASE d < 0
    <2>1. d \in (-TsMod) .. -1
      BY <1>1, <1>3, <1>6, TimeFacts
    <2>2. D = d + TsMod
      BY <1>1, <1>2, <2>1, ModSmall, TimeFacts
    <2>3. ExtendTS(Raw(p)) = IF -d > ts64 THEN 0 ELSE ts64 + d
      BY <1>1, <1>3, <1>4, <2>2, TimeFacts
    <2> QED BY <1>1, <1>6, <2>3 DEF d
  <1> QED BY <1>1, <1>5, <1>6

\* The wraps between two positions of one circle apart at most.
LEMMA WrapExact ==
    ASSUME NEW p \in Nat, NEW h \in Nat, p > h, p - h < SeqMod
    PROVE  (p \div SeqMod) =
               (h \div SeqMod) + (IF SeqOf(p) < SeqOf(h) THEN 1 ELSE 0)
  <1> DEFINE P == p \div SeqMod  H == h \div SeqMod
             r == SeqOf(p)       s == SeqOf(h)
  <1>1. /\ P \in Int /\ r \in 0 .. SeqMod - 1 /\ p = P * SeqMod + r
        /\ H \in Int /\ s \in 0 .. SeqMod - 1 /\ h = H * SeqMod + s
    BY SeqSplit, p \in Int, h \in Int
  <1> HIDE DEF P, H, r, s
  <1>2. CASE r < s
    <2>1. (P - H - 1) * SeqMod = p - h - (r - s) - SeqMod
      BY <1>1, CircleFacts
    <2>2. P - H - 1 = 0
      BY <1>1, <1>2, <2>1, Multiple, CircleFacts
    <2> QED BY <1>1, <1>2, <2>2 DEF P, H, r, s
  <1>3. CASE r >= s
    <2>1. (P - H) * SeqMod = p - h - (r - s)
      BY <1>1, CircleFacts
    <2>2. P - H = 0
      BY <1>1, <1>3, <2>1, Multiple, CircleFacts
    <2> QED BY <1>1, <1>3, <2>2 DEF P, H, r, s
  <1> QED BY <1>1, <1>2, <1>3

\* What the width of the report leaves of a position that is q wraps and r on.
LEMMA ReportExact ==
    ASSUME NEW q \in Int, NEW r \in 0 .. SeqMod - 1
    PROVE  (q * SeqMod + r) % (CycleMod * SeqMod) = (q % CycleMod) * SeqMod + r
  <1> DEFINE c == q % CycleMod  k == q \div CycleMod  W == CycleMod * SeqMod
             x == q * SeqMod + r  y == c * SeqMod + r
  <1>1. c \in 0 .. CycleMod - 1 /\ k \in Int /\ q = k * CycleMod + c
    BY ModDef, TimeFacts
  <1>2. W \in Nat \ {0} /\ x \in Int
    BY TimeFacts, CircleFacts
  <1>3. x = k * W + y
    <2> HIDE DEF c, k
    <2>1. q * SeqMod = (k * CycleMod) * SeqMod + c * SeqMod
      BY <1>1, TimeFacts, CircleFacts
    <2>2. (k * CycleMod) * SeqMod = k * W
      BY <1>1, TimeFacts, CircleFacts
    <2> QED BY <1>1, <1>2, <2>1, <2>2, CircleFacts
  <1>4. y \in 0 .. W - 1
    <2>1. c * SeqMod >= 0 /\ c * SeqMod <= (CycleMod - 1) * SeqMod
      BY <1>1, TimeFacts, CircleFacts
    <2>2. (CycleMod - 1) * SeqMod = W - SeqMod
      BY TimeFacts, CircleFacts
    <2> QED BY <1>1, <1>2, <2>1, <2>2, CircleFacts
  <1> HIDE DEF c, k, W, x, y
  <1>5. x % W = y
    BY <1>1, <1>2, <1>3, <1>4, ModUnique
  <1> QED BY <1>5 DEF c, W, x, y

\* The invariant of the stream says its accounting is exact.
LEMMA AccountingHolds == StreamType /\ StreamInv => AccountingExact
  <1> SUFFICES ASSUME StreamType, StreamInv, init PROVE AccountingExact
    BY DEF AccountingExact
  <1> DEFINE H == high \div SeqMod  F == first \div SeqMod  q == H - F
  <1>1. high \in Nat /\ first \in Nat
    BY DEF StreamType
  <1>2. /\ q \in Int /\ lastSeq \in 0 .. SeqMod - 1
        /\ high - (first - SeqOf(first)) = q * SeqMod + lastSeq
    <2>1. /\ high = H * SeqMod + SeqOf(high)
          /\ SeqOf(high) \in 0 .. SeqMod - 1 /\ H \in Int
      BY <1>1, SeqSplit, high \in Int
    <2>2. /\ first = F * SeqMod + SeqOf(first)
          /\ SeqOf(first) \in 0 .. SeqMod - 1 /\ F \in Int
      BY <1>1, SeqSplit, first \in Int
    <2>3. lastSeq = SeqOf(high)
      BY DEF StreamInv
    <2> HIDE DEF H, F
    <2>4. q * SeqMod = H * SeqMod - F * SeqMod /\ H * SeqMod \in Int
          /\ F * SeqMod \in Int
      BY <2>1, <2>2, SeqModPositive
    <2> QED BY <1>1, <2>1, <2>2, <2>3, <2>4
  <1>3. cycles = q % CycleMod
    BY DEF StreamInv
  <1> HIDE DEF q, H, F
  <1>4. ExtendedSeqExact
    BY <1>2, <1>3, ReportExact DEF ExtendedSeqExact
  <1> QED BY <1>4 DEF AccountingExact, StreamInv

\* A timestamp on the wire.
LEMMA RawTypes ==
    ASSUME NEW p \in Nat
    PROVE  Raw(p) \in Nat /\ Step * p \in Int
  <1>1. Step * p \in Int
    BY TimeFacts
  <1> QED BY <1>1, ModDef, TimeFacts DEF Raw

\* A packet that opens a view of the stream, the first or a new source's.
LEMMA BaselineKeeps ==
    ASSUME StreamType, StreamInv, NEW s \in Sources, NEW p \in Nat,
           Observe(s, p), ObserveFirst(s, p) \/ ObserveReset(s, p)
    PROVE  /\ StreamType' /\ StreamInv' /\ init' /\ ssrc' = s /\ high' = p
           /\ duplicates' = duplicates
  <1>1. /\ init' = TRUE /\ ssrc' = s /\ Baseline(p) /\ duplicates' = duplicates
        /\ update'.ts = Raw(p) /\ cycles' = 0 /\ seen' = p
        /\ received' = received + 1 /\ seqGaps' = seqGaps
    BY DEF Observe, ObserveFirst, ObserveReset, Report, StreamInv
  <1>2. Raw(p) \in Nat
    BY RawTypes
  <1>3. /\ span' \in Nat /\ ssrcResets' \in Nat
        /\ span' = seqGaps' + (received' - duplicates') - (ssrcResets' + 1)
    <2>1. CASE ObserveFirst(s, p)
      BY <1>1, <2>1 DEF ObserveFirst, StreamInv, StreamType
    <2>2. CASE ObserveReset(s, p)
      BY <1>1, <2>2 DEF ObserveReset, StreamInv, StreamType, GapsExact
    <2> QED BY <2>1, <2>2
  <1>4. StreamType'
    BY <1>1, <1>2, <1>3 DEF StreamType, Baseline
  <1>5. GapsExact'
    BY <1>1, <1>3, <1>4 DEF GapsExact, Baseline, StreamType
  <1>6. MediaTime(high)' = Raw(p)
    BY <1>1, <1>2, StepTimes DEF MediaTime, Baseline
  <1>7. TimestampExact'
    <2>1. Step * (seen' - first') + Raw(first') = Raw(p)
      BY <1>1, <1>2, StepTimes DEF Baseline
    <2> QED BY <1>1, <1>2, <2>1 DEF TimestampExact
  <1>8. cycles' = ((high' \div SeqMod) - (first' \div SeqMod)) % CycleMod
    <2>1. (high' \div SeqMod) - (first' \div SeqMod) = 0
      BY <1>1, SeqSplit DEF Baseline
    <2>2. 0 % CycleMod = 0
      BY ModSmall, TimeFacts, 0 \in 0 .. CycleMod - 1
    <2> QED BY <1>1, <2>1, <2>2
  <1>9. StreamInv'
    BY <1>1, <1>5, <1>6, <1>7, <1>8 DEF StreamInv, Baseline
  <1> QED BY <1>1, <1>4, <1>9 DEF Baseline

\* A packet past the newest one of its source.
LEMMA ForwardKeeps ==
    ASSUME StreamType, StreamInv, NEW s \in Sources, NEW p \in Nat,
           InReach(s, p), Observe(s, p), ObserveForward(s, p)
    PROVE  /\ StreamType' /\ StreamInv' /\ init' /\ ssrc' = s /\ high' = p
           /\ duplicates' = duplicates
  <1>1. /\ init /\ s = ssrc /\ ssrc' = ssrc /\ init' = init /\ first' = first
        /\ span' = span /\ duplicates' = duplicates /\ ssrcResets' = ssrcResets
        /\ high' = p /\ seen' = p /\ received' = received + 1
        /\ lastSeq' = SeqOf(p) /\ lastTS' = Raw(p) /\ ts64' = ExtendTS(Raw(p))
        /\ update'.ts = ts64' /\ seqGaps' = seqGaps + Distance(p) - 1
        /\ cycles' = IF SeqOf(p) < lastSeq THEN (cycles + 1) % CycleMod ELSE cycles
    BY DEF Observe, ObserveForward, Report
  <1>2. /\ high \in Nat /\ first \in Nat /\ lastSeq = SeqOf(high)
        /\ lastTS = Raw(high) /\ ts64 \in Nat /\ first <= high
        /\ ts64 = MediaTime(high)
        /\ cycles = ((high \div SeqMod) - (first \div SeqMod)) % CycleMod
    BY <1>1 DEF StreamType, StreamInv
  <1>3. /\ p - high < Half(SeqMod) /\ high - p <= Half(SeqMod)
        /\ Step * (p - high) < Half(TsMod) /\ Step * (high - p) <= Half(TsMod)
    BY <1>1 DEF InReach
  <1>4. p > high /\ Distance(p) = p - high
    BY <1>2, <1>3, DistanceExact DEF ObserveForward
  <1>5. /\ Step * (p - high) \in Nat /\ ts64' = ts64 + Step * (p - high)
        /\ ts64' = Step * (p - first) + Raw(first)
    <2>1. Step * (p - high) > 0 /\ Step * (p - high) \in Int
      BY <1>2, <1>4, StepTimes, p - high \in Int, 0 \in Int
    <2>2. ts64' = ts64 + Step * (p - high)
      BY <1>1, <1>2, <1>3, <2>1, ExtendExact
    <2>3. Step * (p - high) + Step * (high - first) = Step * (p - first)
      BY <1>2, TimeFacts
    <2>4. Raw(first) \in Nat /\ Step * (high - first) \in Int
          /\ Step * (p - first) \in Int
      BY <1>2, RawTypes, TimeFacts
    <2> QED BY <1>2, <2>1, <2>2, <2>3, <2>4 DEF MediaTime
  <1>6. StreamType'
    BY <1>1, <1>2, <1>4, <1>5 DEF StreamType
  <1>7. GapsExact'
    BY <1>1, <1>2, <1>4 DEF GapsExact, StreamType, StreamInv
  <1>8. TimestampExact'
    BY <1>1, <1>2, <1>5 DEF TimestampExact
  <1>9. cycles' = ((high' \div SeqMod) - (first' \div SeqMod)) % CycleMod
    <2> DEFINE P == p \div SeqMod  H == high \div SeqMod  F == first \div SeqMod
    <2>1. P \in Int /\ H \in Int /\ F \in Int
      BY <1>2, SeqSplit, p \in Int, high \in Int, first \in Int
    <2>2. P = H + (IF SeqOf(p) < lastSeq THEN 1 ELSE 0)
      <3>1. p - high < SeqMod
        BY <1>2, <1>3, CircleFacts
      <3> QED BY <1>2, <1>4, <3>1, WrapExact
    <2> HIDE DEF P, H, F
    <2>3. (((H - F) % CycleMod) + 1) % CycleMod = (H - F + 1) % CycleMod
      BY <2>1, ModPlus, TimeFacts, H - F \in Int, 1 \in Int
    <2>4. cycles = (H - F) % CycleMod
      BY <1>2 DEF H, F
    <2>5. cycles' = (P - F) % CycleMod
      <3>1. CASE SeqOf(p) < lastSeq
        <4>1. P - F = H - F + 1
          BY <2>1, <2>2, <3>1
        <4> QED BY <1>1, <2>3, <2>4, <3>1, <4>1
      <3>2. CASE ~(SeqOf(p) < lastSeq)
        BY <1>1, <2>1, <2>2, <2>4, <3>2
      <3> QED BY <3>1, <3>2
    <2> QED BY <1>1, <2>5 DEF P, F
  <1>10. StreamInv'
    <2>1. MediaTime(high)' = Step * (p - first) + Raw(first)
      BY <1>1 DEF MediaTime
    <2> QED BY <1>1, <1>2, <1>4, <1>5, <1>7, <1>8, <1>9, <2>1 DEF StreamInv
  <1> QED BY <1>1, <1>6, <1>10

\* A packet that is not: it is reported with its own media time.
LEMMA OldKeeps ==
    ASSUME StreamType, StreamInv, NEW s \in Sources, NEW p \in Nat,
           InReach(s, p), Observe(s, p), ObserveOld(s, p)
    PROVE  StreamType' /\ StreamInv' /\ init' /\ ssrc' = s /\ p <= high
  <1>1. /\ init /\ s = ssrc /\ UNCHANGED <<view, seqGaps, ssrcResets, first, high, span>>
        /\ duplicates' = duplicates + 1 /\ received' = received + 1 /\ seen' = p
        /\ update'.ts = ExtendTS(Raw(p))
    BY DEF Observe, ObserveOld, Report
  <1>2. /\ high \in Nat /\ first \in Nat /\ lastSeq = SeqOf(high)
        /\ lastTS = Raw(high) /\ ts64 \in Nat /\ first <= high
        /\ ts64 = MediaTime(high)
    BY <1>1 DEF StreamType, StreamInv
  <1>3. /\ p - high < Half(SeqMod) /\ high - p <= Half(SeqMod)
        /\ Step * (p - high) < Half(TsMod) /\ Step * (high - p) <= Half(TsMod)
    BY <1>1 DEF InReach
  <1>4. p <= high
    BY <1>2, <1>3, DistanceExact DEF ObserveOld
  <1>5. TimestampExact'
    <2> DEFINE t == ts64 + Step * (p - high)
    <2>1. ExtendTS(Raw(p)) = IF t < 0 THEN 0 ELSE t
      BY <1>2, <1>3, ExtendExact
    <2>2. Step * (p - high) + Step * (high - first) = Step * (p - first)
      BY <1>2, TimeFacts
    <2>3. Raw(first) \in Nat /\ Step * (high - first) \in Int
          /\ Step * (p - first) \in Int /\ Step * (p - high) \in Int
      BY <1>2, RawTypes, TimeFacts
    <2>4. t = Step * (p - first) + Raw(first)
      BY <1>2, <2>2, <2>3 DEF MediaTime
    <2> QED BY <1>1, <2>1, <2>4 DEF TimestampExact
  <1>6. StreamType'
    BY <1>1 DEF StreamType, view
  <1>7. GapsExact'
    BY <1>1, <1>2 DEF GapsExact, StreamType, StreamInv
  <1>8. StreamInv'
    BY <1>1, <1>2, <1>5, <1>7 DEF StreamInv, view, MediaTime
  <1> QED BY <1>1, <1>4, <1>6, <1>8 DEF view

\* Observe keeps the account, whatever the packet is; only one that is not past
\* the newest of its own source counts as a duplicate.
LEMMA ObserveKeeps ==
    ASSUME StreamType, StreamInv, NEW s \in Sources, NEW p \in Nat,
           InReach(s, p), Observe(s, p)
    PROVE  /\ StreamType' /\ StreamInv' /\ init' /\ ssrc' = s
           /\ s # ssrc \/ p > high => high' = p /\ duplicates' = duplicates
  <1>1. CASE ObserveFirst(s, p) \/ ObserveReset(s, p)
    BY <1>1, BaselineKeeps
  <1>2. CASE ObserveForward(s, p)
    BY <1>2, ForwardKeeps
  <1>3. CASE ObserveOld(s, p)
    <2>1. s = ssrc /\ high \in Nat
      BY <1>3 DEF ObserveOld, StreamType
    <2> QED BY <1>3, <2>1, OldKeeps
  <1> QED BY <1>1, <1>2, <1>3 DEF Observe

-----------------------------------------------------------------------------
(* The path.                                                               *)

\* A packet within reach stays within reach as the stream advances.
LEMMA ReachShrinks ==
    ASSUME NEW q \in Nat, NEW h \in Nat, NEW g \in Nat, g >= h,
           q - h < Half(SeqMod) /\ Step * (q - h) < Half(TsMod)
    PROVE  q - g < Half(SeqMod) /\ Step * (q - g) < Half(TsMod)
  <1>1. q - g < Half(SeqMod)
    BY CircleFacts
  <1>2. q - g <= q - h /\ q - g \in Int /\ q - h \in Int
    OBVIOUS
  <1>3. Step * (q - g) <= Step * (q - h) /\ Step * (q - g) \in Int
        /\ Step * (q - h) \in Int
    BY <1>2, StepTimes
  <1> QED BY <1>1, <1>3, TimeFacts

\* A packet past the newest one and told from it is in reach of the observer.
LEMMA ReachForward ==
    ASSUME NEW q \in Nat, Reach(q), high \in Nat, q > high, NEW s
    PROVE  InReach(s, q)
  <1>1. Step * (high - q) < 0
    BY StepTimes, high - q \in Int, 0 \in Int, high - q < 0
  <1> QED BY <1>1, CircleFacts, TimeFacts DEF Reach, InReach

\* A step that releases a packet or none, followed by process: the observer
\* takes the packet for a new one and stays at the resequencer's last.
LEMMA DrainedKeeps ==
    ASSUME IInv, RInv', Emits, Drained, udp, initialized,
           last = -1 => pc = "drain",
           lastSSRC' = lastSSRC, InHand' => InHand
    PROVE  /\ StreamType' /\ StreamInv' /\ duplicates' = 0
           /\ last' = -1 => UNCHANGED streamVars /\ last = -1 /\ out' = -1
           /\ last' # -1 => Running'
  <1>0. /\ RInv /\ lastSSRC \in Sources /\ duplicates = 0
        /\ lastSSRC # NoSource /\ StreamType /\ StreamInv
        /\ IF last = -1 THEN Fresh ELSE Running
    BY DEF IInv, RInv, PathInv
  <1>1. /\ high \in Nat /\ nextPos \in Nat /\ pos \in Nat /\ pos' = pos
        /\ last < nextPos /\ last \in Nat \cup {-1}
    BY <1>0 DEF RInv, RingType, StreamType, RingInv, Emits
  <1>2. CASE out' = -1 /\ last' = last /\ Occupied' = Occupied /\ slots' = slots
    <2>1. UNCHANGED streamVars
      BY <1>2 DEF Drained
    <2>2. StreamType' /\ StreamInv' /\ duplicates' = 0
      BY <1>0, <2>1 DEF StreamType, StreamInv, streamVars, view, counters,
                        GapsExact, TimestampExact, MediaTime
    <2>3. ASSUME last # -1 PROVE Running'
      BY <1>0, <1>1, <1>2, <2>1, <2>3 DEF Running, Reach, streamVars, view
    <2> QED BY <1>2, <2>1, <2>2, <2>3
  <1>3. CASE \E x \in Occupied : Takes(x)
    <2>1. PICK x \in Occupied : Takes(x)
      BY <1>3
    <2> DEFINE p == slots[x].pos
    <2>2. p \in Nat /\ p >= nextPos
      BY <1>0, WindowAhead
    <2>3. Observe(lastSSRC, p) /\ out' = p /\ last' = p /\ last' # -1
      BY <2>1, <2>2 DEF Takes, Drained
    <2>4. InReach(lastSSRC, p) /\ (lastSSRC # ssrc \/ p > high)
      <3>1. CASE last = -1
        BY <1>0, <3>1 DEF Fresh, InReach
      <3>2. CASE last # -1
        <4>1. Reach(p) /\ high = last
          BY <1>0, <3>2 DEF Running
        <4>2. p > high
          BY <1>1, <2>2, <4>1
        <4> QED BY <1>1, <2>2, <4>1, <4>2, ReachForward
      <3> QED BY <3>1, <3>2
    <2>5. /\ StreamType' /\ StreamInv' /\ init' /\ ssrc' = lastSSRC
          /\ high' = p /\ duplicates' = duplicates
      BY <1>0, <2>2, <2>3, <2>4, ObserveKeeps
    <2>6. ASSUME NEW y \in Occupied' PROVE Reach(slots[y].pos)'
      <3>0. y \in Occupied /\ y # x /\ slots'[y] = slots[y]
        BY <2>1 DEF Takes
      <3>1. CASE last = -1
        <4>1. Occupied = {nextPos % Window}
          BY <1>0, <3>1 DEF Fresh
        <4> QED BY <3>0, <4>1
      <3>2. CASE last # -1
        <4>1. Reach(slots[y].pos) /\ high = last /\ slots[y].pos \in Nat
          BY <1>0, <3>0, <3>2, WindowAhead DEF Running
        <4>2. p >= high
          BY <1>1, <2>2, <4>1
        <4>3. /\ slots[y].pos - p < Half(SeqMod)
              /\ Step * (slots[y].pos - p) < Half(TsMod)
          BY <1>1, <2>2, <4>1, <4>2, ReachShrinks DEF Reach
        <4> QED BY <2>5, <3>0, <4>3 DEF Reach
      <3> QED BY <3>1, <3>2
    <2>7. ASSUME InHand' PROVE Reach(pos)'
      <3>1. last # -1
        BY <2>7 DEF InHand
      <3>2. Reach(pos) /\ high = last
        BY <1>0, <2>7, <3>1 DEF Running
      <3>3. p >= high
        BY <1>1, <2>2, <3>2
      <3>4. pos - p < Half(SeqMod) /\ Step * (pos - p) < Half(TsMod)
        BY <1>1, <2>2, <3>2, <3>3, ReachShrinks DEF Reach
      <3> QED BY <1>1, <2>5, <3>4 DEF Reach
    <2>8. Running'
      BY <2>3, <2>5, <2>6, <2>7 DEF Running
    <2> QED BY <1>0, <2>3, <2>5, <2>8
  <1> QED BY <1>2, <1>3 DEF Emits

\* A step that leaves the stream alone keeps its invariant.
LEMMA StreamUnchanged ==
    ASSUME StreamType, StreamInv, UNCHANGED streamVars
    PROVE  StreamType' /\ StreamInv'
  BY DEF StreamType, StreamInv, streamVars, view, counters, GapsExact,
         TimestampExact, MediaTime

\* The path starts in the invariant.
LEMMA InitPath == PathInit => IInv
  <1> SUFFICES ASSUME PathInit PROVE IInv
    OBVIOUS
  <1>1. RInv
    BY InitRing DEF PathInit
  <1>2. StreamType /\ StreamInv
    <2>1. {ts64, received, seqGaps, duplicates, ssrcResets, first, high, span,
           seen} \subseteq Nat
      BY DEF PathInit, StreamInit
    <2>2. init = FALSE /\ StreamInv
      BY DEF PathInit, StreamInit, StreamInv
    <2> QED BY <2>1, <2>2 DEF StreamType
  <1>3. PathInv
    BY DEF PathInit, Init, StreamInit, PathInv, Fresh
  <1> QED BY <1>1, <1>2, <1>3 DEF IInv, RInv

\* A packet over TCP keeps it.
LEMMA TcpKeeps ==
    ASSUME IInv, NEW s \in Sources, NEW p \in 0 .. MaxPos, TcpPacket(s, p)
    PROVE  IInv'
  <1>1. UNCHANGED <<vars, udp, lastSSRC, coming>> /\ ~udp /\ p \in Nat
    BY CircleAssumption DEF TcpPacket
  <1>2. StreamType' /\ StreamInv'
    BY <1>1, ObserveKeeps DEF TcpPacket, IInv
  <1>3. Occupied' = Occupied
    BY <1>1 DEF Occupied, vars, ring
  <1>4. RInv'
    BY <1>1, <1>3 DEF IInv, RInv, RingType, RingInv, Counts, InHand, vars, ring, ghosts
  <1>5. PathInv'
    BY <1>1 DEF IInv, PathInv, vars, ring
  <1> QED BY <1>2, <1>4, <1>5 DEF IInv, RInv

\* A datagram keeps it.
LEMMA UdpKeeps ==
    ASSUME IInv, NEW s \in Sources, NEW p \in 0 .. MaxPos, UdpPacket(s, p)
    PROVE  IInv'
  <1>0. p \in Nat /\ RInv /\ udp /\ StreamType /\ StreamInv /\ duplicates = 0 /\ pc = "ready"
        /\ IF last = -1 THEN Fresh ELSE Running
    BY CircleAssumption DEF IInv, RInv, UdpPacket, Push, PathInv
  <1>1. /\ RInv'
        /\ out' = -1 /\ last' = last /\ pos' = p /\ initialized'
        /\ slots' = slots /\ Occupied' = Occupied
        /\ initialized => nextPos' = nextPos
        /\ ~initialized => nextPos' = p /\ pc' = "insert"
        /\ pc' \in {"ready", "force", "insert"}
    BY <1>0, PushRing DEF UdpPacket
  <1>2. UNCHANGED streamVars /\ udp' = udp /\ coming' = coming /\ coming = NoSource
        /\ lastSSRC' = s /\ lastSSRC \in {s, NoSource} /\ s # NoSource
    BY <1>1, TimeFacts DEF UdpPacket, Drained
  <1>3. StreamType' /\ StreamInv'
    BY <1>0, <1>2, StreamUnchanged
  <1>4. CASE last = -1
    <2>1. ~initialized /\ Occupied = {}
      BY <1>0, <1>4 DEF Fresh, RInv, RingInv
    <2>2. ssrc # s
      BY <1>0, <1>2, <1>4, <2>1 DEF Fresh, StreamInv
    <2>3. Fresh'
      BY <1>1, <1>2, <2>1, <2>2 DEF Fresh, streamVars, view
    <2> QED BY <1>0, <1>1, <1>2, <1>3, <1>4, <2>3 DEF IInv, RInv, PathInv, streamVars, counters
  <1>5. CASE last # -1
    <2>1. initialized /\ lastSSRC = s
      BY <1>0, <1>2, <1>5 DEF RInv, RingInv, IInv, PathInv
    <2>2. ssrc = s /\ high \in Nat
      BY <1>0, <1>5, <2>1 DEF Running, StreamType
    <2>3. Reach(p)
      BY <2>2 DEF UdpPacket, InReach, Reach
    <2>4. Running'
      BY <1>0, <1>1, <1>2, <1>5, <2>1, <2>3 DEF Running, Reach, streamVars, view
    <2> QED BY <1>0, <1>1, <1>2, <1>3, <1>5, <2>4 DEF IInv, RInv, PathInv, streamVars, counters
  <1> QED BY <1>4, <1>5

\* A change of source keeps it.
LEMMA SwitchPreserves ==
    ASSUME IInv, (\E s \in Sources : SwitchFlush(s)) \/ SwitchReset
    PROVE  IInv'
  <1>a. UNCHANGED <<streamVars, udp>>
    BY DEF SwitchFlush, SwitchReset
  <1>0. /\ RInv /\ StreamType /\ StreamInv /\ StreamType' /\ StreamInv' /\ PathInv
    BY <1>a, StreamUnchanged DEF IInv, RInv
  <1>1. CASE \E s \in Sources : SwitchFlush(s)
    <2>1. PICK s \in Sources : SwitchFlush(s)
      BY <1>1
    <2>2. /\ RInv' /\ pc = "ready" /\ pc' = "flush" /\ pos' = pos /\ out' = -1
          /\ UNCHANGED <<slots, last, initialized, nextPos>> /\ Occupied' = Occupied
      BY <1>0, <1>a, <2>1, FlushRing DEF SwitchFlush
    <2>3. last # -1 /\ initialized /\ udp /\ Running
      BY <1>0, <1>a, <2>1, <2>2 DEF PathInv, Fresh, SwitchFlush
    <2>4. Running'
      BY <1>0, <1>a, <2>1, <2>2, <2>3 DEF Running, Reach, InHand, streamVars, view, SwitchFlush
    <2>5. PathInv'
      BY <1>0, <1>a, <2>1, <2>2, <2>3, <2>4 DEF PathInv, SwitchFlush, streamVars, counters
    <2> QED BY <1>0, <1>a, <2>2, <2>5 DEF IInv, RInv
  <1>2. CASE SwitchReset
    <2>1. RInv' /\ pc = "ready" /\ pc' = pc /\ last' = -1 /\ ~initialized' /\ out' = -1
      BY <1>0, <1>a, <1>2, ResetRing DEF SwitchReset
    <2>2. last # -1 /\ Running /\ lastSSRC' = coming /\ coming # NoSource
          /\ coming' = NoSource /\ coming # lastSSRC /\ coming \in Sources /\ udp
      BY <1>0, <1>a, <1>2, <2>1 DEF PathInv, Fresh, SwitchReset
    <2>3. Fresh'
      BY <1>0, <1>a, <2>1, <2>2 DEF Fresh, Running, streamVars, view
    <2>4. PathInv'
      BY <1>0, <1>a, <2>1, <2>2, <2>3 DEF PathInv, streamVars, counters
    <2> QED BY <1>0, <1>a, <2>1, <2>4 DEF IInv, RInv
  <1> QED BY <1>1, <1>2

\* A step of the resequencer keeps it.
LEMMA RingStepKeeps ==
    ASSUME IInv, RingStep
    PROVE  IInv'
  <1>0. /\ RInv /\ StreamType /\ StreamInv /\ PathInv
        /\ UNCHANGED <<udp, lastSSRC, coming>> /\ Drained
    BY DEF IInv, RInv, RingStep
  <1>1. pc # "ready" /\ udp /\ initialized /\ duplicates = 0
        /\ IF last = -1 THEN Fresh ELSE Running
    BY <1>0 DEF RingStep, Loop, ForceRelease, Insert, Drain, FlushStep, FlushEnd,
                PathInv, RInv, RingInv
  <1>2. CASE ForceRelease
    <2>1. RInv' /\ Emits /\ pc' \in {"force", "insert"} /\ pc = "force"
      BY <1>0, <1>2, ForceRing DEF ForceRelease
    <2>2. last # -1 /\ InHand
      BY <1>1, <2>1 DEF Fresh, InHand
    <2>3. /\ StreamType' /\ StreamInv' /\ duplicates' = 0
          /\ last' = -1 => last = -1
          /\ last' # -1 => Running'
      BY <1>0, <1>1, <2>1, <2>2, DrainedKeeps
    <2>4. PathInv'
      BY <1>0, <1>1, <2>1, <2>2, <2>3 DEF PathInv, Emits
    <2> QED BY <2>1, <2>3, <2>4 DEF IInv, RInv
  <1>3. CASE Insert
    <2>1. /\ RInv' /\ out' = -1 /\ last' = last /\ nextPos' = nextPos
          /\ initialized' = initialized /\ pos' = pos /\ pc = "insert"
          /\ \/ pc' = "ready" /\ slots' = slots /\ Occupied' = Occupied
                /\ pos % Window \in Occupied
             \/ /\ pc' = "drain" /\ Occupied' = Occupied \cup {pos % Window}
                /\ pos % Window \notin Occupied
                /\ slots'[pos % Window].pos = pos
                /\ \A x \in Occupied : slots'[x] = slots[x]
      BY <1>0, <1>3, InsertRing DEF Insert
    <2>2. UNCHANGED streamVars
      BY <1>0, <2>1 DEF Drained
    <2>3. StreamType' /\ StreamInv'
      BY <1>0, <2>2, StreamUnchanged
    <2>4. ASSUME last = -1 PROVE Fresh'
      BY <1>0, <1>1, <2>1, <2>2, <2>4 DEF Fresh, streamVars, view
    <2>5. ASSUME last # -1 PROVE Running'
      <3>1. InHand /\ ~InHand'
        BY <2>1 DEF InHand
      <3>2. Reach(pos) /\ \A x \in Occupied : Reach(slots[x].pos)
        BY <1>1, <2>5, <3>1 DEF Running
      <3>3. \A x \in Occupied' : slots'[x].pos = pos \/ (x \in Occupied /\ slots'[x] = slots[x])
        BY <2>1
      <3>4. \A x \in Occupied' : Reach(slots[x].pos)'
        BY <2>2, <3>2, <3>3 DEF Reach, streamVars
      <3> QED BY <1>0, <1>1, <2>1, <2>2, <2>5, <3>1, <3>4 DEF Running, streamVars, view
    <2>6. PathInv'
      BY <1>0, <1>1, <2>1, <2>2, <2>4, <2>5 DEF PathInv, streamVars, counters
    <2> QED BY <2>1, <2>3, <2>6 DEF IInv, RInv
  <1>4. CASE Drain
    <2>1. /\ RInv' /\ Emits /\ pc = "drain" /\ ~InHand'
          /\ \/ pc' = "drain"
             \/ pc' = "ready" /\ out' = -1 /\ nextPos % Window \notin Occupied
      BY <1>0, <1>4, DrainRing DEF Drain, InHand
    <2>2. /\ StreamType' /\ StreamInv' /\ duplicates' = 0
          /\ last' = -1 => UNCHANGED streamVars /\ last = -1 /\ out' = -1
          /\ last' # -1 => Running'
      BY <1>0, <1>1, <2>1, DrainedKeeps
    <2>3. last' # -1
      <3> SUFFICES ASSUME last' = -1 PROVE FALSE
        OBVIOUS
      <3>1. nextPos % Window \in Occupied /\ out' = -1
        BY <1>1, <2>1, <2>2 DEF Fresh
      <3>2. nextSeq % Window = nextPos % Window
        BY <1>0, SlotOfPosition DEF RInv, RingInv, RingType
      <3>3. Slot(nextSeq).present
        BY <3>1, <3>2 DEF Slot, Occupied
      <3>4. out' = slots[nextPos % Window].pos
        BY <1>4, <3>2, <3>3 DEF Drain, Release, Slot
      <3>5. slots[nextPos % Window].pos \in Nat
        BY <1>0, <3>1, WindowAhead
      <3> QED BY <3>1, <3>4, <3>5
    <2>4. PathInv'
      BY <1>0, <1>1, <2>1, <2>2, <2>3 DEF PathInv, Emits
    <2> QED BY <2>1, <2>2, <2>4 DEF IInv, RInv
  <1>5. CASE FlushStep
    <2>1. RInv' /\ Emits /\ pc = "flush" /\ pc' = "flush"
      BY <1>0, <1>5, FlushStepRing
    <2>2. last # -1 /\ ~InHand'
      BY <1>1, <2>1 DEF Fresh, InHand
    <2>3. /\ StreamType' /\ StreamInv' /\ duplicates' = 0
          /\ last' = -1 => last = -1
          /\ last' # -1 => Running'
      BY <1>0, <1>1, <2>1, <2>2, DrainedKeeps
    <2>4. PathInv'
      BY <1>0, <1>1, <2>1, <2>2, <2>3 DEF PathInv, Emits
    <2> QED BY <2>1, <2>3, <2>4 DEF IInv, RInv
  <1>6. CASE FlushEnd
    <2>1. /\ RInv' /\ pc = "flush" /\ pc' = "ready" /\ pos' = pos /\ out' = -1
          /\ UNCHANGED <<slots, last, initialized, nextPos>> /\ Occupied' = Occupied
      BY <1>0, <1>6, FlushEndRing
    <2>2. UNCHANGED streamVars
      BY <1>0, <2>1 DEF Drained
    <2>3. StreamType' /\ StreamInv'
      BY <1>0, <2>2, StreamUnchanged
    <2>4. last # -1 /\ ~InHand'
      BY <1>1, <2>1 DEF Fresh, InHand
    <2>5. Running'
      BY <1>0, <1>1, <2>1, <2>2, <2>4 DEF Running, Reach, streamVars, view
    <2>6. PathInv'
      BY <1>0, <1>1, <2>1, <2>2, <2>4, <2>5 DEF PathInv, streamVars, counters
    <2> QED BY <2>1, <2>3, <2>6 DEF IInv, RInv
  <1> QED BY <1>2, <1>3, <1>4, <1>5, <1>6 DEF RingStep, Loop

\* Nothing happening keeps it.
LEMMA StutterKeeps ==
    ASSUME IInv, UNCHANGED pathVars
    PROVE  IInv'
  <1>1. UNCHANGED <<vars, streamVars, udp, lastSSRC, coming>>
    BY DEF pathVars
  <1>2. StreamType' /\ StreamInv'
    BY <1>1, StreamUnchanged DEF IInv
  <1>3. Occupied' = Occupied
    BY <1>1 DEF Occupied, vars, ring
  <1>4. RInv'
    BY <1>1, <1>3 DEF IInv, RInv, RingType, RingInv, Counts, InHand, vars, ring, ghosts
  <1>5. PathInv'
    BY <1>1, <1>3 DEF IInv, PathInv, Fresh, Running, Reach, InHand, vars, ring, ghosts,
                      streamVars, view, counters
  <1> QED BY <1>2, <1>4, <1>5 DEF IInv, RInv

\* The inductive invariant of the path holds in every reachable state.
LEMMA PathInvariant == PathSpec => []IInv
  <1>1. PathInit => IInv
    BY InitPath
  <1>2. IInv /\ [PathNext]_pathVars => IInv'
    BY TcpKeeps, UdpKeeps, SwitchPreserves, RingStepKeeps, StutterKeeps DEF PathNext
  <1> QED BY <1>1, <1>2, PTL DEF PathSpec

-----------------------------------------------------------------------------
(* Theorems.                                                               *)

\* Stats of the resequencer add up on every path a packet can take through
\* Push and Flush, whatever the network loses, repeats and reorders: buffered
\* counts the occupied slots, a packet pushed is released, late or buffered
\* exactly once, and a position passed is released, forced or flushed over.
THEOREM ReordererConserves == PathSpec => []Conservation
  <1>1. IInv => Conservation
    BY DEF IInv, Counts, Conservation, Occupied, Slots, InHand, RingType
  <1> QED BY <1>1, PathInvariant, PTL

\* Observe tells the truth: the extended highest sequence number, the gaps and
\* the extended timestamps are those of the sender's stream, across every wrap
\* of the three circles and every change of source, over UDP and over TCP.
THEOREM ObserverExact == PathSpec => []AccountingExact
  <1>1. IInv => AccountingExact
    BY AccountingHolds DEF IInv
  <1> QED BY <1>1, PathInvariant, PTL

\* drainReleased: behind the resequencer no packet is ever taken for an old
\* one, and the newest packet observed is the one released last.
THEOREM ResequencedInOrder == PathSpec => []FedInOrder
  <1>1. IInv => FedInOrder
    BY DEF IInv, PathInv, Running, FedInOrder
  <1> QED BY <1>1, PathInvariant, PTL
=============================================================================
