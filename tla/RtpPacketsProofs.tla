-------------------------- MODULE RtpPacketsProofs --------------------------
(***************************************************************************)
(* Lemmas about the operators of RtpPackets, for every window and every    *)
(* cutting of the stream into units: what the resequencer releases, and    *)
(* what the depacketizers keep and complete.                               *)
(***************************************************************************)
EXTENDS RtpPackets, FunctionTheorems, FiniteSetTheorems, SequenceTheorems,
        WellFoundedInduction, TLAPS

\* A set of packets no two of which have the same position.
Slots(pkts) ==
    /\ IsFiniteSet(pkts)
    /\ \A p \in pkts : p.pos \in Positions
    /\ \A p, q \in pkts : p.pos = q.pos => p = q

\* Positions are naturals.
LEMMA MaxPosType == MaxPos \in Nat
  BY UnitsAssumption, LenProperties DEF MaxPos

\* InOrder enumerates such a set by increasing position: by counting, every
\* rank from 1 to the size of the set is the rank of one packet.
LEMMA InOrderEnumerates ==
  ASSUME NEW pkts, Slots(pkts)
  PROVE  /\ InOrder(pkts) \in Seq(pkts)
         /\ Len(InOrder(pkts)) = Cardinality(pkts)
         /\ \A i, j \in 1 .. Len(InOrder(pkts)) :
               i < j => InOrder(pkts)[i].pos < InOrder(pkts)[j].pos
  <1> DEFINE n == Cardinality(pkts)
             upto(p) == {q \in pkts : q.pos <= p.pos}
             rank == [p \in pkts |-> Cardinality(upto(p))]
  <1>1. n \in Nat /\ \A p \in pkts : p.pos \in Nat
    BY FS_CardinalityType, MaxPosType DEF Slots, Positions
  <1>2. \A p \in pkts : IsFiniteSet(upto(p)) /\ Cardinality(upto(p)) \in 1 .. n
    <2>1. SUFFICES ASSUME NEW p \in pkts
                   PROVE  IsFiniteSet(upto(p)) /\ Cardinality(upto(p)) \in 1 .. n
      OBVIOUS
    <2>2. IsFiniteSet(upto(p)) /\ Cardinality(upto(p)) <= n
      BY FS_Subset DEF Slots
    <2>3. p \in upto(p)
      BY <1>1
    <2>4. Cardinality(upto(p)) \in Nat /\ Cardinality(upto(p)) # 0
      BY <2>2, <2>3, FS_CardinalityType, FS_EmptySet
    <2> QED BY <1>1, <2>2, <2>4
  <1>3. ASSUME NEW p \in pkts, NEW q \in pkts, p.pos < q.pos
        PROVE  rank[p] < rank[q]
    <2>1. upto(p) \subseteq upto(q) /\ q \in upto(q) /\ q \notin upto(p)
      BY <1>1, <1>3
    <2>2. Cardinality(upto(p)) <= Cardinality(upto(q))
          /\ Cardinality(upto(q)) # Cardinality(upto(p))
      BY <1>2, <2>1, FS_Subset
    <2>3. Cardinality(upto(p)) \in Nat /\ Cardinality(upto(q)) \in Nat
      BY <1>1, <1>2
    <2>4. Cardinality(upto(p)) < Cardinality(upto(q))
      BY <2>2, <2>3
    <2> QED BY <2>4
  <1>4. rank \in Injection(pkts, 1 .. n)
    <2>1. rank \in [pkts -> 1 .. n]
      BY <1>2
    <2>2. ASSUME NEW p \in pkts, NEW q \in pkts, p # q
          PROVE  rank[p] # rank[q]
      <3>1. p.pos # q.pos
        BY <2>2 DEF Slots
      <3>2. p.pos < q.pos \/ q.pos < p.pos
        BY <1>1, <3>1
      <3>3. rank[p] \in Nat /\ rank[q] \in Nat
        BY <1>2
      <3> QED BY <1>3, <3>2, <3>3
    <2> QED BY <2>1, <2>2 DEF Injection, IsInjective
  <1>5. rank \in Surjection(pkts, 1 .. n)
    <2>1. IsFiniteSet(1 .. n) /\ Cardinality(1 .. n) = n
      BY <1>1, FS_Interval
    <2> QED BY <1>4, <2>1, FS_Injection
  <1>6. \A i \in 1 .. n : \E p \in pkts : Cardinality(upto(p)) = i
    BY <1>5 DEF Surjection
  <1>7. \A i \in 1 .. n : InOrder(pkts)[i] \in pkts
                          /\ rank[InOrder(pkts)[i]] = i
    <2>1. SUFFICES ASSUME NEW i \in 1 .. n
                   PROVE  InOrder(pkts)[i] \in pkts /\ rank[InOrder(pkts)[i]] = i
      OBVIOUS
    <2>2. InOrder(pkts)[i] = CHOOSE p \in pkts : Cardinality(upto(p)) = i
      BY DEF InOrder
    <2> QED BY <1>6, <2>2
  <1>8. InOrder(pkts) \in Seq(pkts) /\ Len(InOrder(pkts)) = n
    <2>1. InOrder(pkts) \in [1 .. n -> pkts]
      BY <1>7 DEF InOrder
    <2> QED BY <1>1, <2>1, SeqDef, LenProperties
  <1>9. ASSUME NEW i \in 1 .. n, NEW j \in 1 .. n, i < j
        PROVE  InOrder(pkts)[i].pos < InOrder(pkts)[j].pos
    <2> DEFINE p == InOrder(pkts)[i]
               q == InOrder(pkts)[j]
    <2>1. p \in pkts /\ q \in pkts /\ rank[p] = i /\ rank[q] = j
      BY <1>7
    <2>2. p # q
      BY <1>1, <1>9, <2>1
    <2>3. ~(q.pos < p.pos)
      <3>1. ~(rank[q] < rank[p])
        BY <1>1, <1>9, <2>1
      <3> QED BY <1>3, <2>1, <3>1
    <2> QED BY <1>1, <2>1, <2>2, <2>3 DEF Slots
  <1> QED BY <1>8, <1>9

\* Every nonempty set of positions has a first one.
LEMMA Least ==
  ASSUME NEW S \in SUBSET Nat, S # {}
  PROVE  \E n \in S : \A m \in S : n <= m
  <1>1. PICK n \in S : \A m \in S : ~ (<<m, n>> \in OpToRel(<, Nat))
    BY NatLessThanWellFounded, WFMin
  <1>2. ASSUME NEW m \in S
        PROVE  n <= m
    <2>1. m \in Nat /\ n \in Nat
      OBVIOUS
    <2>2. ~ (m < n)
      BY <1>1, <2>1 DEF OpToRel
    <2> QED BY <2>1, <2>2
  <1> QED BY <1>2

-----------------------------------------------------------------------------
(* Units.                                                                  *)

\* A position has a unit, and the next position has that unit or the next one.
LEMMA UnitType ==
  ASSUME NEW p \in Positions
  PROVE  /\ p \in Nat /\ UnitOf(p) \in Nat
         /\ p + 1 \in Positions => UnitOf(p + 1) \in {UnitOf(p), UnitOf(p) + 1}
  <1>1. p \in Nat /\ p + 1 \in 1 .. Len(Units) /\ Len(Units) \in Nat
    BY UnitsAssumption, LenProperties DEF Positions, MaxPos
  <1>2. Units[p + 1] \in Nat
    BY <1>1, UnitsAssumption, ElementOfSeq
  <1>3. p + 1 \in Positions => p + 1 \in 1 .. Len(Units) - 1 /\ (p + 1) + 1 = p + 2
    BY <1>1, UnitsAssumption DEF Positions, MaxPos
  <1> QED BY <1>1, <1>2, <1>3, UnitsAssumption DEF UnitOf

\* Units follow each other in the order of the stream.
LEMMA UnitMonotone ==
  ASSUME NEW p \in Positions, NEW q \in Positions, p <= q
  PROVE  UnitOf(p) <= UnitOf(q)
  <1> DEFINE S == {x \in Positions : p <= x /\ UnitOf(x) < UnitOf(p)}
  <1>1. SUFFICES ASSUME S # {} PROVE FALSE
    BY UnitType
  <1>2. S \in SUBSET Nat
    BY MaxPosType DEF Positions
  <1>3. PICK x \in S : \A y \in S : x <= y
    BY <1>1, <1>2, Least
  <1>4. x \in Positions /\ x \in Nat /\ p \in Nat /\ p <= x /\ UnitOf(x) < UnitOf(p)
    BY <1>3, UnitType
  <1>5. x # p
    BY <1>4, UnitType
  <1>6. x - 1 \in Positions /\ p <= x - 1 /\ (x - 1) + 1 = x
    BY <1>4, <1>5, MaxPosType DEF Positions
  <1>7. UnitOf(x - 1) <= UnitOf(x) /\ UnitOf(x - 1) \in Nat /\ UnitOf(x) \in Nat
    BY <1>4, <1>6, UnitType
  <1>8. x - 1 \in S
    BY <1>4, <1>6, <1>7, UnitType
  <1> QED BY <1>3, <1>4, <1>8

\* A unit has finitely many fragments, and a fragment is one of them.
LEMMA FragmentsFinite ==
  ASSUME NEW p
  PROVE  /\ IsFiniteSet(Fragments(p)) /\ Parts(p) \in Nat /\ Part(p) \in Nat
         /\ Part(p) <= Parts(p)
  <1>1. IsFiniteSet(Positions)
    BY MaxPosType, FS_Interval DEF Positions
  <1>2. IsFiniteSet(Fragments(p))
    BY <1>1, FS_Subset DEF Fragments
  <1>3. {q \in Fragments(p) : q <= p} \in SUBSET Fragments(p)
    OBVIOUS
  <1> QED BY <1>2, <1>3, FS_Subset, FS_CardinalityType DEF Parts, Part

\* The marker is on the last packet of a unit and on no other.
LEMMA UnmarkedContinues ==
  ASSUME NEW p \in Positions, ~Marker(p)
  PROVE  p + 1 \in Positions => UnitOf(p + 1) = UnitOf(p)
  <1> SUFFICES ASSUME p + 1 \in Positions, UnitOf(p + 1) # UnitOf(p) PROVE FALSE
    OBVIOUS
  <1>1. UnitOf(p + 1) = UnitOf(p) + 1 /\ UnitOf(p) \in Nat /\ p \in Nat
    BY UnitType
  <1>2. ASSUME NEW q \in Fragments(p)
        PROVE  q <= p
    <2>1. q \in Positions /\ q \in Nat /\ UnitOf(q) = UnitOf(p)
      BY UnitType DEF Fragments
    <2>2. p + 1 <= q => UnitOf(p + 1) <= UnitOf(q)
      BY <2>1, UnitMonotone
    <2> QED BY <1>1, <2>1, <2>2
  <1>3. {q \in Fragments(p) : q <= p} = Fragments(p)
    BY <1>2
  <1> QED BY <1>3 DEF Marker, Part, Parts

\* Fragments are numbered in the order of the stream, without holes.
LEMMA PartNext ==
  ASSUME NEW p \in Positions, NEW q \in Positions, UnitOf(p) = UnitOf(q),
         Part(q) = Part(p) + 1
  PROVE  q = p + 1
  <1> DEFINE upto(x) == {y \in Fragments(p) : y <= x}
  <1>1. Fragments(q) = Fragments(p) /\ Part(q) = Cardinality(upto(q))
        /\ Part(p) = Cardinality(upto(p))
    BY DEF Fragments, Part
  <1>2. p \in Nat /\ q \in Nat /\ \A x \in Fragments(p) : x \in Nat
    BY UnitType DEF Fragments
  <1>3. ASSUME NEW x \in Nat
        PROVE  IsFiniteSet(upto(x)) /\ Cardinality(upto(x)) \in Nat
    BY FragmentsFinite, FS_Subset, FS_CardinalityType
  <1>4. ASSUME NEW x \in Nat, NEW y \in Nat, x <= y
        PROVE  /\ Cardinality(upto(x)) <= Cardinality(upto(y))
               /\ y \in Fragments(p) /\ x < y => Cardinality(upto(x)) < Cardinality(upto(y))
    <2>1. upto(x) \subseteq upto(y)
      BY <1>2, <1>4
    <2>2. y \in Fragments(p) /\ x < y => y \in upto(y) /\ y \notin upto(x)
      BY <1>2, <1>4
    <2>3. /\ Cardinality(upto(x)) <= Cardinality(upto(y))
          /\ Cardinality(upto(y)) = Cardinality(upto(x)) => upto(y) = upto(x)
      BY <1>3, <2>1, FS_Subset
    <2>4. Cardinality(upto(x)) \in Nat /\ Cardinality(upto(y)) \in Nat
      BY <1>3
    <2>5. y \in Fragments(p) /\ x < y => upto(y) # upto(x)
      BY <2>2
    <2> HIDE DEF upto
    <2> QED BY <2>3, <2>4, <2>5
  <1>5. Cardinality(upto(p)) \in Nat /\ Cardinality(upto(q)) = Cardinality(upto(p)) + 1
    BY <1>1, <1>2, <1>3
  <1> HIDE DEF upto
  <1>6. p < q
    <2>1. q <= p => Cardinality(upto(q)) <= Cardinality(upto(p))
      BY <1>2, <1>4
    <2> QED BY <1>2, <1>5, <2>1
  <1>7. ASSUME p + 1 < q
        PROVE  FALSE
    <2>1. p + 1 \in Positions /\ p + 1 \in Nat /\ p <= p + 1 /\ p + 1 <= q
      BY <1>2, <1>7, MaxPosType DEF Positions
    <2>2. UnitOf(p) <= UnitOf(p + 1) /\ UnitOf(p + 1) <= UnitOf(q)
      BY <2>1, UnitMonotone
    <2>3. UnitOf(p) \in Nat /\ UnitOf(p + 1) \in Nat /\ UnitOf(q) \in Nat
      BY <2>1, UnitType
    <2>4. p + 1 \in Fragments(p) /\ q \in Fragments(p)
      BY <2>1, <2>2, <2>3 DEF Fragments
    <2>5. /\ Cardinality(upto(p)) < Cardinality(upto(p + 1))
          /\ Cardinality(upto(p + 1)) < Cardinality(upto(q))
      BY <1>2, <1>4, <1>7, <2>1, <2>4
    <2>6. Cardinality(upto(p + 1)) \in Nat
      BY <1>3, <2>1
    <2> QED BY <1>5, <2>5, <2>6
  <1> QED BY <1>2, <1>6, <1>7

-----------------------------------------------------------------------------
(* The depacketizers.                                                      *)

\* Fragments under reassembly: consecutive packets of one source and of one
\* unit, the last of them the packet at high, without a marker on it.
Run(f, src, high) ==
    /\ \A i \in 1 .. Len(f) :
          /\ f[i].src = src
          /\ f[i].pos = high + i - Len(f)
          /\ UnitOf(f[i].pos) = UnitOf(high)
    /\ f # <<>> => ~Marker(high)

\* A packet that continues a run extends it: same source, next position.
LEMMA RunExtends ==
  ASSUME NEW S, NEW f \in Seq(S), NEW pkt \in S,
         pkt.pos \in Positions, NEW high \in Positions,
         Run(f, pkt.src, high), f # <<>> => pkt.pos = high + 1
  PROVE  /\ Append(f, pkt) \in Seq(S) /\ Append(f, pkt) # <<>>
         /\ Last(Append(f, pkt)) = pkt
         /\ \A i \in 1 .. Len(Append(f, pkt)) :
               /\ Append(f, pkt)[i].src = pkt.src
               /\ Append(f, pkt)[i].pos = pkt.pos + i - Len(Append(f, pkt))
               /\ UnitOf(Append(f, pkt)[i].pos) = UnitOf(pkt.pos)
  <1> DEFINE g == Append(f, pkt)
  <1>1. g \in Seq(S) /\ Len(g) = Len(f) + 1 /\ Len(f) \in Nat
        /\ g[Len(f) + 1] = pkt /\ \A i \in 1 .. Len(f) : g[i] = f[i]
    BY AppendProperties, LenProperties
  <1>2. high \in Nat /\ pkt.pos \in Nat
    BY UnitType
  <1>3. f # <<>> => UnitOf(pkt.pos) = UnitOf(high)
    BY UnmarkedContinues DEF Run
  <1>4. Last(g) = pkt /\ g # <<>>
    BY <1>1, EmptySeq DEF Last
  <1>5. ASSUME NEW i \in 1 .. Len(g)
        PROVE  /\ g[i].src = pkt.src
               /\ g[i].pos = pkt.pos + i - Len(g)
               /\ UnitOf(g[i].pos) = UnitOf(pkt.pos)
    <2>1. CASE i = Len(g)
      BY <1>1, <1>2, <2>1
    <2>2. CASE i # Len(g)
      <3>1. i \in 1 .. Len(f) /\ g[i] = f[i] /\ f # <<>>
        BY <1>1, <2>2, EmptySeq
      <3> QED BY <1>1, <1>2, <1>3, <3>1 DEF Run
    <2> QED BY <2>1, <2>2
  <1> QED BY <1>1, <1>4, <1>5

\* A run that ends in its marker, whole where the codec demands it, is a unit.
LEMMA RunUnspliced ==
  ASSUME NEW S, NEW g \in Seq(S), NEW pkt \in S, NEW codec,
         pkt.pos \in Positions, g # <<>>, Last(g) = pkt,
         \A i \in 1 .. Len(g) :
            /\ g[i].src = pkt.src
            /\ g[i].pos = pkt.pos + i - Len(g)
            /\ UnitOf(g[i].pos) = UnitOf(pkt.pos),
         codec \in {"aac", "flac", "mp3"} => Marker(pkt.pos),
         codec \in {"aac", "mp3"} => Len(g) = Parts(pkt.pos)
  PROVE  Unspliced(g, codec)
  <1>1. Len(g) \in Nat /\ pkt.pos \in Nat
    BY LenProperties, UnitType
  <1>2. ASSUME NEW i \in 1 .. Len(g) - 1
        PROVE  /\ g[i].src = g[i + 1].src
               /\ g[i].pos + 1 = g[i + 1].pos
               /\ UnitOf(g[i].pos) = UnitOf(g[i + 1].pos)
    <2>1. i \in 1 .. Len(g) /\ i + 1 \in 1 .. Len(g)
      BY <1>1
    <2> QED BY <1>1, <2>1
  <1> QED BY <1>2 DEF Unspliced

\* What a depacketizer makes of a packet: it keeps a run that ends with the
\* packet, and completes nothing but an unspliced unit that ends with it.
Sound(d, pkt, S, codec) ==
    /\ d.frag \in Seq(S) /\ Run(d.frag, pkt.src, pkt.pos)
    /\ d.unit \in Seq(S) /\ Unspliced(d.unit, codec)
    /\ d.unit # <<>> => Last(d.unit) = pkt

\* A packet that is refused leaves nothing behind.
LEMMA BadSound ==
  ASSUME NEW S, NEW pkt, NEW codec
  PROVE  Sound(Bad, pkt, S, codec)
  BY EmptySeq DEF Sound, Bad, Run, Unspliced

\* A packet that is a unit by itself.
LEMMA SingleSound ==
  ASSUME NEW S, NEW pkt \in S, NEW codec, NEW d,
         d.frag = <<>>, d.unit = <<pkt>>,
         codec \in {"aac", "flac", "mp3"} => Marker(pkt.pos),
         codec \in {"aac", "mp3"} => Parts(pkt.pos) = 1
  PROVE  Sound(d, pkt, S, codec)
  <1>1. d.unit \in Seq(S) /\ Len(d.unit) = 1 /\ Last(d.unit) = pkt
    BY DEF Last
  <1>2. Unspliced(d.unit, codec)
    BY <1>1 DEF Unspliced
  <1>3. d.frag \in Seq(S) /\ Run(d.frag, pkt.src, pkt.pos)
    BY EmptySeq DEF Run
  <1> QED BY <1>1, <1>2, <1>3 DEF Sound

\* A packet appended to the run it continues, kept or completed.
LEMMA AppendSound ==
  ASSUME NEW S, NEW f \in Seq(S), NEW pkt \in S, NEW codec,
         pkt.pos \in Positions, NEW high \in Positions,
         Run(f, pkt.src, high), f # <<>> => pkt.pos = high + 1
  PROVE  /\ ~Marker(pkt.pos) => Sound(Buffer(Append(f, pkt)), pkt, S, codec)
         /\ ( /\ codec \in {"aac", "flac", "mp3"} => Marker(pkt.pos)
              /\ codec \in {"aac", "mp3"} => Len(Append(f, pkt)) = Parts(pkt.pos))
            => Sound(Complete(Append(f, pkt)), pkt, S, codec)
  <1> DEFINE g == Append(f, pkt)
  <1>1. /\ g \in Seq(S) /\ g # <<>> /\ Last(g) = pkt
        /\ \A i \in 1 .. Len(g) :
               /\ g[i].src = pkt.src
               /\ g[i].pos = pkt.pos + i - Len(g)
               /\ UnitOf(g[i].pos) = UnitOf(pkt.pos)
    BY RunExtends
  <1> HIDE DEF g
  <1>2. ASSUME ~Marker(pkt.pos)
        PROVE  Sound(Buffer(g), pkt, S, codec)
    <2>1. Run(g, pkt.src, pkt.pos)
      BY <1>1, <1>2 DEF Run
    <2>2. Unspliced(<<>>, codec) /\ <<>> \in Seq(S)
      BY DEF Unspliced
    <2> QED BY <1>1, <2>1, <2>2 DEF Sound, Buffer
  <1>3. ASSUME codec \in {"aac", "flac", "mp3"} => Marker(pkt.pos),
               codec \in {"aac", "mp3"} => Len(g) = Parts(pkt.pos)
        PROVE  Sound(Complete(g), pkt, S, codec)
    <2>1. Unspliced(g, codec)
      BY <1>1, <1>3, RunUnspliced
    <2>2. Run(<<>>, pkt.src, pkt.pos) /\ <<>> \in Seq(S)
      BY EmptySeq DEF Run
    <2> QED BY <1>1, <2>1, <2>2 DEF Sound, Complete
  <1> QED BY <1>2, <1>3 DEF g

\* A fragment of another unit never follows a run, so flac has nothing to
\* drop here; the case split is its own.
LEMMA FlacSound ==
  ASSUME NEW S, NEW f \in Seq(S), NEW pkt \in S,
         pkt.pos \in Positions, NEW high \in Positions,
         Run(f, pkt.src, high), f # <<>> => pkt.pos = high + 1
  PROVE  Sound(DepacketizeFlac(f, pkt), pkt, S, "flac")
  <1> DEFINE g == IF f # <<>> /\ UnitOf(Head(f).pos) # UnitOf(pkt.pos)
                  THEN <<>> ELSE f
  <1>1. g \in Seq(S) /\ Run(g, pkt.src, high) /\ (g # <<>> => pkt.pos = high + 1)
    BY EmptySeq DEF Run
  <1> HIDE DEF g
  <1>2. /\ ~Marker(pkt.pos) => Sound(Buffer(Append(g, pkt)), pkt, S, "flac")
        /\ Marker(pkt.pos) => Sound(Complete(Append(g, pkt)), pkt, S, "flac")
    BY <1>1, AppendSound
  <1>3. DepacketizeFlac(f, pkt) = IF Marker(pkt.pos) THEN Complete(Append(g, pkt))
                                  ELSE Buffer(Append(g, pkt))
    BY DEF DepacketizeFlac, g
  <1> QED BY <1>2, <1>3

\* aac: the marker and the size declared together end a unit.
LEMMA AacSound ==
  ASSUME NEW S, NEW f \in Seq(S), NEW pkt \in S,
         pkt.pos \in Positions, NEW high \in Positions,
         Run(f, pkt.src, high), f # <<>> => pkt.pos = high + 1
  PROVE  Sound(DepacketizeAac(f, pkt), pkt, S, "aac")
  <1>1. /\ ~Marker(pkt.pos) => Sound(Buffer(Append(f, pkt)), pkt, S, "aac")
        /\ Marker(pkt.pos) /\ Len(Append(f, pkt)) = Parts(pkt.pos)
           => Sound(Complete(Append(f, pkt)), pkt, S, "aac")
    BY AppendSound
  <1>2. \/ DepacketizeAac(f, pkt) = Bad
        \/ /\ Marker(pkt.pos) /\ Len(Append(f, pkt)) = Parts(pkt.pos)
           /\ DepacketizeAac(f, pkt) = Complete(Append(f, pkt))
        \/ ~Marker(pkt.pos) /\ DepacketizeAac(f, pkt) = Buffer(Append(f, pkt))
    BY DEF DepacketizeAac
  <1> QED BY <1>1, <1>2, BadSound

\* mp3: the offset of a fragment places it in its frame.
LEMMA Mp3Sound ==
  ASSUME NEW S, NEW f \in Seq(S), NEW pkt \in S,
         pkt.pos \in Positions, NEW high \in Positions,
         Run(f, pkt.src, high), f # <<>> => pkt.pos = high + 1
  PROVE  Sound(DepacketizeMp3(f, pkt), pkt, S, "mp3")
  <1> DEFINE g == Append(f, pkt)
  <1>1. /\ ~Marker(pkt.pos) => Sound(Buffer(g), pkt, S, "mp3")
        /\ Marker(pkt.pos) /\ Len(g) = Parts(pkt.pos)
           => Sound(Complete(g), pkt, S, "mp3")
    BY AppendSound
  <1>2. CASE Part(pkt.pos) = 1 /\ Parts(pkt.pos) = 1
    <2>1. DepacketizeMp3(f, pkt) = Complete(<<pkt>>) /\ Marker(pkt.pos)
      BY <1>2 DEF DepacketizeMp3, Marker
    <2> QED BY <1>2, <2>1, SingleSound DEF Complete
  <1>3. CASE Part(pkt.pos) = 1 /\ Parts(pkt.pos) # 1
    <2>1. DepacketizeMp3(f, pkt) = Buffer(<<pkt>>) /\ ~Marker(pkt.pos)
      BY <1>3 DEF DepacketizeMp3, Marker
    <2>2. <<>> \in Seq(S) /\ Append(<<>>, pkt) = <<pkt>> /\ Run(<<>>, pkt.src, high)
      BY EmptySeq DEF Run
    <2>3. Sound(Buffer(Append(<<>>, pkt)), pkt, S, "mp3")
      BY <2>1, <2>2, AppendSound
    <2> QED BY <2>1, <2>2, <2>3
  <1>4. CASE Part(pkt.pos) # 1
    <2>1. \/ DepacketizeMp3(f, pkt) = Bad
          \/ /\ Len(g) = Part(pkt.pos) /\ Len(g) = Parts(pkt.pos)
             /\ DepacketizeMp3(f, pkt) = Complete(g)
          \/ /\ Len(g) = Part(pkt.pos) /\ Len(g) # Parts(pkt.pos)
             /\ DepacketizeMp3(f, pkt) = Buffer(g)
      BY <1>4 DEF DepacketizeMp3
    <2> QED BY <1>1, <2>1, BadSound DEF Marker
  <1> QED BY <1>2, <1>3, <1>4

\* Fragments under reassembly each of which is where its number says.
Placed(f, src) ==
    \A i \in 1 .. Len(f) :
        /\ f[i].pos \in Positions /\ f[i].src = src
        /\ Part(f[i].pos) = i /\ UnitOf(f[i].pos) = UnitOf(f[1].pos)

\* mp3: in whatever order the packets come, only the next fragment is taken.
LEMMA Mp3Placed ==
  ASSUME NEW S, NEW f \in Seq(S), NEW pkt \in S, pkt.pos \in Positions,
         Placed(f, pkt.src)
  PROVE  /\ Placed(DepacketizeMp3(f, pkt).frag, pkt.src)
         /\ Unspliced(DepacketizeMp3(f, pkt).unit, "mp3")
  <1> DEFINE g == Append(f, pkt)
             d == DepacketizeMp3(f, pkt)
  <1>1. Placed(<<>>, pkt.src) /\ Unspliced(<<>>, "mp3")
    BY DEF Placed, Unspliced
  <1>2. CASE Part(pkt.pos) = 1
    <2>1. /\ Placed(<<pkt>>, pkt.src)
          /\ Parts(pkt.pos) = 1 => Unspliced(<<pkt>>, "mp3")
      BY <1>2 DEF Placed, Unspliced, Marker, Last
    <2> QED BY <1>1, <1>2, <2>1 DEF DepacketizeMp3, Complete, Buffer
  <1>3. CASE Part(pkt.pos) # 1
    <2>1. d = Bad \/ /\ f # <<>> /\ Part(pkt.pos) = Len(g)
                     /\ UnitOf(Head(g).pos) = UnitOf(pkt.pos)
                     /\ d = IF Len(g) = Parts(pkt.pos) THEN Complete(g) ELSE Buffer(g)
      BY <1>3 DEF DepacketizeMp3
    <2>2. CASE d = Bad
      BY <1>1, <2>2 DEF Bad
    <2>3. CASE /\ f # <<>> /\ Part(pkt.pos) = Len(g)
               /\ UnitOf(Head(g).pos) = UnitOf(pkt.pos)
               /\ d = IF Len(g) = Parts(pkt.pos) THEN Complete(g) ELSE Buffer(g)
      <3>1. /\ g \in Seq(S) /\ Len(g) = Len(f) + 1 /\ Len(f) \in Nat \ {0}
            /\ g[Len(f) + 1] = pkt /\ \A i \in 1 .. Len(f) : g[i] = f[i]
        BY <2>3, AppendProperties, LenProperties, EmptySeq
      <3>2. g # <<>> /\ Head(g) = g[1] /\ g[1] = f[1] /\ Last(g) = pkt
        BY <3>1, EmptySeq DEF Last
      <3>3. Placed(g, pkt.src)
        <4>1. ASSUME NEW i \in 1 .. Len(g)
              PROVE  /\ g[i].pos \in Positions /\ g[i].src = pkt.src
                     /\ Part(g[i].pos) = i /\ UnitOf(g[i].pos) = UnitOf(g[1].pos)
          <5>1. CASE i = Len(g)
            BY <2>3, <3>1, <3>2, <5>1
          <5>2. CASE i # Len(g)
            <6>1. i \in 1 .. Len(f) /\ g[i] = f[i]
              BY <3>1, <5>2
            <6> QED BY <3>2, <6>1 DEF Placed
          <5> QED BY <5>1, <5>2
        <4> HIDE DEF g
        <4> QED BY <4>1 DEF Placed
      <3> HIDE DEF g
      <3>4. ASSUME Len(g) = Parts(pkt.pos)
            PROVE  Unspliced(g, "mp3")
        <4>1. ASSUME NEW i \in 1 .. Len(g) - 1
              PROVE  /\ g[i].src = g[i + 1].src
                     /\ g[i].pos + 1 = g[i + 1].pos
                     /\ UnitOf(g[i].pos) = UnitOf(g[i + 1].pos)
          <5>1. i \in 1 .. Len(g) /\ i + 1 \in 1 .. Len(g)
            BY <3>1
          <5>2. /\ g[i].pos \in Positions /\ g[i + 1].pos \in Positions
                /\ g[i].src = g[i + 1].src
                /\ UnitOf(g[i].pos) = UnitOf(g[i + 1].pos)
                /\ Part(g[i + 1].pos) = Part(g[i].pos) + 1
            BY <3>3, <5>1 DEF Placed
          <5> QED BY <5>2, PartNext
        <4> QED BY <2>3, <3>2, <3>4, <4>1 DEF Unspliced, Marker
      <3> HIDE DEF d
      <3>5. \/ d.frag = <<>> /\ d.unit = g /\ Len(g) = Parts(pkt.pos)
            \/ d.frag = g /\ d.unit = <<>>
        BY <2>3 DEF Complete, Buffer
      <3> QED BY <1>1, <3>3, <3>4, <3>5 DEF d
    <2> QED BY <2>1, <2>2, <2>3
  <1> QED BY <1>2, <1>3

-----------------------------------------------------------------------------
(* The resequencer.                                                        *)

\* Push takes a packet into the buffer or drops it, and releases an ordered
\* part of what it holds: nothing is made up and nothing comes out twice.
LEMMA PushSound ==
  ASSUME NEW buf, Slots(buf), NEW nxt, NEW pkt, pkt.pos \in Positions
  PROVE  LET r == Push(buf, nxt, pkt)
         IN  /\ r.late \in {0, 1}
             /\ r.buf \subseteq buf \cup {pkt} /\ Slots(r.buf)
             /\ r.out \in Seq(buf \cup {pkt})
             /\ Len(r.out) + Cardinality(r.buf) <= Cardinality(buf) + 1
  <1> DEFINE r == Push(buf, nxt, pkt)
             full == buf \cup {pkt}
  <1>1. CASE pkt.pos < nxt \/ \E b \in buf : b.pos = pkt.pos
    <2>1. r = [late |-> 1, out |-> <<>>, buf |-> buf, next |-> nxt]
      BY <1>1 DEF Push
    <2>2. <<>> \in Seq(full) /\ Len(<<>>) = 0
      BY EmptySeq
    <2>3. Cardinality(buf) \in Nat
      BY FS_CardinalityType DEF Slots
    <2> QED BY <2>1, <2>2, <2>3
  <1>2. CASE ~ (pkt.pos < nxt \/ \E b \in buf : b.pos = pkt.pos)
    <2>1. PICK stop : r = [late |-> 0, out |-> InOrder({b \in full : b.pos < stop}),
                           buf |-> full \ {b \in full : b.pos < stop}, next |-> stop]
      BY <1>2 DEF Push
    <2> DEFINE run == {b \in full : b.pos < stop}
    <2>2. IsFiniteSet(full) /\ Cardinality(full) <= Cardinality(buf) + 1
          /\ Cardinality(buf) \in Nat
      <3>1. IsFiniteSet(buf) /\ Cardinality(buf) \in Nat
        BY FS_CardinalityType DEF Slots
      <3>2. /\ IsFiniteSet(full)
            /\ Cardinality(full) = IF pkt \in buf THEN Cardinality(buf)
                                   ELSE Cardinality(buf) + 1
        BY <3>1, FS_AddElement
      <3> QED BY <3>1, <3>2
    <2>3. Slots(full)
      BY <1>2, <2>2 DEF Slots
    <2>4. Slots(run) /\ Slots(full \ run)
      BY <2>2, <2>3, FS_Subset DEF Slots
    <2>5. Cardinality(full \ run) = Cardinality(full) - Cardinality(run)
          /\ Cardinality(full) \in Nat /\ Cardinality(run) \in Nat
      <3>1. full \cap run = run
        OBVIOUS
      <3> QED BY <2>2, <2>4, <3>1, FS_Difference, FS_CardinalityType DEF Slots
    <2>6. InOrder(run) \in Seq(run) /\ Len(InOrder(run)) = Cardinality(run)
      BY <2>4, InOrderEnumerates
    <2>7. InOrder(run) \in Seq(full)
      BY <2>6, SeqMonotonic
    <2> HIDE DEF run
    <2>8. r = [late |-> 0, out |-> InOrder(run), buf |-> full \ run, next |-> stop]
      BY <2>1 DEF run
    <2> HIDE DEF r, full
    <2>9. full \ run \subseteq full
      OBVIOUS
    <2>10. Len(r.out) + Cardinality(r.buf) <= Cardinality(buf) + 1
      BY <2>2, <2>5, <2>6, <2>8
    <2> QED BY <2>4, <2>7, <2>8, <2>9, <2>10 DEF r, full
  <1> QED BY <1>1, <1>2

\* What Push releases lies between the release points before and after it, and
\* what it keeps lies beyond: positions are released in increasing order.  A
\* packet at the release point of an empty buffer comes out at once.
LEMMA PushOrdered ==
  ASSUME NEW buf, Slots(buf), NEW nxt \in 0 .. MaxPos + 1,
         \A b \in buf : nxt <= b.pos,
         NEW pkt, pkt.pos \in Positions
  PROVE  LET r == Push(buf, nxt, pkt)
         IN  /\ r.next \in nxt .. MaxPos + 1
             /\ \A b \in r.buf : r.next <= b.pos
             /\ \A i \in 1 .. Len(r.out) : nxt <= r.out[i].pos /\ r.out[i].pos < r.next
             /\ \A i, j \in 1 .. Len(r.out) : i < j => r.out[i].pos < r.out[j].pos
             /\ buf = {} /\ pkt.pos = nxt => Len(r.out) = 1 /\ r.out[1] = pkt
  <1> DEFINE r == Push(buf, nxt, pkt)
             full == buf \cup {pkt}
             low == IF pkt.pos < nxt + Window THEN nxt ELSE pkt.pos + 1 - Window
             free == {n \in low .. MaxPos + 1 : \A b \in full : b.pos # n}
             stop == CHOOSE n \in free : \A m \in free : n <= m
             run == {b \in full : b.pos < stop}
  <1>1. MaxPos \in Nat /\ nxt \in Nat /\ pkt.pos \in 0 .. MaxPos /\ Window \in Nat \ {0}
    BY MaxPosType, UnitsAssumption DEF Positions
  <1>2. CASE pkt.pos < nxt \/ \E b \in buf : b.pos = pkt.pos
    <2>1. r = [late |-> 1, out |-> <<>>, buf |-> buf, next |-> nxt]
      BY <1>2 DEF Push
    <2>2. 1 .. Len(r.out) = {} /\ r.next = nxt /\ r.buf = buf
      BY <2>1
    <2>3. ~ (buf = {} /\ pkt.pos = nxt)
      BY <1>1, <1>2
    <2> HIDE DEF r
    <2> QED BY <1>1, <2>2, <2>3 DEF r
  <1>3. CASE ~ (pkt.pos < nxt \/ \E b \in buf : b.pos = pkt.pos)
    <2>1. r = [late |-> 0, out |-> InOrder(run), buf |-> full \ run, next |-> stop]
      BY <1>3 DEF Push
    <2>2. \A b \in full : b.pos \in 0 .. MaxPos /\ nxt <= b.pos
      BY <1>1, <1>3 DEF Slots, Positions
    <2>3. nxt <= low /\ low \in 0 .. MaxPos + 1
      BY <1>1, <1>3
    <2> HIDE DEF low, full
    <2>4. free \in SUBSET Nat /\ MaxPos + 1 \in free
      BY <1>1, <2>2, <2>3
    <2>5. stop \in free
      <3>1. \E n \in free : \A m \in free : n <= m
        BY <2>4, Least
      <3> QED BY <3>1
    <2> HIDE DEF stop
    <2>6. stop \in nxt .. MaxPos + 1 /\ stop >= low /\ \A b \in full : b.pos # stop
      BY <1>1, <2>3, <2>5
    <2>7. Slots(full)
      BY <1>3, <1>1, FS_AddElement DEF Slots, full, Positions
    <2>8. Slots(run)
      BY <2>7, FS_Subset DEF Slots
    <2>9. /\ InOrder(run) \in Seq(run) /\ Len(InOrder(run)) = Cardinality(run)
          /\ \A i, j \in 1 .. Len(InOrder(run)) :
                i < j => InOrder(run)[i].pos < InOrder(run)[j].pos
      BY <2>8, InOrderEnumerates
    <2>10. \A i \in 1 .. Len(InOrder(run)) : InOrder(run)[i] \in run
      BY <2>9, ElementOfSeq
    <2>11. buf = {} /\ pkt.pos = nxt => run = {pkt}
      <3> SUFFICES ASSUME buf = {}, pkt.pos = nxt PROVE run = {pkt}
        OBVIOUS
      <3>1. full = {pkt} /\ low = nxt
        BY <1>1 DEF full, low
      <3> QED BY <1>1, <2>6, <3>1
    <2>12. \A b \in full \ run : stop <= b.pos
      BY <1>1, <2>2, <2>6
    <2>13. \A b \in run : nxt <= b.pos /\ b.pos < stop
      BY <2>2
    <2> HIDE DEF run, free
    <2>14. buf = {} /\ pkt.pos = nxt => Len(InOrder(run)) = 1 /\ InOrder(run)[1] = pkt
      <3> SUFFICES ASSUME buf = {}, pkt.pos = nxt
                   PROVE  Len(InOrder(run)) = 1 /\ InOrder(run)[1] = pkt
        OBVIOUS
      <3>1. run = {pkt} /\ Cardinality({pkt}) = 1
        BY <2>11, FS_Singleton
      <3>2. Len(InOrder(run)) = 1
        BY <2>9, <3>1
      <3>3. InOrder(run)[1] \in run
        BY <2>10, <3>2
      <3> QED BY <3>1, <3>2, <3>3
    <2> HIDE DEF r
    <2>15. r.next = stop /\ r.buf = full \ run /\ r.out = InOrder(run)
      BY <2>1
    <2> QED BY <2>6, <2>9, <2>10, <2>12, <2>13, <2>14, <2>15 DEF r
  <1> QED BY <1>2, <1>3

\* A unit a depacketizer completes ends with the packet that completed it.
LEMMA CompletedByPacket ==
  ASSUME NEW S, NEW f \in Seq(S), NEW pkt \in S,
         NEW d \in {Bad, Complete(<<pkt>>), DepacketizeFlac(f, pkt),
                    DepacketizeAac(f, pkt), DepacketizeMp3(f, pkt)}
  PROVE  d.unit # <<>> => Last(d.unit) = pkt
  <1>1. Last(<<pkt>>) = pkt
    BY DEF Last
  <1>2. Last(Append(f, pkt)) = pkt /\ Last(Append(<<>>, pkt)) = pkt
    <2>1. <<>> \in Seq(S) /\ Len(<<>>) = 0
      BY EmptySeq
    <2> QED BY <2>1, AppendProperties, LenProperties DEF Last
  <1>3. CASE d = Bad \/ d = Complete(<<pkt>>)
    BY <1>1, <1>3 DEF Bad, Complete
  <1>4. CASE d = DepacketizeFlac(f, pkt)
    <2>1. d.unit \in {<<>>, Append(f, pkt), Append(<<>>, pkt)}
      BY <1>4 DEF DepacketizeFlac, Complete, Buffer
    <2> QED BY <1>2, <2>1
  <1>5. CASE d = DepacketizeAac(f, pkt)
    <2>1. d.unit \in {<<>>, Append(f, pkt)}
      BY <1>5 DEF DepacketizeAac, Complete, Buffer, Bad
    <2> QED BY <1>2, <2>1
  <1>6. CASE d = DepacketizeMp3(f, pkt)
    <2>1. d.unit \in {<<>>, Append(f, pkt), <<pkt>>}
      BY <1>6 DEF DepacketizeMp3, Complete, Buffer, Bad
    <2> QED BY <1>1, <1>2, <2>1
  <1> QED BY <1>3, <1>4, <1>5, <1>6
=============================================================================
