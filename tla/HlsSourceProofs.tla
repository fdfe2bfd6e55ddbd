-------------------------- MODULE HlsSourceProofs ---------------------------
(***************************************************************************)
(* Proofs about HlsSource, for every set of streams an origin may serve,   *)
(* every set of callers and every window, frame and counter size.          *)
(***************************************************************************)
EXTENDS HlsSource, FiniteSetTheorems, SequenceTheorems, WellFoundedInduction, TLAPS

-----------------------------------------------------------------------------
(* Recursive functions.  Induction is used in the form of the least element *)
(* of a set of numbers, which the library proves of the naturals.           *)

\* A nonempty set of naturals has a least element.
LEMMA LeastNat ==
    ASSUME NEW T \in SUBSET Nat, T # {}
    PROVE  \E x \in T : \A y \in T : x <= y
  <1> DEFINE R == {ss \in Nat \X Nat : ss[1] < ss[2]}
  <1>1. IsWellFoundedOn(R, Nat)
    BY NatLessThanWellFounded DEF OpToRel
  <1>2. PICK x \in T : \A y \in T : ~ (<<y, x>> \in R)
    BY <1>1, WFMin
  <1>3. ASSUME NEW y \in T PROVE x <= y
    <2>1. x \in Nat /\ y \in Nat
      OBVIOUS
    <2>2. <<y, x>> \in Nat \X Nat /\ <<y, x>>[1] = y /\ <<y, x>>[2] = x
      BY <2>1
    <2>3. ~ (y < x)
      BY <1>2, <2>2
    <2> QED BY <2>1, <2>3
  <1> QED BY <1>3

\* What holds at m and passes from each index to the next holds up to n.
LEMMA Upwards ==
    ASSUME NEW m \in Int, NEW n \in Int, NEW V, NEW g, g[m] \in V,
           \A i \in m..n : i # m /\ g[i - 1] \in V => g[i] \in V
    PROVE  \A i \in m..n : g[i] \in V
  <1> SUFFICES ASSUME NEW i \in m..n, g[i] \notin V PROVE FALSE
    OBVIOUS
  <1> DEFINE T == {k \in Nat : m + k <= n /\ g[m + k] \notin V}
  <1>1. i - m \in T
    OBVIOUS
  <1>2. PICK k \in T : \A j \in T : k <= j
    <2> HIDE DEF T
    <2>1. T \in SUBSET Nat
      BY DEF T
    <2> QED BY <1>1, <2>1, LeastNat
  <1>3. k # 0
    <2>1. m + 0 = m
      OBVIOUS
    <2> QED BY <2>1
  <1>4. k - 1 \in Nat /\ k - 1 \notin T
    BY <1>2, <1>3
  <1>5. g[m + (k - 1)] \in V
    BY <1>4
  <1>6. m + k \in m..n /\ m + k # m /\ (m + k) - 1 = m + (k - 1)
    BY <1>3
  <1> QED BY <1>5, <1>6

\* f is what step makes of a, from m up to n.
Iterates(f, m, n, V, a, step) ==
    /\ f \in [m..n -> V] /\ f[m] = a
    /\ \A i \in m..n : i # m => f[i] = step[i][f[i - 1]]

\* A function may be defined by its value at m and a step from each index to
\* the next.
LEMMA Recursion ==
    ASSUME NEW m \in Int, NEW n \in Int, m <= n, NEW V, NEW a \in V,
           NEW step \in [m..n -> [V -> V]]
    PROVE  \E f : Iterates(f, m, n, V, a, step)
  <1> DEFINE Upto(k) == \E f \in [m..(m + k) -> V] :
                 f[m] = a /\ \A i \in m..(m + k) : i # m => f[i] = step[i][f[i - 1]]
             T == {k \in Nat : m + k <= n /\ ~Upto(k)}
  <1>1. Upto(0)
    <2> DEFINE f == [i \in m..(m + 0) |-> a]
    <2>1. f \in [m..(m + 0) -> V] /\ f[m] = a /\ \A i \in m..(m + 0) : i = m
      OBVIOUS
    <2> HIDE DEF f
    <2> QED BY <2>1
  <1>2. ASSUME NEW k \in Nat, m + k + 1 <= n, Upto(k) PROVE Upto(k + 1)
    <2> PICK f \in [m..(m + k) -> V] :
                f[m] = a /\ \A i \in m..(m + k) : i # m => f[i] = step[i][f[i - 1]]
      BY <1>2
    <2> DEFINE g == [i \in m..(m + (k + 1)) |->
                        IF i = m + k + 1 THEN step[i][f[i - 1]] ELSE f[i]]
    <2>1. step[m + k + 1][f[m + k]] \in V
      BY <1>2
    <2>2. g \in [m..(m + (k + 1)) -> V]
      <3> SUFFICES ASSUME NEW i \in m..(m + (k + 1)) PROVE g[i] \in V
        OBVIOUS
      <3>1. CASE i = m + k + 1
        <4>1. i - 1 = m + k
          BY <3>1
        <4> QED BY <2>1, <3>1, <4>1
      <3>2. CASE i # m + k + 1
        <4>1. i \in m..(m + k)
          BY <3>2
        <4> QED BY <3>2, <4>1
      <3> QED BY <3>1, <3>2
    <2>3. g[m] = a
      OBVIOUS
    <2>4. ASSUME NEW i \in m..(m + (k + 1)), i # m
          PROVE  g[i] = step[i][g[i - 1]]
      <3>1. g[i - 1] = f[i - 1]
        BY <2>4
      <3>2. CASE i = m + k + 1
        BY <3>1, <3>2
      <3>3. CASE i # m + k + 1
        BY <2>4, <3>1, <3>3
      <3> QED BY <3>2, <3>3
    <2> HIDE DEF g
    <2> QED BY <2>2, <2>3, <2>4
  <1> HIDE DEF Upto
  <1>3. T = {}
    <2> SUFFICES ASSUME T # {} PROVE FALSE
      OBVIOUS
    <2>1. T \in SUBSET Nat
      OBVIOUS
    <2>2. PICK k \in T : \A j \in T : k <= j
      <3> HIDE DEF T
      <3> QED BY <2>1, LeastNat
    <2>3. k # 0 /\ k - 1 \in Nat
      BY <1>1
    <2>4. k - 1 \notin T
      BY <2>2, <2>3
    <2>5. Upto(k - 1) /\ (k - 1) + 1 = k /\ m + (k - 1) + 1 <= n
      BY <2>3, <2>4
    <2>6. Upto(k)
      BY <1>2, <2>3, <2>5
    <2> QED BY <2>6
  <1>4. n - m \in Nat /\ m + (n - m) = n
    OBVIOUS
  <1>5. Upto(n - m)
    BY <1>3, <1>4
  <1> QED BY <1>4, <1>5 DEF Upto, Iterates

-----------------------------------------------------------------------------
(* Fragments.                                                              *)

\* A sample of a fragment of len cells, and a walk within its budget.
Slices(len) == {s \in [from : Nat, to : Nat] : s.from < s.to /\ s.to <= len}
Walks(len) ==
    {w \in [ptr : Int, located : BOOLEAN, left : Nat, out : Seq(Slices(len)),
            st : {"ok", "short", "malformedSegment"}] : Len(w.out) + w.left <= len}

\* A sample stays in the fragment and takes one of the budget.
LEMMA SliceFacts ==
    ASSUME NEW len \in Nat, NEW w \in Walks(len), NEW n \in Nat
    PROVE  SliceSample(w, n, len) \in Walks(len)
  <1>1. CASE SliceSample(w, n, len) \in {w, [w EXCEPT !.st = "short"],
                                         [w EXCEPT !.st = "malformedSegment"]}
    BY <1>1 DEF Walks
  <1>2. CASE n # 0 /\ w.ptr >= 0 /\ w.ptr + n <= len /\ w.left # 0
    <2> DEFINE s == [from |-> w.ptr, to |-> w.ptr + n]
    <2>1. s \in Slices(len) /\ w.out \in Seq(Slices(len))
      BY <1>2 DEF Walks, Slices
    <2>2. /\ Append(w.out, s) \in Seq(Slices(len))
          /\ Len(Append(w.out, s)) = Len(w.out) + 1
      BY <2>1, AppendProperties
    <2>3. w.left - 1 \in Nat /\ w.ptr + n \in Int /\ w.located \in BOOLEAN
      BY <1>2 DEF Walks
    <2>4. Walk(w.ptr + n, w.located, w.left - 1, Append(w.out, s), "ok") \in Walks(len)
      BY <2>2, <2>3 DEF Walks, Walk
    <2> QED BY <1>2, <2>4, <1>1 DEF SliceSample
  <1> QED BY <1>1, <1>2 DEF SliceSample, Walks

\* A run of samples.
LEMMA TrunFacts ==
    ASSUME NEW len \in Nat, NEW w \in Walks(len), NEW base \in Int, NEW size \in Nat,
           NEW r \in TrackRun
    PROVE  ParseTrun(w, r, base, size, len) \in Walks(len)
  <1> DEFINE sizes == IF r.sizes # <<>> THEN r.sizes ELSE [i \in 1..r.n |-> size]
             placed == [Budget(w, len) EXCEPT !.ptr = IF r.off = None THEN @ ELSE base + r.off,
                                              !.located = @ \/ r.off # None]
             S == CHOOSE g : g = [i \in 0..Len(sizes) |->
                      IF i = 0 THEN placed ELSE SliceSample(g[i - 1], sizes[i], len)]
  <1>1. sizes \in Seq(Nat)
    BY DEF TrackRun
  <1>n. PICK n \in Nat : n = Len(sizes) /\ \A i \in 1..n : sizes[i] \in Nat
    <2> HIDE DEF sizes
    <2> QED BY <1>1
  <1>2. placed \in Walks(len)
    <2>1. r.off \in Int /\ base + r.off \in Int /\ w.ptr \in Int
      BY DEF Walks, TrackRun
    <2> QED BY <2>1 DEF Walks, Budget
  <1>3. [w EXCEPT !.st = "malformedSegment"] \in Walks(len)
    BY DEF Walks
  <1>4. \/ ParseTrun(w, r, base, size, len) = [w EXCEPT !.st = "malformedSegment"]
        \/ ParseTrun(w, r, base, size, len) = S[Len(sizes)]
    BY DEF ParseTrun
  <1> HIDE DEF sizes, placed
  <1>5. S = [i \in 0..n |->
                IF i = 0 THEN placed ELSE SliceSample(S[i - 1], sizes[i], len)]
    <2> DEFINE step == [i \in 0..n |-> [v \in Walks(len) |->
                           IF i = 0 THEN v ELSE SliceSample(v, sizes[i], len)]]
    <2>1. step \in [0..n -> [Walks(len) -> Walks(len)]]
      BY <1>n, SliceFacts
    <2>2. PICK f : Iterates(f, 0, n, Walks(len), placed, step)
      <3> HIDE DEF step
      <3>1. 0 \in Int /\ n \in Int /\ 0 <= n
        OBVIOUS
      <3> QED BY <1>2, <2>1, <3>1, Recursion, Zenon
    <2>3. ASSUME NEW i \in 0..n, i # 0
          PROVE  f[i] = SliceSample(f[i - 1], sizes[i], len)
      <3>1. i - 1 \in 0..n /\ f[i - 1] \in Walks(len)
        BY <2>2, <2>3 DEF Iterates
      <3> QED BY <2>2, <2>3, <3>1 DEF Iterates
    <2>4. f = [i \in 0..n |->
                  IF i = 0 THEN placed ELSE SliceSample(f[i - 1], sizes[i], len)]
      BY <2>2, <2>3 DEF Iterates
    <2> QED BY <1>n, <2>4
  <1> HIDE DEF S
  <1>6. \A i \in 0..n : S[i] \in Walks(len)
    <2>1. S[0] = placed /\ \A i \in 0..n : i # 0 => S[i] = SliceSample(S[i - 1], sizes[i], len)
      BY <1>5
    <2>2. \A i \in 0..n : i # 0 /\ S[i - 1] \in Walks(len) => S[i] \in Walks(len)
      BY <1>n, <2>1, SliceFacts
    <2>3. 0 \in Int /\ n \in Int
      OBVIOUS
    <2> QED BY <1>2, <2>1, <2>2, <2>3, Upwards, Zenon
  <1> QED BY <1>n, <1>3, <1>4, <1>6

\* The runs of a track fragment, one after the other.
LEMMA TrafFacts ==
    ASSUME NEW len \in Nat, NEW init, init.size \in Nat,
           NEW t \in TrackFragment
    PROVE  ParseTraf(t, init, len) \in Walks(len)
  <1> DEFINE base == IF t.base = None THEN 0 ELSE t.base
             size == IF t.size # 0 THEN t.size ELSE init.size
             start == Walk(base, t.base # None, len, <<>>, "ok")
             Run(v, i) == IF v.st = "ok" THEN ParseTrun(v, t.truns[i], base, size, len) ELSE v
             R == CHOOSE g : g = [i \in 0..Len(t.truns) |->
                      IF i = 0 THEN start ELSE Run(g[i - 1], i)]
  <1>1. base \in Int /\ size \in Nat
    BY DEF TrackFragment
  <1>2. start \in Walks(len)
    BY <1>1 DEF Walks, Walk
  <1>n. PICK n \in Nat : n = Len(t.truns) /\ \A i \in 1..n : t.truns[i] \in TrackRun
    <2>1. t.truns \in Seq(TrackRun)
      BY DEF TrackFragment
    <2> QED BY <2>1
  <1>4. ParseTraf(t, init, len) = R[n]
    BY <1>n, Zenon DEF ParseTraf
  <1> HIDE DEF base, size, start
  <1>5. \A v \in Walks(len), i \in 1..n : Run(v, i) \in Walks(len)
    BY <1>1, <1>n, TrunFacts
  <1> HIDE DEF Run
  <1>6. R = [i \in 0..n |-> IF i = 0 THEN start ELSE Run(R[i - 1], i)]
    <2> DEFINE step == [i \in 0..n |-> [v \in Walks(len) |-> IF i = 0 THEN v ELSE Run(v, i)]]
    <2>1. step \in [0..n -> [Walks(len) -> Walks(len)]]
      BY <1>5
    <2>2. PICK f : Iterates(f, 0, n, Walks(len), start, step)
      <3> HIDE DEF step
      <3>1. 0 \in Int /\ n \in Int /\ 0 <= n
        OBVIOUS
      <3> QED BY <1>2, <2>1, <3>1, Recursion, Zenon
    <2>3. ASSUME NEW i \in 0..n, i # 0 PROVE f[i] = Run(f[i - 1], i)
      <3>1. i - 1 \in 0..n /\ f[i - 1] \in Walks(len)
        BY <2>2, <2>3 DEF Iterates
      <3> QED BY <2>2, <2>3, <3>1 DEF Iterates
    <2>4. f = [i \in 0..n |-> IF i = 0 THEN start ELSE Run(f[i - 1], i)]
      BY <2>2, <2>3 DEF Iterates
    <2> QED BY <1>n, <2>4
  <1> HIDE DEF R
  <1>7. \A i \in 0..n : R[i] \in Walks(len)
    <2>1. R[0] = start /\ \A i \in 0..n : i # 0 => R[i] = Run(R[i - 1], i)
      BY <1>6
    <2>2. \A i \in 0..n : i # 0 /\ R[i - 1] \in Walks(len) => R[i] \in Walks(len)
      BY <1>5, <2>1
    <2>3. 0 \in Int /\ n \in Int
      OBVIOUS
    <2> QED BY <1>2, <2>1, <2>2, <2>3, Upwards, Zenon
  <1> QED BY <1>4, <1>7

\* The first index of a nonempty set of positions.
LEMMA FirstOfFacts ==
    ASSUME NEW T \in SUBSET Nat, T # {}
    PROVE  FirstOf(T) \in T
  BY LeastNat DEF FirstOf

\* A fragment's samples lie in it, and there are no more than it has cells.
LEMMA FragmentFacts ==
    ASSUME NEW init, init.size \in Nat, NEW f \in Fragment
    PROVE  ParseFragment(init, f) \in Walks(f.len)
  <1> DEFINE T == {i \in DOMAIN f.trafs : f.trafs[i].id = init.id}
  <1>1. f.len \in Nat
    BY DEF Fragment
  <1>2. Walk(0, FALSE, 0, <<>>, "malformedSegment") \in Walks(f.len)
    BY <1>1 DEF Walks, Walk
  <1>3. CASE T # {}
    <2>1. T \in SUBSET Nat
      BY DEF Fragment
    <2> HIDE DEF T
    <2>2. FirstOf(T) \in T
      BY <1>3, <2>1, FirstOfFacts
    <2> USE DEF T
    <2>3. f.trafs[FirstOf(T)] \in TrackFragment
      <3>1. f.trafs \in Seq(TrackFragment) /\ FirstOf(T) \in DOMAIN f.trafs
        BY <2>2 DEF Fragment
      <3> HIDE DEF T
      <3> QED BY <3>1
    <2>4. ParseTraf(f.trafs[FirstOf(T)], init, f.len) \in Walks(f.len)
      BY <1>1, <2>3, TrafFacts
    <2> QED BY <1>2, <2>4 DEF ParseFragment
  <1>4. CASE T = {}
    BY <1>2, <1>4 DEF ParseFragment
  <1> QED BY <1>3, <1>4

SegmentErrs == {"ok", "unsupportedPlaylist", "unsupportedCodec", "malformedSegment"}

\* An initialization segment parses, or is refused for one of two reasons.
LEMMA InitFacts ==
    ASSUME NEW b, InitType(b)
    PROVE  /\ ParseInit(b).err \in {"ok", "unsupportedCodec", "malformedSegment"}
           /\ ParseInit(b).size \in Nat
  <1> DEFINE A == {i \in DOMAIN b.tracks : b.tracks[i].handler = "soun"}
             r == ParseTrak(b.tracks[FirstOf(A)])
  <1>1. ASSUME NEW entries
        PROVE  \E asc : \E e \in {"ok", "unsupportedCodec", "malformedSegment"} :
                  ParseSTSD(entries) = Init4(e, asc, 0, 0)
    BY DEF ParseSTSD, NoInit
  <1>2. ASSUME NEW t
        PROVE  \E asc, id : \E e \in {"ok", "unsupportedCodec", "malformedSegment"} :
                  ParseTrak(t) = Init4(e, asc, id, 0)
    <2> PICK asc : \E e \in {"ok", "unsupportedCodec", "malformedSegment"} :
                ParseSTSD(t.entries) = Init4(e, asc, 0, 0)
      BY <1>1
    <2> PICK e \in {"ok", "unsupportedCodec", "malformedSegment"} :
                ParseSTSD(t.entries) = Init4(e, asc, 0, 0)
      OBVIOUS
    <2>1. [Init4(e, asc, 0, 0) EXCEPT !.id = t.id] = Init4(e, asc, t.id, 0)
      BY DEF Init4
    <2> QED BY <2>1 DEF ParseTrak, NoInit
  <1>3. PICK asc, id : \E e \in {"ok", "unsupportedCodec", "malformedSegment"} :
                r = Init4(e, asc, id, 0)
    BY <1>2
  <1> PICK e \in {"ok", "unsupportedCodec", "malformedSegment"} : r = Init4(e, asc, id, 0)
    BY <1>3
  <1> HIDE DEF r
  <1>4. [r EXCEPT !.size = b.trex[r.id]] = Init4(e, asc, id, b.trex[r.id])
    BY <1>3 DEF Init4
  <1>5. \/ ParseInit(b) \in {NoInit("malformedSegment"), r}
        \/ r.id \in DOMAIN b.trex /\ ParseInit(b) = Init4(e, asc, id, b.trex[r.id])
    BY <1>4 DEF ParseInit, r
  <1> QED BY <1>5 DEF Init4, NoInit, InitType

\* A function on 1..n is a sequence.
LEMMA SequenceFacts ==
    ASSUME NEW n \in Nat, NEW e, e = [i \in 1..n |-> e[i]]
    PROVE  e \in Seq({e[i] : i \in 1..n}) /\ Len(e) = n
  OBVIOUS

\* What the fMP4 demuxer makes of a fragment: its samples, and at most a count.
LEMMA DemuxFragmentFacts ==
    ASSUME NEW I, I.size \in Nat, NEW g, NEW f \in Fragment
    PROVE  LET r == DemuxFragment([init |-> I, gaps |-> g], f)
           IN  /\ r.err \in SegmentErrs
               /\ \E h : r.d = [init |-> I, gaps |-> h]
               /\ Len(r.aus) \in Nat /\ Len(r.aus) <= f.len
               /\ r.aus = [i \in 1..Len(r.aus) |-> r.aus[i]]
               /\ \A i \in 1..Len(r.aus) :
                     LET u == r.aus[i].ids
                     IN  0 <= u[1] /\ u[1] < u[2] /\ u[2] <= f.len
  <1> DEFINE d == [init |-> I, gaps |-> g]
             w == ParseFragment(I, f)
             aus == [i \in DOMAIN w.out |-> [ids |-> <<w.out[i].from, w.out[i].to>>, cfg |-> I.asc]]
             r == DemuxFragment(d, f)
  <1>1. w \in Walks(f.len)
    BY FragmentFacts
  <1>2. d.init = I
    OBVIOUS
  <1>3. /\ r.err = (IF w.st = "short" THEN "ok" ELSE w.st)
        /\ \E h : r.d = [init |-> I, gaps |-> h]
        /\ r.aus = aus
    BY <1>2 DEF DemuxFragment
  <1> HIDE DEF w, r
  <1>4. w.out \in Seq(Slices(f.len)) /\ Len(w.out) <= f.len /\ f.len \in Nat
    BY <1>1 DEF Walks, Fragment
  <1>n. PICK n \in Nat : n = Len(w.out) /\ DOMAIN w.out = 1..n
                         /\ \A i \in 1..n : w.out[i] \in Slices(f.len)
    BY <1>4
  <1>5. aus = [i \in 1..n |-> [ids |-> <<w.out[i].from, w.out[i].to>>, cfg |-> I.asc]]
    BY <1>n
  <1>6. Len(aus) = n
    <2>1. aus = [i \in 1..n |-> aus[i]]
      BY <1>5
    <2> HIDE DEF aus
    <2> QED BY <2>1, SequenceFacts
  <1>7. \A i \in 1..n : /\ 0 <= aus[i].ids[1] /\ aus[i].ids[1] < aus[i].ids[2]
                        /\ aus[i].ids[2] <= f.len
    BY <1>n, <1>5 DEF Slices
  <1>8. aus = [i \in 1..n |-> aus[i]]
    BY <1>5
  <1> HIDE DEF aus
  <1>9. r.err \in SegmentErrs
    BY <1>1, <1>3 DEF Walks, SegmentErrs
  <1> QED BY <1>3, <1>4, <1>n, <1>6, <1>7, <1>8, <1>9 DEF r

-----------------------------------------------------------------------------
(* The transport stream demuxer: what it yields has its type.              *)

FramerStates == [off : Nat, skip : Nat, synced : BOOLEAN, ended : BOOLEAN, gaps : Nat]
Configs == {"none"} \cup {Config(c) : c \in STRING}
AccessUnits == [ids : Seq(Nat), cfg : Configs]
DemuxerStates ==
    {d \in [pmtPID : Nat, audioPID : Nat, patSec : BOOLEAN, pmtSec : BOOLEAN,
            haveCC : BOOLEAN, cc : Nat, skip : Nat, dropping : BOOLEAN,
            buf : Seq(STRING), ids : Seq(Nat), fs : FramerStates, asc : Configs,
            gaps : Nat] : Len(d.ids) = Len(d.buf) /\ d.fs.off <= Len(d.buf)}
Yields == [d : DemuxerStates, aus : Seq(AccessUnits), err : SegmentErrs]

\* Changes of a framer's position and count.
LEMMA FramerUpdates ==
    ASSUME NEW s \in FramerStates, NEW n \in Nat, NEW g \in Nat
    PROVE  /\ [s EXCEPT !.off = n] \in FramerStates /\ [s EXCEPT !.off = n].off = n
           /\ [s EXCEPT !.gaps = g] \in FramerStates /\ [s EXCEPT !.gaps = g].off = s.off
           /\ [s EXCEPT !.off = n, !.gaps = g] \in FramerStates
           /\ [s EXCEPT !.off = n, !.gaps = g].off = n
           /\ [s EXCEPT !.ended = TRUE] \in FramerStates
           /\ [s EXCEPT !.ended = TRUE].off = s.off
  <1>1. [s EXCEPT !.off = n] \in FramerStates /\ [s EXCEPT !.off = n].off = n
    BY DEF FramerStates
  <1>2. [s EXCEPT !.gaps = g] \in FramerStates /\ [s EXCEPT !.gaps = g].off = s.off
    BY DEF FramerStates
  <1>3. [s EXCEPT !.off = n, !.gaps = g] \in FramerStates
    BY DEF FramerStates
  <1>4. [s EXCEPT !.off = n, !.gaps = g].off = n
    BY DEF FramerStates
  <1>5. [s EXCEPT !.ended = TRUE] \in FramerStates /\ [s EXCEPT !.ended = TRUE].off = s.off
    BY DEF FramerStates
  <1> QED BY <1>1, <1>2, <1>3, <1>4, <1>5

\* What an iteration of NextFrame with n cells left from off may answer.
FrameOk(r, off, n) ==
    /\ r.st \in {"wait", "again", "frame"} /\ r.s \in FramerStates
    /\ r.s.off <= off + n
    /\ r.st = "frame" => r.s.off >= FrameLen

\* NextFrame goes forward, and never past what was fed.
LEMMA NextFrameFacts ==
    ASSUME NEW s \in FramerStates, NEW rem \in Seq(STRING)
    PROVE  FrameOk(NextFrame("aac", s, rem), s.off, Len(rem))
  <1> USE FramerAssumption
  <1>1. ASSUME NEW t \in FramerStates, NEW cell, NEW n \in Nat, n >= FrameLen
        PROVE  FrameOk(Take("aac", t, cell), t.off, n)
    <2> DEFINE u == [t EXCEPT !.off = @ + FrameLen]
               v == [u EXCEPT !.gaps = @ + 1]
    <2>1. u \in FramerStates /\ u.off = t.off + FrameLen
      <3> DEFINE off == t.off + FrameLen
      <3>1. off \in Nat
        BY DEF FramerStates
      <3>2. u = [t EXCEPT !.off = off]
        OBVIOUS
      <3> HIDE DEF off, u
      <3>3. 0 \in Nat
        OBVIOUS
      <3>4. u \in FramerStates /\ u.off = off
        BY <3>1, <3>2, <3>3, FramerUpdates
      <3> QED BY <3>4 DEF off
    <2> HIDE DEF u
    <2>2. v \in FramerStates /\ v.off = u.off
      <3>1. u.gaps + 1 \in Nat
        BY <2>1 DEF FramerStates
      <3> QED BY <2>1, <3>1, FramerUpdates
    <2> HIDE DEF v
    <2>3. t.off \in Nat /\ u.off <= t.off + n /\ u.off >= FrameLen
      BY <1>1, <2>1 DEF FramerStates
    <2>4. Take("aac", t, cell) \in {Reads("again", v), Reads("frame", u)}
      BY DEF Take, u, v
    <2>5. /\ Reads("again", v).st = "again" /\ Reads("again", v).s = v
          /\ Reads("frame", u).st = "frame" /\ Reads("frame", u).s = u
      BY DEF Reads
    <2> QED BY <2>1, <2>2, <2>3, <2>4, <2>5 DEF FrameOk
  <1>2. ASSUME NEW t \in FramerStates, NEW n \in Nat
        PROVE  Discard(t, n) \in FramerStates /\ Discard(t, n).off = t.off + n
    <2> DEFINE off == t.off + n
               gaps == t.gaps + 1
    <2>1. off \in Nat /\ gaps \in Nat
      BY DEF FramerStates
    <2>2. Discard(t, n) = [t EXCEPT !.off = off, !.gaps = gaps]
      BY DEF Discard
    <2> HIDE DEF off, gaps
    <2>3. /\ [t EXCEPT !.off = off, !.gaps = gaps] \in FramerStates
          /\ [t EXCEPT !.off = off, !.gaps = gaps].off = off
      BY <2>1 DEF FramerStates
    <2> QED BY <2>2, <2>3 DEF off
  <1>3. ASSUME NEW t \in FramerStates, NEW b \in BOOLEAN
        PROVE  [t EXCEPT !.synced = b] \in FramerStates /\ [t EXCEPT !.synced = b].off = t.off
    BY DEF FramerStates
  <1>4. ASSUME NEW t \in FramerStates, NEW at \in Seq(STRING), Len(at) >= FrameLen
        PROVE  FrameOk(Confirm("aac", t, at), t.off, Len(at))
    <2> DEFINE r == Confirm("aac", t, at)
    <2>1. \/ r = Take("aac", [t EXCEPT !.synced = TRUE], at[1])
          \/ r = Reads("again", [Discard(t, 1) EXCEPT !.synced = FALSE])
          \/ r = Reads("wait", t)
          \/ r = Take("aac", t, at[1])
      BY DEF Confirm
    <2>2. Len(at) \in Nat /\ Len(at) >= 1
      BY <1>4
    <2> HIDE DEF r
    <2>3. CASE r = Take("aac", [t EXCEPT !.synced = TRUE], at[1])
      <3> DEFINE u == [t EXCEPT !.synced = TRUE]
      <3>1. u \in FramerStates /\ u.off = t.off
        BY <1>3
      <3> HIDE DEF u
      <3>2. FrameOk(Take("aac", u, at[1]), u.off, Len(at))
        BY <1>1, <1>4, <2>2, <3>1
      <3> QED BY <2>3, <3>1, <3>2 DEF r, u
    <2>4. CASE r = Take("aac", t, at[1])
      BY <1>1, <1>4, <2>2, <2>4 DEF r
    <2>5. CASE r = Reads("again", [Discard(t, 1) EXCEPT !.synced = FALSE])
      <3>1. [Discard(t, 1) EXCEPT !.synced = FALSE] \in FramerStates
            /\ [Discard(t, 1) EXCEPT !.synced = FALSE].off = t.off + 1
        BY <1>2, <1>3
      <3>2. t.off \in Nat /\ t.off + 1 <= t.off + Len(at)
        BY <2>2 DEF FramerStates
      <3>3. r.st = "again" /\ r.s = [Discard(t, 1) EXCEPT !.synced = FALSE]
        BY <2>5 DEF Reads
      <3> QED BY <3>1, <3>2, <3>3 DEF r, FrameOk
    <2>6. CASE r = Reads("wait", t)
      BY <2>2, <2>6 DEF r, Reads, FramerStates, FrameOk
    <2> QED BY <2>1, <2>3, <2>4, <2>5, <2>6
  <1> DEFINE r == NextFrame("aac", s, rem)
  <1>5. r = Scan("aac", s, rem)
    BY DEF NextFrame
  <1>6. CASE Candidates(rem) = {}
    <2>1. r = Reads("wait", DropUnsynced(s, Len(rem)))
      BY <1>5, <1>6 DEF Scan
    <2>2. CASE Len(rem) < HeaderLen
      BY <2>1, <2>2 DEF DropUnsynced, Reads, FramerStates, FrameOk
    <2>3. CASE ~(Len(rem) < HeaderLen)
      <3>1. Len(rem) - (HeaderLen - 1) \in Nat
        BY <2>3
      <3>2. /\ DropUnsynced(s, Len(rem)) \in FramerStates
            /\ DropUnsynced(s, Len(rem)).off = s.off + (Len(rem) - (HeaderLen - 1))
        BY <1>2, <1>3, <2>3, <3>1 DEF DropUnsynced
      <3>3. r.st = "wait" /\ r.s = DropUnsynced(s, Len(rem))
        BY <2>1 DEF Reads
      <3>4. /\ s.off \in Nat /\ Len(rem) \in Nat
            /\ s.off <= s.off + (Len(rem) - (HeaderLen - 1))
            /\ s.off + (Len(rem) - (HeaderLen - 1)) <= s.off + Len(rem)
        BY <3>1 DEF FramerStates
      <3> HIDE DEF r
      <3> QED BY <3>2, <3>3, <3>4 DEF FrameOk, r
    <2> QED BY <2>2, <2>3
  <1>7. CASE Candidates(rem) # {}
    <2> DEFINE i == First(Candidates(rem))
               t == IF i > 1 THEN [Discard(s, i - 1) EXCEPT !.synced = FALSE] ELSE s
               at == SubSeq(rem, i, Len(rem))
    <2>1. i \in 1..Len(rem)
      <3>1. Candidates(rem) \subseteq 1..Len(rem) /\ Candidates(rem) \in SUBSET Nat
        BY DEF Candidates
      <3>2. i \in Candidates(rem)
        BY <1>7, <3>1, LeastNat DEF First
      <3> QED BY <3>1, <3>2
    <2>2. t \in FramerStates /\ t.off = s.off + (i - 1)
      <3> HIDE DEF i
      <3>1. CASE i > 1
        <4>1. i - 1 \in Nat
          BY <2>1
        <4> QED BY <1>2, <1>3, <3>1, <4>1
      <3>2. CASE i = 1
        BY <3>2 DEF FramerStates
      <3> QED BY <2>1, <3>1, <3>2
    <2>3. at \in Seq(STRING) /\ Len(at) = Len(rem) - i + 1
      <3> HIDE DEF i
      <3> QED BY <2>1, SubSeqProperties
    <2>4. r = IF Len(at) < FrameLen THEN Reads("wait", t) ELSE Confirm("aac", t, at)
      BY <1>5, <1>7 DEF Scan
    <2> HIDE DEF i, t, at, r
    <2>5. CASE Len(at) < FrameLen
      BY <2>1, <2>2, <2>3, <2>4, <2>5 DEF r, Reads, FramerStates, FrameOk
    <2>6. CASE ~(Len(at) < FrameLen)
      <3>1. FrameOk(r, t.off, Len(at))
        BY <1>4, <2>2, <2>3, <2>4, <2>6
      <3>2. t.off + Len(at) = s.off + Len(rem)
        BY <2>1, <2>2, <2>3 DEF FramerStates
      <3> QED BY <3>1, <3>2 DEF r, FrameOk
    <2> QED BY <2>5, <2>6
  <1> QED BY <1>6, <1>7

\* The framer's loop over a buffer of n cells.
Drainings(n) ==
    {p \in [fs : FramerStates, st : {"wait", "again", "frame"}, aus : Seq(AccessUnits)] :
        p.fs.off <= n}

\* One iteration of it.
LEMMA DrainStepFacts ==
    ASSUME NEW d \in DemuxerStates, NEW p \in Drainings(Len(d.buf))
    PROVE  DrainStep(d, p) \in Drainings(Len(d.buf))
  <1> DEFINE n == Len(d.buf)
             rem == SubSeq(d.buf, p.fs.off + 1, Len(d.buf))
             r == NextFrame("aac", p.fs, rem)
  <1>1. /\ n \in Nat /\ d.buf \in Seq(STRING) /\ d.ids \in Seq(Nat) /\ Len(d.ids) = n
        /\ p.fs \in FramerStates /\ p.fs.off \in 0..n /\ p.aus \in Seq(AccessUnits)
    BY DEF DemuxerStates, Drainings, FramerStates
  <1>2. rem \in Seq(STRING) /\ Len(rem) = n - p.fs.off
    <2>1. p.fs.off + 1 \in 1..(n + 1) /\ n \in ((p.fs.off + 1) - 1)..n
      BY <1>1
    <2> QED BY <1>1, <2>1, SubSeqProperties
  <1>3. DrainStep(d, p) = IF p.st = "wait" THEN p ELSE Drew(d, p, r)
    BY DEF DrainStep
  <1> HIDE DEF rem
  <1>4. FrameOk(r, p.fs.off, n - p.fs.off)
    BY <1>1, <1>2, NextFrameFacts
  <1> HIDE DEF r, n
  <1>5. /\ r.st \in {"wait", "again", "frame"} /\ r.s \in FramerStates /\ r.s.off \in 0..n
        /\ r.st = "frame" => r.s.off >= FrameLen
    BY <1>1, <1>4 DEF FrameOk, FramerStates
  <1>6. ASSUME r.st = "frame"
        PROVE  Append(p.aus, CutAU(d, r.s.off)) \in Seq(AccessUnits)
    <2>0. PICK to \in Int : to = r.s.off
      BY <1>5
    <2> DEFINE from == to - FrameLen + 1
    <2>1. from \in 1..n /\ to \in from..n /\ from \in 1..(n + 1) /\ to \in (from - 1)..n
      <3>1. to \in 0..n /\ to >= FrameLen /\ FrameLen \in Nat \ {0} /\ n \in Nat
        BY <1>1, <1>5, <1>6, <2>0, FramerAssumption
      <3> QED BY <3>1
    <2> HIDE DEF from
    <2>2. SubSeq(d.ids, from, to) \in Seq(Nat)
      BY <1>1, <2>1, SubSeqProperties
    <2>3. Config(d.buf[from]) \in Configs
      <3>1. d.buf[from] \in STRING
        BY <1>1, <2>1 DEF n
      <3> QED BY <3>1 DEF Configs
    <2>4. CutAU(d, r.s.off) \in AccessUnits
      BY <2>0, <2>2, <2>3 DEF CutAU, AccessUnits, from
    <2> QED BY <1>1, <2>4, AppendProperties
  <1>7. Drew(d, p, r) \in Drainings(n)
    <2>1. (IF r.st = "frame" THEN Append(p.aus, CutAU(d, r.s.off)) ELSE p.aus) \in Seq(AccessUnits)
      BY <1>1, <1>6
    <2> QED BY <1>5, <2>1 DEF Drew, Draining, Drainings
  <1> QED BY <1>3, <1>7 DEF n

\* Changes of the demuxer's framer.
LEMMA FrameUpdate ==
    ASSUME NEW d \in DemuxerStates, NEW fs \in FramerStates, fs.off <= Len(d.buf)
    PROVE  [d EXCEPT !.fs = fs] \in DemuxerStates
  BY DEF DemuxerStates

\* The framer moved on and the configuration may be known.
LEMMA ConfigUpdate ==
    ASSUME NEW d \in DemuxerStates, NEW fs \in FramerStates, fs.off <= Len(d.buf),
           NEW asc \in Configs
    PROVE  [d EXCEPT !.fs = fs, !.asc = asc] \in DemuxerStates
  BY DEF DemuxerStates

\* The buffer and the framer changed.
LEMMA BufferUpdate ==
    ASSUME NEW d \in DemuxerStates, NEW buf \in Seq(STRING), NEW ids \in Seq(Nat),
           NEW fs \in FramerStates, Len(buf) = Len(ids), fs.off <= Len(buf)
    PROVE  [d EXCEPT !.buf = buf, !.ids = ids, !.fs = fs] \in DemuxerStates
  <1> DEFINE e == [d EXCEPT !.buf = buf, !.ids = ids, !.fs = fs]
  <1>1. e.buf = buf /\ e.ids = ids /\ e.fs = fs
    BY DEF DemuxerStates
  <1>2. e \in [pmtPID : Nat, audioPID : Nat, patSec : BOOLEAN, pmtSec : BOOLEAN,
               haveCC : BOOLEAN, cc : Nat, skip : Nat, dropping : BOOLEAN,
               buf : Seq(STRING), ids : Seq(Nat), fs : FramerStates, asc : Configs,
               gaps : Nat]
    BY DEF DemuxerStates
  <1> HIDE DEF e
  <1>3. Len(e.ids) = Len(e.buf) /\ e.fs.off <= Len(e.buf)
    BY <1>1
  <1> QED BY <1>2, <1>3, Zenon DEF DemuxerStates

\* The framer's loop.
LEMMA DrainFacts ==
    ASSUME NEW d \in DemuxerStates
    PROVE  /\ Drain(d) \in Yields /\ Drain(d).err = "ok"
           /\ Drain(d).d.buf = d.buf /\ Drain(d).d.ids = d.ids
  <1> DEFINE n == Len(d.buf)
             start == Draining(d.fs, "again", <<>>)
             D == CHOOSE g : g = [k \in 0..(Len(d.buf) + 1) |->
                      IF k = 0 THEN start ELSE DrainStep(d, g[k - 1])]
             asc == IF d.asc = "none" /\ D[n + 1].aus # <<>> THEN D[n + 1].aus[1].cfg ELSE d.asc
  <1>1. n \in Nat /\ d.fs \in FramerStates /\ d.fs.off <= n /\ d.asc \in Configs
    BY DEF DemuxerStates
  <1>2. Drain(d) = Yield([d EXCEPT !.fs = D[n + 1].fs, !.asc = asc], D[n + 1].aus, "ok")
    BY DEF Drain
  <1>3. start \in Drainings(n)
    BY <1>1 DEF Drainings, Draining
  <1>4. \A v \in Drainings(n) : DrainStep(d, v) \in Drainings(n)
    BY DrainStepFacts
  <1> HIDE DEF start, n
  <1>5. D = [k \in 0..(n + 1) |-> IF k = 0 THEN start ELSE DrainStep(d, D[k - 1])]
    <2> DEFINE step == [k \in 0..(n + 1) |-> [v \in Drainings(n) |-> DrainStep(d, v)]]
    <2>1. step \in [0..(n + 1) -> [Drainings(n) -> Drainings(n)]]
      BY <1>4
    <2>2. PICK f : Iterates(f, 0, n + 1, Drainings(n), start, step)
      <3> HIDE DEF step
      <3>1. 0 \in Int /\ n + 1 \in Int /\ 0 <= n + 1
        BY <1>1
      <3> QED BY <1>3, <2>1, <3>1, Recursion, Zenon
    <2>3. ASSUME NEW i \in 0..(n + 1), i # 0 PROVE f[i] = DrainStep(d, f[i - 1])
      <3>1. i - 1 \in 0..(n + 1) /\ f[i - 1] \in Drainings(n)
        BY <1>1, <2>2, <2>3 DEF Iterates
      <3> QED BY <2>2, <2>3, <3>1 DEF Iterates
    <2>4. f = [k \in 0..(n + 1) |-> IF k = 0 THEN start ELSE DrainStep(d, f[k - 1])]
      BY <1>1, <2>2, <2>3 DEF Iterates
    <2> QED BY <2>4 DEF n
  <1> HIDE DEF D
  <1>6. \A i \in 0..(n + 1) : D[i] \in Drainings(n)
    <2>1. D[0] = start /\ \A i \in 0..(n + 1) : i # 0 => D[i] = DrainStep(d, D[i - 1])
      BY <1>1, <1>5
    <2>2. \A i \in 0..(n + 1) : i # 0 /\ D[i - 1] \in Drainings(n) => D[i] \in Drainings(n)
      BY <1>4, <2>1
    <2>3. 0 \in Int /\ n + 1 \in Int
      BY <1>1
    <2> QED BY <1>3, <2>1, <2>2, <2>3, Upwards, Zenon
  <1>7. D[n + 1] \in Drainings(n)
    BY <1>1, <1>6
  <1>8. D[n + 1].fs \in FramerStates /\ D[n + 1].fs.off <= n /\ D[n + 1].aus \in Seq(AccessUnits)
    BY <1>7 DEF Drainings
  <1>9. asc \in Configs
    <2>1. CASE D[n + 1].aus # <<>>
      <3>1. D[n + 1].aus[1] \in AccessUnits
        BY <1>8, <2>1
      <3> QED BY <1>1, <3>1 DEF AccessUnits
    <2>2. CASE D[n + 1].aus = <<>>
      BY <1>1, <2>2
    <2> QED BY <2>1, <2>2
  <1> HIDE DEF asc
  <1> DEFINE e == [d EXCEPT !.fs = D[n + 1].fs, !.asc = asc]
  <1>10. e \in DemuxerStates
    <2>1. D[n + 1].fs.off <= Len(d.buf)
      BY <1>8 DEF n
    <2> QED BY <1>8, <1>9, <2>1, ConfigUpdate, Zenon
  <1>11. e.buf = d.buf /\ e.ids = d.ids
    BY DEF DemuxerStates
  <1>12. Drain(d) = [d |-> e, aus |-> D[n + 1].aus, err |-> "ok"]
    BY <1>2 DEF Yield
  <1> HIDE DEF e
  <1> QED BY <1>8, <1>10, <1>11, <1>12 DEF Yields, SegmentErrs

\* What a step of the demuxer gives, and how one follows another.
LEMMA YieldFacts ==
    ASSUME NEW d \in DemuxerStates, NEW aus \in Seq(AccessUnits), NEW err \in SegmentErrs
    PROVE  /\ Yield(d, aus, err) \in Yields
           /\ Yield(d, aus, err).d = d /\ Yield(d, aus, err).aus = aus
           /\ Yield(d, aus, err).err = err
  BY DEF Yield, Yields

\* The parts of what a step of the demuxer gives.
LEMMA YieldParts ==
    ASSUME NEW r \in Yields
    PROVE  r.d \in DemuxerStates /\ r.aus \in Seq(AccessUnits) /\ r.err \in SegmentErrs
  BY DEF Yields

\* One step after another gives what a step gives.
LEMMA ThenFacts ==
    ASSUME NEW r \in Yields, NEW s \in Yields
    PROVE  Then(r, s) \in Yields
  <1>1. r.aus \o s.aus \in Seq(AccessUnits)
    BY YieldParts, ConcatProperties
  <1> QED BY <1>1, YieldParts, YieldFacts DEF Then

\* Errors and empty lists of access units.
LEMMA NothingYet == <<>> \in Seq(AccessUnits) /\ "ok" \in SegmentErrs
  BY DEF SegmentErrs

\* What was framed is dropped from the front of the buffer.
LEMMA CompactFacts ==
    ASSUME NEW d \in DemuxerStates
    PROVE  Compact(d) \in DemuxerStates
  <1> DEFINE off == d.fs.off
             buf == SubSeq(d.buf, off + 1, Len(d.buf))
             ids == SubSeq(d.ids, off + 1, Len(d.ids))
             fs == [d.fs EXCEPT !.off = 0]
  <1>1. /\ d.buf \in Seq(STRING) /\ d.ids \in Seq(Nat) /\ Len(d.ids) = Len(d.buf)
        /\ d.fs \in FramerStates /\ off \in Nat /\ off <= Len(d.buf)
    BY DEF DemuxerStates, FramerStates
  <1>2. PICK n \in Nat : n = Len(d.buf)
    BY <1>1
  <1> HIDE DEF off
  <1>3. off + 1 \in 1..(n + 1) /\ n \in ((off + 1) - 1)..n
    BY <1>1, <1>2
  <1>4. buf \in Seq(STRING) /\ ids \in Seq(Nat) /\ Len(buf) = Len(ids)
    BY <1>1, <1>2, <1>3, SubSeqProperties
  <1>5. fs \in FramerStates /\ fs.off = 0
    BY <1>1 DEF FramerStates
  <1>6. Compact(d) = [d EXCEPT !.buf = buf, !.ids = ids, !.fs = fs]
    BY DEF Compact, off, DemuxerStates
  <1> HIDE DEF buf, ids, fs
  <1>7. Len(buf) \in Nat /\ fs.off <= Len(buf)
    BY <1>4, <1>5
  <1>8. [d EXCEPT !.buf = buf, !.ids = ids, !.fs = fs] \in DemuxerStates
    BY <1>4, <1>5, <1>7, BufferUpdate, Zenon
  <1> QED BY <1>6, <1>8

\* feed: the cells are appended, framed, and what was framed is dropped.
LEMMA FeedFacts ==
    ASSUME NEW d \in DemuxerStates, NEW es \in Seq(STRING), NEW at \in Nat
    PROVE  FeedES(d, es, at) \in Yields
  <1>1. CASE es = <<>>
    BY <1>1, NothingYet, YieldFacts DEF FeedES
  <1>2. CASE es # <<>>
    <2> DEFINE new == [i \in 1..Len(es) |-> at + i - 1]
               buf == d.buf \o es
               ids == d.ids \o new
               e == [d EXCEPT !.buf = buf, !.ids = ids]
               r == Drain(e)
               off == r.d.fs.off
               c == Compact(r.d)
    <2>1. new \in Seq(Nat) /\ Len(new) = Len(es)
      <3>1. PICK k \in Nat : k = Len(es)
        OBVIOUS
      <3>2. \A i \in 1..k : at + i - 1 \in Nat
        BY <3>1
      <3> QED BY <3>1, <3>2, SequenceFacts
    <2> HIDE DEF new
    <2>2. /\ d.buf \in Seq(STRING) /\ d.ids \in Seq(Nat) /\ Len(d.ids) = Len(d.buf)
          /\ d.fs \in FramerStates /\ d.fs.off <= Len(d.buf) /\ d.fs.off \in Nat
      BY DEF DemuxerStates, FramerStates
    <2>3. /\ buf \in Seq(STRING) /\ ids \in Seq(Nat) /\ Len(buf) = Len(d.buf) + Len(es)
          /\ Len(ids) = Len(d.ids) + Len(new)
      BY <2>1, <2>2, ConcatProperties
    <2>4. Len(ids) = Len(buf) /\ d.fs.off <= Len(buf)
      BY <2>1, <2>2, <2>3
    <2> HIDE DEF buf, ids
    <2>5. e \in DemuxerStates
      BY <2>3, <2>4 DEF DemuxerStates
    <2> HIDE DEF e
    <2>6. r \in Yields
      BY <2>5, DrainFacts
    <2>7. FeedES(d, es, at) = Yield(c, r.aus, "ok")
      BY <1>2 DEF FeedES, Compacted, e, buf, ids, new
    <2> HIDE DEF r
    <2>8. r.d \in DemuxerStates /\ r.aus \in Seq(AccessUnits)
      BY <2>6, YieldParts
    <2>9. c \in DemuxerStates
      BY <2>8, CompactFacts
    <2> QED BY <2>7, <2>8, <2>9, NothingYet, YieldFacts
  <1> QED BY <1>1, <1>2

\* Changes that leave the buffer and the framer alone.
LEMMA CounterUpdates ==
    ASSUME NEW d \in DemuxerStates, NEW n \in Nat
    PROVE  /\ [d EXCEPT !.gaps = n] \in DemuxerStates
           /\ [d EXCEPT !.skip = n] \in DemuxerStates
           /\ [d EXCEPT !.cc = n, !.haveCC = TRUE] \in DemuxerStates
  <1>1. [d EXCEPT !.gaps = n] \in DemuxerStates
    BY DEF DemuxerStates
  <1>2. [d EXCEPT !.skip = n] \in DemuxerStates
    BY DEF DemuxerStates
  <1>3. [d EXCEPT !.cc = n, !.haveCC = TRUE] \in DemuxerStates
    BY DEF DemuxerStates
  <1> QED BY <1>1, <1>2, <1>3, Zenon

\* Changes of the demuxer's flags.
LEMMA FlagUpdates ==
    ASSUME NEW d \in DemuxerStates
    PROVE  /\ [d EXCEPT !.dropping = TRUE] \in DemuxerStates
           /\ [d EXCEPT !.skip = 0, !.dropping = FALSE] \in DemuxerStates
           /\ FreshTables(d) \in DemuxerStates
           /\ [d EXCEPT !.haveCC = FALSE] \in DemuxerStates
  <1>2. [d EXCEPT !.dropping = TRUE] \in DemuxerStates
    BY DEF DemuxerStates
  <1>3. [d EXCEPT !.skip = 0, !.dropping = FALSE] \in DemuxerStates
    BY DEF DemuxerStates
  <1>4. FreshTables(d) \in DemuxerStates
    BY DEF DemuxerStates, FreshTables, NoPID
  <1>5. [d EXCEPT !.haveCC = FALSE] \in DemuxerStates
    BY DEF DemuxerStates
  <1> QED BY <1>2, <1>3, <1>4, <1>5, Zenon

\* Changes of the demuxer's view of the tables.
LEMMA SectionUpdates ==
    ASSUME NEW d \in DemuxerStates, NEW a \in BOOLEAN, NEW b \in Nat
    PROVE  /\ [d EXCEPT !.patSec = a, !.pmtPID = b] \in DemuxerStates
           /\ [d EXCEPT !.pmtSec = a] \in DemuxerStates
           /\ [d EXCEPT !.audioPID = b] \in DemuxerStates
  <1>1. [d EXCEPT !.patSec = a, !.pmtPID = b] \in DemuxerStates
    BY DEF DemuxerStates
  <1>2. [d EXCEPT !.pmtSec = a] \in DemuxerStates
    BY DEF DemuxerStates
  <1>3. [d EXCEPT !.audioPID = b] \in DemuxerStates
    BY DEF DemuxerStates
  <1> QED BY <1>1, <1>2, <1>3, Zenon

\* end: what is left in the buffer is framed.
LEMMA EndFacts ==
    ASSUME NEW d \in DemuxerStates
    PROVE  EndTS(d) \in Yields /\ EndTS(d).err = "ok"
  <1> DEFINE eof == SetEOF(d.fs)
             e == [d EXCEPT !.fs = eof]
             r == Drain(e)
             fs == Finish(r.d.fs, Len(r.d.buf) - r.d.fs.off)
             f == [r.d EXCEPT !.fs = fs]
  <1>1. eof \in FramerStates /\ eof.off <= Len(d.buf)
    <2>1. d.fs \in FramerStates /\ d.fs.off <= Len(d.buf)
      BY DEF DemuxerStates
    <2>2. eof \in FramerStates /\ eof.off = d.fs.off
      BY <2>1 DEF SetEOF, FramerStates
    <2> QED BY <2>1, <2>2
  <1> HIDE DEF eof
  <1>2. e \in DemuxerStates
    BY <1>1, FrameUpdate, Zenon
  <1> HIDE DEF e
  <1>3. r.d \in DemuxerStates /\ r.aus \in Seq(AccessUnits)
    BY <1>2, DrainFacts, YieldParts
  <1>4. EndTS(d) = Yield(f, r.aus, "ok")
    BY DEF EndTS, Finished, e, eof, DemuxerStates
  <1> HIDE DEF r
  <1>5. fs \in FramerStates /\ fs.off <= Len(r.d.buf)
    <2>1. r.d.fs \in FramerStates /\ r.d.fs.off <= Len(r.d.buf)
      BY <1>3 DEF DemuxerStates
    <2>2. [r.d.fs EXCEPT !.gaps = @ + 1] \in FramerStates
          /\ [r.d.fs EXCEPT !.gaps = @ + 1].off = r.d.fs.off
      BY <2>1 DEF FramerStates
    <2> QED BY <2>1, <2>2 DEF Finish
  <1> HIDE DEF fs
  <1>6. f \in DemuxerStates
    BY <1>3, <1>5, FrameUpdate, Zenon
  <1> HIDE DEF f
  <1> QED BY <1>3, <1>4, <1>6, NothingYet, YieldFacts

\* resetContinuity and resetDomain.
LEMMA ResetFacts ==
    ASSUME NEW d \in DemuxerStates
    PROVE  /\ ResetContinuity(d) \in Yields
           /\ ResetDomain(d) \in Yields
  <1>1. ASSUME NEW e \in DemuxerStates PROVE FreshFramer(e) \in DemuxerStates
    <2> DEFINE g == e.gaps + e.fs.gaps
    <2>1. g \in Nat
      BY DEF DemuxerStates, FramerStates
    <2>2. NewStream \in FramerStates /\ NewStream.off = 0
      BY DEF NewStream, FramerStates
    <2>3. FreshFramer(e) = [e EXCEPT !.gaps = g, !.buf = <<>>, !.ids = <<>>, !.fs = NewStream,
                                     !.skip = 0, !.dropping = FALSE]
      BY DEF FreshFramer
    <2> HIDE DEF g
    <2>4. [e EXCEPT !.gaps = g] \in DemuxerStates
      BY <2>1, CounterUpdates, Zenon
    <2> DEFINE e1 == [e EXCEPT !.gaps = g]
               e2 == [e1 EXCEPT !.buf = <<>>, !.ids = <<>>, !.fs = NewStream]
               e3 == [e2 EXCEPT !.skip = 0, !.dropping = FALSE]
    <2>5. FreshFramer(e) = e3
      BY <2>3
    <2> HIDE DEF e1
    <2>6. e2 \in DemuxerStates
      <3>1. <<>> \in Seq(STRING) /\ <<>> \in Seq(Nat) /\ Len(<<>>) = 0
        OBVIOUS
      <3>2. e1 \in DemuxerStates
        BY <2>4 DEF e1
      <3>3. NewStream.off <= Len(<<>>)
        BY <2>2, <3>1
      <3> QED BY <2>2, <3>1, <3>2, <3>3, BufferUpdate, Zenon
    <2> HIDE DEF e2
    <2>7. e3 \in DemuxerStates
      BY <2>6, FlagUpdates, Zenon
    <2> QED BY <2>5, <2>7
  <1> DEFINE r == EndTS(d)
             q == ResetContinuity(d)
  <1>2. r.d \in DemuxerStates /\ r.aus \in Seq(AccessUnits)
    BY EndFacts, YieldParts
  <1>3. q = Yield(FreshFramer(r.d), r.aus, "ok")
    BY DEF ResetContinuity
  <1> HIDE DEF r
  <1>4. q \in Yields
    BY <1>1, <1>2, <1>3, NothingYet, YieldFacts
  <1>5. ResetDomain(d) = Yield(FreshTables(q.d), q.aus, "ok")
    BY DEF ResetDomain
  <1> HIDE DEF q
  <1>6. FreshTables(q.d) \in DemuxerStates /\ q.aus \in Seq(AccessUnits)
    BY <1>4, YieldParts, FlagUpdates, Zenon
  <1> QED BY <1>4, <1>5, <1>6, NothingYet, YieldFacts DEF q

\* handlePES.
LEMMA PESFacts ==
    ASSUME NEW d \in DemuxerStates, NEW p \in Packet
    PROVE  HandlePES(d, p) \in Yields
  <1>1. p.es \in Seq(STRING) /\ p.at \in Nat /\ p.hdr \in Nat /\ d.skip \in Nat
    BY DEF Packet, DemuxerStates
  <1>2. CASE p.start
    <2> DEFINE e == [d EXCEPT !.skip = 0, !.dropping = FALSE]
    <2>1. e \in DemuxerStates
      BY FlagUpdates, Zenon
    <2>2. \/ HandlePES(d, p) = Yield([e EXCEPT !.dropping = TRUE], <<>>, "ok")
          \/ HandlePES(d, p) = Yield([e EXCEPT !.skip = p.hdr], <<>>, "ok")
          \/ HandlePES(d, p) = FeedES(e, p.es, p.at)
      BY <1>2 DEF HandlePES
    <2> HIDE DEF e
    <2>3. [e EXCEPT !.dropping = TRUE] \in DemuxerStates
      BY <2>1, FlagUpdates, Zenon
    <2>4. [e EXCEPT !.skip = p.hdr] \in DemuxerStates
      BY <1>1, <2>1, CounterUpdates, Zenon
    <2>5. FeedES(e, p.es, p.at) \in Yields
      BY <1>1, <2>1, FeedFacts
    <2>6. \A f \in DemuxerStates : Yield(f, <<>>, "ok") \in Yields
      BY NothingYet, YieldFacts
    <2> QED BY <2>2, <2>3, <2>4, <2>5, <2>6
  <1>3. CASE ~p.start /\ d.dropping
    BY <1>3, NothingYet, YieldFacts DEF HandlePES
  <1>4. CASE ~p.start /\ ~d.dropping
    <2> DEFINE n == IF d.skip < Len(p.es) THEN d.skip ELSE Len(p.es)
               k == d.skip - n
               e == [d EXCEPT !.skip = k]
               es == SubSeq(p.es, n + 1, Len(p.es))
    <2>1. PICK len \in Nat : len = Len(p.es)
      BY <1>1
    <2>2. n \in 0..len /\ n <= d.skip
      BY <1>1, <2>1
    <2>3. HandlePES(d, p) = FeedES(e, es, p.at + n)
      BY <1>4 DEF HandlePES
    <2> HIDE DEF n
    <2>4. k \in Nat /\ p.at + n \in Nat
      <3>1. n \in Nat
        BY <2>2
      <3>2. PICK m \in Nat : m = d.skip
        BY <1>1
      <3>3. m - n \in Nat
        BY <2>2, <3>1, <3>2
      <3>4. PICK a \in Nat : a = p.at
        BY <1>1
      <3>5. a + n \in Nat
        BY <3>1
      <3> QED BY <3>2, <3>3, <3>4, <3>5
    <2> HIDE DEF k
    <2>5. e \in DemuxerStates
      BY <2>4, CounterUpdates, Zenon
    <2>6. es \in Seq(STRING)
      <3>1. n + 1 \in 1..(len + 1) /\ len \in ((n + 1) - 1)..len
        BY <2>2
      <3> QED BY <1>1, <2>1, <3>1, SubSeqProperties
    <2> HIDE DEF e, es
    <2> QED BY <2>3, <2>4, <2>5, <2>6, FeedFacts
  <1> QED BY <1>2, <1>3, <1>4

\* The audio PID.
LEMMA AudioFacts ==
    ASSUME NEW d \in DemuxerStates, NEW p \in Packet
    PROVE  AudioPacket(d, p) \in Yields /\ Spliced(d, p) \in Yields
  <1> DEFINE q == ResetContinuity(d)
             none == Yield(d, <<>>, "ok")
             Fed(r) == Then(r, HandlePES(Counted(r.d, p.cc), p))
             forget == [q.d EXCEPT !.haveCC = FALSE]
             g == q.d.gaps + 1
             lost == [q.d EXCEPT !.gaps = g]
  <1>1. none \in Yields /\ q \in Yields
    BY NothingYet, YieldFacts, ResetFacts
  <1>2. q.d \in DemuxerStates /\ q.aus \in Seq(AccessUnits)
    BY <1>1, YieldParts
  <1>3. AudioPacket(d, p) \in {none, Fed(Lost(q)), Fed(none)}
    BY DEF AudioPacket
  <1>4. Spliced(d, p) \in {Yield(forget, q.aus, "ok"), none}
    BY DEF Spliced
  <1>5. Lost(q) = Yield(lost, q.aus, "ok")
    BY DEF Lost
  <1> HIDE DEF q, none
  <1>6. forget \in DemuxerStates
    BY <1>2, FlagUpdates, Zenon
  <1>7. g \in Nat
    BY <1>2 DEF DemuxerStates
  <1> HIDE DEF forget, g
  <1>8. lost \in DemuxerStates
    BY <1>2, <1>7, CounterUpdates, Zenon
  <1> HIDE DEF lost
  <1>9. Lost(q) \in Yields /\ Yield(forget, q.aus, "ok") \in Yields
    BY <1>2, <1>5, <1>6, <1>8, NothingYet, YieldFacts
  <1>10. ASSUME NEW r \in Yields PROVE Fed(r) \in Yields
    <2> DEFINE c == Counted(r.d, p.cc)
    <2>1. r.d \in DemuxerStates /\ p.cc \in Nat
      BY YieldParts DEF Packet
    <2>2. c \in DemuxerStates
      BY <2>1, CounterUpdates, Zenon DEF Counted
    <2> HIDE DEF c
    <2>3. HandlePES(c, p) \in Yields
      BY <2>2, PESFacts
    <2> QED BY <2>3, ThenFacts DEF c
  <1> HIDE DEF Fed
  <1> QED BY <1>1, <1>3, <1>4, <1>9, <1>10

\* handlePacket.
LEMMA PacketFacts ==
    ASSUME NEW d \in DemuxerStates, NEW p \in Packet
    PROVE  HandlePacket(d, p) \in Yields
  <1> DEFINE a == SectionOpen(d.patSec, p)
             b == IF SectionDone(d.patSec, p) THEN ParsePAT(d, p) ELSE d.pmtPID
             c == SectionOpen(d.pmtSec, p)
             pat == [d EXCEPT !.patSec = a, !.pmtPID = b]
             pmt == [d EXCEPT !.pmtSec = c]
             sp == Spliced(d, p)
  <1>1. \/ HandlePacket(d, p) = Yield(d, <<>>, "unsupportedPlaylist")
        \/ HandlePacket(d, p) = Yield(pat, <<>>, "ok")
        \/ HandlePacket(d, p) = ParsePMT(pmt, p)
        \/ HandlePacket(d, p) = Yield(pmt, <<>>, "ok")
        \/ HandlePacket(d, p) = sp
        \/ HandlePacket(d, p) = Then(sp, AudioPacket(sp.d, p))
        \/ HandlePacket(d, p) = Yield(d, <<>>, "ok")
    BY DEF HandlePacket, DemuxerStates
  <1>2. a \in BOOLEAN /\ b \in Nat /\ c \in BOOLEAN
    BY DEF SectionOpen, SectionDone, Appends, ParsePAT, Packet, DemuxerStates
  <1> HIDE DEF a, b, c
  <1>3. pat \in DemuxerStates
    BY <1>2, SectionUpdates, Zenon
  <1>4. pmt \in DemuxerStates
    BY <1>2, SectionUpdates, Zenon
  <1> HIDE DEF pat, pmt
  <1>5. \A e \in DemuxerStates, err \in SegmentErrs : Yield(e, <<>>, err) \in Yields
    BY NothingYet, YieldFacts
  <1>6. ParsePMT(pmt, p) \in Yields
    <2> DEFINE e == [pmt EXCEPT !.audioPID = p.maps]
    <2>1. e \in DemuxerStates
      <3>1. p.maps \in Nat
        BY DEF Packet
      <3> QED BY <1>4, <3>1, SectionUpdates, Zenon
    <2>2. \/ ParsePMT(pmt, p) = Yield(e, <<>>, "ok")
          \/ ParsePMT(pmt, p) = Yield(pmt, <<>>, "unsupportedCodec")
          \/ ParsePMT(pmt, p) = Yield(pmt, <<>>, "ok")
      BY DEF ParsePMT
    <2> HIDE DEF e
    <2> QED BY <1>4, <1>5, <2>1, <2>2 DEF SegmentErrs
  <1>7. sp \in Yields
    BY AudioFacts
  <1> HIDE DEF sp
  <1>8. Then(sp, AudioPacket(sp.d, p)) \in Yields
    BY <1>7, YieldParts, AudioFacts, ThenFacts
  <1> QED BY <1>1, <1>3, <1>4, <1>5, <1>6, <1>7, <1>8 DEF SegmentErrs

\* demux: a whole segment.
LEMMA DemuxTSFacts ==
    ASSUME NEW d \in DemuxerStates, NEW seg \in Seq(Packet), NEW disc
    PROVE  DemuxTS(d, seg, disc) \in Yields
  <1> DEFINE from == IF disc THEN ResetDomain(d) ELSE Yield(d, <<>>, "ok")
             start == Yield([from.d EXCEPT !.haveCC = FALSE], from.aus, "ok")
             Step(r, p) == IF r.err # "ok" THEN r ELSE Then(r, HandlePacket(r.d, p))
             R == CHOOSE g : g = [i \in 0..Len(seg) |->
                      IF i = 0 THEN start ELSE Step(g[i - 1], seg[i])]
             none == Yield(start.d, start.aus, "malformedSegment")
  <1>1. DemuxTS(d, seg, disc) \in {none, R[Len(seg)]}
    BY DEF DemuxTS
  <1>2. PICK n \in Nat : n = Len(seg)
    OBVIOUS
  <1>3. from \in Yields
    BY NothingYet, YieldFacts, ResetFacts
  <1> HIDE DEF from
  <1>4. start \in Yields
    <2>1. [from.d EXCEPT !.haveCC = FALSE] \in DemuxerStates
      BY <1>3, YieldParts, FlagUpdates, Zenon
    <2> QED BY <1>3, <2>1, YieldParts, NothingYet, YieldFacts
  <1> HIDE DEF start
  <1>5. none \in Yields
    BY <1>4, YieldParts, YieldFacts DEF SegmentErrs
  <1>6. ASSUME NEW r \in Yields, NEW p \in Packet PROVE Step(r, p) \in Yields
    BY YieldParts, PacketFacts, ThenFacts
  <1> HIDE DEF Step, none
  <1>7. \A i \in 0..n : R[i] \in Yields
    <2>1. \A i \in 1..n : seg[i] \in Packet
      BY <1>2
    <2>2. PICK f : Iterates(f, 0, n, Yields, start,
                            [i \in 0..n |-> [r \in Yields |-> IF i = 0 THEN r ELSE Step(r, seg[i])]])
      <3> DEFINE step == [i \in 0..n |-> [r \in Yields |-> IF i = 0 THEN r ELSE Step(r, seg[i])]]
      <3>1. step \in [0..n -> [Yields -> Yields]]
        BY <1>6, <2>1
      <3> HIDE DEF step
      <3>2. 0 \in Int /\ n \in Int /\ 0 <= n
        OBVIOUS
      <3>3. \E f : Iterates(f, 0, n, Yields, start, step)
        BY <1>4, <3>1, <3>2, Recursion, Zenon
      <3> QED BY <3>3 DEF step
    <2>3. f = [i \in 0..n |-> IF i = 0 THEN start ELSE Step(f[i - 1], seg[i])]
      BY <2>2 DEF Iterates
    <2>4. R = [i \in 0..n |-> IF i = 0 THEN start ELSE Step(R[i - 1], seg[i])]
      BY <1>2, <2>3
    <2> HIDE DEF R
    <2>5. R[0] = start /\ \A i \in 0..n : i # 0 => R[i] = Step(R[i - 1], seg[i])
      BY <2>4
    <2>6. \A i \in 0..n : i # 0 /\ R[i - 1] \in Yields => R[i] \in Yields
      BY <1>6, <2>1, <2>5
    <2>7. 0 \in Int /\ n \in Int
      OBVIOUS
    <2> QED BY <1>4, <2>5, <2>6, <2>7, Upwards, Zenon
  <1> HIDE DEF R
  <1> QED BY <1>1, <1>2, <1>5, <1>7

-----------------------------------------------------------------------------
(* Playlists.                                                              *)

PlaylistErrs == {"malformedPlaylist", "unsupportedPlaylist"}

\* The segments of a playlist have consecutive numbers.
Numbered(segs) ==
    /\ Len(segs) \in Nat /\ DOMAIN segs = 1..Len(segs)
    /\ \A k \in 1..Len(segs) : segs[k].seq \in Nat /\ segs[k].seq = segs[1].seq + (k - 1)

\* A parser that has taken its values from Y, and the variants W they make.
Segs(Y) == [seq : Nat, uri : Y, disc : BOOLEAN, gap : BOOLEAN, init : Y]
Parsers(Y, W) ==
    [isMedia : BOOLEAN, isMaster : BOOLEAN, haveTgt : BOOLEAN, seq : Nat,
     endList : BOOLEAN, segs : Seq(Segs(Y)), extinf : BOOLEAN, disc : BOOLEAN,
     gap : BOOLEAN, map : Y, pend : Y, variants : Seq(W), audio : Seq(Y),
     err : PlaylistErrs \cup {"ok"}]
Values(Y, W) == NoVariant \in Y /\ Blank \in Y /\ \A v, u \in Y : [v EXCEPT !.uri = u] \in W

\* A refused playlist keeps what it had read.
LEMMA RefuseFacts ==
    ASSUME NEW Y, NEW W, Values(Y, W), NEW p \in Parsers(Y, W), NEW e \in PlaylistErrs
    PROVE  /\ Refuse(p, e) \in Parsers(Y, W) /\ Refuse(p, e).segs = p.segs
           /\ Refuse(p, e).seq = p.seq /\ Refuse(p, e).err = e
  BY DEF Refuse, Parsers, PlaylistErrs

\* handleURI appends at most one segment, under the next number.
LEMMA URIFacts ==
    ASSUME NEW Y, NEW W, Values(Y, W), NEW p \in Parsers(Y, W), NEW uri \in Y
    PROVE  LET q == HandleURI(p, uri)
               e == [seq |-> (p.seq + Len(p.segs)) % (MaxSeqNo + 1), uri |-> uri,
                     disc |-> p.disc, gap |-> p.gap, init |-> p.map]
           IN  /\ q \in Parsers(Y, W) /\ q.seq = p.seq
               /\ \/ q.segs = p.segs
                  \/ Len(p.segs) < MaxSegments /\ q.segs = Append(p.segs, e)
  <1> DEFINE q == HandleURI(p, uri)
             e == [seq |-> (p.seq + Len(p.segs)) % (MaxSeqNo + 1), uri |-> uri,
                   disc |-> p.disc, gap |-> p.gap, init |-> p.map]
  <1>0. NoVariant \in Y
    BY Zenon DEF Values
  <1>1. CASE p.pend # NoVariant
    <2> DEFINE u == [p.pend EXCEPT !.uri = uri]
               vs == Append(p.variants, u)
    <2>1. p.pend \in Y /\ uri \in Y /\ p.variants \in Seq(W)
      BY DEF Parsers
    <2>2. u \in W
      BY <2>1, Zenon DEF Values
    <2> HIDE DEF u
    <2>3. vs \in Seq(W)
      BY <2>1, <2>2, AppendProperties
    <2>4. q = [p EXCEPT !.variants = vs, !.pend = NoVariant, !.isMaster = TRUE]
      BY <1>1 DEF HandleURI, u
    <2> HIDE DEF q, vs
    <2> QED BY <1>0, <2>3, <2>4 DEF Parsers, q
  <1>2. CASE p.pend = NoVariant /\ (~p.extinf \/ Len(p.segs) >= MaxSegments)
    <2>1. q \in {Refuse(p, "malformedPlaylist"), Refuse(p, "unsupportedPlaylist")}
      BY <1>2 DEF HandleURI
    <2> QED BY <2>1, RefuseFacts DEF PlaylistErrs
  <1>3. CASE p.pend = NoVariant /\ p.extinf /\ ~(Len(p.segs) >= MaxSegments)
    <2> DEFINE ss == Append(p.segs, e)
    <2>1. p.segs \in Seq(Segs(Y)) /\ p.seq \in Nat /\ p.disc \in BOOLEAN /\ p.gap \in BOOLEAN
          /\ p.map \in Y /\ uri \in Y
      BY DEF Parsers
    <2>2. (p.seq + Len(p.segs)) % (MaxSeqNo + 1) \in Nat
      <3>1. PICK n \in Nat : n = p.seq + Len(p.segs)
        BY <2>1
      <3>2. n % (MaxSeqNo + 1) \in Nat
        BY PlaylistAssumption
      <3> QED BY <3>1, <3>2
    <2>3. e \in Segs(Y)
      BY <2>1, <2>2 DEF Segs
    <2> HIDE DEF e
    <2>4. ss \in Seq(Segs(Y)) /\ Len(p.segs) < MaxSegments
      BY <1>3, <2>1, <2>3, AppendProperties, PlaylistAssumption
    <2>5. q = [p EXCEPT !.segs = ss, !.extinf = FALSE, !.disc = FALSE, !.gap = FALSE]
      BY <1>3 DEF HandleURI, e
    <2> HIDE DEF q
    <2>6. q.segs = ss /\ q.seq = p.seq
      BY <2>5 DEF Parsers
    <2>7. q \in Parsers(Y, W)
      <3> HIDE DEF ss
      <3> QED BY <2>4, <2>5 DEF Parsers
    <2> QED BY <2>4, <2>6, <2>7 DEF q, e
  <1> QED BY <1>1, <1>2, <1>3

\* handleTag leaves the segments alone, and changes their first number only
\* to one that fits.
LEMMA TagFacts ==
    ASSUME NEW Y, NEW W, Values(Y, W), NEW p \in Parsers(Y, W), NEW t, NEW v \in Y, t = "seq" => v \in Nat
    PROVE  LET q == HandleTag(p, t, v)
           IN  /\ q \in Parsers(Y, W) /\ q.segs = p.segs
               /\ q.seq = p.seq \/ (t = "seq" /\ q.seq = v /\ SeqFits(v))
  <1> DEFINE q == HandleTag(p, t, v)
             Good(r) == r \in Parsers(Y, W) /\ r.segs = p.segs /\ r.seq = p.seq
  <1>1. Good(p) /\ \A e \in PlaylistErrs : Good(Refuse(p, e))
    BY RefuseFacts
  <1>2. v \in Y
    OBVIOUS
  <1>3. Good([p EXCEPT !.isMedia = TRUE, !.haveTgt = TRUE])
    BY DEF Parsers
  <1>4. Good([p EXCEPT !.isMedia = TRUE, !.endList = TRUE])
    BY DEF Parsers
  <1>5. Good([p EXCEPT !.isMedia = TRUE, !.extinf = TRUE])
    BY DEF Parsers
  <1>6. Good([p EXCEPT !.disc = TRUE]) /\ Good([p EXCEPT !.gap = TRUE])
    BY DEF Parsers
  <1>7. Good([p EXCEPT !.isMedia = TRUE, !.map = v])
    BY <1>2 DEF Parsers
  <1>8. Good([p EXCEPT !.isMaster = TRUE, !.pend = v])
    BY <1>2 DEF Parsers
  <1>9. Good([p EXCEPT !.isMaster = TRUE, !.audio = Append(p.audio, v)])
    <2> DEFINE a == Append(p.audio, v)
    <2>1. a \in Seq(Y)
      <3>1. p.audio \in Seq(Y)
        BY DEF Parsers
      <3> QED BY <1>2, <3>1, AppendProperties
    <2> HIDE DEF a
    <2>2. Good([p EXCEPT !.isMaster = TRUE, !.audio = a])
      BY <2>1 DEF Parsers
    <2> QED BY <2>2 DEF a
  <1>10. CASE t = "seq"
    <2>1. q = IF SeqFits(v) THEN [p EXCEPT !.seq = v] ELSE Refuse(p, "malformedPlaylist")
      BY <1>10 DEF HandleTag
    <2>2. /\ [p EXCEPT !.seq = v] \in Parsers(Y, W) /\ [p EXCEPT !.seq = v].segs = p.segs
          /\ [p EXCEPT !.seq = v].seq = v
      BY <1>10 DEF Parsers
    <2> QED BY <1>1, <1>10, <2>1, <2>2 DEF PlaylistErrs
  <1>11. CASE t # "seq"
    <2>1. \/ q = p \/ q = Refuse(p, "malformedPlaylist") \/ q = Refuse(p, "unsupportedPlaylist")
          \/ q = [p EXCEPT !.isMedia = TRUE, !.haveTgt = TRUE]
          \/ q = [p EXCEPT !.isMedia = TRUE, !.endList = TRUE]
          \/ q = [p EXCEPT !.isMedia = TRUE, !.extinf = TRUE]
          \/ q = [p EXCEPT !.disc = TRUE] \/ q = [p EXCEPT !.gap = TRUE]
          \/ q = [p EXCEPT !.isMedia = TRUE, !.map = v]
          \/ q = [p EXCEPT !.isMaster = TRUE, !.pend = v]
          \/ q = [p EXCEPT !.isMaster = TRUE, !.audio = Append(p.audio, v)]
      BY <1>11, Zenon DEF HandleTag
    <2> HIDE DEF Good, q
    <2>2. "malformedPlaylist" \in PlaylistErrs /\ "unsupportedPlaylist" \in PlaylistErrs
      BY DEF PlaylistErrs
    <2>3. Good(q)
      BY <1>1, <1>3, <1>4, <1>5, <1>6, <1>7, <1>8, <1>9, <2>1, <2>2
    <2> QED BY <2>3 DEF Good, q
  <1> QED BY <1>10, <1>11

\* One line.
LEMMA LineFacts ==
    ASSUME NEW Y, NEW W, Values(Y, W), NEW p \in Parsers(Y, W), NEW l, l.v \in Y,
           l.t = "seq" => l.v \in Nat
    PROVE  ParseLine(p, l) \in Parsers(Y, W)
  <1>1. ParseLine(p, l) \in {p, HandleURI(p, l.v), HandleTag(p, l.t, l.v)}
    BY DEF ParseLine
  <1>2. HandleURI(p, l.v) \in Parsers(Y, W)
    BY URIFacts
  <1>3. HandleTag(p, l.t, l.v) \in Parsers(Y, W)
    BY TagFacts
  <1> QED BY <1>1, <1>2, <1>3

\* A parser whose segments are numbered from the playlist's first number, none
\* of which has wrapped round.
Counts(p) ==
    /\ SeqFits(p.seq)
    /\ \A k \in 1..Len(p.segs) : p.segs[k].seq = p.seq + (k - 1)

\* Every line keeps the count: segments are numbered on from the first.
LEMMA CountsFacts ==
    ASSUME NEW Y, NEW W, Values(Y, W), NEW p \in Parsers(Y, W), Counts(p), NEW l, l.v \in Y,
           l.t = "seq" => l.v \in Nat /\ p.segs = <<>>
    PROVE  /\ Counts(ParseLine(p, l))
           /\ l.t # "uri" => ParseLine(p, l).segs = p.segs
  <1> DEFINE q == ParseLine(p, l)
  <1>1. CASE p.err # "ok"
    BY <1>1 DEF ParseLine
  <1>2. CASE p.err = "ok" /\ l.t = "uri"
    <2>1. q = HandleURI(p, l.v)
      BY <1>2 DEF ParseLine
    <2> DEFINE n == Len(p.segs)
               e == [seq |-> (p.seq + Len(p.segs)) % (MaxSeqNo + 1), uri |-> l.v,
                     disc |-> p.disc, gap |-> p.gap, init |-> p.map]
    <2>2. q.seq = p.seq /\ (q.segs = p.segs \/ (n < MaxSegments /\ q.segs = Append(p.segs, e)))
      BY <2>1, URIFacts
    <2> HIDE DEF q
    <2>3. CASE q.segs = p.segs
      BY <1>2, <2>2, <2>3 DEF Counts, q
    <2>4. CASE n < MaxSegments /\ q.segs = Append(p.segs, e)
      <3>1. p.segs \in Seq(Segs(Y)) /\ p.seq \in Nat /\ n \in Nat
        BY DEF Parsers
      <3>2. (p.seq + n) % (MaxSeqNo + 1) = p.seq + n
        <4>1. PICK m \in Nat : m = p.seq + n
          BY <3>1
        <4>2. m <= MaxSeqNo
          <5>1. PICK a \in Nat, b \in Nat : a = p.seq /\ b = n
            BY <3>1
          <5>2. a + (MaxSegments - 1) <= MaxSeqNo /\ b < MaxSegments /\ m = a + b
            BY <2>4, <4>1, <5>1 DEF Counts, SeqFits
          <5> QED BY <5>2, PlaylistAssumption
        <4>3. m % (MaxSeqNo + 1) = m
          BY <4>2, PlaylistAssumption
        <4> QED BY <4>1, <4>3
      <3>3. e.seq = p.seq + n
        BY <3>2
      <3> HIDE DEF e
      <3>4. /\ Len(q.segs) = n + 1 /\ q.segs[n + 1] = e
            /\ \A k \in 1..n : q.segs[k] = p.segs[k]
        BY <2>4, <3>1
      <3> HIDE DEF n
      <3>5. \A k \in 1..n : p.segs[k].seq = p.seq + (k - 1)
        BY DEF Counts, n
      <3>6. ASSUME NEW k \in 1..(n + 1) PROVE q.segs[k].seq = p.seq + (k - 1)
        <4>1. CASE k \in 1..n
          BY <3>4, <3>5, <4>1
        <4>2. CASE k = n + 1
          BY <3>1, <3>3, <3>4, <4>2
        <4> QED BY <3>1, <4>1, <4>2
      <3> QED BY <1>2, <2>2, <3>4, <3>6 DEF Counts, q
    <2> QED BY <2>2, <2>3, <2>4
  <1>3. CASE p.err = "ok" /\ l.t # "uri"
    <2>1. q = HandleTag(p, l.t, l.v)
      BY <1>3 DEF ParseLine
    <2>2. q.segs = p.segs /\ (q.seq = p.seq \/ (l.t = "seq" /\ q.seq = l.v /\ SeqFits(l.v)))
      BY <2>1, TagFacts
    <2> HIDE DEF q
    <2>3. CASE q.seq = p.seq
      BY <2>2, <2>3 DEF Counts, q
    <2>4. CASE l.t = "seq" /\ q.seq = l.v /\ SeqFits(l.v)
      <3>1. Len(q.segs) = 0
        BY <2>2, <2>4
      <3>2. 1..Len(q.segs) = {}
        BY <3>1
      <3> QED BY <2>2, <2>4, <3>2 DEF Counts, q
    <2> QED BY <2>2, <2>3, <2>4
  <1> QED BY <1>1, <1>2, <1>3

\* Parsing a body: what it is, and consecutive numbers of its segments.
LEMMA PlaylistFacts ==
    ASSUME NEW lines, Body(lines)
    PROVE  /\ ParsePlaylist(lines).kind \in PlaylistErrs \cup {"media", "master"}
           /\ Numbered(ParsePlaylist(lines).p.segs)
  <1> DEFINE P == CHOOSE g : g = [i \in 1..Len(lines) |->
                      IF i = 1 THEN NewParser ELSE ParseLine(g[i - 1], lines[i])]
  <1>1. PICK n \in Nat : n = Len(lines)
    BY DEF Body
  <1> DEFINE Y == {lines[i].v : i \in 1..n} \cup {NoVariant, Blank}
             W == {[v EXCEPT !.uri = u] : v \in Y, u \in Y}
  <1>2. Values(Y, W) /\ \A i \in 1..n : lines[i].v \in Y
    <2>1. NoVariant \in Y /\ Blank \in Y
      BY Zenon
    <2>2. \A i \in 1..n : lines[i].v \in Y
      BY Zenon
    <2> HIDE DEF Y
    <2>3. \A v, u \in Y : [v EXCEPT !.uri = u] \in W
      OBVIOUS
    <2> HIDE DEF W
    <2> QED BY <2>1, <2>2, <2>3, Zenon DEF Values
  <1>3. \/ ParsePlaylist(lines) = [kind |-> "malformedPlaylist", p |-> NewParser]
        \/ lines # <<>> /\ ParsePlaylist(lines) = [kind |-> Result(P[n]), p |-> P[n]]
    BY <1>1, Zenon DEF ParsePlaylist
  <1> HIDE DEF Y, W
  <1>4. NewParser \in Parsers(Y, W) /\ Counts(NewParser) /\ NewParser.segs = <<>>
    <2>1. NoVariant \in Y /\ Blank \in Y
      BY <1>2, Zenon DEF Values
    <2>2. NewParser \in Parsers(Y, W)
      <3>1. <<>> \in Seq(Segs(Y)) /\ <<>> \in Seq(W) /\ <<>> \in Seq(Y)
        OBVIOUS
      <3>2. "ok" \in PlaylistErrs \cup {"ok"}
        OBVIOUS
      <3> QED BY <2>1, <3>1, <3>2 DEF NewParser, Parsers
    <2>3. NewParser.segs = <<>> /\ NewParser.seq = 0
      BY DEF NewParser
    <2>4. SeqFits(0) /\ 1..Len(<<>>) = {}
      BY PlaylistAssumption DEF SeqFits
    <2> QED BY <2>2, <2>3, <2>4 DEF Counts
  <1>5. CASE ParsePlaylist(lines) = [kind |-> "malformedPlaylist", p |-> NewParser]
    BY <1>4, <1>5 DEF PlaylistErrs, Numbered
  <1>6. CASE lines # <<>> /\ ParsePlaylist(lines) = [kind |-> Result(P[n]), p |-> P[n]]
    <2>1. n # 0 /\ 1 \in Int /\ n \in Int /\ 1 <= n
      <3>1. CASE n = 0
        <4>1. lines = [i \in 1..0 |-> lines[i]]
          BY <1>1, <3>1 DEF Body
        <4>2. lines = <<>>
          BY <4>1
        <4> QED BY <1>6, <4>2
      <3> QED BY <3>1
    <2>2. ASSUME NEW q \in Parsers(Y, W), NEW i \in 1..n
          PROVE  ParseLine(q, lines[i]) \in Parsers(Y, W)
      <3>1. lines[i].v \in Y /\ (lines[i].t = "seq" => lines[i].v \in Nat)
        BY <1>1, <1>2 DEF Body
      <3> QED BY <1>2, <3>1, LineFacts
    <2>3. PICK f : Iterates(f, 1, n, Parsers(Y, W), NewParser,
                            [i \in 1..n |-> [q \in Parsers(Y, W) |-> ParseLine(q, lines[i])]])
      <3> DEFINE step == [i \in 1..n |-> [q \in Parsers(Y, W) |-> ParseLine(q, lines[i])]]
      <3>1. step \in [1..n -> [Parsers(Y, W) -> Parsers(Y, W)]]
        BY <2>2
      <3> HIDE DEF step
      <3>2. \E f : Iterates(f, 1, n, Parsers(Y, W), NewParser, step)
        BY <1>4, <2>1, <3>1, Recursion, Zenon
      <3> QED BY <3>2 DEF step
    <2>4. f = [i \in 1..n |-> IF i = 1 THEN NewParser ELSE ParseLine(f[i - 1], lines[i])]
      <3>1. ASSUME NEW i \in 1..n, i # 1 PROVE f[i] = ParseLine(f[i - 1], lines[i])
        <4>1. i - 1 \in 1..n /\ f[i - 1] \in Parsers(Y, W)
          BY <2>3, <3>1 DEF Iterates
        <4> QED BY <2>3, <3>1, <4>1 DEF Iterates
      <3> QED BY <2>1, <2>3, <3>1 DEF Iterates
    <2>5. P = [i \in 1..n |-> IF i = 1 THEN NewParser ELSE ParseLine(P[i - 1], lines[i])]
      BY <1>1, <2>4
    <2> HIDE DEF P
    <2>6. P[1] = NewParser /\ \A i \in 1..n : i # 1 => P[i] = ParseLine(P[i - 1], lines[i])
      BY <2>1, <2>5
    <2>7. \A i \in 1..n : P[i] \in Parsers(Y, W)
      <3>1. \A i \in 1..n : i # 1 /\ P[i - 1] \in Parsers(Y, W) => P[i] \in Parsers(Y, W)
        BY <2>2, <2>6
      <3> QED BY <1>4, <2>1, <2>6, <3>1, Upwards, Zenon
    <2> DEFINE Good(i) == /\ Counts(P[i])
                          /\ P[i].segs # <<>> => \E j \in 2..i : lines[j].t = "uri"
               g == [i \in 1..n |-> IF Good(i) THEN 1 ELSE 0]
    <2>8. ASSUME NEW i \in 1..n, i # 1, Good(i - 1) PROVE Good(i)
      <3>1. i - 1 \in 1..n /\ P[i - 1] \in Parsers(Y, W) /\ P[i] = ParseLine(P[i - 1], lines[i])
        BY <2>6, <2>7, <2>8
      <3>2. lines[i].v \in Y
        BY <1>2
      <3>3. ASSUME lines[i].t = "seq" PROVE lines[i].v \in Nat /\ P[i - 1].segs = <<>>
        <4>1. lines[i].v \in Nat /\ \A j \in 1..n : lines[j].t = "uri" => i < j
          BY <1>1, <3>3 DEF Body
        <4>2. \A j \in 2..(i - 1) : j \in 1..n /\ ~(i < j)
          OBVIOUS
        <4>3. ~ \E j \in 2..(i - 1) : lines[j].t = "uri"
          BY <4>1, <4>2
        <4> QED BY <2>8, <4>1, <4>3
      <3>4. Counts(P[i]) /\ (lines[i].t # "uri" => P[i].segs = P[i - 1].segs)
        BY <1>2, <2>8, <3>1, <3>2, <3>3, CountsFacts
      <3>5. CASE lines[i].t = "uri"
        <4>1. i \in 2..i
          BY <2>8
        <4> QED BY <3>4, <3>5, <4>1
      <3>6. CASE lines[i].t # "uri"
        <4>1. \A j \in 2..(i - 1) : j \in 2..i
          OBVIOUS
        <4> QED BY <2>8, <3>4, <3>6, <4>1
      <3> QED BY <3>5, <3>6
    <2>9. \A i \in 1..n : Good(i)
      <3> DEFINE V == {1}
      <3>1. g[1] \in V
        BY <1>4, <2>1, <2>6
      <3>2. \A i \in 1..n : i # 1 /\ g[i - 1] \in V => g[i] \in V
        <4> HIDE DEF Good
        <4> QED BY <2>8
      <3> HIDE DEF g, V
      <3>3. \A i \in 1..n : g[i] \in V
        BY <2>1, <3>1, <3>2, Upwards, Zenon
      <3> QED BY <3>3 DEF g, V
    <2>10. n \in 1..n
      BY <2>1
    <2>11. P[n] \in Parsers(Y, W) /\ Counts(P[n])
      BY <2>7, <2>9, <2>10
    <2>12. ParsePlaylist(lines).kind = Result(P[n]) /\ ParsePlaylist(lines).p = P[n]
      BY <1>6
    <2>13. Result(P[n]) \in PlaylistErrs \cup {"media", "master"}
      <3>1. P[n].err \in PlaylistErrs \cup {"ok"}
        BY <2>11 DEF Parsers
      <3> QED BY <3>1 DEF Result, PlaylistErrs
    <2>14. Numbered(P[n].segs)
      <3>1. PICK q : q = P[n]
        OBVIOUS
      <3>2. q \in Parsers(Y, W) /\ Counts(q)
        BY <2>11, <3>1
      <3>3. q.segs \in Seq(Segs(Y)) /\ q.seq \in Nat
        BY <3>2 DEF Parsers
      <3>4. PICK k \in Nat : k = Len(q.segs)
        BY <3>3
      <3>5. \A j \in 1..k : q.segs[j].seq = q.seq + (j - 1)
        BY <3>2, <3>4 DEF Counts
      <3>6. \A j \in 1..k : q.segs[j].seq \in Nat /\ q.segs[j].seq = q.segs[1].seq + (j - 1)
        BY <3>3, <3>5
      <3> QED BY <3>1, <3>3, <3>4, <3>6 DEF Numbered
    <2> QED BY <2>12, <2>13, <2>14
  <1> QED BY <1>3, <1>5, <1>6

\* The lines of a window with values in Y; its head has the media sequence number.
Lines(Y) == [t : {"m3u", "target", "seq", "map", "disc", "gap", "extinf", "uri", "endlist"}, v : Y]
Entries(Y) == [t : {"map", "disc", "gap", "extinf", "uri", "endlist"}, v : Y]
Heads(Y) ==
    {b \in Seq(Lines(Y)) :
        /\ Len(b) >= 3 /\ b[3].v \in Nat
        /\ \A k \in 1..Len(b) : (b[k].t = "seq" => k = 3) /\ (b[k].t = "uri" => k > 3)}

\* Entries after a head are lines of a playlist whose number comes first.
LEMMA HeadFacts ==
    ASSUME NEW Y, NEW b \in Heads(Y), NEW e \in Seq(Entries(Y))
    PROVE  b \o e \in Heads(Y) /\ Body(b)
  <1> DEFINE c == b \o e
  <1>1. b \in Seq(Lines(Y)) /\ Len(b) >= 3 /\ Len(b) \in Nat
    BY DEF Heads
  <1>2. e \in Seq(Lines(Y))
    <2>1. \A x \in Entries(Y) : x \in Lines(Y)
      BY DEF Entries, Lines
    <2> QED BY <2>1
  <1>3. c \in Seq(Lines(Y)) /\ Len(c) = Len(b) + Len(e)
    BY <1>1, <1>2, ConcatProperties
  <1>4. \A k \in 1..Len(c) : c[k] = IF k <= Len(b) THEN b[k] ELSE e[k - Len(b)]
    BY <1>1, <1>2, ConcatProperties
  <1> HIDE DEF c
  <1>5. PICK m \in Nat, n \in Nat : m = Len(b) /\ n = Len(e)
    BY <1>1
  <1>6. 3 \in 1..Len(c) /\ c[3] = b[3] /\ Len(c) >= 3
    BY <1>1, <1>3, <1>4, <1>5
  <1>7. ASSUME NEW k \in 1..Len(c)
        PROVE  (c[k].t = "seq" => k = 3) /\ (c[k].t = "uri" => k > 3)
    <2>1. CASE k <= m
      <3>1. k \in 1..Len(b) /\ c[k] = b[k]
        BY <1>3, <1>4, <1>5, <2>1
      <3> QED BY <3>1 DEF Heads
    <2>2. CASE ~(k <= m)
      <3>1. k - m \in 1..n /\ c[k] = e[k - m] /\ k > 3
        BY <1>1, <1>3, <1>4, <1>5, <2>2
      <3>2. c[k] \in Entries(Y)
        BY <1>5, <3>1
      <3>3. c[k].t # "seq"
        BY <3>2 DEF Entries
      <3> QED BY <3>1, <3>3
    <2> QED BY <2>1, <2>2
  <1>8. c \in Heads(Y)
    <2>1. b[3].v \in Nat
      BY DEF Heads
    <2> QED BY <1>3, <1>6, <1>7, <2>1 DEF Heads
  <1>9. Body(b)
    <2>1. b = [i \in 1..Len(b) |-> b[i]]
      BY <1>1
    <2>2. ASSUME NEW i \in 1..Len(b), NEW j \in 1..Len(b), b[i].t = "seq"
          PROVE  b[i].v \in Nat /\ (b[j].t = "uri" => i < j)
      <3>1. i = 3 /\ b[3].v \in Nat /\ (b[j].t = "uri" => j > 3)
        BY <2>2 DEF Heads
      <3> QED BY <3>1
    <2> QED BY <1>1, <2>1, <2>2 DEF Body
  <1> QED BY <1>8, <1>9 DEF c

\* The lines of one segment are such entries.
LEMMA SegmentLinesFacts ==
    ASSUME NEW Y, Blank \in Y, "ok" \in Y, NEW i \in Y, NEW seg, seg.init \in Y, NEW prevInit
    PROVE  SegmentLines(i, seg, prevInit) \in Seq(Entries(Y))
  <1>1. ASSUME NEW t \in {"map", "disc", "gap", "extinf", "uri", "endlist"}, NEW v \in Y
        PROVE  L(t, v) \in Entries(Y)
    BY DEF L, Entries
  <1> DEFINE a == IF seg.init \notin {Blank, prevInit} THEN <<L("map", seg.init)>> ELSE <<>>
             b == IF seg.disc THEN <<L("disc", Blank)>> ELSE <<>>
             c == IF seg.gap THEN <<L("gap", Blank)>> ELSE <<>>
             d == <<L("extinf", "ok"), L("uri", i)>>
  <1>2. SegmentLines(i, seg, prevInit) = ((a \o b) \o c) \o d
    BY DEF SegmentLines
  <1>3. L("map", seg.init) \in Entries(Y) /\ L("disc", Blank) \in Entries(Y)
        /\ L("gap", Blank) \in Entries(Y) /\ L("extinf", "ok") \in Entries(Y)
        /\ L("uri", i) \in Entries(Y)
    BY <1>1
  <1>4. a \in Seq(Entries(Y)) /\ b \in Seq(Entries(Y)) /\ c \in Seq(Entries(Y))
    BY <1>3
  <1>5. d \in Seq(Entries(Y))
    BY <1>3
  <1> HIDE DEF a, b, c, d
  <1>6. a \o b \in Seq(Entries(Y))
    BY <1>4, ConcatProperties
  <1>7. (a \o b) \o c \in Seq(Entries(Y))
    BY <1>4, <1>6, ConcatProperties
  <1>8. ((a \o b) \o c) \o d \in Seq(Entries(Y))
    BY <1>5, <1>7, ConcatProperties
  <1> QED BY <1>2, <1>8

\* What an origin lists is a body.
LEMMA WindowFacts ==
    ASSUME NEW s, s.segs \in Seq(Segment), s.first \in Nat, lo \in Nat \ {0}, hi \in Nat,
           lo <= hi, hi <= Len(s.segs)
    PROVE  Body(WindowLines(s))
  <1> DEFINE Y == {s.segs[i].init : i \in 1..Len(s.segs)} \cup Nat \cup {Blank, "ok"}
             Prev(i) == IF i = lo THEN Blank ELSE s.segs[i - 1].init
             head == <<L("m3u", Blank), L("target", "ok"), L("seq", s.first + lo - 1)>>
             B == CHOOSE g : g = [i \in (lo - 1)..hi |->
                     IF i = lo - 1 THEN head ELSE g[i - 1] \o SegmentLines(i, s.segs[i], Prev(i))]
             last == IF s.vod \/ hi = Len(s.segs) THEN <<L("endlist", Blank)>> ELSE <<>>
  <1>1. WindowLines(s) = B[hi] \o last
    BY DEF WindowLines
  <1>2. PICK n \in Nat : n = Len(s.segs)
    OBVIOUS
  <1>3. /\ Blank \in Y /\ "ok" \in Y /\ \A i \in Nat : i \in Y
        /\ \A i \in 1..n : s.segs[i].init \in Y
    BY <1>2, Zenon
  <1> HIDE DEF Y
  <1>4. head \in Heads(Y)
    <2>1. s.first + lo - 1 \in Nat
      OBVIOUS
    <2>2. PICK k \in Nat : k = s.first + lo - 1
      BY <2>1
    <2>3. k \in Y
      BY <1>3
    <2>4. L("m3u", Blank) \in Lines(Y) /\ L("target", "ok") \in Lines(Y) /\ L("seq", k) \in Lines(Y)
      BY <1>3, <2>3 DEF Lines, L
    <2>5. PICK h : h = <<L("m3u", Blank), L("target", "ok"), L("seq", k)>>
      OBVIOUS
    <2>6. h \in Seq(Lines(Y)) /\ Len(h) = 3 /\ h[1] = L("m3u", Blank) /\ h[2] = L("target", "ok")
          /\ h[3] = L("seq", k)
      BY <2>4, <2>5
    <2>7. h[3].v \in Nat /\ h[1].t = "m3u" /\ h[2].t = "target" /\ h[3].t = "seq"
      BY <2>6 DEF L
    <2>8. \A j \in 1..Len(h) : (h[j].t = "seq" => j = 3) /\ (h[j].t = "uri" => j > 3)
      <3>1. \A j \in 1..Len(h) : j = 1 \/ j = 2 \/ j = 3
        BY <2>6
      <3> QED BY <2>7, <3>1
    <2>9. h \in Heads(Y)
      <3>1. h \in Seq(Lines(Y)) /\ Len(h) >= 3 /\ h[3].v \in Nat
        BY <2>6, <2>7
      <3> QED BY <2>8, <3>1, Zenon DEF Heads
    <2> QED BY <2>2, <2>5, <2>9
  <1> HIDE DEF head
  <1>5. ASSUME NEW b \in Heads(Y), NEW i \in (lo - 1)..hi, i # lo - 1
        PROVE  b \o SegmentLines(i, s.segs[i], Prev(i)) \in Heads(Y)
    <2>1. i \in Nat /\ i \in 1..n
      BY <1>2, <1>5
    <2>2. i \in Y /\ s.segs[i].init \in Y
      BY <1>3, <2>1
    <2> HIDE DEF Prev
    <2>3. SegmentLines(i, s.segs[i], Prev(i)) \in Seq(Entries(Y))
      BY <1>3, <2>2, SegmentLinesFacts
    <2> QED BY <2>3, HeadFacts
  <1> DEFINE Step(i, b) == b \o SegmentLines(i, s.segs[i], Prev(i))
  <1>6. B = CHOOSE g : g = [i \in (lo - 1)..hi |-> IF i = lo - 1 THEN head ELSE Step(i, g[i - 1])]
    OBVIOUS
  <1>7. \A b \in Heads(Y), i \in (lo - 1)..hi : i # lo - 1 => Step(i, b) \in Heads(Y)
    BY <1>5
  <1> HIDE DEF Step, Prev
  <1>8. lo - 1 \in Int /\ hi \in Int /\ lo - 1 <= hi
    OBVIOUS
  <1>9. PICK f : Iterates(f, lo - 1, hi, Heads(Y), head,
                   [i \in (lo - 1)..hi |-> [b \in Heads(Y) |-> IF i = lo - 1 THEN b ELSE Step(i, b)]])
    <2> DEFINE step == [i \in (lo - 1)..hi |->
                           [b \in Heads(Y) |-> IF i = lo - 1 THEN b ELSE Step(i, b)]]
    <2>1. step \in [(lo - 1)..hi -> [Heads(Y) -> Heads(Y)]]
      BY <1>7
    <2> HIDE DEF step
    <2>2. \E f : Iterates(f, lo - 1, hi, Heads(Y), head, step)
      BY <1>4, <1>8, <2>1, Recursion, Zenon
    <2> QED BY <2>2 DEF step
  <1>10. f = [i \in (lo - 1)..hi |-> IF i = lo - 1 THEN head ELSE Step(i, f[i - 1])]
    <2>1. ASSUME NEW i \in (lo - 1)..hi, i # lo - 1 PROVE f[i] = Step(i, f[i - 1])
      <3>1. i - 1 \in (lo - 1)..hi /\ f[i - 1] \in Heads(Y)
        BY <1>9, <2>1 DEF Iterates
      <3> QED BY <1>9, <2>1, <3>1 DEF Iterates
    <2> QED BY <1>9, <2>1 DEF Iterates
  <1> HIDE DEF B
  <1>11. B = [i \in (lo - 1)..hi |-> IF i = lo - 1 THEN head ELSE Step(i, B[i - 1])]
    BY <1>6, <1>10
  <1>12. \A i \in (lo - 1)..hi : B[i] \in Heads(Y)
    <2>1. /\ B[lo - 1] = head
          /\ \A i \in (lo - 1)..hi : i # lo - 1 => B[i] = Step(i, B[i - 1])
      BY <1>8, <1>11
    <2>2. \A i \in (lo - 1)..hi : i # lo - 1 /\ B[i - 1] \in Heads(Y) => B[i] \in Heads(Y)
      BY <1>7, <2>1
    <2> QED BY <1>4, <1>8, <2>1, <2>2, Upwards, Zenon
  <1>13. B[hi] \in Heads(Y)
    BY <1>8, <1>12
  <1>14. last \in Seq(Entries(Y))
    <2>1. L("endlist", Blank) \in Entries(Y)
      BY <1>3 DEF L, Entries
    <2> QED BY <2>1
  <1> HIDE DEF last
  <1>15. B[hi] \o last \in Heads(Y) /\ <<>> \in Seq(Entries(Y))
    BY <1>13, <1>14, HeadFacts
  <1> QED BY <1>1, <1>15, HeadFacts

-----------------------------------------------------------------------------
(* The state: where the goroutines are, what the playlist, the demuxer and *)
(* the record of frames have to do with each other.                        *)

\* The control points of every goroutine, and the causes a session ends for.
FunnelPCs == {"once", "setTerm", "closing", "cancel"}
OpenPCs == {"start", "master", "media", "init", "seg", "spawn", "cleanup", "opened", "failed"}
ReadPCs == {"deliver", "segments", "gap", "container", "reinit", "get", "next", "wait",
            "reload", "follow"}
EndPCs == {"teardown", "join", "done"}
ReaderPCs == {"unborn"} \cup ReadPCs \cup EndPCs \cup FunnelPCs
WatchPCs == {"unborn", "watch", "exited"} \cup FunnelPCs
CallerPCs == {"idle", "waitDone", "returned"} \cup FunnelPCs
SourceCauses == {"errClosed", "ctxErr", "streamEnded", "connClosed", "canceled", "timeout",
                 "badStatus", "tooLarge", "invalidURL", "readTimeout", "panic", "malformedPlaylist",
                 "unsupportedPlaylist", "malformedSegment", "unsupportedCodec"}

\* Where the goroutines are; only an opened source has any besides Open's own.
ControlInv ==
    /\ pc \in [Actors -> OpenPCs \cup ReaderPCs \cup WatchPCs \cup CallerPCs]
    /\ pc["open"] \in OpenPCs
    /\ pc["reader"] \in ReaderPCs /\ pc["watchdog"] \in WatchPCs
    /\ \A c \in Callers : pc[c] \in CallerPCs
    /\ ret \in [Actors -> {"none", "returned", "waitDone", "exited", "teardown", "deliver", "get"}]
    /\ pc["reader"] \in FunnelPCs => ret["reader"] \in {"teardown", "deliver", "get"}
    /\ pc["watchdog"] \in FunnelPCs => ret["watchdog"] = "exited"
    /\ \A c \in Callers : pc[c] \in FunnelPCs => ret[c] \in {"returned", "waitDone"}
    /\ pc["open"] # "opened" =>
          /\ pc["reader"] = "unborn" /\ pc["watchdog"] = "unborn"
          /\ \A c \in Callers : pc[c] = "idle"
    /\ pc["open"] = "opened" => pc["reader"] # "unborn"

\* initiateShutdown: the stages of the caller that won closeOnce.
FunnelInv ==
    /\ once \in Actors \cup {"free", "fired"}
    /\ cause \in [Actors -> SourceCauses \cup {NoErr}]
    /\ termErr \in SourceCauses \cup {NoErr}
    /\ \A a \in Actors :
          /\ pc[a] \in FunnelPCs => cause[a] # NoErr
          /\ pc[a] \in FunnelPCs \ {"once"} => once = a
          /\ pc[a] \in {"closing", "cancel"} => termErr # NoErr
          /\ pc[a] = "cancel" => closing
    /\ once = "fired" => closing
    /\ closing => termErr # NoErr
    /\ pc["reader"] \in EndPCs => closing

\* The point of its own program the reader is at, or returns to from a callback
\* or an error that called initiateShutdown.
ReaderAt == IF pc["reader"] \in FunnelPCs THEN ret["reader"] ELSE pc["reader"]

\* Before the entry in hand is fetched, and after.
Early == ReaderAt \in {"gap", "container", "reinit", "get"}
Late == \/ ReaderAt = "next"
        \/ ReaderAt = "deliver" /\ after \notin {"segments", "streamEnded"}
Cur == IF Late THEN Entry.seq ELSE lastSeq

\* The number up to which every segment is accounted for.
Settled == IF Early THEN Entry.seq - 1 ELSE Cur

\* The origin's window.
WorldInv ==
    /\ scen \in DOMAIN Streams
    /\ lo \in Nat \ {0} /\ hi \in Nat /\ lo <= hi /\ hi <= Len(Stream.segs)

\* The playlist in use, and where in it the reader is.
ListInv ==
    /\ Numbered(media.segs) /\ idx \in Nat \ {0} /\ lastSeq \in Nat
    /\ pc["open"] \in {"init", "seg", "spawn"} => idx \in 1..Len(media.segs)
    /\ Early \/ Late => idx \in 1..Len(media.segs) /\ Entry.seq > lastSeq
    /\ ReaderAt = "segments" /\ fresh /\ idx <= Len(media.segs) => Entry.seq = lastSeq + 1
    /\ pc["open"] # "opened" \/ (ReaderAt = "deliver" /\ after = "segments") => ~fresh

\* The account of the segments that were not fetched balances, in ints.
Balanced ==
    /\ pendGap \in Nat /\ \A i \in 1..Len(delivered) : delivered[i].gap \in Nat
    /\ Settled - fetched[1] = (Len(fetched) - 1) + Gaps(Len(delivered)) + pendGap

\* The segments fetched, and that account as long as it fits.
LossInv ==
    /\ fetched \in Seq(Nat)
    /\ \A i, j \in 1..Len(fetched) : i < j => fetched[i] < fetched[j]
    /\ pc["open"] # "opened" => fetched = <<>> /\ delivered = <<>> /\ pendGap = 0
    /\ ReaderAt \in ReadPCs =>
          /\ fetched # <<>>
          /\ \A i \in 1..Len(fetched) : fetched[i] <= Cur
          /\ Settled - fetched[1] <= MaxInt => Balanced

\* d is a demuxer of transport streams, or the one of initialization segment u.
Suits(d, u) ==
    IF u = Blank THEN d \in DemuxerStates
    ELSE /\ u \in DOMAIN Stream.inits
         /\ d = [init |-> ParseInit(Stream.inits[u]), gaps |-> d.gaps]

Afters == {"segments", "next", "streamEnded"} \cup (SegmentErrs \ {"ok"})

\* The demuxer in use and the configuration the consumer knows.
CodecInv ==
    /\ pc["open"] \in {"start", "master", "media", "init"} => demux \in DemuxerStates
    /\ pc["open"] = "init" => Entry.init # Blank
    /\ pc["open"] = "seg" => Suits(demux, Entry.init)
    /\ pc["open"] \in {"spawn", "opened"} =>
          Suits(demux, initURI) /\ (initURI # Blank => told = demux.init.asc)
    /\ ReaderAt = "reinit" => Blank \notin {Entry.init, initURI}
    /\ ReaderAt = "get" => Entry.init = initURI
    /\ ReaderAt = "deliver" => after \in Afters

\* Everything demuxed so far, handed over or not.
Handed == [i \in 1..Len(delivered) |-> delivered[i].au]
Out == Handed \o queue

\* Units within their fragment, and no more of a segment than it has bytes.
Bounded(o) ==
    \A i \in 1..Len(o) : o[i].fmp4 =>
        /\ o[i].uri \in 1..Len(Stream.segs)
        /\ 0 <= o[i].ids[1] /\ o[i].ids[1] < o[i].ids[2]
        /\ o[i].ids[2] <= Stream.segs[o[i].uri].frag.len
        /\ Cardinality({j \in 1..Len(o) : o[j].seq = o[i].seq}) <= Stream.segs[o[i].uri].frag.len

OutInv ==
    /\ \A k \in 1..Len(queue) : queue[k].fmp4 => queue[k].cfg = told
    /\ pc["open"] \notin {"spawn", "opened"} => queue = <<>>
    /\ ReaderAt \in ReadPCs \ {"deliver"} => queue = <<>>
    /\ \A i \in 1..Len(Out) : Out[i].seq \in Nat /\ Out[i].fmp4 = (initURI # Blank)
    /\ pc["open"] = "spawn" => \A i \in 1..Len(Out) : Out[i].seq = Entry.seq
    /\ ReaderAt \in ReadPCs => \A i \in 1..Len(Out) : Out[i].seq <= Cur
    /\ Bounded(Out)
    /\ CodecTold

\* The record of frames and the queue are sequences, of whatever they hold.
IsSeq(s) == Len(s) \in Nat /\ s = [i \in 1..Len(s) |-> s[i]]
SequenceInv == IsSeq(delivered) /\ IsSeq(queue)

-----------------------------------------------------------------------------
(* The steps of the source as its control sees them.                       *)

OpenEffect ==
    /\ pc["open"] \in OpenPCs \ {"opened", "failed", "spawn"}
    /\ \E p \in OpenPCs \ {"opened"} : Goto("open", p)
    /\ UNCHANGED <<funnelVars, result, delivered>>

ReaderEffect ==
    /\ pc["reader"] \in ReadPCs
    /\ UNCHANGED <<funnelVars, result>>
    /\ delivered' = delivered \/ \E e : delivered' = Append(delivered, e)
    /\ \/ \E p \in ReadPCs : Goto("reader", p)
       \/ closing /\ Goto("reader", "teardown")
       \/ \E c \in SourceCauses, p \in {"teardown", "deliver", "get"} :
             Shutdown("reader", c, p)

NextCase ==
    \/ UNCHANGED <<lifecycleVars, delivered>>
    \/ OpenEffect
    \/ Spawn
    \/ ReaderEffect
    \/ Teardown
    \/ Join
    \/ Watchdog
    \/ \E a \in Actors : OnceDo(a) /\ UNCHANGED ownVars
    \/ \E a \in Actors : SetTerm(a) /\ UNCHANGED ownVars
    \/ \E a \in Actors : CloseClosing(a) /\ UNCHANGED ownVars
    \/ \E a \in Actors : CancelRequest(a) /\ UNCHANGED ownVars
    \/ \E c \in Closers : At("open", "opened") /\ Close(c) /\ UNCHANGED ownVars
    \/ \E w \in Waiters : At("open", "opened") /\ WaitCtx(w) /\ UNCHANGED ownVars
    \/ \E w \in Waiters : At("open", "opened") /\ WaitDone(w) /\ UNCHANGED ownVars

\* The actors are pairwise distinct, and none is named like closeOnce's state.
LEMMA ActorFacts ==
    /\ {"open", "reader", "watchdog"} \subseteq Actors
    /\ Callers \subseteq Actors /\ Closers \subseteq Callers /\ Waiters \subseteq Callers
    /\ {"open", "reader", "watchdog"} \cap Callers = {}
    /\ Actors = {"open", "reader", "watchdog"} \cup Callers
    /\ "free" \notin Actors /\ "fired" \notin Actors
  BY LifecycleAssumption, HlsAssumption DEF Actors, Callers

\* A step of Open before it starts the reader.
LEMMA OpenSteps ==
    ASSUME \/ OpenStart \/ OpenFault \/ OpenMaster \/ OpenMedia \/ OpenInit \/ OpenSeg
           \/ Cleanup
    PROVE  OpenEffect
  <1> USE DEF OpenEffect, OpenStep, At, Fail, OpenPCs
  <1>1. CASE OpenStart
    <2>1. \E p \in {"failed", "master", "media"} : Goto("open", p)
      BY <1>1 DEF OpenStart
    <2> QED BY <1>1, <2>1 DEF OpenStart
  <1>2. CASE OpenFault
    BY <1>2 DEF OpenFault
  <1>3. CASE OpenMaster
    BY <1>3 DEF OpenMaster
  <1>4. CASE OpenMedia
    <2>1. \E p \in {"seg", "init", "cleanup"} : Goto("open", p)
      BY <1>4 DEF OpenMedia
    <2> QED BY <1>4, <2>1 DEF OpenMedia
  <1>5. CASE OpenInit
    BY <1>5 DEF OpenInit
  <1>6. CASE OpenSeg
    BY <1>6 DEF OpenSeg
  <1>7. CASE Cleanup
    BY <1>7 DEF Cleanup
  <1> QED BY <1>1, <1>2, <1>3, <1>4, <1>5, <1>6, <1>7

\* The stream the origin serves is one of Streams.
LEMMA StreamFacts ==
    ASSUME WorldInv
    PROVE  /\ StreamType(Stream)
           /\ Body(MediaLines(Stream)) /\ Body(ReloadLines(Stream))
  <1>1. StreamType(Stream)
    BY HlsAssumption DEF WorldInv, Stream
  <1>2. Body(WindowLines(Stream))
    <2>1. Stream.segs \in Seq(Segment) /\ Stream.first \in Nat
      BY <1>1 DEF StreamType
    <2> QED BY <2>1, WindowFacts DEF WorldInv
  <1>3. Body(Stream.lines) /\ Body(Stream.relist)
    BY <1>1 DEF StreamType
  <1>4. MediaLines(Stream) \in {Stream.lines, WindowLines(Stream)}
    BY DEF MediaLines
  <1>5. ReloadLines(Stream) \in {Stream.relist, MediaLines(Stream)}
    BY DEF ReloadLines
  <1>6. Body(MediaLines(Stream))
    BY <1>2, <1>3, <1>4
  <1> QED BY <1>1, <1>3, <1>5, <1>6

\* A step of the reader's loop goes on, delivers or calls initiateShutdown.
LEMMA ReaderSteps ==
    ASSUME WorldInv, CodecInv,
           \/ DeliverAU \/ Delivered \/ NextSegment \/ SkipGap \/ Container \/ ReadFault
           \/ Reinit \/ GetSegment \/ Advance \/ ListDone \/ ReloadWait
           \/ Reload("reload") \/ Reload("follow")
    PROVE  ReaderEffect
  <1> USE DEF ReaderEffect, ReaderStep, At, ReadPCs, outVars
  <1>c. {"errClosed", "streamEnded", "connClosed", "canceled", "timeout", "badStatus",
         "tooLarge", "invalidURL", "panic", "malformedPlaylist", "unsupportedPlaylist",
         "malformedSegment", "unsupportedCodec"} \subseteq SourceCauses
    BY DEF SourceCauses
  <1>0. ASSUME NEW p \in {"deliver", "get"}, Callback(p)
        PROVE  \/ Goto("reader", p)
               \/ \E c \in SourceCauses, q \in {"teardown", "deliver", "get"} :
                     Shutdown("reader", c, q)
    BY <1>0, <1>c DEF Callback
  <1>1. CASE DeliverAU
    BY <1>0, <1>1 DEF DeliverAU
  <1>2. CASE Delivered
    <2>1. ReaderAt = "deliver" /\ after \in Afters
      BY <1>2 DEF Delivered, CodecInv, ReaderAt, FunnelPCs
    <2>2. after \in {"segments", "next"} \/ after \in SourceCauses
      BY <2>1, <1>c DEF Afters, SegmentErrs
    <2> QED BY <1>2, <2>2 DEF Delivered
  <1>3. CASE NextSegment
    <2>1. \E p \in {"segments", "gap", "container"} : Goto("reader", p)
      BY <1>3 DEF NextSegment
    <2> QED BY <1>3, <2>1 DEF NextSegment
  <1>4. CASE SkipGap
    BY <1>4 DEF SkipGap
  <1>5. CASE Container
    BY <1>5, <1>c DEF Container
  <1>6. CASE ReadFault
    BY <1>6, <1>c DEF ReadFault, ReadFaults
  <1>7. CASE Reinit
    <2>1. NewFmp4(Entry.init).init.err \in {"ok", "unsupportedCodec", "malformedSegment"}
      <3>1. InitType(Stream.inits[Entry.init])
        BY <1>7, StreamFacts DEF Reinit, StreamType
      <3> QED BY <3>1, InitFacts DEF NewFmp4
    <2>2. \/ Goto("reader", "get") \/ Callback("get")
          \/ \E c \in SourceCauses : Shutdown("reader", c, "teardown")
      BY <1>7, <2>1, <1>c DEF Reinit
    <2> QED BY <1>7, <1>0, <2>2 DEF Reinit
  <1>8. CASE GetSegment
    BY <1>8 DEF GetSegment
  <1>9. CASE Advance
    BY <1>9 DEF Advance
  <1>10. CASE ListDone
    BY <1>10 DEF ListDone
  <1>11. CASE ReloadWait
    BY <1>11 DEF ReloadWait
  <1>12. ASSUME NEW q \in {"reload", "follow"}, Reload(q)
         PROVE  ReaderEffect
    <2>1. \A m \in {ParsePlaylist(IF q = "reload" THEN ReloadLines(Stream) ELSE MediaLines(Stream))} :
             m.kind \in PlaylistErrs \cup {"media", "master"}
      BY StreamFacts, PlaylistFacts
    <2>2. \/ Goto("reader", "segments") \/ Goto("reader", "follow")
          \/ \E c \in SourceCauses : Shutdown("reader", c, "teardown")
      BY <1>12, <2>1, <1>c DEF Reload, PlaylistErrs
    <2> QED BY <1>12, <2>2 DEF Reload
  <1> QED BY <1>1, <1>2, <1>3, <1>4, <1>5, <1>6, <1>7, <1>8, <1>9, <1>10, <1>11, <1>12

\* Every step is one of NextCase.
LEMMA NextCases ==
    ASSUME WorldInv, CodecInv, [Next]_vars
    PROVE  NextCase
  <1> USE DEF NextCase
  <1>1. Slide \/ CtxCancel \/ Elapse \/ UNCHANGED vars => UNCHANGED <<lifecycleVars, delivered>>
    BY DEF Slide, CtxCancel, Elapse, vars, ownVars, outVars
  <1>2. Open => NextCase
    BY OpenSteps DEF Open
  <1>3. Reader => NextCase
    BY ReaderSteps DEF Reader
  <1>4. Shutdowns => NextCase
    BY DEF Shutdowns, Funnel
  <1>5. ApiCalls => NextCase
    BY DEF ApiCalls, Calls
  <1> QED BY <1>1, <1>2, <1>3, <1>4, <1>5 DEF Next, Terminated

\* Every goroutine stays in its own program.
LEMMA ControlStep ==
    ASSUME ControlInv, FunnelInv, NextCase
    PROVE  ControlInv'
  <1> USE ActorFacts
      DEF At, Go, Goto, Shutdown, funnelVars, callVars, lifecycleVars, ControlInv,
          FunnelPCs, OpenPCs, ReadPCs, EndPCs, ReaderPCs, WatchPCs, CallerPCs
  <1>1. CASE UNCHANGED <<lifecycleVars, delivered>>
    BY <1>1
  <1>2. CASE OpenEffect
    BY <1>2 DEF OpenEffect
  <1>3. CASE Spawn
    BY <1>3 DEF Spawn
  <1>4. CASE ReaderEffect
    BY <1>4 DEF ReaderEffect
  <1>5. CASE Teardown
    BY <1>5 DEF Teardown, ReaderStep, outVars
  <1>6. CASE Join
    BY <1>6 DEF Join, ReaderStep, outVars
  <1>7. CASE Watchdog
    BY <1>7 DEF Watchdog, ownVars, outVars
  <1>8. CASE \E a \in Actors : OnceDo(a) /\ UNCHANGED ownVars
    BY <1>8 DEF OnceDo, ownVars, outVars
  <1>9. CASE \E a \in Actors : SetTerm(a) /\ UNCHANGED ownVars
    BY <1>9 DEF SetTerm, ownVars, outVars
  <1>10. CASE \E a \in Actors : CloseClosing(a) /\ UNCHANGED ownVars
    BY <1>10 DEF CloseClosing, ownVars, outVars
  <1>11. CASE \E a \in Actors : CancelRequest(a) /\ UNCHANGED ownVars
    BY <1>11 DEF CancelRequest, ownVars, outVars
  <1>12. CASE \E c \in Closers : At("open", "opened") /\ Close(c) /\ UNCHANGED ownVars
    BY <1>12 DEF Close, ownVars, outVars
  <1>13. CASE \E w \in Waiters : At("open", "opened") /\ WaitCtx(w) /\ UNCHANGED ownVars
    BY <1>13 DEF WaitCtx, ownVars, outVars
  <1>14. CASE \E w \in Waiters : At("open", "opened") /\ WaitDone(w) /\ UNCHANGED ownVars
    BY <1>14 DEF WaitDone, ownVars, outVars
  <1> QED
    BY <1>1, <1>2, <1>3, <1>4, <1>5, <1>6, <1>7, <1>8, <1>9, <1>10, <1>11, <1>12, <1>13, <1>14
    DEF NextCase

\* One caller at a time is inside closeOnce, and each stage leaves its mark.
LEMMA FunnelStep ==
    ASSUME ControlInv, FunnelInv, NextCase
    PROVE  FunnelInv'
  <1> USE ActorFacts
      DEF At, Go, Goto, Shutdown, funnelVars, callVars, lifecycleVars, ControlInv,
          FunnelPCs, OpenPCs, ReadPCs, EndPCs, ReaderPCs, WatchPCs, CallerPCs, FunnelInv
  <1>1. CASE UNCHANGED <<lifecycleVars, delivered>>
    BY <1>1
  <1>2. CASE OpenEffect
    BY <1>2 DEF OpenEffect
  <1>3. CASE Spawn
    BY <1>3 DEF Spawn
  <1>4. CASE ReaderEffect
    BY <1>4 DEF ReaderEffect, SourceCauses, NoErr
  <1>5. CASE Teardown
    BY <1>5 DEF Teardown, ReaderStep, outVars
  <1>6. CASE Join
    BY <1>6 DEF Join, ReaderStep, outVars
  <1>7. CASE Watchdog
    BY <1>7 DEF Watchdog, ownVars, outVars, SourceCauses, NoErr
  <1>8. CASE \E a \in Actors : OnceDo(a) /\ UNCHANGED ownVars
    BY <1>8 DEF OnceDo, ownVars, outVars
  <1>9. CASE \E a \in Actors : SetTerm(a) /\ UNCHANGED ownVars
    BY <1>9 DEF SetTerm, ownVars, outVars, SourceCauses, NoErr
  <1>10. CASE \E a \in Actors : CloseClosing(a) /\ UNCHANGED ownVars
    BY <1>10 DEF CloseClosing, ownVars, outVars
  <1>11. CASE \E a \in Actors : CancelRequest(a) /\ UNCHANGED ownVars
    BY <1>11 DEF CancelRequest, ownVars, outVars
  <1>12. CASE \E c \in Closers : At("open", "opened") /\ Close(c) /\ UNCHANGED ownVars
    BY <1>12 DEF Close, ownVars, outVars, SourceCauses, NoErr
  <1>13. CASE \E w \in Waiters : At("open", "opened") /\ WaitCtx(w) /\ UNCHANGED ownVars
    BY <1>13 DEF WaitCtx, ownVars, outVars, SourceCauses, NoErr
  <1>14. CASE \E w \in Waiters : At("open", "opened") /\ WaitDone(w) /\ UNCHANGED ownVars
    BY <1>14 DEF WaitDone, ownVars, outVars
  <1> QED
    BY <1>1, <1>2, <1>3, <1>4, <1>5, <1>6, <1>7, <1>8, <1>9, <1>10, <1>11, <1>12, <1>13, <1>14
    DEF NextCase

\* What the Source interface shows of the source, and the delivery of a frame.
Invisible == UNCHANGED <<termErr, Done, delivered, result>>
Delivers ==
    /\ \E e : delivered' = Append(delivered, e)
    /\ ~Done /\ ~Done' /\ UNCHANGED <<termErr, result>>
Visible ==
    \/ Delivers
    \/ /\ UNCHANGED delivered
       /\ \/ \E c \in SourceCauses : Contract!EndWith(c)
          \/ Contract!Finish
          \/ \E w \in Waiters : Contract!Wait(w)

\* The steps a user of the Source interface can see.
LEMMA VisibleStep ==
    ASSUME ControlInv, FunnelInv, NextCase
    PROVE  Invisible \/ Visible
  <1> USE ActorFacts
      DEF At, Go, Goto, Shutdown, funnelVars, callVars, lifecycleVars, ControlInv,
          FunnelPCs, OpenPCs, ReadPCs, EndPCs, ReaderPCs, WatchPCs, CallerPCs, Invisible, Done
  <1>1. CASE UNCHANGED <<lifecycleVars, delivered>>
    BY <1>1
  <1>2. CASE OpenEffect
    BY <1>2 DEF OpenEffect
  <1>3. CASE Spawn
    BY <1>3 DEF Spawn
  <1>4. CASE ReaderEffect
    <2>1. ~Done /\ ~Done' /\ UNCHANGED <<termErr, result>>
      BY <1>4 DEF ReaderEffect
    <2>2. delivered' = delivered \/ \E e : delivered' = Append(delivered, e)
      BY <1>4 DEF ReaderEffect
    <2> QED BY <2>1, <2>2 DEF Visible, Delivers
  <1>5. CASE Teardown
    BY <1>5 DEF Teardown, ReaderStep, outVars
  <1>6. CASE Join
    <2>1. Contract!Finish /\ UNCHANGED delivered
      BY <1>6 DEF Join, ReaderStep, outVars, Contract!Finish, FunnelInv
    <2> QED BY <2>1 DEF Visible
  <1>7. CASE Watchdog
    BY <1>7 DEF Watchdog, ownVars, outVars
  <1>8. CASE \E a \in Actors : OnceDo(a) /\ UNCHANGED ownVars
    BY <1>8 DEF OnceDo, ownVars, outVars
  <1>9. CASE \E a \in Actors : SetTerm(a) /\ UNCHANGED ownVars
    <2> PICK a \in Actors : SetTerm(a) /\ UNCHANGED ownVars
      BY <1>9
    <2>1. UNCHANGED <<Done, delivered, result>> /\ cause[a] \in SourceCauses
      BY DEF SetTerm, FunnelInv, ownVars, outVars
    <2>2. CASE termErr = NoErr
      <3>1. Contract!EndWith(cause[a])
        BY <2>1, <2>2 DEF SetTerm, Contract!EndWith
      <3> QED BY <2>1, <3>1 DEF Visible
    <2>3. CASE termErr # NoErr
      BY <2>1, <2>3 DEF SetTerm
    <2> QED BY <2>2, <2>3
  <1>10. CASE \E a \in Actors : CloseClosing(a) /\ UNCHANGED ownVars
    BY <1>10 DEF CloseClosing, ownVars, outVars
  <1>11. CASE \E a \in Actors : CancelRequest(a) /\ UNCHANGED ownVars
    BY <1>11 DEF CancelRequest, ownVars, outVars
  <1>12. CASE \E c \in Closers : At("open", "opened") /\ Close(c) /\ UNCHANGED ownVars
    BY <1>12 DEF Close, ownVars, outVars
  <1>13. CASE \E w \in Waiters : At("open", "opened") /\ WaitCtx(w) /\ UNCHANGED ownVars
    BY <1>13 DEF WaitCtx, ownVars, outVars
  <1>14. CASE \E w \in Waiters : At("open", "opened") /\ WaitDone(w) /\ UNCHANGED ownVars
    <2> PICK w \in Waiters : WaitDone(w) /\ UNCHANGED ownVars
      BY <1>14
    <2>1. Contract!Wait(w) /\ UNCHANGED delivered
      BY DEF WaitDone, Contract!Wait, ownVars, outVars
    <2> QED BY <2>1 DEF Visible
  <1> QED
    BY <1>1, <1>2, <1>3, <1>4, <1>5, <1>6, <1>7, <1>8, <1>9, <1>10, <1>11, <1>12, <1>13, <1>14
    DEF NextCase

-----------------------------------------------------------------------------
(* The steps of the source as its data sees them: what Open and the reader *)
(* do to the playlist, the account of segments, the demuxer and the queue. *)

seenList == <<media, idx, fresh>>
seenLoss == <<lastSeq, pendGap, fetched>>
seenCodec == <<initURI, demux, told>>
seenOut == <<queue, after, delivered>>
seen == <<scen, seenList, seenLoss, seenCodec, seenOut>>

InOpen(p, q) ==
    /\ pc["open"] = p /\ pc'["open"] = q
    /\ ReaderAt = "unborn" /\ ReaderAt' = "unborn" /\ UNCHANGED scen
InReader(p, q) ==
    /\ pc["open"] = "opened" /\ pc'["open"] = "opened"
    /\ ReaderAt = p /\ ReaderAt' = q /\ UNCHANGED scen

Quiet == UNCHANGED <<seen, pc["open"], ReaderAt>>

OpenMoves ==
    /\ \E p, q \in OpenPCs :
          /\ InOpen(p, q) /\ p \notin {"spawn", "opened"}
          /\ q \in {"cleanup", "failed"} \/ (p \in {"start", "master"} /\ q \in {"master", "media"})
    /\ UNCHANGED seen

Lists ==
    /\ InOpen("media", IF media'.segs[idx'].init = Blank THEN "seg" ELSE "init")
    /\ Numbered(media'.segs) /\ idx' \in 1..Len(media'.segs)
    /\ UNCHANGED <<fresh, seenLoss, seenCodec, seenOut>>

Inits ==
    /\ InOpen("init", "seg")
    /\ Entry.init \in DOMAIN Stream.inits /\ demux' = NewFmp4(Entry.init)
    /\ UNCHANGED <<seenList, seenLoss, initURI, told, seenOut>>

Resolves ==
    /\ InOpen("seg", "spawn")
    /\ Entry.uri \in DOMAIN Stream.segs
    /\ \E r \in {Demuxed(demux, Entry, FALSE)} :
          /\ demux' = r.d /\ queue' = Queued(Entry, r.aus)
          /\ told' = ASC(r.d, Entry.init)
    /\ initURI' = Entry.init
    /\ UNCHANGED <<seenList, seenLoss, after, delivered>>

Starts ==
    /\ pc["open"] = "spawn" /\ pc'["open"] = "opened"
    /\ ReaderAt = "unborn" /\ ReaderAt' = "deliver" /\ UNCHANGED scen
    /\ after' = "segments" /\ idx' = 1
    /\ lastSeq' = Entry.seq /\ fetched' = <<Entry.seq>>
    /\ UNCHANGED <<media, fresh, pendGap, seenCodec, queue, delivered>>

Quits ==
    /\ \E p \in ReadPCs \cup EndPCs, q \in EndPCs : InReader(p, q)
    /\ UNCHANGED seen

HandsOver ==
    /\ \E q \in {"deliver", "teardown"} : InReader("deliver", q)
    /\ queue # <<>> /\ queue' = Tail(queue)
    /\ delivered' = Append(delivered, [au |-> Head(queue), gap |-> pendGap, told |-> told])
    /\ pendGap' = 0
    /\ UNCHANGED <<seenList, lastSeq, fetched, seenCodec, after>>

GoesOn ==
    /\ after \in {"segments", "next"} /\ InReader("deliver", after)
    /\ queue = <<>> /\ UNCHANGED seen

SkipsOld ==
    /\ InReader("segments", "segments")
    /\ idx <= Len(media.segs) /\ Entry.seq <= lastSeq /\ idx' = idx + 1
    /\ UNCHANGED <<media, fresh, seenLoss, seenCodec, seenOut>>

Enters ==
    /\ \E q \in {"gap", "container"} : InReader("segments", q)
    /\ idx <= Len(media.segs) /\ Entry.seq > lastSeq
    /\ pendGap' = IF ~fresh /\ Entry.seq > lastSeq + 1
                  THEN AddInt(pendGap, Missed(lastSeq, Entry.seq)) ELSE pendGap
    /\ UNCHANGED <<seenList, lastSeq, fetched, seenCodec, seenOut>>

SkipsGap ==
    /\ InReader("gap", "next") /\ pendGap' = AddInt(pendGap, 1)
    /\ UNCHANGED <<seenList, lastSeq, fetched, seenCodec, seenOut>>

Chooses ==
    /\ \/ InReader("container", "get") /\ Entry.init = initURI
       \/ InReader("container", "reinit") /\ Blank \notin {Entry.init, initURI}
    /\ UNCHANGED seen

Reinits ==
    /\ \E q \in {"get", "teardown"} : InReader("reinit", q)
    /\ Entry.init \in DOMAIN Stream.inits
    /\ demux' = NewFmp4(Entry.init) /\ initURI' = Entry.init
    /\ told' = NewFmp4(Entry.init).init.asc
    /\ UNCHANGED <<seenList, seenLoss, seenOut>>

Gets ==
    /\ InReader("get", "deliver")
    /\ Entry.uri \in DOMAIN Stream.segs
    /\ fetched' = Append(fetched, Entry.seq)
    /\ \E r \in {Demuxed(demux, Entry, Break)} :
          /\ demux' = r.d /\ queue' = Queued(Entry, r.aus)
          /\ after' = IF r.err = "ok" THEN "next" ELSE r.err
    /\ UNCHANGED <<seenList, lastSeq, pendGap, initURI, told, delivered>>

Advances ==
    /\ \E q \in {"segments", "teardown"} : InReader("next", q)
    /\ lastSeq' = Entry.seq /\ idx' = idx + 1 /\ fresh' = TRUE
    /\ UNCHANGED <<media, pendGap, fetched, seenCodec, seenOut>>

Flushes ==
    /\ InReader("segments", "deliver")
    /\ \E r \in {IF initURI = Blank THEN EndTS(demux) ELSE Yield(demux, <<>>, "ok")} :
          /\ demux' = r.d
          /\ queue' = Queued([init |-> initURI, seq |-> lastSeq, uri |-> 0], r.aus)
    /\ after' = "streamEnded"
    /\ UNCHANGED <<seenList, seenLoss, initURI, told, delivered>>

Waits ==
    /\ \E p \in {"segments", "wait", "reload"}, q \in {"wait", "reload", "follow"} : InReader(p, q)
    /\ UNCHANGED seen

Reloads ==
    /\ \E p \in {"reload", "follow"} : InReader(p, "segments")
    /\ Numbered(media'.segs) /\ idx' = 1 /\ fresh' = FALSE
    /\ UNCHANGED <<seenLoss, seenCodec, seenOut>>

DataCase ==
    \/ Quiet \/ OpenMoves \/ Lists \/ Inits \/ Resolves \/ Starts \/ Quits \/ HandsOver
    \/ GoesOn \/ SkipsOld \/ Enters \/ SkipsGap \/ Chooses \/ Reinits \/ Gets \/ Advances
    \/ Flushes \/ Waits \/ Reloads

\* Where Goto leaves Open.
LEMMA OpenGoto ==
    ASSUME ControlInv, NEW p, pc["open"] # "opened", Goto("open", p)
    PROVE  ReaderAt = "unborn" /\ ReaderAt' = "unborn" /\ pc'["open"] = p
  BY ActorFacts DEF ControlInv, Goto, Go, ReaderAt, FunnelPCs

\* Where Goto and initiateShutdown leave the reader.
LEMMA ReaderGoto ==
    ASSUME ControlInv, NEW q \in ReadPCs \cup EndPCs, pc["reader"] \in ReadPCs \cup EndPCs,
           Goto("reader", q) \/ \E c : Shutdown("reader", c, q)
    PROVE  /\ pc["open"] = "opened" /\ pc'["open"] = "opened"
           /\ ReaderAt = pc["reader"] /\ ReaderAt' = q
  BY ActorFacts DEF ControlInv, Goto, Go, Shutdown, ReaderAt, FunnelPCs, ReadPCs, EndPCs

\* What Open's steps do.
LEMMA OpenData ==
    ASSUME ControlInv, WorldInv, Open
    PROVE  DataCase
  <1> USE DEF DataCase
  <1>s. listVars' = listVars => UNCHANGED seenList
    BY DEF listVars, seenList
  <1>1. ASSUME NEW p \in OpenPCs \ {"spawn", "opened"}, OpenStep(p),
               UNCHANGED <<listVars, demuxVars, queue, after>>,
               \/ Goto("open", "cleanup") \/ Goto("open", "failed")
               \/ p \in {"start", "master"} /\ \E q \in {"master", "media"} : Goto("open", q)
        PROVE  OpenMoves
    <2>1. PICK q \in {"cleanup", "failed", "master", "media"} :
              /\ Goto("open", q)
              /\ q \in {"cleanup", "failed"} \/ p \in {"start", "master"}
      BY <1>1
    <2>2. InOpen(p, q)
      BY <1>1, <2>1, OpenGoto DEF InOpen, OpenStep, At, worldVars
    <2>3. UNCHANGED seen
      BY <1>1 DEF OpenStep, seen, seenList, seenLoss, seenCodec, seenOut, worldVars, listVars,
                  lossVars, demuxVars
    <2> QED BY <1>1, <2>1, <2>2, <2>3 DEF OpenMoves, OpenPCs
  <1>2. CASE OpenStart
    BY <1>1, <1>2 DEF OpenStart, OpenPCs
  <1>3. CASE OpenFault
    BY <1>1, <1>3 DEF OpenFault, OpenPCs, Fail
  <1>4. CASE OpenMaster
    BY <1>1, <1>4 DEF OpenMaster, OpenPCs, Fail
  <1>5. CASE OpenMedia
    <2>1. CASE Goto("open", "cleanup") /\ UNCHANGED <<media, idx>>
      BY <1>1, <1>5, <2>1 DEF OpenMedia, OpenPCs, listVars
    <2>2. CASE ~(Goto("open", "cleanup") /\ UNCHANGED <<media, idx>>)
      <3> DEFINE m == ParsePlaylist(MediaLines(Stream))
                 P == Playable(m.p.segs)
                 q == IF m.p.segs[First(P)].init = Blank THEN "seg" ELSE "init"
      <3>1. /\ m.kind = "media" /\ P # {} /\ media' = Segments(m) /\ idx' = First(P)
            /\ Goto("open", q) /\ OpenStep("media")
            /\ UNCHANGED <<fresh, demuxVars, queue, after>>
        BY <1>5, <2>2 DEF OpenMedia, Fail
      <3>2. Numbered(m.p.segs)
        BY StreamFacts, PlaylistFacts
      <3> HIDE DEF m
      <3>3. media'.segs = m.p.segs
        BY <3>1 DEF Segments
      <3>4. First(P) \in 1..Len(m.p.segs)
        <4>1. P \in SUBSET Nat /\ P \subseteq 1..Len(m.p.segs)
          BY <3>2 DEF Playable, Numbered
        <4>2. First(P) \in P
          BY <3>1, <4>1, LeastNat DEF First
        <4> QED BY <4>1, <4>2
      <3>5. InOpen("media", q)
        BY <3>1, OpenGoto DEF InOpen, OpenStep, At, worldVars
      <3> HIDE DEF P
      <3> QED BY <3>1, <3>2, <3>3, <3>4, <3>5
              DEF Lists, OpenStep, lossVars, demuxVars, seenLoss, seenCodec, seenOut
    <2> QED BY <2>1, <2>2
  <1>6. CASE OpenInit
    <2>1. CASE Goto("open", "cleanup") /\ UNCHANGED demux
      BY <1>1, <1>6, <2>1 DEF OpenInit, OpenPCs, demuxVars
    <2>2. CASE ~(Goto("open", "cleanup") /\ UNCHANGED demux)
      <3>1. /\ OpenStep("init") /\ Entry.init \in DOMAIN Stream.inits
            /\ demux' = NewFmp4(Entry.init) /\ Goto("open", "seg")
            /\ UNCHANGED <<listVars, initURI, told, queue, after>>
        BY <1>6, <2>2 DEF OpenInit, Fail
      <3>2. InOpen("init", "seg")
        BY <3>1, OpenGoto DEF InOpen, OpenStep, At, worldVars
      <3> QED BY <3>1, <3>2, <1>s DEF Inits, OpenStep, lossVars, seenLoss, seenOut
    <2> QED BY <2>1, <2>2
  <1>7. CASE OpenSeg
    <2>1. CASE Goto("open", "cleanup") /\ UNCHANGED <<demux, queue, told, initURI>>
      BY <1>1, <1>7, <2>1 DEF OpenSeg, OpenPCs, demuxVars
    <2>2. CASE ~(Goto("open", "cleanup") /\ UNCHANGED <<demux, queue, told, initURI>>)
      <3>1. /\ OpenStep("seg") /\ Entry.uri \in DOMAIN Stream.segs
            /\ Goto("open", "spawn") /\ initURI' = Entry.init
            /\ \E r \in {Demuxed(demux, Entry, FALSE)} :
                  /\ demux' = r.d /\ queue' = Queued(Entry, r.aus)
                  /\ told' = ASC(r.d, Entry.init)
            /\ UNCHANGED <<listVars, after>>
        BY <1>7, <2>2 DEF OpenSeg, Fail
      <3>2. InOpen("seg", "spawn")
        BY <3>1, OpenGoto DEF InOpen, OpenStep, At, worldVars
      <3> QED BY <3>1, <3>2, <1>s DEF Resolves, OpenStep, lossVars, seenLoss
    <2> QED BY <2>1, <2>2
  <1>8. CASE Spawn
    <2>1. ReaderAt = "unborn" /\ ReaderAt' = "deliver" /\ pc'["open"] = "opened"
      BY <1>8, ActorFacts DEF Spawn, ReaderAt, ControlInv, At, FunnelPCs
    <2> QED BY <1>8, <2>1 DEF Spawn, Starts, At, worldVars, demuxVars, seenCodec
  <1>9. CASE Cleanup
    BY <1>1, <1>9 DEF Cleanup, OpenPCs
  <1> QED BY <1>2, <1>3, <1>4, <1>5, <1>6, <1>7, <1>8, <1>9 DEF Open

\* What the reader's steps do.
LEMMA ReaderData ==
    ASSUME ControlInv, WorldInv, Reader
    PROVE  DataCase
  <1> USE DEF DataCase
  <1>s. listVars' = listVars => UNCHANGED seenList
    BY DEF listVars, seenList
  <1>l. lossVars' = lossVars => UNCHANGED seenLoss
    BY DEF lossVars, seenLoss
  <1>c. demuxVars' = demuxVars => UNCHANGED seenCodec
    BY DEF demuxVars, seenCodec
  <1>o. outVars' = outVars => UNCHANGED seenOut
    BY DEF outVars, seenOut
  <1>0. ASSUME NEW p \in ReadPCs \cup EndPCs, NEW q \in ReadPCs \cup EndPCs, ReaderStep(p),
               Goto("reader", q) \/ \E c : Shutdown("reader", c, q)
        PROVE  InReader(p, q)
    BY <1>0, ReaderGoto DEF InReader, ReaderStep, At, worldVars
  <1>p. /\ {"deliver", "segments", "gap", "container", "reinit", "get", "next", "wait",
            "reload", "follow", "teardown", "join", "done"} = ReadPCs \cup EndPCs
        /\ "teardown" \in EndPCs /\ "join" \in EndPCs /\ "done" \in EndPCs
    BY DEF ReadPCs, EndPCs
  <1>1. ASSUME NEW p \in ReadPCs \cup EndPCs, NEW q \in EndPCs, InReader(p, q),
               UNCHANGED <<media, idx, fresh, lossVars, initURI, demux, told, outVars>>
        PROVE  Quits
    BY <1>1, <1>l, <1>o DEF Quits, InReader, seen, seenList, seenCodec
  <1>2. ASSUME NEW q \in {"deliver", "get"}, Callback(q)
        PROVE  \E r \in {q, "teardown"} : Goto("reader", r) \/ \E c : Shutdown("reader", c, r)
    BY <1>2 DEF Callback
  <1>3. CASE DeliverAU
    <2>1. ReaderStep("deliver") /\ Callback("deliver")
      BY <1>3 DEF DeliverAU
    <2>2. \E q \in {"deliver", "teardown"} : InReader("deliver", q)
      BY <1>0, <1>2, <1>p, <2>1
    <2> QED BY <1>3, <1>s, <1>c, <2>2 DEF DeliverAU, HandsOver
  <1>4. CASE Delivered
    <2>1. UNCHANGED <<listVars, initURI, demux, told, lossVars, outVars>> /\ UNCHANGED scen
      BY <1>4 DEF Delivered, ReaderStep, worldVars
    <2>2. UNCHANGED seen
      BY <2>1, <1>l, <1>o, <1>s DEF seen, seenCodec
    <2>3. CASE after \in {"segments", "next"}
      <3>1. InReader("deliver", after)
        BY <1>4, <1>0, <1>p, <2>3 DEF Delivered
      <3> QED BY <1>4, <2>2, <2>3, <3>1 DEF Delivered, GoesOn
    <2>4. CASE after \notin {"segments", "next"}
      <3>1. InReader("deliver", "teardown")
        BY <1>4, <1>0, <1>p, <2>4 DEF Delivered
      <3> QED BY <2>2, <3>1, <1>p DEF Quits
    <2> QED BY <2>3, <2>4
  <1>5. CASE NextSegment
    <2>1. CASE Entry.seq <= lastSeq /\ idx' = idx + 1 /\ Goto("reader", "segments")
                  /\ UNCHANGED <<pendGap, pendDisc>>
      <3>1. InReader("segments", "segments")
        BY <1>5, <1>0, <1>p, <2>1 DEF NextSegment
      <3> QED BY <1>5, <1>c, <1>o, <2>1, <3>1 DEF NextSegment, SkipsOld, seenLoss
    <2>2. CASE ~(Entry.seq <= lastSeq /\ idx' = idx + 1 /\ Goto("reader", "segments")
                  /\ UNCHANGED <<pendGap, pendDisc>>)
      <3>1. /\ Entry.seq > lastSeq /\ idx <= Len(media.segs) /\ ReaderStep("segments")
            /\ pendGap' = IF ~fresh /\ Entry.seq > lastSeq + 1
                          THEN AddInt(pendGap, Missed(lastSeq, Entry.seq)) ELSE pendGap
            /\ Goto("reader", IF Entry.gap THEN "gap" ELSE "container")
            /\ UNCHANGED <<idx, media, fresh, demuxVars, lastSeq, fetched, outVars>>
        BY <1>5, <2>2 DEF NextSegment
      <3>2. \E q \in {"gap", "container"} : InReader("segments", q)
        BY <3>1, <1>0, <1>p
      <3> QED BY <1>c, <1>o, <3>1, <3>2 DEF Enters, seenList
    <2> QED BY <2>1, <2>2
  <1>6. CASE SkipGap
    <2>1. InReader("gap", "next")
      BY <1>6, <1>0, <1>p DEF SkipGap
    <2> QED BY <1>6, <1>s, <1>c, <1>o, <2>1 DEF SkipGap, SkipsGap
  <1>7. CASE Container
    <2>1. UNCHANGED <<listVars, demuxVars, lossVars, outVars>> /\ UNCHANGED scen
      BY <1>7 DEF Container, ReaderStep, worldVars
    <2>2. UNCHANGED seen
      BY <2>1, <1>s, <1>l, <1>c, <1>o DEF seen
    <2>3. \/ Entry.init = initURI /\ InReader("container", "get")
          \/ Blank \notin {Entry.init, initURI} /\ InReader("container", "reinit")
          \/ InReader("container", "teardown")
      BY <1>7, <1>0, <1>p DEF Container
    <2> QED BY <2>2, <2>3, <1>p DEF Chooses, Quits
  <1>8. CASE ReadFault
    <2>1. UNCHANGED <<listVars, demuxVars, lossVars, outVars>> /\ UNCHANGED scen
      BY <1>8 DEF ReadFault, ReaderStep, worldVars
    <2>2. UNCHANGED seen
      BY <2>1, <1>s, <1>l, <1>c, <1>o DEF seen
    <2>3. \E p \in {"reinit", "get", "reload", "follow"} : InReader(p, "teardown")
      BY <1>8, <1>0, <1>p DEF ReadFault
    <2> QED BY <2>2, <2>3, <1>p DEF Quits
  <1>9. CASE Reinit
    <2> DEFINE d == NewFmp4(Entry.init)
    <2>1. /\ ReaderStep("reinit") /\ Entry.init \in DOMAIN Stream.inits
          /\ UNCHANGED <<listVars, lossVars, outVars>>
          /\ \/ /\ demux' = d /\ initURI' = Entry.init /\ told' = d.init.asc
                /\ Goto("reader", "get") \/ Callback("get")
             \/ /\ UNCHANGED demuxVars
                /\ \E c : Shutdown("reader", c, "teardown")
      BY <1>9 DEF Reinit, SwapDemuxer, MayChange
    <2> HIDE DEF d
    <2>2. CASE UNCHANGED demuxVars /\ \E c : Shutdown("reader", c, "teardown")
      <3>1. InReader("reinit", "teardown")
        BY <2>1, <2>2, <1>0, <1>p
      <3> QED BY <2>1, <2>2, <3>1, <1>1, <1>p DEF listVars, demuxVars
    <2>3. CASE /\ demux' = d /\ initURI' = Entry.init /\ told' = d.init.asc
               /\ Goto("reader", "get") \/ Callback("get")
      <3>1. \E q \in {"get", "teardown"} : InReader("reinit", q)
        BY <2>1, <2>3, <1>0, <1>2, <1>p
      <3> QED BY <2>1, <2>3, <3>1, <1>s, <1>l, <1>o DEF Reinits, d
    <2> QED BY <2>1, <2>2, <2>3
  <1>10. CASE GetSegment
    <2>1. InReader("get", "deliver")
      BY <1>10, <1>0, <1>p DEF GetSegment
    <2> QED BY <1>10, <1>s, <2>1 DEF GetSegment, Gets
  <1>11. CASE Advance
    <2>1. \E q \in {"segments", "teardown"} : InReader("next", q)
      <3>1. \E q \in {"segments", "teardown"} : Goto("reader", q)
        BY <1>11 DEF Advance
      <3> QED BY <1>11, <1>0, <1>p, <3>1 DEF Advance
    <2> QED BY <1>11, <1>c, <1>o, <2>1 DEF Advance, Advances
  <1>12. CASE ListDone
    <2>1. /\ ReaderStep("segments") /\ UNCHANGED <<listVars, initURI, told, lossVars, delivered>>
      BY <1>12 DEF ListDone
    <2>2. CASE Goto("reader", "teardown") /\ UNCHANGED <<demux, queue, after>>
      <3>1. InReader("segments", "teardown")
        BY <2>1, <2>2, <1>0, <1>p
      <3> QED BY <2>1, <2>2, <3>1, <1>1, <1>p DEF listVars, outVars
    <2>3. CASE Goto("reader", "wait") /\ UNCHANGED <<demux, queue, after>>
      <3>1. InReader("segments", "wait")
        BY <2>1, <2>3, <1>0, <1>p
      <3> QED BY <2>1, <2>3, <3>1, <1>s, <1>l
              DEF Waits, seen, seenCodec, seenOut, InReader
    <2>4. CASE /\ \E r \in {IF initURI = Blank THEN EndTS(demux) ELSE Yield(demux, <<>>, "ok")} :
                     /\ demux' = r.d
                     /\ queue' = Queued([init |-> initURI, seq |-> lastSeq, uri |-> 0], r.aus)
               /\ after' = "streamEnded" /\ Goto("reader", "deliver")
      <3>1. InReader("segments", "deliver")
        BY <2>1, <2>4, <1>0, <1>p
      <3> QED BY <2>1, <2>4, <3>1, <1>s, <1>l DEF Flushes
    <2> QED BY <1>12, <2>2, <2>3, <2>4 DEF ListDone
  <1>13. CASE ReloadWait
    <2>1. /\ ReaderStep("wait") /\ UNCHANGED <<media, idx, fresh, demuxVars, lossVars, outVars>>
          /\ Goto("reader", "teardown") \/ Goto("reader", "reload")
      BY <1>13 DEF ReloadWait
    <2>2. InReader("wait", "teardown") \/ InReader("wait", "reload")
      BY <2>1, <1>0, <1>p
    <2>3. UNCHANGED seen
      BY <2>1, <1>l, <1>c, <1>o DEF seen, seenList, ReaderStep, worldVars
    <2> QED BY <2>2, <2>3, <1>p DEF Quits, Waits
  <1>14. ASSUME NEW p \in {"reload", "follow"}, Reload(p)
         PROVE  DataCase
    <2> DEFINE m == ParsePlaylist(IF p = "reload" THEN ReloadLines(Stream) ELSE MediaLines(Stream))
    <2>1. /\ ReaderStep(p) /\ UNCHANGED <<demuxVars, lossVars, outVars>>
          /\ \/ /\ m.kind = "media" /\ media' = Segments(m)
                /\ idx' = 1 /\ fresh' = FALSE /\ Goto("reader", "segments")
             \/ p = "reload" /\ Goto("reader", "follow") /\ UNCHANGED <<media, idx, fresh>>
             \/ (\E c : Shutdown("reader", c, "teardown")) /\ UNCHANGED <<media, idx, fresh>>
      BY <1>14 DEF Reload
    <2>2. Numbered(m.p.segs)
      BY StreamFacts, PlaylistFacts
    <2> HIDE DEF m
    <2>3. CASE /\ m.kind = "media" /\ media' = Segments(m)
               /\ idx' = 1 /\ fresh' = FALSE /\ Goto("reader", "segments")
      <3>1. InReader(p, "segments")
        BY <2>1, <2>3, <1>0, <1>p
      <3>2. Numbered(media'.segs)
        BY <2>2, <2>3 DEF Segments
      <3> QED BY <2>1, <2>3, <3>1, <3>2, <1>l, <1>c, <1>o DEF Reloads
    <2>4. CASE p = "reload" /\ Goto("reader", "follow") /\ UNCHANGED <<media, idx, fresh>>
      <3>1. InReader("reload", "follow")
        BY <2>1, <2>4, <1>0, <1>p
      <3>2. UNCHANGED seen
        BY <2>1, <2>4, <1>l, <1>c, <1>o DEF seen, seenList, ReaderStep, worldVars
      <3> QED BY <3>1, <3>2 DEF Waits
    <2>5. CASE (\E c : Shutdown("reader", c, "teardown")) /\ UNCHANGED <<media, idx, fresh>>
      <3>1. InReader(p, "teardown")
        BY <2>1, <2>5, <1>0, <1>p
      <3> QED BY <2>1, <2>5, <3>1, <1>1, <1>p DEF demuxVars
    <2> QED BY <2>1, <2>3, <2>4, <2>5
  <1>15. CASE Teardown
    <2>1. InReader("teardown", "join")
      BY <1>15, <1>0, <1>p DEF Teardown
    <2> QED BY <1>15, <1>1, <1>p, <2>1 DEF Teardown, listVars, demuxVars
  <1>16. CASE Join
    <2>1. InReader("join", "done")
      BY <1>16, <1>0, <1>p DEF Join
    <2> QED BY <1>16, <1>1, <1>p, <2>1 DEF Join, listVars, demuxVars
  <1> QED
    BY <1>3, <1>4, <1>5, <1>6, <1>7, <1>8, <1>9, <1>10, <1>11, <1>12, <1>13, <1>14,
       <1>15, <1>16
    DEF Reader

\* What any step does: those of the origin, of the watchdog, of the callers and
\* of initiateShutdown leave the reader at the point of its program it is at.
LEMMA DataCases ==
    ASSUME ControlInv, WorldInv, [Next]_vars
    PROVE  DataCase
  <1>1. ASSUME UNCHANGED ownVars PROVE UNCHANGED seen
    BY <1>1 DEF ownVars, worldVars, listVars, demuxVars, lossVars, outVars, seen, seenList,
                seenLoss, seenCodec, seenOut
  <1>2. ASSUME Slide \/ CtxCancel \/ Elapse \/ UNCHANGED vars PROVE Quiet
    <2>1. UNCHANGED lifecycleVars
      BY <1>2 DEF Slide, CtxCancel, Elapse, vars
    <2>2. UNCHANGED seen
      BY <1>2, <1>1 DEF Slide, CtxCancel, Elapse, vars, worldVars, listVars, demuxVars,
                lossVars, outVars, seen, seenList, seenLoss, seenCodec, seenOut
    <2>3. UNCHANGED <<pc["open"], ReaderAt>>
      BY <2>1 DEF lifecycleVars, callVars, ReaderAt
    <2> QED BY <2>2, <2>3 DEF Quiet
  <1>3. ASSUME Watchdog PROVE Quiet
    <2>1. UNCHANGED seen
      BY <1>1, <1>3 DEF Watchdog
    <2>2. UNCHANGED <<pc["open"], ReaderAt>>
      BY <1>3, ActorFacts DEF Watchdog, ControlInv, ReaderAt, Goto, Go, Shutdown, FunnelPCs
    <2> QED BY <2>1, <2>2 DEF Quiet
  <1>4. ASSUME NEW a \in Actors, Funnel(a), UNCHANGED ownVars PROVE Quiet
    <2>1. UNCHANGED seen
      BY <1>1, <1>4
    <2>2. UNCHANGED <<pc["open"], ReaderAt>>
      <3> USE ActorFacts DEF ControlInv, ReaderAt, Go, At, FunnelPCs, OpenPCs
      <3>1. CASE OnceDo(a)
        BY <1>4, <3>1 DEF OnceDo
      <3>2. CASE SetTerm(a)
        BY <1>4, <3>2 DEF SetTerm
      <3>3. CASE CloseClosing(a)
        BY <1>4, <3>3 DEF CloseClosing
      <3>4. CASE CancelRequest(a)
        BY <1>4, <3>4 DEF CancelRequest
      <3> QED BY <1>4, <3>1, <3>2, <3>3, <3>4 DEF Funnel
    <2> QED BY <2>1, <2>2 DEF Quiet
  <1>5. ASSUME ApiCalls PROVE Quiet
    <2>1. UNCHANGED seen
      BY <1>1, <1>5 DEF ApiCalls
    <2>2. UNCHANGED <<pc["open"], ReaderAt>>
      BY <1>5, ActorFacts DEF ApiCalls, Calls, Close, WaitCtx, WaitDone, ControlInv, ReaderAt,
                              Goto, Go, Shutdown, FunnelPCs
    <2> QED BY <2>1, <2>2 DEF Quiet
  <1> QED
    BY <1>2, <1>3, <1>4, <1>5, OpenData, ReaderData DEF Next, Terminated, Shutdowns, DataCase

-----------------------------------------------------------------------------
(* Each part of the invariant is preserved.                                *)

\* The origin moves its window forward within what it has.
LEMMA WorldStep ==
    ASSUME WorldInv, [Next]_vars
    PROVE  WorldInv'
  <1>1. CASE Slide
    <2>1. StreamType(Stream) /\ Len(Stream.segs) \in Nat /\ Window \in Nat
      BY StreamFacts, HlsAssumption DEF StreamType
    <2>2. PICK n \in (hi + 1)..Len(Stream.segs) : hi' = n /\ lo' = Max2(lo, n - Window + 1)
      BY <1>1 DEF Slide
    <2>3. UNCHANGED <<scen, Stream>>
      BY <1>1 DEF Slide, Stream
    <2>4. n \in Nat /\ hi < n /\ n <= Len(Stream.segs)
      BY <2>1, <2>2 DEF WorldInv
    <2>5. lo' \in Nat \ {0} /\ lo' <= n
      BY <2>1, <2>2, <2>4, HlsAssumption DEF WorldInv, Max2
    <2> QED BY <2>2, <2>3, <2>4, <2>5 DEF WorldInv
  <1>2. CASE UNCHANGED <<scen, lo, hi>>
    BY <1>2 DEF WorldInv, Stream
  <1>3. [Next]_vars /\ ~Slide => UNCHANGED <<scen, lo, hi>>
    <2> USE DEF worldVars
    <2>1. CtxCancel \/ Elapse \/ UNCHANGED vars => UNCHANGED <<scen, lo, hi>>
      BY DEF CtxCancel, Elapse, vars, ownVars
    <2>2. Open => UNCHANGED <<scen, lo, hi>>
      BY DEF Open, OpenStart, OpenFault, OpenMaster, OpenMedia, OpenInit, OpenSeg, Spawn,
             Cleanup, OpenStep
    <2>3. Reader => UNCHANGED <<scen, lo, hi>>
      BY DEF Reader, DeliverAU, Delivered, NextSegment, SkipGap, Container, ReadFault, Reinit,
             GetSegment, Advance, ListDone, ReloadWait, Reload, Teardown, Join, ReaderStep
    <2>4. Watchdog \/ Shutdowns \/ ApiCalls => UNCHANGED <<scen, lo, hi>>
      BY DEF Watchdog, Shutdowns, ApiCalls, ownVars
    <2> QED BY <2>1, <2>2, <2>3, <2>4 DEF Next, Terminated
  <1> QED BY <1>1, <1>2, <1>3

\* Access units are queued one by one, each stamped with its segment.
LEMMA QueuedFacts ==
    ASSUME NEW e, NEW aus, IsSeq(aus)
    PROVE  LET q == Queued(e, aus)
           IN  /\ IsSeq(q) /\ Len(q) = Len(aus)
               /\ \A k \in 1..Len(q) :
                     /\ q[k].seq = e.seq /\ q[k].uri = e.uri /\ q[k].fmp4 = (e.init # Blank)
                     /\ q[k].ids = aus[k].ids /\ q[k].cfg = TrueConfig(e, aus[k])
  <1> DEFINE n == Len(aus)
             q == Queued(e, aus)
  <1>1. DOMAIN aus = 1..n /\ n \in Nat
    BY DEF IsSeq
  <1>2. q = [i \in 1..n |-> [ids |-> aus[i].ids, cfg |-> TrueConfig(e, aus[i]),
                             seq |-> e.seq, uri |-> e.uri, fmp4 |-> e.init # Blank]]
    BY <1>1 DEF Queued
  <1>3. q = [i \in 1..n |-> q[i]]
    BY <1>2
  <1> HIDE DEF q, n
  <1>4. Len(q) = n
    BY <1>1, <1>3, SequenceFacts
  <1>5. IsSeq(q)
    BY <1>1, <1>3, <1>4 DEF IsSeq
  <1> QED BY <1>2, <1>4, <1>5 DEF n, q

\* Entry e through a demuxer that suits it: what becomes of the demuxer, and the
\* access units as they are queued.
LEMMA DemuxedFacts ==
    ASSUME WorldInv, NEW d, NEW e, NEW disc, Suits(d, e.init), e.uri \in DOMAIN Stream.segs
    PROVE  LET r == Demuxed(d, e, disc)
               q == Queued(e, r.aus)
               len == Stream.segs[e.uri].frag.len
           IN  /\ r.err \in SegmentErrs /\ Suits(r.d, e.init)
               /\ e.init # Blank => r.d.init = ParseInit(Stream.inits[e.init])
               /\ IsSeq(q) /\ len \in Nat
               /\ \A k \in 1..Len(q) : /\ q[k].seq = e.seq /\ q[k].uri = e.uri
                                       /\ q[k].fmp4 = (e.init # Blank)
               /\ e.init # Blank =>
                     /\ Len(q) <= len
                     /\ \A k \in 1..Len(q) :
                           /\ q[k].cfg = ParseInit(Stream.inits[e.init]).asc
                           /\ 0 <= q[k].ids[1] /\ q[k].ids[1] < q[k].ids[2] /\ q[k].ids[2] <= len
  <1> DEFINE r == Demuxed(d, e, disc)
             q == Queued(e, r.aus)
             I == ParseInit(Stream.inits[e.init])
  <1>1. /\ Stream.segs[e.uri].ts \in Seq(Packet) /\ Stream.segs[e.uri].frag \in Fragment
        /\ Stream.segs[e.uri].frag.len \in Nat
    <2>1. Stream.segs \in Seq(Segment)
      BY StreamFacts DEF StreamType
    <2>2. Stream.segs[e.uri] \in Segment
      BY <2>1
    <2> QED BY <2>2 DEF Segment, Fragment
  <1>2. ASSUME IsSeq(r.aus)
        PROVE  /\ IsSeq(q) /\ Len(q) = Len(r.aus)
               /\ \A k \in 1..Len(q) :
                     /\ q[k].seq = e.seq /\ q[k].uri = e.uri /\ q[k].fmp4 = (e.init # Blank)
                     /\ q[k].ids = r.aus[k].ids /\ q[k].cfg = TrueConfig(e, r.aus[k])
    <2> HIDE DEF r
    <2> QED BY <1>2, QueuedFacts
  <1>3. CASE e.init = Blank
    <2>1. r = DemuxTS(d, Stream.segs[e.uri].ts, disc) /\ d \in DemuxerStates
      BY <1>3 DEF Demuxed, Suits
    <2> HIDE DEF r
    <2>2. r \in Yields
      BY <1>1, <2>1, DemuxTSFacts
    <2>3. r.d \in DemuxerStates /\ r.aus \in Seq(AccessUnits) /\ r.err \in SegmentErrs
      BY <2>2, YieldParts
    <2>4. IsSeq(r.aus)
      BY <2>3 DEF IsSeq
    <2> HIDE DEF q
    <2> QED BY <1>1, <1>2, <1>3, <2>3, <2>4 DEF Suits, r, q
  <1>4. CASE e.init # Blank
    <2>1. r = DemuxFragment(d, Stream.segs[e.uri].frag) /\ d = [init |-> I, gaps |-> d.gaps]
          /\ e.init \in DOMAIN Stream.inits
      BY <1>4 DEF Demuxed, Suits
    <2>2. I.size \in Nat
      <3>1. InitType(Stream.inits[e.init])
        BY <2>1, StreamFacts DEF StreamType
      <3> QED BY <3>1, InitFacts
    <2> HIDE DEF I, r
    <2> DEFINE f == Stream.segs[e.uri].frag
    <2>3. f \in Fragment
      BY <1>1
    <2> HIDE DEF f
    <2>4. r = DemuxFragment([init |-> I, gaps |-> d.gaps], f)
      BY <2>1 DEF f
    <2> DEFINE g == d.gaps
    <2>5. /\ r.err \in SegmentErrs
          /\ \E h : r.d = [init |-> I, gaps |-> h]
          /\ Len(r.aus) \in Nat /\ Len(r.aus) <= f.len
          /\ r.aus = [i \in 1..Len(r.aus) |-> r.aus[i]]
          /\ \A i \in 1..Len(r.aus) :
                LET u == r.aus[i].ids
                IN  0 <= u[1] /\ u[1] < u[2] /\ u[2] <= f.len
      <3> DEFINE t == DemuxFragment([init |-> I, gaps |-> g], f)
      <3> HIDE DEF g
      <3>1. /\ t.err \in SegmentErrs
            /\ \E h : t.d = [init |-> I, gaps |-> h]
            /\ Len(t.aus) \in Nat /\ Len(t.aus) <= f.len
            /\ t.aus = [i \in 1..Len(t.aus) |-> t.aus[i]]
            /\ \A i \in 1..Len(t.aus) :
                  LET u == t.aus[i].ids
                  IN  0 <= u[1] /\ u[1] < u[2] /\ u[2] <= f.len
        BY <2>2, <2>3, DemuxFragmentFacts
      <3>2. r = t
        BY <2>4 DEF g
      <3> HIDE DEF t
      <3> QED BY <3>1, <3>2
    <2>6. Suits(r.d, e.init) /\ r.d.init = I
      <3>1. PICK h : r.d = [init |-> I, gaps |-> h]
        BY <2>5
      <3>2. r.d.gaps = h /\ r.d.init = I
        BY <3>1
      <3> QED BY <1>4, <2>1, <3>1, <3>2 DEF Suits, I
    <2>7. /\ IsSeq(q) /\ Len(q) = Len(r.aus)
          /\ \A k \in 1..Len(q) :
                /\ q[k].seq = e.seq /\ q[k].uri = e.uri /\ q[k].fmp4 = (e.init # Blank)
                /\ q[k].ids = r.aus[k].ids /\ q[k].cfg = TrueConfig(e, r.aus[k])
      BY <1>2, <2>5 DEF IsSeq
    <2>8. \A k \in 1..Len(q) : TrueConfig(e, r.aus[k]) = I.asc
      BY <1>4 DEF TrueConfig, I
    <2> HIDE DEF q
    <2>9. /\ Len(q) <= f.len
          /\ \A k \in 1..Len(q) :
                /\ q[k].cfg = I.asc
                /\ 0 <= q[k].ids[1] /\ q[k].ids[1] < q[k].ids[2] /\ q[k].ids[2] <= f.len
      BY <2>5, <2>7, <2>8
    <2> QED BY <1>1, <1>4, <2>5, <2>6, <2>7, <2>9 DEF r, q, I, f
  <1> QED BY <1>3, <1>4

\* The reader's place in the playlist.
LEMMA ListStep ==
    ASSUME WorldInv, ListInv, CodecInv, DataCase
    PROVE  ListInv'
  <1> USE DEF ListInv
  <1>p. /\ "unborn" \notin ReadPCs /\ \A p \in EndPCs : p \notin ReadPCs
        /\ "teardown" \in EndPCs
    BY DEF ReadPCs, EndPCs
  <1>u. ASSUME ReaderAt' \notin ReadPCs PROVE (~Early /\ ~Late)' /\ ReaderAt' \notin {"segments", "deliver"}
    BY <1>u DEF Early, Late, ReadPCs
  <1>e. Numbered(media.segs) /\ idx \in 1..Len(media.segs) => Entry.seq \in Nat
    BY DEF Numbered, Entry
  <1>1. CASE Quiet
    BY <1>1 DEF Quiet, seen, seenList, seenLoss, seenOut, Early, Late, Entry
  <1>2. CASE OpenMoves
    BY <1>2, <1>u, <1>p DEF OpenMoves, InOpen, seen, seenList, seenLoss
  <1>3. CASE Lists
    BY <1>3, <1>u, <1>p DEF Lists, InOpen, seenLoss
  <1>4. CASE Inits
    BY <1>4, <1>u, <1>p DEF Inits, InOpen, seenList, seenLoss
  <1>5. CASE Resolves
    BY <1>5, <1>u, <1>p DEF Resolves, InOpen, seenList, seenLoss
  <1>6. CASE Starts
    <2>1. (~Early /\ ~Late)'
      BY <1>6 DEF Starts, Early, Late
    <2> QED BY <1>6, <1>e, <2>1 DEF Starts
  <1>7. CASE Quits
    BY <1>7, <1>u, <1>p DEF Quits, InReader, seen, seenList, seenLoss
  <1>8. CASE HandsOver
    <2>1. UNCHANGED <<seenList, lastSeq, after, pc["open"]>> /\ ReaderAt = "deliver"
          /\ (ReaderAt' = "deliver" \/ ReaderAt' = "teardown")
      BY <1>8 DEF HandsOver, InReader
    <2> QED BY <2>1 DEF seenList, Early, Late, Entry
  <1>9. CASE GoesOn
    <2>1. /\ UNCHANGED <<media, idx, fresh, lastSeq, after, pc["open"]>> /\ ReaderAt = "deliver"
          /\ ReaderAt' = after /\ after \in {"segments", "next"}
      BY <1>9 DEF GoesOn, InReader, seen, seenList, seenLoss, seenOut
    <2> QED BY <2>1 DEF Early, Late, Entry
  <1>10. CASE SkipsOld
    <2>1. /\ UNCHANGED <<media, fresh, lastSeq, after, pc["open"]>> /\ ReaderAt = "segments"
          /\ ReaderAt' = "segments" /\ idx' = idx + 1 /\ pc["open"] = "opened"
          /\ idx <= Len(media.segs) /\ Entry.seq <= lastSeq
      BY <1>10 DEF SkipsOld, InReader, seenLoss, seenOut
    <2>2. ~fresh
      <3>1. Entry.seq \in Nat
        BY <1>e, <2>1
      <3> QED BY <2>1, <3>1
    <2>3. (~Early /\ ~Late)'
      BY <2>1 DEF Early, Late
    <2> QED BY <2>1, <2>2, <2>3
  <1>11. CASE Enters
    BY <1>11 DEF Enters, InReader, seenList, Early, Late, Entry
  <1>12. CASE SkipsGap
    BY <1>12 DEF SkipsGap, InReader, seenList, Early, Late, Entry
  <1>13. CASE Chooses
    BY <1>13 DEF Chooses, InReader, seen, seenList, seenLoss, Early, Late, Entry
  <1>14. CASE Reinits
    BY <1>14 DEF Reinits, InReader, seenList, seenLoss, Early, Late, Entry
  <1>15. CASE Gets
    <2>1. /\ UNCHANGED <<media, idx, fresh, lastSeq, pc["open"]>> /\ ReaderAt = "get"
          /\ ReaderAt' = "deliver" /\ pc["open"] = "opened"
      BY <1>15 DEF Gets, InReader, seenList
    <2>2. after' # "segments"
      <3>1. PICK r \in {Demuxed(demux, Entry, Break)} :
                after' = IF r.err = "ok" THEN "next" ELSE r.err
        BY <1>15 DEF Gets
      <3>2. Suits(demux, Entry.init) /\ Entry.uri \in DOMAIN Stream.segs
        BY <1>15, <2>1 DEF Gets, CodecInv
      <3>3. r.err \in SegmentErrs
        BY <3>1, <3>2, DemuxedFacts
      <3> QED BY <3>1, <3>3 DEF SegmentErrs
    <2> QED BY <2>1, <2>2 DEF Early, Late, Entry
  <1>16. CASE Advances
    <2>1. /\ UNCHANGED <<media, after, pc["open"]>> /\ ReaderAt = "next"
          /\ (ReaderAt' = "segments" \/ ReaderAt' = "teardown") /\ pc["open"] = "opened"
          /\ lastSeq' = Entry.seq /\ idx' = idx + 1 /\ fresh' = TRUE
      BY <1>16 DEF Advances, InReader, seenOut
    <2>2. idx \in 1..Len(media.segs) /\ Entry.seq \in Nat
      BY <2>1, <1>e DEF Late
    <2>3. ASSUME idx' <= Len(media.segs) PROVE Entry'.seq = Entry.seq + 1
      <3> DEFINE s == media.segs
      <3>1. idx + 1 \in 1..Len(s) /\ s[1].seq \in Nat
        BY <2>1, <2>2, <2>3 DEF Numbered
      <3>2. s[idx].seq = s[1].seq + (idx - 1) /\ s[idx + 1].seq = s[1].seq + ((idx + 1) - 1)
        BY <2>2, <3>1 DEF Numbered
      <3>3. Entry = s[idx] /\ Entry' = s[idx + 1]
        BY <2>1 DEF Entry
      <3> HIDE DEF s
      <3>4. PICK a \in Nat : a = s[1].seq
        BY <3>1
      <3>5. s[idx].seq = a + (idx - 1) /\ s[idx + 1].seq = a + ((idx + 1) - 1)
        BY <3>2, <3>4
      <3>6. s[idx + 1].seq = s[idx].seq + 1
        BY <2>2, <3>4, <3>5
      <3> QED BY <3>3, <3>6
    <2>4. (~Early /\ ~Late)'
      BY <2>1 DEF Early, Late
    <2> QED BY <2>1, <2>2, <2>3, <2>4
  <1>17. CASE Flushes
    BY <1>17 DEF Flushes, InReader, seenList, seenLoss, Early, Late
  <1>18. CASE Waits
    BY <1>18 DEF Waits, InReader, seen, seenList, seenLoss, Early, Late
  <1>19. CASE Reloads
    BY <1>19 DEF Reloads, InReader, seenLoss, Early, Late
  <1> QED
    BY <1>1, <1>2, <1>3, <1>4, <1>5, <1>6, <1>7, <1>8, <1>9, <1>10, <1>11, <1>12, <1>13,
       <1>14, <1>15, <1>16, <1>17, <1>18, <1>19
    DEF DataCase

\* The demuxer follows the playlist's initialization segments, and what the
\* consumer was told follows the demuxer.
LEMMA CodecStep ==
    ASSUME WorldInv, ListInv, CodecInv, DataCase
    PROVE  CodecInv'
  <1> USE DEF CodecInv
  <1>s. ASSUME scen' = scen, NEW d, NEW u PROVE Suits(d, u)' <=> Suits(d, u)
    BY <1>s DEF Suits, Stream
  <1>t. scen' = scen => Stream' = Stream
    BY DEF Stream
  <1>p. "unborn" \notin ReadPCs /\ \A p \in EndPCs : p \notin ReadPCs
    BY DEF ReadPCs, EndPCs
  <1>u. ASSUME ReaderAt' \notin ReadPCs PROVE ReaderAt' \notin {"reinit", "get", "deliver"}
    BY <1>u DEF ReadPCs
  <1>a. {"segments", "next", "streamEnded"} \subseteq Afters
    BY DEF Afters
  <1>1. ASSUME UNCHANGED <<scen, media, idx, initURI, demux, told, pc["open"]>>,
               ReaderAt' = "reinit" => Blank \notin {Entry.init, initURI},
               ReaderAt' = "get" => Entry.init = initURI,
               ReaderAt' = "deliver" => after' \in Afters
        PROVE  CodecInv'
    BY <1>1, <1>s DEF Entry, Suits, Stream
  <1>2. CASE Quiet
    BY <1>1, <1>2 DEF Quiet, seen, seenList, seenCodec, seenOut
  <1>3. CASE OpenMoves
    <2>1. UNCHANGED <<scen, media, idx, initURI, demux, told>> /\ ReaderAt' = "unborn"
      BY <1>3 DEF OpenMoves, InOpen, seen, seenList, seenCodec
    <2>2. /\ pc'["open"] \in {"cleanup", "failed", "master", "media"}
          /\ pc'["open"] \in {"master", "media"} => pc["open"] \in {"start", "master"}
      BY <1>3 DEF OpenMoves, InOpen
    <2> QED BY <2>1, <2>2
  <1>4. CASE Lists
    <2>1. /\ pc["open"] = "media" /\ ReaderAt' = "unborn" /\ UNCHANGED demux
          /\ pc'["open"] = (IF Entry'.init = Blank THEN "seg" ELSE "init")
      BY <1>4 DEF Lists, InOpen, seenCodec, Entry
    <2>2. demux \in DemuxerStates
      BY <2>1
    <2>3. CASE Entry'.init = Blank
      <3>1. Suits(demux, Entry.init)'
        BY <2>1, <2>2, <2>3 DEF Suits
      <3> QED BY <2>1, <2>3, <3>1
    <2>4. CASE Entry'.init # Blank
      BY <2>1, <2>2, <2>4
    <2> QED BY <2>3, <2>4
  <1>5. CASE Inits
    <2>1. /\ pc["open"] = "init" /\ pc'["open"] = "seg" /\ ReaderAt' = "unborn" /\ scen' = scen
          /\ Entry' = Entry /\ demux' = NewFmp4(Entry.init) /\ Entry.init \in DOMAIN Stream.inits
      BY <1>5 DEF Inits, InOpen, seenList, Entry
    <2>2. Suits(NewFmp4(Entry.init), Entry.init)
      BY <2>1 DEF Suits, NewFmp4
    <2>3. Suits(demux, Entry.init)'
      BY <2>1, <2>2 DEF Suits, Stream
    <2> QED BY <2>1, <2>3
  <1>6. CASE Resolves
    <2>1. /\ pc["open"] = "seg" /\ pc'["open"] = "spawn" /\ ReaderAt' = "unborn" /\ scen' = scen
          /\ initURI' = Entry.init /\ Entry.uri \in DOMAIN Stream.segs
      BY <1>6 DEF Resolves, InOpen
    <2>2. PICK r \in {Demuxed(demux, Entry, FALSE)} : demux' = r.d /\ told' = ASC(r.d, Entry.init)
      BY <1>6 DEF Resolves
    <2>3. Suits(r.d, Entry.init)
      <3>1. Suits(demux, Entry.init)
        BY <2>1
      <3> DEFINE no == FALSE
      <3>2. r = Demuxed(demux, Entry, no)
        BY <2>2
      <3> HIDE DEF no
      <3> QED BY <2>1, <3>1, <3>2, DemuxedFacts
    <2>4. Suits(demux, initURI)' /\ (initURI' # Blank => told' = (demux').init.asc)
      BY <2>1, <2>2, <2>3 DEF Suits, Stream, ASC
    <2> QED BY <2>1, <2>4
  <1>7. CASE Starts
    BY <1>7, <1>a DEF Starts, seenCodec, Suits, Stream
  <1>8. CASE Quits
    BY <1>1, <1>8, <1>u, <1>p DEF Quits, InReader, seen, seenList, seenCodec
  <1>9. CASE HandsOver
    <2>1. /\ UNCHANGED <<scen, media, idx, initURI, demux, told, after, pc["open"]>>
          /\ ReaderAt = "deliver" /\ ReaderAt' \in {"deliver", "teardown"}
      BY <1>9 DEF HandsOver, InReader, seenList, seenCodec
    <2> QED BY <1>1, <2>1
  <1>10. CASE GoesOn
    <2>1. /\ UNCHANGED <<scen, media, idx, initURI, demux, told, after, pc["open"]>>
          /\ ReaderAt' \in {"segments", "next"}
      BY <1>10 DEF GoesOn, InReader, seen, seenList, seenCodec, seenOut
    <2> QED BY <1>1, <2>1
  <1>11. CASE SkipsOld
    BY <1>11 DEF SkipsOld, InReader, seenCodec, Suits, Stream
  <1>12. CASE Enters
    BY <1>1, <1>12 DEF Enters, InReader, seenList, seenCodec
  <1>13. CASE SkipsGap
    BY <1>1, <1>13 DEF SkipsGap, InReader, seenList, seenCodec
  <1>14. CASE Chooses
    BY <1>1, <1>14 DEF Chooses, InReader, seen, seenList, seenCodec
  <1>15. CASE Reinits
    <2>1. /\ pc["open"] = "opened" /\ pc'["open"] = "opened" /\ ReaderAt = "reinit"
          /\ ReaderAt' \in {"get", "teardown"} /\ scen' = scen /\ Entry' = Entry
          /\ demux' = NewFmp4(Entry.init) /\ initURI' = Entry.init
          /\ told' = NewFmp4(Entry.init).init.asc /\ Entry.init \in DOMAIN Stream.inits
      BY <1>15 DEF Reinits, InReader, seenList, Entry
    <2>2. Suits(NewFmp4(Entry.init), Entry.init)
      BY <2>1 DEF Suits, NewFmp4
    <2>3. Suits(demux, initURI)' /\ told' = (demux').init.asc
      BY <2>1, <2>2 DEF Suits, Stream
    <2> QED BY <2>1, <2>3
  <1>16. CASE Gets
    <2>1. /\ pc["open"] = "opened" /\ pc'["open"] = "opened" /\ ReaderAt = "get"
          /\ ReaderAt' = "deliver" /\ UNCHANGED <<scen, initURI, told>>
          /\ Entry.uri \in DOMAIN Stream.segs /\ Entry.init = initURI
      BY <1>16 DEF Gets, InReader
    <2>2. PICK r \in {Demuxed(demux, Entry, Break)} :
              demux' = r.d /\ after' = IF r.err = "ok" THEN "next" ELSE r.err
      BY <1>16 DEF Gets
    <2>3. /\ Suits(r.d, Entry.init) /\ r.err \in SegmentErrs
          /\ Entry.init # Blank => r.d.init = ParseInit(Stream.inits[Entry.init])
      BY <2>1, <2>2, DemuxedFacts
    <2>4. after' \in Afters
      BY <2>2, <2>3 DEF Afters
    <2>5. initURI # Blank => r.d.init = demux.init
      BY <2>1, <2>3 DEF Suits
    <2>6. Suits(demux, initURI)' /\ (initURI' # Blank => told' = (demux').init.asc)
      BY <2>1, <2>2, <2>3, <2>5 DEF Suits, Stream
    <2> QED BY <2>1, <2>4, <2>6
  <1>17. CASE Advances
    BY <1>17 DEF Advances, InReader, seenCodec, Suits, Stream
  <1>18. CASE Flushes
    <2>1. /\ pc["open"] = "opened" /\ pc'["open"] = "opened" /\ after' = "streamEnded"
          /\ ReaderAt' = "deliver" /\ UNCHANGED <<scen, initURI, told>>
      BY <1>18 DEF Flushes, InReader
    <2>2. PICK r \in {IF initURI = Blank THEN EndTS(demux) ELSE Yield(demux, <<>>, "ok")} :
              demux' = r.d
      BY <1>18 DEF Flushes
    <2>3. CASE initURI = Blank
      <3>1. r.d \in DemuxerStates
        BY <2>1, <2>2, <2>3, EndFacts, YieldParts DEF Suits
      <3> QED BY <2>1, <2>2, <2>3, <3>1, <1>a DEF Suits
    <2>4. CASE initURI # Blank
      <3>1. demux' = demux
        BY <2>2, <2>4 DEF Yield
      <3> QED BY <2>1, <2>4, <3>1, <1>a DEF Suits, Stream
    <2> QED BY <2>3, <2>4
  <1>19. CASE Waits
    BY <1>1, <1>19 DEF Waits, InReader, seen, seenList, seenCodec
  <1>20. CASE Reloads
    BY <1>20 DEF Reloads, InReader, seenCodec, Suits, Stream
  <1> QED
    BY <1>2, <1>3, <1>4, <1>5, <1>6, <1>7, <1>8, <1>9, <1>10, <1>11, <1>12, <1>13,
       <1>14, <1>15, <1>16, <1>17, <1>18, <1>19, <1>20
    DEF DataCase

\* The gaps of the first n frames of s; Gaps is that of delivered.
GapSum(s, n) == LET S[i \in 0..n] == IF i = 0 THEN 0 ELSE S[i - 1] + s[i].gap IN S[n]
Sums(f, s, n) ==
    /\ f \in [0..n -> Nat] /\ f[0] = 0
    /\ \A i \in 0..n : i # 0 => f[i] = f[i - 1] + s[i].gap

\* The gaps are summed up frame by frame.
LEMMA GapSumFacts ==
    ASSUME NEW s, NEW n \in Nat, \A i \in 1..n : s[i].gap \in Nat
    PROVE  \E f : Sums(f, s, n) /\ GapSum(s, n) = f[n]
  <1> DEFINE G == CHOOSE g : g = [i \in 0..n |-> IF i = 0 THEN 0 ELSE g[i - 1] + s[i].gap]
  <1>1. GapSum(s, n) = G[n]
    BY DEF GapSum
  <1>2. G = [i \in 0..n |-> IF i = 0 THEN 0 ELSE G[i - 1] + s[i].gap]
    <2> DEFINE step == [i \in 0..n |-> [v \in Nat |-> IF i = 0 THEN v ELSE v + s[i].gap]]
    <2>1. step \in [0..n -> [Nat -> Nat]]
      OBVIOUS
    <2>2. PICK f : Iterates(f, 0, n, Nat, 0, step)
      <3> HIDE DEF step
      <3>1. 0 \in Int /\ n \in Int /\ 0 <= n /\ 0 \in Nat
        OBVIOUS
      <3> QED BY <2>1, <3>1, Recursion, Zenon
    <2>3. ASSUME NEW i \in 0..n, i # 0 PROVE f[i] = f[i - 1] + s[i].gap
      <3>1. i - 1 \in 0..n /\ f[i - 1] \in Nat
        BY <2>2, <2>3 DEF Iterates
      <3> QED BY <2>2, <2>3, <3>1 DEF Iterates
    <2>4. f = [i \in 0..n |-> IF i = 0 THEN 0 ELSE f[i - 1] + s[i].gap]
      BY <2>2, <2>3 DEF Iterates
    <2> QED BY <2>4
  <1> HIDE DEF G
  <1>3. G[0] = 0 /\ \A i \in 0..n : i # 0 => G[i] = G[i - 1] + s[i].gap
    BY <1>2
  <1>4. \A i \in 0..n : G[i] \in Nat
    <2>1. \A i \in 0..n : i # 0 /\ G[i - 1] \in Nat => G[i] \in Nat
      BY <1>3
    <2>2. 0 \in Int /\ n \in Int /\ G[0] \in Nat
      BY <1>3
    <2> QED BY <2>1, <2>2, Upwards, Zenon
  <1>5. G \in [0..n -> Nat]
    BY <1>2, <1>4
  <1> QED BY <1>1, <1>3, <1>5 DEF Sums

\* One more frame adds its gap.
LEMMA GapSumAppend ==
    ASSUME NEW s, NEW t, NEW n \in Nat, \A i \in 1..n : s[i].gap \in Nat,
           \A i \in 1..n : t[i].gap = s[i].gap, t[n + 1].gap \in Nat
    PROVE  /\ GapSum(s, n) \in Nat
           /\ GapSum(t, n + 1) = GapSum(s, n) + t[n + 1].gap
  <1>1. PICK f : Sums(f, s, n) /\ GapSum(s, n) = f[n]
    BY GapSumFacts
  <1>2. \A i \in 1..(n + 1) : t[i].gap \in Nat
    OBVIOUS
  <1>3. PICK g : Sums(g, t, n + 1) /\ GapSum(t, n + 1) = g[n + 1]
    <2>1. n + 1 \in Nat
      OBVIOUS
    <2> QED BY <1>2, <2>1, GapSumFacts
  <1> DEFINE h == [i \in 0..n |-> f[i] - g[i]]
             V == {0}
  <1>4. \A i \in 0..n : f[i] \in Nat /\ g[i] \in Nat
    BY <1>1, <1>3 DEF Sums
  <1>5. \A i \in 0..n : h[i] \in V
    <2>1. h[0] \in V
      BY <1>1, <1>3 DEF Sums
    <2>2. ASSUME NEW i \in 0..n, i # 0, h[i - 1] \in V PROVE h[i] \in V
      <3>1. i - 1 \in 0..n /\ i \in 0..(n + 1) /\ i \in 1..n
        BY <2>2
      <3>2. f[i] = f[i - 1] + s[i].gap /\ g[i] = g[i - 1] + t[i].gap
        BY <1>1, <1>3, <2>2, <3>1 DEF Sums
      <3>3. f[i - 1] = g[i - 1]
        BY <1>4, <2>2, <3>1
      <3>4. f[i] = g[i]
        BY <3>1, <3>2, <3>3
      <3> QED BY <1>4, <3>4
    <2>3. \A i \in 0..n : i # 0 /\ h[i - 1] \in V => h[i] \in V
      BY <2>2
    <2>4. 0 \in Int /\ n \in Int
      OBVIOUS
    <2> HIDE DEF h, V
    <2> QED BY <2>1, <2>3, <2>4, Upwards, Zenon
  <1>6. f[n] = g[n]
    BY <1>4, <1>5
  <1>7. g[n + 1] = g[n] + t[n + 1].gap
    BY <1>3 DEF Sums
  <1> QED BY <1>1, <1>3, <1>4, <1>6, <1>7

-----------------------------------------------------------------------------
(* Sequences of whatever they hold.                                        *)

\* Every sequence is one.
LEMMA SeqFacts ==
    ASSUME NEW T, NEW s \in Seq(T)
    PROVE  IsSeq(s)
  BY DEF IsSeq

\* The new element comes last.
LEMMA AppendFacts ==
    ASSUME NEW s, IsSeq(s), NEW e
    PROVE  /\ IsSeq(Append(s, e)) /\ Len(Append(s, e)) = Len(s) + 1
           /\ \A i \in 1..Len(s) : Append(s, e)[i] = s[i]
           /\ Append(s, e)[Len(s) + 1] = e
  <1> PICK n \in Nat : n = Len(s)
    BY DEF IsSeq
  <1> DEFINE T == {s[i] : i \in 1..n} \cup {e}
  <1>1. s \in Seq(T) /\ e \in T
    BY SequenceFacts DEF IsSeq
  <1> HIDE DEF T
  <1>2. /\ Append(s, e) \in Seq(T) /\ Len(Append(s, e)) = n + 1
        /\ \A i \in 1..n : Append(s, e)[i] = s[i]
        /\ Append(s, e)[n + 1] = e
    BY <1>1
  <1>3. IsSeq(Append(s, e))
    BY <1>2, SeqFacts
  <1> QED BY <1>2, <1>3

\* The first element leaves, the others move up.
LEMMA TailFacts ==
    ASSUME NEW s, IsSeq(s), s # <<>>
    PROVE  /\ IsSeq(Tail(s)) /\ Len(Tail(s)) = Len(s) - 1 /\ Len(s) > 0
           /\ \A i \in 1..Len(Tail(s)) : Tail(s)[i] = s[i + 1]
           /\ Head(s) = s[1]
  <1> PICK n \in Nat : n = Len(s)
    BY DEF IsSeq
  <1> DEFINE T == {s[i] : i \in 1..n}
  <1>1. s \in Seq(T)
    BY SequenceFacts DEF IsSeq
  <1> HIDE DEF T
  <1>2. n > 0
    BY <1>1
  <1>3. /\ Tail(s) \in Seq(T) /\ Len(Tail(s)) = n - 1
        /\ \A i \in 1..(n - 1) : Tail(s)[i] = s[i + 1]
        /\ Head(s) = s[1]
    BY <1>1, <1>2
  <1>4. IsSeq(Tail(s))
    BY <1>2, <1>3, SeqFacts
  <1> QED BY <1>2, <1>3, <1>4

\* One sequence after another.
LEMMA JoinFacts ==
    ASSUME NEW s, NEW t, IsSeq(s), IsSeq(t)
    PROVE  /\ IsSeq(s \o t) /\ Len(s \o t) = Len(s) + Len(t)
           /\ \A i \in 1..Len(s) : (s \o t)[i] = s[i]
           /\ \A i \in 1..Len(t) : (s \o t)[Len(s) + i] = t[i]
  <1> PICK m \in Nat : m = Len(s)
    BY DEF IsSeq
  <1> PICK n \in Nat : n = Len(t)
    BY DEF IsSeq
  <1> DEFINE T == {s[i] : i \in 1..m} \cup {t[i] : i \in 1..n}
  <1>1. s \in Seq(T)
    BY SequenceFacts DEF IsSeq
  <1>2. t \in Seq(T)
    BY SequenceFacts DEF IsSeq
  <1> HIDE DEF T
  <1>3. /\ s \o t \in Seq(T) /\ Len(s \o t) = m + n
        /\ \A i \in 1..m : (s \o t)[i] = s[i]
        /\ \A i \in 1..n : (s \o t)[m + i] = t[i]
    BY <1>1, <1>2
  <1>4. IsSeq(s \o t)
    BY <1>3, SeqFacts
  <1> QED BY <1>3, <1>4

\* The empty sequence, and when two sequences are the same one.
LEMMA EmptyFacts ==
    /\ IsSeq(<<>>) /\ Len(<<>>) = 0
    /\ \A s : IsSeq(s) /\ Len(s) = 0 => s = <<>>
  BY DEF IsSeq

\* The units flushed at the end of a VOD playlist.
LEMMA FlushFacts ==
    ASSUME NEW r, Suits(demux, initURI), ListInv,
           r = (IF initURI = Blank THEN EndTS(demux) ELSE Yield(demux, <<>>, "ok"))
    PROVE  LET q == Queued([init |-> initURI, seq |-> lastSeq, uri |-> 0], r.aus)
           IN  /\ IsSeq(q)
               /\ \A k \in 1..Len(q) : q[k].seq = lastSeq /\ q[k].fmp4 = (initURI # Blank)
               /\ initURI # Blank => q = <<>>
  <1> DEFINE e == [init |-> initURI, seq |-> lastSeq, uri |-> 0]
             q == Queued(e, r.aus)
  <1>1. IsSeq(r.aus) /\ (initURI # Blank => r.aus = <<>>)
    <2>1. CASE initURI = Blank
      <3>1. r.aus \in Seq(AccessUnits)
        BY <2>1, EndFacts, YieldParts DEF Suits
      <3> QED BY <2>1, <3>1 DEF IsSeq
    <2>2. CASE initURI # Blank
      BY <2>2, EmptyFacts DEF Yield
    <2> QED BY <2>1, <2>2
  <1>2. e.init = initURI /\ e.seq = lastSeq
    OBVIOUS
  <1> HIDE DEF e
  <1>3. /\ IsSeq(q) /\ Len(q) = Len(r.aus)
        /\ \A k \in 1..Len(q) : q[k].seq = e.seq /\ q[k].fmp4 = (e.init # Blank)
    BY <1>1, QueuedFacts
  <1> HIDE DEF q
  <1>4. initURI # Blank => q = <<>>
    BY <1>1, <1>3, EmptyFacts
  <1> QED BY <1>2, <1>3, <1>4 DEF q, e

\* Frames are appended, units are queued and taken from the front.
LEMMA SequenceStep ==
    ASSUME WorldInv, ListInv, CodecInv, SequenceInv, DataCase
    PROVE  SequenceInv'
  <1>1. ASSUME UNCHANGED <<queue, delivered>> PROVE SequenceInv'
    BY <1>1 DEF SequenceInv
  <1>2. CASE Resolves
    <2>1. PICK r \in {Demuxed(demux, Entry, FALSE)} : queue' = Queued(Entry, r.aus)
      BY <1>2 DEF Resolves
    <2>2. Suits(demux, Entry.init) /\ Entry.uri \in DOMAIN Stream.segs /\ UNCHANGED delivered
      BY <1>2 DEF Resolves, InOpen, CodecInv
    <2> DEFINE no == FALSE
    <2>3. r = Demuxed(demux, Entry, no)
      BY <2>1
    <2> HIDE DEF no
    <2>4. IsSeq(Queued(Entry, r.aus))
      BY <2>2, <2>3, DemuxedFacts
    <2> QED BY <2>1, <2>2, <2>4 DEF SequenceInv
  <1>3. CASE HandsOver
    BY <1>3, AppendFacts, TailFacts DEF HandsOver, SequenceInv
  <1>4. CASE Gets
    <2>1. PICK r \in {Demuxed(demux, Entry, Break)} : queue' = Queued(Entry, r.aus)
      BY <1>4 DEF Gets
    <2>2. Suits(demux, Entry.init) /\ Entry.uri \in DOMAIN Stream.segs /\ UNCHANGED delivered
      BY <1>4 DEF Gets, InReader, CodecInv
    <2>3. IsSeq(Queued(Entry, r.aus))
      BY <2>1, <2>2, DemuxedFacts
    <2> QED BY <2>1, <2>2, <2>3 DEF SequenceInv
  <1>5. CASE Flushes
    <2>1. PICK r \in {IF initURI = Blank THEN EndTS(demux) ELSE Yield(demux, <<>>, "ok")} :
              queue' = Queued([init |-> initURI, seq |-> lastSeq, uri |-> 0], r.aus)
      BY <1>5 DEF Flushes
    <2>2. Suits(demux, initURI) /\ UNCHANGED delivered
      BY <1>5 DEF Flushes, InReader, CodecInv
    <2>3. IsSeq(Queued([init |-> initURI, seq |-> lastSeq, uri |-> 0], r.aus))
      BY <2>1, <2>2, FlushFacts
    <2> QED BY <2>1, <2>2, <2>3 DEF SequenceInv
  <1> QED
    BY <1>1, <1>2, <1>3, <1>4, <1>5
    DEF DataCase, Quiet, OpenMoves, Lists, Inits, Starts, Quits, GoesOn, SkipsOld, Enters,
        SkipsGap, Chooses, Reinits, Advances, Waits, Reloads, seen, seenOut

\* A sum that fits an int is what it is in the integers, and so is a difference.
LEMMA SumFits == \A m \in Nat, n \in Nat : m + n <= MaxInt => AddInt(m, n) = m + n
  <1> MaxInt \in Nat
    BY HlsAssumption
  <1> QED BY DEF AddInt

LEMMA JumpFits ==
    \A a \in Nat, b \in Nat : a > b /\ a - b - 1 <= MaxInt => Missed(b, a) = a - b - 1
  <1> MaxInt \in Nat
    BY HlsAssumption
  <1> QED BY DEF Missed

\* The account of segments balances as the reader goes from entry to entry.
LEMMA LossStep ==
    ASSUME WorldInv, ListInv, CodecInv, LossInv, SequenceInv, DataCase
    PROVE  LossInv'
  <1>g. Gaps(Len(delivered)) = GapSum(delivered, Len(delivered))
        /\ Gaps(Len(delivered))' = GapSum(delivered', Len(delivered'))
    BY DEF Gaps, GapSum
  <1>n. Len(delivered) \in Nat
    BY DEF SequenceInv, IsSeq
  <1>h. Balanced => Gaps(Len(delivered)) \in Nat
    <2> SUFFICES ASSUME Balanced PROVE GapSum(delivered, Len(delivered)) \in Nat
      BY <1>g
    <2>1. \A i \in 1..Len(delivered) : delivered[i].gap \in Nat
      BY DEF Balanced
    <2>2. PICK f : Sums(f, delivered, Len(delivered))
                   /\ GapSum(delivered, Len(delivered)) = f[Len(delivered)]
      BY <1>n, <2>1, GapSumFacts
    <2> QED BY <1>n, <2>2 DEF Sums
  <1>m. Len(fetched) \in Nat /\ (\A i \in 1..Len(fetched) : fetched[i] \in Nat)
    BY DEF LossInv
  <1>f. ASSUME fetched # <<>> PROVE fetched[1] \in Nat /\ Len(fetched) # 0
    BY <1>f DEF LossInv
  <1>p. "unborn" \notin ReadPCs /\ \A p \in EndPCs : p \notin ReadPCs
    BY DEF ReadPCs, EndPCs
  <1>e. idx \in 1..Len(media.segs) => Entry.seq \in Nat
    BY DEF ListInv, Numbered, Entry
  <1>c. /\ Early \/ Late => Entry.seq \in Nat /\ Entry.seq > lastSeq
        /\ Cur \in Nat /\ lastSeq \in Nat /\ lastSeq <= Cur
    BY <1>e DEF ListInv, Cur
  <1>N. PICK N \in Nat : N = Len(fetched)
    BY <1>m
  <1>F. PICK F : F = fetched[1]
    OBVIOUS
  <1>b. ASSUME ReaderAt \in ReadPCs
        PROVE  F \in Nat /\ N \in Nat \ {0} /\ fetched # <<>>
    BY <1>b, <1>f, <1>N, <1>F DEF LossInv
  <1>a. ASSUME ReaderAt \in ReadPCs, Settled - F <= MaxInt
        PROVE  \E G \in Nat, P \in Nat :
                   /\ G = Gaps(Len(delivered)) /\ P = pendGap
                   /\ Settled - F = (N - 1) + G + P
                   /\ \A i \in 1..Len(delivered) : delivered[i].gap \in Nat
    <2>1. Balanced
      BY <1>a, <1>F DEF LossInv
    <2> QED BY <1>h, <1>N, <1>F, <2>1 DEF Balanced
  <1>1. ASSUME UNCHANGED <<pendGap, fetched, delivered, pc["open"]>>, ReaderAt' \notin ReadPCs
        PROVE  LossInv'
    BY <1>1 DEF LossInv
  <1>2. ASSUME UNCHANGED <<pendGap, fetched, delivered, pc["open"]>>,
               ReaderAt \in ReadPCs, Settled' = Settled, Cur' = Cur
        PROVE  LossInv'
    <2>1. UNCHANGED Gaps(Len(delivered))
      BY <1>2, <1>g
    <2>2. Balanced => Balanced'
      BY <1>2, <2>1 DEF Balanced
    <2> QED BY <1>2, <2>2 DEF LossInv
  <1>3. CASE Quiet
    <2>1. UNCHANGED <<pendGap, fetched, delivered, pc["open"], ReaderAt, lastSeq, media, idx, after>>
      BY <1>3 DEF Quiet, seen, seenList, seenLoss, seenOut
    <2>2. Settled' = Settled /\ Cur' = Cur
      BY <2>1 DEF Settled, Cur, Early, Late, Entry
    <2> QED BY <1>1, <1>2, <2>1, <2>2
  <1>4. CASE OpenMoves
    <2>1. /\ UNCHANGED <<pendGap, fetched, delivered>> /\ ReaderAt' = "unborn"
          /\ pc["open"] # "opened" /\ pc'["open"] # "opened"
      BY <1>4 DEF OpenMoves, InOpen, seen, seenLoss, seenOut
    <2> QED BY <2>1, <1>p DEF LossInv
  <1>5. CASE Lists \/ Inits \/ Resolves
    <2>1. /\ UNCHANGED <<pendGap, fetched, delivered>> /\ ReaderAt' = "unborn"
          /\ pc["open"] # "opened" /\ pc'["open"] # "opened"
      BY <1>5 DEF Lists, Inits, Resolves, InOpen, seenLoss, seenOut
    <2> QED BY <2>1, <1>p DEF LossInv
  <1>6. CASE Starts
    <2>1. /\ fetched' = <<Entry.seq>> /\ UNCHANGED <<pendGap, delivered>> /\ pc'["open"] = "opened"
          /\ delivered = <<>> /\ pendGap = 0 /\ lastSeq' = Entry.seq /\ Entry.seq \in Nat
          /\ ReaderAt' = "deliver" /\ after' = "segments"
      BY <1>6, <1>e DEF Starts, LossInv, ListInv
    <2>2. Settled' = Entry.seq /\ Cur' = Entry.seq
      BY <2>1 DEF Settled, Cur, Early, Late
    <2>3. Gaps(Len(delivered))' = 0
      <3>1. PICK f : Sums(f, <<>>, 0) /\ GapSum(<<>>, 0) = f[0]
        BY GapSumFacts
      <3>2. GapSum(<<>>, 0) = 0
        BY <3>1 DEF Sums
      <3> QED BY <1>g, <2>1, <3>2, EmptyFacts
    <2>4. fetched' \in Seq(Nat) /\ Len(fetched') = 1 /\ fetched'[1] = Entry.seq /\ fetched' # <<>>
      BY <2>1
    <2>5. Len(delivered') = 0
      BY <2>1, EmptyFacts
    <2> QED BY <2>1, <2>2, <2>3, <2>4, <2>5 DEF LossInv, Balanced
  <1>7. CASE Quits
    BY <1>7, <1>1, <1>p DEF Quits, InReader, seen, seenLoss, seenOut
  <1>8. CASE HandsOver
    <2> DEFINE n == Len(delivered)
               e == [au |-> Head(queue), gap |-> pendGap, told |-> told]
    <2>1. /\ delivered' = Append(delivered, e) /\ pendGap' = 0
          /\ UNCHANGED <<media, idx, lastSeq, fetched, after, pc["open"]>> /\ pc["open"] = "opened"
          /\ ReaderAt = "deliver" /\ ReaderAt' \in {"deliver", "teardown"}
      BY <1>8 DEF HandsOver, InReader, seenList
    <2>2. e.gap = pendGap
      OBVIOUS
    <2> HIDE DEF e
    <2>3. /\ Len(delivered') = n + 1 /\ n \in Nat
          /\ \A i \in 1..n : delivered'[i] = delivered[i]
          /\ delivered'[n + 1] = e
      BY <2>1, <1>n, AppendFacts DEF SequenceInv
    <2>4. Balanced => /\ Gaps(Len(delivered))' = Gaps(Len(delivered)) + pendGap
                      /\ \A i \in 1..Len(delivered') : delivered'[i].gap \in Nat
      <3> SUFFICES ASSUME Balanced
                   PROVE  /\ Gaps(Len(delivered))' = Gaps(Len(delivered)) + pendGap
                          /\ \A i \in 1..Len(delivered') : delivered'[i].gap \in Nat
        OBVIOUS
      <3>1. /\ \A i \in 1..n : delivered[i].gap \in Nat
            /\ \A i \in 1..n : delivered'[i].gap = delivered[i].gap
            /\ delivered'[n + 1].gap = pendGap /\ pendGap \in Nat
        BY <2>2, <2>3 DEF Balanced
      <3>2. GapSum(delivered', n + 1) = GapSum(delivered, n) + pendGap
        BY <2>3, <3>1, GapSumAppend
      <3> HIDE DEF n
      <3>3. \A i \in 1..(n + 1) : i \in 1..n \/ i = n + 1
        BY <2>3
      <3>4. \A i \in 1..Len(delivered') : delivered'[i].gap \in Nat
        BY <2>3, <3>1, <3>3
      <3> QED BY <1>g, <2>3, <3>2, <3>4 DEF n
    <2>6. CASE ReaderAt' = "teardown"
      BY <2>1, <2>6, <1>p DEF LossInv, EndPCs
    <2>7. CASE ReaderAt' = "deliver"
      <3>1. Settled' = Settled /\ Cur' = Cur /\ ReaderAt \in ReadPCs
        BY <2>1, <2>7 DEF Settled, Cur, Early, Late, Entry, ReadPCs
      <3>2. Balanced => Balanced'
        <4> SUFFICES ASSUME Balanced PROVE Balanced'
          OBVIOUS
        <4>1. Settled - fetched[1] = (Len(fetched) - 1) + Gaps(Len(delivered)) + pendGap
              /\ pendGap \in Nat /\ Gaps(Len(delivered)) \in Nat
          BY <1>h DEF Balanced
        <4>2. (Settled - fetched[1] = (Len(fetched) - 1) + Gaps(Len(delivered)) + pendGap)'
          BY <1>m, <2>1, <2>4, <3>1, <4>1
        <4> QED BY <2>1, <2>4, <4>2 DEF Balanced
      <3> QED BY <2>1, <3>1, <3>2 DEF LossInv
    <2> QED BY <2>1, <2>6, <2>7
  <1>9. CASE GoesOn
    <2>1. /\ UNCHANGED <<pendGap, fetched, delivered, pc["open"], lastSeq, media, idx, after>>
          /\ ReaderAt = "deliver" /\ ReaderAt' = after /\ after \in {"segments", "next"}
      BY <1>9 DEF GoesOn, InReader, seen, seenList, seenLoss, seenOut
    <2>2. Settled' = Settled /\ Cur' = Cur /\ ReaderAt \in ReadPCs
      BY <2>1 DEF Settled, Cur, Early, Late, Entry, ReadPCs
    <2> QED BY <1>2, <2>1, <2>2
  <1>10. CASE SkipsOld
    <2>1. /\ UNCHANGED <<pendGap, fetched, delivered, pc["open"], lastSeq>>
          /\ ReaderAt = "segments" /\ ReaderAt' = "segments"
      BY <1>10 DEF SkipsOld, InReader, seenLoss, seenOut
    <2>2. Settled' = Settled /\ Cur' = Cur /\ ReaderAt \in ReadPCs
      BY <2>1 DEF Settled, Cur, Early, Late, ReadPCs
    <2> QED BY <1>2, <2>1, <2>2
  <1>11. CASE Enters
    <2>1. /\ UNCHANGED <<fetched, delivered, pc["open"], lastSeq, media, idx>>
          /\ ReaderAt = "segments" /\ ReaderAt' \in {"gap", "container"} /\ pc["open"] = "opened"
          /\ idx <= Len(media.segs) /\ Entry.seq > lastSeq
          /\ pendGap' = IF ~fresh /\ Entry.seq > lastSeq + 1
                        THEN AddInt(pendGap, Missed(lastSeq, Entry.seq)) ELSE pendGap
      BY <1>11 DEF Enters, InReader, seenList, seenOut
    <2>2. /\ Settled = lastSeq /\ Cur = lastSeq /\ Cur' = lastSeq /\ Settled' = Entry.seq - 1
          /\ ReaderAt \in ReadPCs
      BY <2>1 DEF Settled, Cur, Early, Late, Entry, ReadPCs
    <2>3. Entry.seq \in Nat /\ lastSeq \in Nat
      BY <2>1, <1>e, <1>c DEF ListInv
    <2>4. PICK a \in Nat, b \in Nat : a = Entry.seq /\ b = lastSeq /\ a > b
      BY <2>1, <2>3
    <2>5. UNCHANGED Gaps(Len(delivered))
      BY <2>1, <1>g
    <2>6. pendGap' = AddInt(pendGap, Missed(b, a)) \/ (a = b + 1 /\ pendGap' = pendGap)
      BY <2>1, <2>3, <2>4 DEF ListInv
    <2>7. fetched # <<>> /\ F \in Nat /\ N \in Nat \ {0}
      BY <1>b, <2>2
    <2>8. ASSUME (Settled - fetched[1] <= MaxInt)' PROVE Balanced'
      <3>1. (a - 1) - F <= MaxInt
        BY <2>1, <2>2, <2>4, <2>8, <1>F
      <3>2. b - F <= MaxInt
        BY <2>4, <2>7, <3>1, HlsAssumption
      <3>3. PICK G \in Nat, P \in Nat :
                /\ G = Gaps(Len(delivered)) /\ P = pendGap /\ b - F = (N - 1) + G + P
                /\ \A i \in 1..Len(delivered) : delivered[i].gap \in Nat
        BY <1>a, <2>2, <2>4, <3>2
      <3>4. /\ AddInt(P, Missed(b, a)) = P + (a - b - 1) /\ P + (a - b - 1) \in Nat
            /\ (a - 1) - F = (N - 1) + G + (P + (a - b - 1))
        <4>1. b - F = (N - 1) + G + P
          BY <3>3
        <4>2. MaxInt \in Nat
          BY HlsAssumption
        <4>3. PICK m \in Nat : m = a - b - 1
          BY <2>4
        <4>4. m <= MaxInt /\ P + m <= MaxInt /\ (a - 1) - F = (N - 1) + G + (P + m)
          BY <2>7, <3>1, <4>1, <4>2, <4>3
        <4>5. Missed(b, a) = m
          BY <2>4, <4>3, <4>4, JumpFits
        <4>6. AddInt(P, m) = P + m
          BY <4>4, SumFits
        <4> QED BY <4>3, <4>4, <4>5, <4>6
      <3>5. pendGap' = P + (a - b - 1)
        BY <2>6, <3>3, <3>4
      <3>6. Settled' = a - 1 /\ fetched'[1] = F /\ Len(fetched') = N /\ Gaps(Len(delivered))' = G
        BY <1>N, <1>F, <2>1, <2>2, <2>4, <2>5, <3>3
      <3> QED BY <2>1, <3>3, <3>4, <3>5, <3>6 DEF Balanced
    <2> QED BY <2>1, <2>2, <2>7, <2>8 DEF LossInv
  <1>12. CASE SkipsGap
    <2>1. /\ UNCHANGED <<fetched, delivered, pc["open"], lastSeq, media, idx>>
          /\ ReaderAt = "gap" /\ ReaderAt' = "next" /\ pc["open"] = "opened"
          /\ pendGap' = AddInt(pendGap, 1)
      BY <1>12 DEF SkipsGap, InReader, seenList, seenOut
    <2>2. /\ Settled = Entry.seq - 1 /\ Cur = lastSeq /\ Cur' = Entry.seq /\ Settled' = Entry.seq
          /\ ReaderAt \in ReadPCs /\ Early
      BY <2>1 DEF Settled, Cur, Early, Late, Entry, ReadPCs
    <2>3. UNCHANGED Gaps(Len(delivered))
      BY <2>1, <1>g
    <2>4. PICK a \in Nat : a = Entry.seq
      BY <1>c, <2>2
    <2>5. ASSUME (Settled - fetched[1] <= MaxInt)' PROVE Balanced'
      <3>1. F \in Nat /\ N \in Nat \ {0}
        BY <1>b, <2>2
      <3>2. a - F <= MaxInt
        BY <2>1, <2>2, <2>4, <2>5, <1>F
      <3>3. (a - 1) - F <= MaxInt
        BY <3>1, <3>2, HlsAssumption
      <3>4. PICK G \in Nat, P \in Nat :
                /\ G = Gaps(Len(delivered)) /\ P = pendGap /\ (a - 1) - F = (N - 1) + G + P
                /\ \A i \in 1..Len(delivered) : delivered[i].gap \in Nat
        BY <1>a, <2>2, <2>4, <3>3
      <3>5. AddInt(P, 1) = P + 1 /\ a - F = (N - 1) + G + (P + 1)
        <4>1. (a - 1) - F = (N - 1) + G + P
          BY <3>4
        <4>2. MaxInt \in Nat
          BY HlsAssumption
        <4>3. P + 1 <= MaxInt /\ a - F = (N - 1) + G + (P + 1)
          BY <3>1, <3>2, <4>1, <4>2
        <4>4. AddInt(P, 1) = P + 1
          BY <4>3, SumFits
        <4> QED BY <4>3, <4>4
      <3>6. pendGap' = P + 1 /\ Settled' = a /\ fetched'[1] = F /\ Len(fetched') = N
            /\ Gaps(Len(delivered))' = G
        BY <1>N, <1>F, <2>1, <2>2, <2>3, <2>4, <3>4, <3>5
      <3> QED BY <2>1, <3>4, <3>5, <3>6 DEF Balanced
    <2>6. \A i \in 1..Len(fetched) : fetched[i] <= Entry.seq
      <3>1. \A i \in 1..Len(fetched) : fetched[i] <= lastSeq
        BY <2>2 DEF LossInv
      <3> QED BY <1>m, <1>c, <2>2, <3>1
    <2>7. fetched # <<>>
      BY <1>b, <2>2
    <2> QED BY <2>1, <2>2, <2>5, <2>6, <2>7 DEF LossInv
  <1>13. CASE Chooses
    <2>1. /\ UNCHANGED <<pendGap, fetched, delivered, pc["open"], lastSeq, media, idx>>
          /\ ReaderAt = "container" /\ ReaderAt' \in {"get", "reinit"}
      BY <1>13 DEF Chooses, InReader, seen, seenList, seenLoss, seenOut
    <2>2. Settled' = Settled /\ Cur' = Cur /\ ReaderAt \in ReadPCs
      BY <2>1 DEF Settled, Cur, Early, Late, Entry, ReadPCs
    <2> QED BY <1>2, <2>1, <2>2
  <1>14. CASE Reinits
    <2>1. /\ UNCHANGED <<pendGap, fetched, delivered, pc["open"], lastSeq, media, idx>>
          /\ ReaderAt = "reinit" /\ ReaderAt' \in {"get", "teardown"}
      BY <1>14 DEF Reinits, InReader, seenList, seenLoss, seenOut
    <2>2. CASE ReaderAt' = "get"
      <3>1. Settled' = Settled /\ Cur' = Cur /\ ReaderAt \in ReadPCs
        BY <2>1, <2>2 DEF Settled, Cur, Early, Late, Entry, ReadPCs
      <3> QED BY <1>2, <2>1, <3>1
    <2>3. CASE ReaderAt' = "teardown"
      BY <1>1, <2>1, <2>3 DEF ReadPCs
    <2> QED BY <2>1, <2>2, <2>3
  <1>15. CASE Gets
    <2>1. /\ UNCHANGED <<pendGap, delivered, pc["open"], lastSeq, media, idx>>
          /\ ReaderAt = "get" /\ ReaderAt' = "deliver" /\ pc["open"] = "opened"
          /\ fetched' = Append(fetched, Entry.seq)
      BY <1>15 DEF Gets, InReader, seenList
    <2>2. after' \notin {"segments", "streamEnded"}
      <3>1. PICK r \in {Demuxed(demux, Entry, Break)} :
                after' = IF r.err = "ok" THEN "next" ELSE r.err
        BY <1>15 DEF Gets
      <3>2. Suits(demux, Entry.init) /\ Entry.uri \in DOMAIN Stream.segs
        BY <1>15, <2>1 DEF Gets, CodecInv
      <3>3. r.err \in SegmentErrs
        BY <3>1, <3>2, DemuxedFacts
      <3> QED BY <3>1, <3>3 DEF SegmentErrs
    <2>3. /\ Settled = Entry.seq - 1 /\ Cur = lastSeq /\ Cur' = Entry.seq /\ Settled' = Entry.seq
          /\ ReaderAt \in ReadPCs /\ Early
      BY <2>1, <2>2 DEF Settled, Cur, Early, Late, Entry, ReadPCs
    <2>4. UNCHANGED Gaps(Len(delivered))
      BY <2>1, <1>g
    <2>4a. PICK a \in Nat, b \in Nat : a = Entry.seq /\ b = lastSeq /\ a > b
      BY <1>c, <2>3
    <2>5. \A i \in 1..N : fetched[i] \in Nat /\ fetched[i] <= b
      BY <1>m, <1>N, <2>3, <2>4a DEF LossInv
    <2>6. /\ fetched' \in Seq(Nat) /\ Len(fetched') = N + 1 /\ fetched' # <<>>
          /\ \A i \in 1..N : fetched'[i] = fetched[i]
          /\ fetched'[N + 1] = a
      BY <2>1, <2>4a, <1>N DEF LossInv
    <2>7. ASSUME (Settled - fetched[1] <= MaxInt)' PROVE Balanced'
      <3>1. F \in Nat /\ N \in Nat \ {0} /\ 1 \in 1..N
        BY <1>b, <2>3
      <3>2. fetched'[1] = F
        BY <1>F, <2>6, <3>1
      <3>3. a - F <= MaxInt
        BY <2>3, <2>4a, <2>7, <3>2
      <3>4. (a - 1) - F <= MaxInt
        BY <3>1, <3>3, HlsAssumption
      <3>5. PICK G \in Nat, P \in Nat :
                /\ G = Gaps(Len(delivered)) /\ P = pendGap /\ (a - 1) - F = (N - 1) + G + P
                /\ \A i \in 1..Len(delivered) : delivered[i].gap \in Nat
        BY <1>a, <2>3, <2>4a, <3>4
      <3>6. a - F = ((N + 1) - 1) + G + P
        <4>1. (a - 1) - F = (N - 1) + G + P
          BY <3>5
        <4> QED BY <3>1, <4>1
      <3>7. pendGap' = P /\ Settled' = a /\ Gaps(Len(delivered))' = G
        BY <2>1, <2>3, <2>4, <2>4a, <3>5
      <3> QED BY <2>1, <2>6, <3>2, <3>5, <3>6, <3>7 DEF Balanced
    <2>8. \A i \in 1..Len(fetched') : fetched'[i] <= a
      <3>1. \A i \in 1..(N + 1) : i \in 1..N \/ i = N + 1
        OBVIOUS
      <3> QED BY <2>4a, <2>5, <2>6, <3>1
    <2>9. \A i, j \in 1..Len(fetched') : i < j => fetched'[i] < fetched'[j]
      <3> SUFFICES ASSUME NEW i \in 1..(N + 1), NEW j \in 1..(N + 1), i < j
                   PROVE  fetched'[i] < fetched'[j]
        BY <2>6
      <3>1. i \in 1..N /\ (j \in 1..N \/ j = N + 1)
        OBVIOUS
      <3>2. CASE j \in 1..N
        BY <1>N, <2>6, <3>1, <3>2 DEF LossInv
      <3>3. CASE j = N + 1
        <4>1. fetched'[i] = fetched[i] /\ fetched[i] \in Nat /\ fetched[i] <= b
          BY <2>5, <2>6, <3>1
        <4>2. fetched'[j] = a
          BY <2>6, <3>3
        <4> QED BY <2>4a, <4>1, <4>2
      <3> QED BY <3>1, <3>2, <3>3
    <2> QED BY <2>1, <2>3, <2>4a, <2>6, <2>7, <2>8, <2>9 DEF LossInv
  <1>16. CASE Advances
    <2>1. /\ UNCHANGED <<pendGap, fetched, delivered, pc["open"]>>
          /\ ReaderAt = "next" /\ ReaderAt' \in {"segments", "teardown"} /\ lastSeq' = Entry.seq
      BY <1>16 DEF Advances, InReader, seenOut
    <2>2. CASE ReaderAt' = "segments"
      <3>1. Settled' = Settled /\ Cur' = Cur /\ ReaderAt \in ReadPCs
        BY <2>1, <2>2 DEF Settled, Cur, Early, Late, ReadPCs
      <3> QED BY <1>2, <2>1, <3>1
    <2>3. CASE ReaderAt' = "teardown"
      BY <1>1, <2>1, <2>3 DEF ReadPCs
    <2> QED BY <2>1, <2>2, <2>3
  <1>17. CASE Flushes
    <2>1. /\ UNCHANGED <<pendGap, fetched, delivered, pc["open"], lastSeq>>
          /\ ReaderAt = "segments" /\ ReaderAt' = "deliver" /\ after' = "streamEnded"
      BY <1>17 DEF Flushes, InReader, seenLoss
    <2>2. Settled' = Settled /\ Cur' = Cur /\ ReaderAt \in ReadPCs
      BY <2>1 DEF Settled, Cur, Early, Late, ReadPCs
    <2> QED BY <1>2, <2>1, <2>2
  <1>18. CASE Waits \/ Reloads
    <2>1. /\ UNCHANGED <<pendGap, fetched, delivered, pc["open"], lastSeq>>
          /\ ReaderAt \in {"segments", "wait", "reload", "follow"}
          /\ ReaderAt' \in {"wait", "reload", "follow", "segments"}
      BY <1>18 DEF Waits, Reloads, InReader, seen, seenLoss, seenOut
    <2>2. Settled' = Settled /\ Cur' = Cur /\ ReaderAt \in ReadPCs
      BY <2>1 DEF Settled, Cur, Early, Late, ReadPCs
    <2> QED BY <1>2, <2>1, <2>2
  <1> QED
    BY <1>3, <1>4, <1>5, <1>6, <1>7, <1>8, <1>9, <1>10, <1>11, <1>12, <1>13,
       <1>14, <1>15, <1>16, <1>17, <1>18
    DEF DataCase

\* Everything demuxed so far, element by element.
LEMMA OutFacts ==
    ASSUME SequenceInv
    PROVE  /\ IsSeq(Handed) /\ Len(Handed) = Len(delivered)
           /\ IsSeq(Out) /\ Len(Out) = Len(delivered) + Len(queue)
           /\ Len(delivered) \in Nat /\ Len(queue) \in Nat
           /\ \A i \in 1..Len(delivered) : Out[i] = delivered[i].au
           /\ \A k \in 1..Len(queue) : Out[Len(delivered) + k] = queue[k]
  <1>1. Len(delivered) \in Nat /\ Len(queue) \in Nat /\ IsSeq(queue)
    BY DEF SequenceInv, IsSeq
  <1>2. Handed = [i \in 1..Len(delivered) |-> Handed[i]]
    BY DEF Handed
  <1>3. Len(Handed) = Len(delivered)
    BY <1>1, <1>2, SequenceFacts
  <1>4. IsSeq(Handed)
    BY <1>1, <1>2, <1>3 DEF IsSeq
  <1>5. \A i \in 1..Len(delivered) : Handed[i] = delivered[i].au
    BY DEF Handed
  <1> QED BY <1>1, <1>3, <1>4, <1>5, JoinFacts DEF Out

\* New units are queued once the queue is empty.
LEMMA NewUnits ==
    ASSUME SequenceInv, SequenceInv', UNCHANGED delivered, queue = <<>>
    PROVE  /\ IsSeq(Out) /\ IsSeq(Out') /\ Len(Out') = Len(Out) + Len(queue')
           /\ Len(Out) \in Nat /\ Len(queue') \in Nat
           /\ \A i \in 1..Len(Out) : Out'[i] = Out[i]
           /\ \A k \in 1..Len(queue') : Out'[Len(Out) + k] = queue'[k]
  <1> DEFINE n == Len(delivered)
  <1>1. /\ IsSeq(Out) /\ Len(Out) = n /\ n \in Nat
        /\ \A i \in 1..n : Out[i] = delivered[i].au
    BY OutFacts, EmptyFacts
  <1>2. /\ IsSeq(Out') /\ Len(Out') = n + Len(queue') /\ Len(queue') \in Nat
        /\ \A i \in 1..n : Out'[i] = delivered[i].au
        /\ \A k \in 1..Len(queue') : Out'[n + k] = queue'[k]
    <2>1. (/\ IsSeq(Out) /\ Len(Out) = Len(delivered) + Len(queue)
           /\ Len(delivered) \in Nat /\ Len(queue) \in Nat
           /\ \A i \in 1..Len(delivered) : Out[i] = delivered[i].au
           /\ \A k \in 1..Len(queue) : Out[Len(delivered) + k] = queue[k])'
      BY OutFacts, PTL
    <2> QED BY <2>1
  <1> HIDE DEF n
  <1> QED BY <1>1, <1>2

\* Handing a unit over moves it from the queue to the record of frames.
LEMMA MoveHead ==
    ASSUME SequenceInv, SequenceInv', queue # <<>>, queue' = Tail(queue), NEW e,
           e.au = Head(queue), delivered' = Append(delivered, e)
    PROVE  Out' = Out
  <1> PICK m \in Nat, n \in Nat : m = Len(delivered) /\ n = Len(queue)
    BY OutFacts
  <1>1. /\ n > 0 /\ Len(queue') = n - 1 /\ Head(queue) = queue[1]
        /\ \A i \in 1..(n - 1) : queue'[i] = queue[i + 1]
    BY TailFacts DEF SequenceInv
  <1>2. /\ Len(delivered') = m + 1 /\ delivered'[m + 1] = e
        /\ \A i \in 1..m : delivered'[i] = delivered[i]
    BY AppendFacts DEF SequenceInv
  <1>3. /\ IsSeq(Out) /\ Len(Out) = m + n
        /\ \A i \in 1..m : Out[i] = delivered[i].au
        /\ \A k \in 1..n : Out[m + k] = queue[k]
    BY OutFacts
  <1>4. /\ IsSeq(Out') /\ Len(Out') = (m + 1) + (n - 1)
        /\ \A i \in 1..(m + 1) : Out'[i] = delivered'[i].au
        /\ \A k \in 1..(n - 1) : Out'[(m + 1) + k] = queue'[k]
    <2>1. (/\ IsSeq(Out) /\ Len(Out) = Len(delivered) + Len(queue)
           /\ \A i \in 1..Len(delivered) : Out[i] = delivered[i].au
           /\ \A k \in 1..Len(queue) : Out[Len(delivered) + k] = queue[k])'
      BY OutFacts, PTL
    <2> QED BY <1>1, <1>2, <2>1
  <1>5. ASSUME NEW i \in 1..(m + n) PROVE Out'[i] = Out[i]
    <2>1. CASE i \in 1..m
      <3>1. Out'[i] = delivered'[i].au
        BY <1>4, <2>1
      <3> QED BY <1>2, <1>3, <2>1, <3>1
    <2>2. CASE i = m + 1
      <3>1. Out'[i] = delivered'[m + 1].au
        BY <1>4, <2>2
      <3>2. Out[m + 1] = queue[1]
        BY <1>1, <1>3
      <3> QED BY <1>1, <1>2, <2>2, <3>1, <3>2
    <2>3. CASE i \notin 1..(m + 1)
      <3>1. PICK k \in 1..(n - 1) : i = (m + 1) + k
        <4>1. i - (m + 1) \in 1..(n - 1) /\ i = (m + 1) + (i - (m + 1))
          BY <2>3
        <4> QED BY <4>1
      <3>2. Out'[i] = queue'[k] /\ queue'[k] = queue[k + 1]
        BY <1>1, <1>4, <3>1
      <3>3. k + 1 \in 1..n /\ i = m + (k + 1)
        BY <3>1
      <3>4. Out[m + (k + 1)] = queue[k + 1]
        BY <1>3, <3>3
      <3> QED BY <3>2, <3>3, <3>4
    <2> QED BY <2>1, <2>2, <2>3
  <1>6. Len(Out') = m + n
    BY <1>4
  <1> QED BY <1>3, <1>4, <1>5, <1>6 DEF IsSeq

\* A segment's own units keep within its bytes, and those of the segments
\* before it are not its own.
LEMMA BoundedJoin ==
    ASSUME NEW o, NEW q, NEW t, NEW s \in Nat, NEW u, Bounded(o),
           Len(o) \in Nat, Len(q) \in Nat, Len(t) = Len(o) + Len(q),
           \A i \in 1..Len(o) : t[i] = o[i] /\ o[i].seq \in Nat /\ o[i].seq < s,
           \A k \in 1..Len(q) : /\ t[Len(o) + k] = q[k] /\ q[k].seq = s
                                /\ q[k].fmp4 =>
                                      /\ q[k].uri \in 1..Len(Stream.segs)
                                      /\ Stream.segs[q[k].uri].frag.len \in Nat
                                      /\ Len(q) <= Stream.segs[q[k].uri].frag.len
                                      /\ 0 <= q[k].ids[1] /\ q[k].ids[1] < q[k].ids[2]
                                      /\ q[k].ids[2] <= Stream.segs[q[k].uri].frag.len
    PROVE  Bounded(t)
  <1> PICK m \in Nat, n \in Nat : m = Len(o) /\ n = Len(q)
    OBVIOUS
  <1> DEFINE Same(i) == {j \in 1..(m + n) : t[j].seq = t[i].seq}
  <1>1. \A i \in 1..(m + n) : i \in 1..m \/ \E k \in 1..n : i = m + k
    <2> TAKE i \in 1..(m + n)
    <2>1. CASE i \notin 1..m
      <3>1. i - m \in 1..n /\ i = m + (i - m)
        BY <2>1
      <3> QED BY <3>1
    <2> QED BY <2>1
  <1>2. ASSUME NEW i \in 1..m
        PROVE  Same(i) = {j \in 1..m : o[j].seq = o[i].seq}
    <2>1. t[i].seq = o[i].seq /\ o[i].seq \in Nat /\ o[i].seq < s
      OBVIOUS
    <2>2. \A k \in 1..n : t[m + k].seq = s
      OBVIOUS
    <2>3. \A j \in 1..m : t[j].seq = o[j].seq /\ j \in 1..(m + n)
      OBVIOUS
    <2>4. s # o[i].seq
      BY <2>1
    <2>5. ASSUME NEW j \in 1..(m + n), t[j].seq = t[i].seq
          PROVE  j \in 1..m /\ o[j].seq = o[i].seq
      BY <1>1, <2>1, <2>2, <2>3, <2>4, <2>5
    <2>6. Same(i) \subseteq {j \in 1..m : o[j].seq = o[i].seq}
      BY <2>5
    <2>7. {j \in 1..m : o[j].seq = o[i].seq} \subseteq Same(i)
      BY <2>1, <2>3
    <2> QED BY <2>6, <2>7
  <1>3. ASSUME NEW k \in 1..n
        PROVE  Cardinality(Same(m + k)) \in Nat /\ Cardinality(Same(m + k)) <= n
    <2>1. t[m + k].seq = s
      OBVIOUS
    <2>2. Same(m + k) \subseteq (m + 1)..(m + n)
      <3>1. \A j \in 1..m : t[j].seq # s
        OBVIOUS
      <3>2. \A j \in 1..(m + n) : j \in 1..m \/ j \in (m + 1)..(m + n)
        OBVIOUS
      <3> QED BY <2>1, <3>1, <3>2
    <2>3. /\ IsFiniteSet((m + 1)..(m + n))
          /\ Cardinality((m + 1)..(m + n)) = IF m + 1 > m + n THEN 0 ELSE (m + n) - (m + 1) + 1
      <3>1. m + 1 \in Int /\ m + n \in Int
        OBVIOUS
      <3> QED BY <3>1, FS_Interval
    <2>4. Cardinality((m + 1)..(m + n)) = n
      BY <2>3
    <2> HIDE DEF Same
    <2>5. /\ IsFiniteSet(Same(m + k))
          /\ Cardinality(Same(m + k)) <= Cardinality((m + 1)..(m + n))
      BY <2>2, <2>3, FS_Subset
    <2>6. Cardinality(Same(m + k)) \in Nat
      BY <2>5, FS_CardinalityType
    <2> QED BY <2>4, <2>5, <2>6
  <1>4. ASSUME NEW i \in 1..(m + n), t[i].fmp4
        PROVE  /\ t[i].uri \in 1..Len(Stream.segs)
               /\ 0 <= t[i].ids[1] /\ t[i].ids[1] < t[i].ids[2]
               /\ t[i].ids[2] <= Stream.segs[t[i].uri].frag.len
               /\ Cardinality(Same(i)) <= Stream.segs[t[i].uri].frag.len
    <2>1. CASE i \in 1..m
      <3>1. t[i] = o[i]
        BY <2>1
      <3>2. /\ o[i].uri \in 1..Len(Stream.segs)
            /\ 0 <= o[i].ids[1] /\ o[i].ids[1] < o[i].ids[2]
            /\ o[i].ids[2] <= Stream.segs[o[i].uri].frag.len
            /\ Cardinality({j \in 1..m : o[j].seq = o[i].seq})
                  <= Stream.segs[o[i].uri].frag.len
        BY <1>4, <2>1, <3>1 DEF Bounded
      <3>3. Same(i) = {j \in 1..m : o[j].seq = o[i].seq}
        BY <1>2, <2>1
      <3> HIDE DEF Same
      <3> QED BY <3>1, <3>2, <3>3
    <2>2. CASE i \notin 1..m
      <3>1. PICK k \in 1..n : i = m + k
        BY <1>1, <2>2
      <3>2. t[i] = q[k]
        BY <3>1
      <3>3. Cardinality(Same(m + k)) \in Nat /\ Cardinality(Same(m + k)) <= n
        BY <1>3
      <3> HIDE DEF Same
      <3>4. /\ q[k].uri \in 1..Len(Stream.segs)
            /\ Stream.segs[q[k].uri].frag.len \in Nat
            /\ n <= Stream.segs[q[k].uri].frag.len
            /\ 0 <= q[k].ids[1] /\ q[k].ids[1] < q[k].ids[2]
            /\ q[k].ids[2] <= Stream.segs[q[k].uri].frag.len
        BY <1>4, <3>2
      <3>5. Cardinality(Same(i)) <= Stream.segs[q[k].uri].frag.len
        BY <3>1, <3>3, <3>4
      <3> QED BY <3>2, <3>4, <3>5
    <2> QED BY <2>1, <2>2
  <1>5. Len(t) = m + n
    OBVIOUS
  <1> QED BY <1>4, <1>5 DEF Bounded

\* What was demuxed, told and handed over belongs together.
LEMMA OutStep ==
    ASSUME WorldInv, ListInv, ListInv', CodecInv, LossInv, SequenceInv, SequenceInv', OutInv,
           DataCase
    PROVE  OutInv'
  <1>p. /\ "unborn" \notin ReadPCs /\ "teardown" \notin ReadPCs /\ \A p \in EndPCs : p \notin ReadPCs
        /\ {"deliver", "segments", "gap", "container", "reinit", "get", "next", "wait", "reload",
            "follow"} = ReadPCs
    BY DEF ReadPCs, EndPCs
  <1>t. scen' = scen => Stream' = Stream
    BY DEF Stream
  <1>b. ASSUME scen' = scen, Out' = Out PROVE Bounded(Out)'
    BY <1>b, <1>t DEF Bounded, OutInv
  <1>c. Cur \in Nat /\ lastSeq \in Nat /\ (Early \/ Late => Entry.seq \in Nat /\ Entry.seq > lastSeq)
    BY DEF Cur, ListInv, Numbered, Entry
  <1>d. (Cur \in Nat)'
    BY DEF Cur, ListInv, Numbered, Entry
  <1>k. ASSUME UNCHANGED <<scen, queue, delivered, told, initURI>>,
               pc'["open"] \in {"spawn", "opened"} \/ pc["open"] \notin {"spawn", "opened"},
               ReaderAt' \in ReadPCs \ {"deliver"} => queue = <<>>,
               pc'["open"] = "spawn" => pc["open"] = "spawn" /\ Entry' = Entry,
               ReaderAt' \in ReadPCs => ReaderAt \in ReadPCs /\ Cur <= Cur'
        PROVE  OutInv'
    <2>1. Out' = Out
      BY <1>k DEF Out, Handed
    <2>2. Bounded(Out)' /\ CodecTold'
      BY <1>b, <1>k, <2>1 DEF OutInv, CodecTold
    <2>3. ASSUME ReaderAt' \in ReadPCs, NEW i \in 1..Len(Out) PROVE Out[i].seq <= Cur'
      <3>1. Out[i].seq \in Nat /\ Out[i].seq <= Cur /\ Cur <= Cur'
        BY <1>k, <2>3 DEF OutInv
      <3> QED BY <1>c, <1>d, <3>1
    <2> QED BY <1>k, <2>1, <2>2, <2>3 DEF OutInv
  <1>1. CASE Quiet
    <2>1. UNCHANGED <<scen, queue, delivered, told, initURI, pc["open"], ReaderAt, media, idx, after,
                      lastSeq>>
      BY <1>1 DEF Quiet, seen, seenList, seenLoss, seenCodec, seenOut
    <2>2. Entry' = Entry /\ Cur' = Cur
      BY <2>1 DEF Entry, Cur, Late
    <2>3. Cur <= Cur'
      BY <1>c, <2>2
    <2> QED BY <1>k, <2>1, <2>2, <2>3 DEF OutInv
  <1>2. CASE OpenMoves
    <2>1. /\ UNCHANGED <<scen, queue, delivered, told, initURI>> /\ ReaderAt' = "unborn"
          /\ pc["open"] \notin {"spawn", "opened"} /\ pc'["open"] # "spawn"
      BY <1>2 DEF OpenMoves, InOpen, seen, seenCodec, seenOut
    <2> QED BY <1>k, <1>p, <2>1
  <1>3. CASE Lists \/ Inits
    <2>1. /\ UNCHANGED <<scen, queue, delivered, told, initURI>> /\ ReaderAt' = "unborn"
          /\ pc["open"] \notin {"spawn", "opened"} /\ pc'["open"] # "spawn"
      BY <1>3 DEF Lists, Inits, InOpen, seenCodec, seenOut
    <2> QED BY <1>k, <1>p, <2>1
  <1>4. CASE Resolves
    <2>1. /\ pc["open"] = "seg" /\ pc'["open"] = "spawn" /\ ReaderAt' = "unborn" /\ scen' = scen
          /\ initURI' = Entry.init /\ Entry.uri \in DOMAIN Stream.segs /\ Entry' = Entry
          /\ UNCHANGED delivered
      BY <1>4 DEF Resolves, InOpen, seenList, Entry
    <2> DEFINE no == FALSE
    <2>2. PICK r \in {Demuxed(demux, Entry, no)} :
              queue' = Queued(Entry, r.aus) /\ told' = ASC(r.d, Entry.init)
      BY <1>4 DEF Resolves
    <2> HIDE DEF no
    <2>3. queue = <<>> /\ delivered = <<>> /\ Suits(demux, Entry.init)
      BY <2>1 DEF OutInv, LossInv, CodecInv
    <2> DEFINE q == Queued(Entry, r.aus)
               len == Stream.segs[Entry.uri].frag.len
    <2>4. /\ IsSeq(q) /\ len \in Nat
          /\ Entry.init # Blank => r.d.init = ParseInit(Stream.inits[Entry.init])
          /\ \A k \in 1..Len(q) : /\ q[k].seq = Entry.seq /\ q[k].uri = Entry.uri
                                  /\ q[k].fmp4 = (Entry.init # Blank)
          /\ Entry.init # Blank =>
                /\ Len(q) <= len
                /\ \A k \in 1..Len(q) :
                      /\ q[k].cfg = ParseInit(Stream.inits[Entry.init]).asc
                      /\ 0 <= q[k].ids[1] /\ q[k].ids[1] < q[k].ids[2] /\ q[k].ids[2] <= len
      BY <2>1, <2>2, <2>3, DemuxedFacts
    <2> HIDE DEF q, len
    <2> DEFINE o == Out
               t == Out'
    <2>5. /\ Len(t) = Len(o) + Len(q) /\ Len(o) \in Nat /\ Len(q) \in Nat
          /\ \A i \in 1..Len(o) : t[i] = o[i]
          /\ \A k \in 1..Len(q) : t[Len(o) + k] = q[k]
      BY <2>1, <2>2, <2>3, NewUnits DEF q
    <2>6. Len(o) = 0 /\ Bounded(o)
      <3>1. Len(o) = Len(delivered) + Len(queue)
        BY OutFacts
      <3>2. Len(delivered) = 0 /\ Len(queue) = 0
        BY <2>3, EmptyFacts
      <3> QED BY <3>1, <3>2 DEF OutInv
    <2> HIDE DEF o, t
    <2>7. PICK a \in Nat : a = Entry.seq
      <3>1. idx \in 1..Len(media.segs) /\ Numbered(media.segs)
        BY <2>1 DEF ListInv
      <3> QED BY <3>1 DEF Numbered, Entry
    <2>8. Entry.uri \in 1..Len(Stream.segs)
      BY <2>1, StreamFacts DEF StreamType
    <2>9. Bounded(t)
      <3>1. \A k \in 1..Len(q) : q[k].fmp4 =>
                /\ q[k].uri \in 1..Len(Stream.segs)
                /\ Stream.segs[q[k].uri].frag.len \in Nat
                /\ Len(q) <= Stream.segs[q[k].uri].frag.len
                /\ 0 <= q[k].ids[1] /\ q[k].ids[1] < q[k].ids[2]
                /\ q[k].ids[2] <= Stream.segs[q[k].uri].frag.len
        BY <2>4, <2>8 DEF len
      <3>2. \A k \in 1..Len(q) : q[k].seq = a
        BY <2>4, <2>7
      <3>3. \A i \in 1..Len(o) : o[i].seq \in Nat /\ o[i].seq < a
        BY <2>6
      <3> QED BY <2>5, <2>6, <3>1, <3>2, <3>3, BoundedJoin
    <2>10. Bounded(Out)'
      BY <1>t, <2>1, <2>9 DEF Bounded, t
    <2>11. Len(t) = Len(q) /\ \A k \in 1..Len(q) : t[k] = q[k]
      <3>1. Len(t) = Len(q)
        BY <2>5, <2>6
      <3>2. \A k \in 1..Len(q) : Len(o) + k = k
        BY <2>5, <2>6
      <3> QED BY <2>5, <3>1, <3>2
    <2>12. \A k \in 1..Len(q) : q[k].fmp4 => q[k].cfg = told'
      BY <2>2, <2>4 DEF ASC
    <2>13. CodecTold'
      BY <2>1, <2>3 DEF CodecTold
    <2>14. queue' = q
      BY <2>2 DEF q
    <2>15. \A i \in 1..Len(t) : /\ t[i].seq \in Nat /\ t[i].seq = Entry'.seq
                                /\ t[i].fmp4 = (initURI' # Blank)
      BY <2>1, <2>4, <2>7, <2>11
    <2> QED BY <1>p, <2>1, <2>10, <2>12, <2>13, <2>14, <2>15 DEF OutInv, t
  <1>5. CASE Starts
    <2>1. /\ UNCHANGED <<scen, queue, delivered, told, initURI>> /\ pc["open"] = "spawn"
          /\ pc'["open"] = "opened" /\ ReaderAt' = "deliver" /\ lastSeq' = Entry.seq
          /\ after' = "segments"
      BY <1>5 DEF Starts, seenCodec
    <2>2. Out' = Out
      BY <2>1 DEF Out, Handed
    <2>3. Cur' = Entry.seq
      BY <2>1 DEF Cur, Late
    <2>4. Bounded(Out)' /\ CodecTold'
      BY <1>b, <2>1, <2>2 DEF OutInv, CodecTold
    <2>5. \A i \in 1..Len(Out) : Out[i].seq <= Entry.seq
      BY <2>1, <1>d, <2>3 DEF OutInv
    <2> QED BY <2>1, <2>2, <2>3, <2>4, <2>5 DEF OutInv
  <1>6. CASE Quits
    <2>1. /\ UNCHANGED <<scen, queue, delivered, told, initURI>> /\ ReaderAt' \in EndPCs
          /\ pc'["open"] = "opened"
      BY <1>6 DEF Quits, InReader, seen, seenCodec, seenOut
    <2> QED BY <1>k, <1>p, <2>1
  <1>7. CASE HandsOver
    <2> DEFINE e == [au |-> Head(queue), gap |-> pendGap, told |-> told]
    <2>1. /\ UNCHANGED <<scen, initURI, told, after, lastSeq, media, idx>>
          /\ queue # <<>> /\ queue' = Tail(queue) /\ delivered' = Append(delivered, e)
          /\ pc'["open"] = "opened" /\ ReaderAt = "deliver" /\ ReaderAt' \in {"deliver", "teardown"}
      BY <1>7 DEF HandsOver, InReader, seenCodec, seenList
    <2>2. e.au = Head(queue) /\ e.told = told
      OBVIOUS
    <2> HIDE DEF e
    <2>3. Out' = Out
      BY <2>1, <2>2, MoveHead
    <2>4. /\ Head(queue) = queue[1] /\ Len(queue) > 0 /\ Len(queue) \in Nat
          /\ Len(queue') = Len(queue) - 1
          /\ \A k \in 1..Len(queue') : queue'[k] = queue[k + 1]
      BY <2>1, TailFacts, OutFacts DEF SequenceInv
    <2>5. \A k \in 1..Len(queue') : queue'[k].fmp4 => queue'[k].cfg = told'
      <3> TAKE k \in 1..Len(queue')
      <3>1. k + 1 \in 1..Len(queue) /\ queue'[k] = queue[k + 1]
        BY <2>4
      <3>2. queue[k + 1].fmp4 => queue[k + 1].cfg = told
        BY <3>1 DEF OutInv
      <3> QED BY <2>1, <3>1, <3>2
    <2>6. CodecTold'
      <3>1. /\ Len(delivered') = Len(delivered) + 1 /\ Len(delivered) \in Nat
            /\ \A i \in 1..Len(delivered) : delivered'[i] = delivered[i]
            /\ delivered'[Len(delivered) + 1] = e
            /\ DOMAIN delivered' = 1..(Len(delivered) + 1) /\ DOMAIN delivered = 1..Len(delivered)
        BY <2>1, AppendFacts DEF SequenceInv, IsSeq
      <3>2. e.au.fmp4 => e.told = e.au.cfg
        BY <2>2, <2>4 DEF OutInv
      <3>3. \A i \in 1..(Len(delivered) + 1) : i \in 1..Len(delivered) \/ i = Len(delivered) + 1
        BY <3>1
      <3> QED BY <3>1, <3>2, <3>3 DEF OutInv, CodecTold
    <2>7. Bounded(Out)'
      BY <1>b, <2>1, <2>3
    <2>8. ReaderAt' = "deliver" => Cur' = Cur
      BY <2>1 DEF Cur, Late, Entry
    <2>9. \A i \in 1..Len(Out) : Out[i].seq <= Cur
      BY <1>p, <2>1 DEF OutInv
    <2> QED BY <1>p, <2>1, <2>3, <2>5, <2>6, <2>7, <2>8, <2>9 DEF OutInv
  <1>8. CASE GoesOn
    <2>1. /\ UNCHANGED <<scen, queue, delivered, told, initURI, lastSeq, media, idx, after>>
          /\ ReaderAt = "deliver" /\ ReaderAt' = after /\ after \in {"segments", "next"}
          /\ queue = <<>> /\ pc'["open"] = "opened"
      BY <1>8 DEF GoesOn, InReader, seen, seenList, seenLoss, seenCodec, seenOut
    <2>2. Cur' = Cur
      BY <2>1 DEF Cur, Late, Entry
    <2>3. Cur <= Cur'
      BY <1>c, <2>2
    <2> QED BY <1>k, <1>p, <2>1, <2>3
  <1>9. CASE SkipsOld \/ Waits \/ Reloads
    <2>1. /\ UNCHANGED <<scen, queue, delivered, told, initURI, lastSeq>>
          /\ ReaderAt \in {"segments", "wait", "reload", "follow"}
          /\ ReaderAt' \in {"segments", "wait", "reload", "follow"} /\ pc'["open"] = "opened"
      BY <1>9 DEF SkipsOld, Waits, Reloads, InReader, seen, seenLoss, seenCodec, seenOut
    <2>2. Cur' = Cur
      BY <2>1 DEF Cur, Late
    <2>3. Cur <= Cur' /\ queue = <<>>
      BY <1>c, <1>p, <2>1, <2>2 DEF OutInv
    <2> QED BY <1>k, <1>p, <2>1, <2>3
  <1>10. CASE Enters \/ Chooses
    <2>1. /\ UNCHANGED <<scen, queue, delivered, told, initURI, lastSeq>>
          /\ ReaderAt \in {"segments", "container"}
          /\ ReaderAt' \in {"gap", "container", "get", "reinit"} /\ pc'["open"] = "opened"
      BY <1>10 DEF Enters, Chooses, InReader, seen, seenLoss, seenCodec, seenOut
    <2>2. Cur' = Cur
      BY <2>1 DEF Cur, Late
    <2>3. Cur <= Cur' /\ queue = <<>>
      BY <1>c, <1>p, <2>1, <2>2 DEF OutInv
    <2> QED BY <1>k, <1>p, <2>1, <2>3
  <1>11. CASE SkipsGap
    <2>1. /\ UNCHANGED <<scen, queue, delivered, told, initURI, lastSeq, media, idx>>
          /\ ReaderAt = "gap" /\ ReaderAt' = "next" /\ pc'["open"] = "opened"
      BY <1>11 DEF SkipsGap, InReader, seenList, seenCodec, seenOut
    <2>2. Cur = lastSeq /\ Cur' = Entry.seq /\ Early
      BY <2>1 DEF Cur, Late, Early, Entry
    <2>3. Cur <= Cur' /\ queue = <<>>
      BY <1>c, <1>p, <2>1, <2>2 DEF OutInv
    <2> QED BY <1>k, <1>p, <2>1, <2>3
  <1>12. CASE Reinits
    <2>1. /\ UNCHANGED <<scen, queue, delivered, lastSeq, after>> /\ ReaderAt = "reinit"
          /\ ReaderAt' \in {"get", "teardown"} /\ pc'["open"] = "opened" /\ initURI' = Entry.init
      BY <1>12 DEF Reinits, InReader, seenLoss, seenOut
    <2>2. queue = <<>> /\ initURI # Blank /\ initURI' # Blank
      BY <1>p, <2>1 DEF OutInv, CodecInv
    <2>3. Out' = Out
      BY <2>1 DEF Out, Handed
    <2>4. Bounded(Out)' /\ CodecTold'
      BY <1>b, <2>1, <2>3 DEF OutInv, CodecTold
    <2>5. Cur' = Cur
      BY <2>1 DEF Cur, Late
    <2>6. \A k \in 1..Len(queue') : queue'[k].fmp4 => queue'[k].cfg = told'
      BY <2>1, <2>2, EmptyFacts
    <2>7. \A i \in 1..Len(Out) : Out[i].seq <= Cur
      BY <1>p, <2>1 DEF OutInv
    <2> QED BY <2>1, <2>2, <2>3, <2>4, <2>5, <2>6, <2>7 DEF OutInv
  <1>13. CASE Gets
    <2>1. /\ pc["open"] = "opened" /\ pc'["open"] = "opened" /\ ReaderAt = "get"
          /\ ReaderAt' = "deliver" /\ UNCHANGED <<scen, initURI, told, delivered, media, idx, lastSeq>>
          /\ Entry.uri \in DOMAIN Stream.segs
      BY <1>13 DEF Gets, InReader, seenList
    <2>2. PICK r \in {Demuxed(demux, Entry, Break)} :
              queue' = Queued(Entry, r.aus) /\ after' = IF r.err = "ok" THEN "next" ELSE r.err
      BY <1>13 DEF Gets
    <2>3. /\ queue = <<>> /\ Entry.init = initURI /\ Suits(demux, Entry.init)
          /\ initURI # Blank => told = demux.init.asc
      BY <1>p, <2>1 DEF OutInv, CodecInv
    <2> DEFINE q == Queued(Entry, r.aus)
               len == Stream.segs[Entry.uri].frag.len
    <2>4. /\ r.err \in SegmentErrs /\ IsSeq(q) /\ len \in Nat
          /\ \A k \in 1..Len(q) : /\ q[k].seq = Entry.seq /\ q[k].uri = Entry.uri
                                  /\ q[k].fmp4 = (Entry.init # Blank)
          /\ Entry.init # Blank =>
                /\ Len(q) <= len
                /\ \A k \in 1..Len(q) :
                      /\ q[k].cfg = ParseInit(Stream.inits[Entry.init]).asc
                      /\ 0 <= q[k].ids[1] /\ q[k].ids[1] < q[k].ids[2] /\ q[k].ids[2] <= len
      BY <2>1, <2>2, <2>3, DemuxedFacts
    <2> HIDE DEF q, len
    <2>5. after' \notin {"segments", "streamEnded"}
      BY <2>2, <2>4 DEF SegmentErrs
    <2>6. /\ Cur = lastSeq /\ Cur' = Entry.seq /\ Early
      BY <2>1, <2>5 DEF Cur, Late, Early, Entry
    <2>7. PICK a \in Nat, b \in Nat : a = Entry.seq /\ b = lastSeq /\ a > b
      BY <1>c, <2>6
    <2>8. Entry.uri \in 1..Len(Stream.segs)
      BY <2>1, StreamFacts DEF StreamType
    <2> DEFINE o == Out
               t == Out'
    <2>9. /\ Len(t) = Len(o) + Len(q) /\ Len(o) \in Nat /\ Len(q) \in Nat
          /\ \A i \in 1..Len(o) : t[i] = o[i]
          /\ \A k \in 1..Len(q) : t[Len(o) + k] = q[k]
      BY <2>1, <2>2, <2>3, NewUnits DEF q
    <2>10. /\ Bounded(o)
           /\ \A i \in 1..Len(o) : /\ o[i].seq \in Nat /\ o[i].fmp4 = (initURI # Blank)
                                   /\ o[i].seq <= b
      BY <1>p, <2>1, <2>6, <2>7 DEF OutInv
    <2> HIDE DEF o, t
    <2>11. \A i \in 1..Len(o) : o[i].seq < a /\ o[i].seq <= a
      BY <2>7, <2>10
    <2>12. Bounded(t)
      <3>1. \A k \in 1..Len(q) : q[k].fmp4 =>
                /\ q[k].uri \in 1..Len(Stream.segs)
                /\ Stream.segs[q[k].uri].frag.len \in Nat
                /\ Len(q) <= Stream.segs[q[k].uri].frag.len
                /\ 0 <= q[k].ids[1] /\ q[k].ids[1] < q[k].ids[2]
                /\ q[k].ids[2] <= Stream.segs[q[k].uri].frag.len
        BY <2>4, <2>8 DEF len
      <3>2. \A k \in 1..Len(q) : q[k].seq = a
        BY <2>4, <2>7
      <3> QED BY <2>9, <2>10, <2>11, <3>1, <3>2, BoundedJoin
    <2>13. Bounded(Out)'
      BY <1>t, <2>1, <2>12 DEF Bounded, t
    <2>14. \A i \in 1..Len(t) : /\ t[i].seq \in Nat /\ t[i].seq <= a
                                /\ t[i].fmp4 = (initURI # Blank)
      <3> SUFFICES ASSUME NEW i \in 1..Len(t)
                   PROVE  t[i].seq \in Nat /\ t[i].seq <= a /\ t[i].fmp4 = (initURI # Blank)
        OBVIOUS
      <3>1. CASE i \in 1..Len(o)
        BY <2>9, <2>10, <2>11, <3>1
      <3>2. CASE i \notin 1..Len(o)
        <4>1. i - Len(o) \in 1..Len(q) /\ i = Len(o) + (i - Len(o))
          BY <2>9, <3>2
        <4>2. t[i] = q[i - Len(o)]
          BY <2>9, <4>1
        <4> QED BY <2>3, <2>4, <2>7, <4>1, <4>2
      <3> QED BY <3>1, <3>2
    <2>15. \A k \in 1..Len(q) : q[k].fmp4 => q[k].cfg = told'
      <3>1. Entry.init # Blank => ParseInit(Stream.inits[Entry.init]).asc = told
        BY <2>3 DEF Suits
      <3> QED BY <2>1, <2>4, <3>1
    <2>16. CodecTold'
      BY <2>1 DEF OutInv, CodecTold
    <2>17. queue' = q
      BY <2>2 DEF q
    <2> QED BY <2>1, <2>6, <2>7, <2>13, <2>14, <2>15, <2>16, <2>17 DEF OutInv, t
  <1>14. CASE Advances
    <2>1. /\ UNCHANGED <<scen, queue, delivered, told, initURI>>
          /\ ReaderAt = "next" /\ ReaderAt' \in {"segments", "teardown"} /\ pc'["open"] = "opened"
          /\ lastSeq' = Entry.seq
      BY <1>14 DEF Advances, InReader, seenCodec, seenOut
    <2>2. ReaderAt' = "segments" => Cur' = Cur
      BY <2>1 DEF Cur, Late
    <2>3. (ReaderAt' = "segments" => Cur <= Cur') /\ queue = <<>>
      BY <1>c, <1>p, <2>1, <2>2 DEF OutInv
    <2> QED BY <1>k, <1>p, <2>1, <2>3
  <1>15. CASE Flushes
    <2>1. /\ pc["open"] = "opened" /\ pc'["open"] = "opened" /\ after' = "streamEnded"
          /\ ReaderAt = "segments" /\ ReaderAt' = "deliver"
          /\ UNCHANGED <<scen, initURI, told, delivered, lastSeq>>
      BY <1>15 DEF Flushes, InReader, seenLoss
    <2>2. PICK r \in {IF initURI = Blank THEN EndTS(demux) ELSE Yield(demux, <<>>, "ok")} :
              queue' = Queued([init |-> initURI, seq |-> lastSeq, uri |-> 0], r.aus)
      BY <1>15 DEF Flushes
    <2>3. queue = <<>> /\ Suits(demux, initURI)
      BY <1>p, <2>1 DEF OutInv, CodecInv
    <2> DEFINE q == Queued([init |-> initURI, seq |-> lastSeq, uri |-> 0], r.aus)
    <2>4. /\ \A k \in 1..Len(q) : q[k].seq = lastSeq /\ q[k].fmp4 = (initURI # Blank)
          /\ initURI # Blank => q = <<>>
      BY <2>2, <2>3, FlushFacts
    <2> HIDE DEF q
    <2>5. Cur = lastSeq /\ Cur' = lastSeq
      BY <2>1 DEF Cur, Late
    <2>6. queue' = q
      BY <2>2 DEF q
    <2> DEFINE o == Out
               t == Out'
    <2>7. /\ Len(t) = Len(o) + Len(q) /\ Len(o) \in Nat /\ Len(q) \in Nat
          /\ \A i \in 1..Len(o) : t[i] = o[i]
          /\ \A k \in 1..Len(q) : t[Len(o) + k] = q[k]
          /\ IsSeq(o) /\ IsSeq(t)
      BY <2>1, <2>3, <2>6, NewUnits
    <2>8. /\ Bounded(o)
          /\ \A i \in 1..Len(o) : /\ o[i].seq \in Nat /\ o[i].fmp4 = (initURI # Blank)
                                  /\ o[i].seq <= lastSeq
      BY <1>p, <2>1, <2>5 DEF OutInv
    <2> HIDE DEF o, t
    <2>9. \A i \in 1..Len(t) : /\ t[i].seq \in Nat /\ t[i].seq <= lastSeq
                               /\ t[i].fmp4 = (initURI # Blank)
      <3> SUFFICES ASSUME NEW i \in 1..Len(t)
                   PROVE  t[i].seq \in Nat /\ t[i].seq <= lastSeq /\ t[i].fmp4 = (initURI # Blank)
        OBVIOUS
      <3>1. CASE i \in 1..Len(o)
        BY <2>7, <2>8, <3>1
      <3>2. CASE i \notin 1..Len(o)
        <4>1. i - Len(o) \in 1..Len(q) /\ i = Len(o) + (i - Len(o))
          BY <2>7, <3>2
        <4>2. t[i] = q[i - Len(o)]
          BY <2>7, <4>1
        <4> QED BY <1>c, <2>4, <4>1, <4>2
      <3> QED BY <3>1, <3>2
    <2>10. Bounded(Out)'
      <3>1. CASE initURI = Blank
        <4>1. \A i \in 1..Len(Out') : Out'[i].fmp4 = FALSE
          BY <2>9, <3>1 DEF t
        <4> QED BY <4>1 DEF Bounded
      <3>2. CASE initURI # Blank
        <4>1. Len(t) = Len(o) /\ \A i \in 1..Len(o) : t[i] = o[i]
          BY <2>4, <2>7, <3>2, EmptyFacts
        <4>2. t = o
          BY <2>7, <4>1 DEF IsSeq
        <4> QED BY <1>b, <2>1, <4>2 DEF o, t
      <3> QED BY <3>1, <3>2
    <2>11. \A k \in 1..Len(q) : q[k].fmp4 => q[k].cfg = told'
      <3>1. CASE initURI = Blank
        BY <2>4, <3>1
      <3>2. CASE initURI # Blank
        BY <2>4, <3>2, EmptyFacts
      <3> QED BY <3>1, <3>2
    <2>12. CodecTold'
      BY <2>1 DEF OutInv, CodecTold
    <2> QED BY <2>1, <2>5, <2>6, <2>9, <2>10, <2>11, <2>12 DEF OutInv, t
  <1> QED
    BY <1>1, <1>2, <1>3, <1>4, <1>5, <1>6, <1>7, <1>8, <1>9, <1>10, <1>11, <1>12, <1>13,
       <1>14, <1>15
    DEF DataCase

-----------------------------------------------------------------------------
(* The inductive invariant and what follows from it.                       *)

\* The inductive invariant.
IInv ==
    /\ ControlInv /\ FunnelInv /\ WorldInv /\ ListInv /\ LossInv /\ CodecInv
    /\ SequenceInv /\ OutInv

\* It holds before Open is called.
LEMMA InitIInv == Init => IInv
  <1> SUFFICES ASSUME Init PROVE IInv
    OBVIOUS
  <1> USE ActorFacts
  <1>1. /\ pc["open"] = "start" /\ pc["reader"] = "unborn" /\ pc["watchdog"] = "unborn"
        /\ \A c \in Callers : pc[c] = "idle"
        /\ pc \in [Actors -> {"start", "unborn", "idle"}]
    <2> DEFINE Start == [a \in Workers |-> IF a = "open" THEN "start" ELSE "unborn"]
    <2>1. pc = [a \in Actors |-> IF a \in Workers THEN Start[a] ELSE "idle"]
      BY DEF Init, LifecycleInit
    <2>2. \A a \in Actors : pc[a] = IF a \in Workers THEN Start[a] ELSE "idle"
      BY <2>1
    <2>3. Workers = {"open", "reader", "watchdog"}
      BY HlsAssumption
    <2>4. Start["open"] = "start" /\ Start["reader"] = "unborn" /\ Start["watchdog"] = "unborn"
      BY <2>3
    <2> HIDE DEF Start
    <2>5. /\ pc["open"] = "start" /\ pc["reader"] = "unborn" /\ pc["watchdog"] = "unborn"
          /\ \A c \in Callers : pc[c] = "idle"
      BY <2>2, <2>3, <2>4
    <2>6. \A a \in Actors : pc[a] \in {"start", "unborn", "idle"}
      BY <2>5
    <2> QED BY <2>1, <2>5, <2>6
  <1>2. ReaderAt = "unborn"
    BY <1>1 DEF ReaderAt, FunnelPCs
  <1>3. ControlInv
    BY <1>1 DEF Init, LifecycleInit, ControlInv, FunnelPCs, OpenPCs, ReadPCs, EndPCs,
                ReaderPCs, WatchPCs, CallerPCs
  <1>4. FunnelInv
    <2>1. \A a \in Actors : pc[a] \notin FunnelPCs
      BY <1>1 DEF FunnelPCs
    <2> QED BY <1>1, <2>1 DEF Init, LifecycleInit, FunnelInv, FunnelPCs, EndPCs
  <1>5. WorldInv
    <2>1. StreamType(Stream)
      BY HlsAssumption DEF Init, Stream
    <2>2. Len(Stream.segs) \in Nat
      BY <2>1 DEF StreamType
    <2> QED BY <2>2 DEF Init, WorldInv
  <1>6. ListInv
    <2>1. media.segs = <<>> /\ idx = 1 /\ lastSeq = 0 /\ ~fresh
      BY DEF Init, NoList
    <2>2. Numbered(media.segs)
      BY <2>1 DEF Numbered
    <2>3. ~Early /\ ~Late
      BY <1>2 DEF Early, Late
    <2> QED BY <1>1, <1>2, <2>1, <2>2, <2>3 DEF ListInv
  <1>7. SequenceInv
    BY EmptyFacts DEF Init, SequenceInv
  <1>8. LossInv
    <2>1. fetched = <<>> /\ delivered = <<>> /\ pendGap = 0 /\ Len(fetched) = 0 /\ Len(delivered) = 0
      BY EmptyFacts DEF Init
    <2> QED BY <1>2, <2>1 DEF LossInv, ReadPCs
  <1>9. CodecInv
    <2>1. demux \in DemuxerStates
      <3>1. NewStream \in FramerStates /\ NewStream.off = 0
        BY DEF NewStream, FramerStates
      <3> QED BY <3>1 DEF Init, NewTS, NoPID, DemuxerStates, Configs
    <2> QED BY <1>1, <1>2, <2>1 DEF CodecInv
  <1>10. OutInv
    <2>1. queue = <<>> /\ delivered = <<>>
      BY DEF Init
    <2>2. Len(queue) = 0 /\ Len(delivered) = 0
      BY <2>1, EmptyFacts
    <2>3. Len(Out) = 0
      BY <1>7, <2>2, OutFacts
    <2>4. CodecTold
      BY <2>1 DEF CodecTold
    <2> QED BY <1>1, <1>2, <2>1, <2>2, <2>3, <2>4 DEF OutInv, Bounded, ReadPCs
  <1> QED BY <1>3, <1>4, <1>5, <1>6, <1>7, <1>8, <1>9, <1>10 DEF IInv

\* Every step preserves it.
LEMMA StepIInv == IInv /\ [Next]_vars => IInv'
  <1> SUFFICES ASSUME IInv, [Next]_vars PROVE IInv'
    OBVIOUS
  <1>1. NextCase /\ DataCase
    BY NextCases, DataCases DEF IInv
  <1>2. ControlInv' /\ FunnelInv' /\ WorldInv'
    BY <1>1, ControlStep, FunnelStep, WorldStep DEF IInv
  <1>3. ListInv' /\ CodecInv' /\ SequenceInv' /\ LossInv'
    BY <1>1, ListStep, CodecStep, SequenceStep, LossStep DEF IInv
  <1>4. OutInv'
    BY <1>1, <1>3, OutStep DEF IInv
  <1> QED BY <1>2, <1>3, <1>4 DEF IInv

\* Hence it holds throughout.
LEMMA Inductive == Spec => []IInv
  BY InitIInv, StepIInv, PTL DEF Spec

\* processNewSegments, deliverAU: however often the window slides while the
\* reader is away and however many entries are gaps, no segment is lost in
\* silence, counted twice or fetched twice, and no SeqGap is negative, as long as
\* the numbers since the first segment fit an int.
THEOREM NoSilentLoss == Spec => []LossReported
  <1>1. IInv => LossReported
    <2> SUFFICES ASSUME IInv PROVE LossReported
      OBVIOUS
    <2>1. LossInv /\ fetched \in Seq(Nat)
      BY DEF IInv, LossInv
    <2>2. \A i, j \in DOMAIN fetched : i < j => fetched[i] < fetched[j]
      <3>1. DOMAIN fetched = 1..Len(fetched)
        BY <2>1
      <3> QED BY <2>1, <3>1 DEF LossInv
    <2>3. ASSUME pc["reader"] = "segments", lastSeq - fetched[1] <= MaxInt
          PROVE  /\ lastSeq - fetched[1] = (Len(fetched) - 1) + Gaps(Len(delivered)) + pendGap
                 /\ pendGap >= 0 /\ \A i \in 1..Len(delivered) : delivered[i].gap >= 0
      <3>1. ReaderAt = "segments"
        BY <2>3 DEF ReaderAt, FunnelPCs
      <3>2. Settled = lastSeq /\ ReaderAt \in ReadPCs
        BY <3>1 DEF Settled, Cur, Early, Late, ReadPCs
      <3>3. Balanced
        BY <2>1, <2>3, <3>2 DEF LossInv
      <3> QED BY <3>2, <3>3 DEF Balanced
    <2> QED BY <2>2, <2>3 DEF LossReported
  <1> QED BY <1>1, Inductive, PTL

\* ParseFragment: however a fragment's runs point at each other, the access
\* units made of it lie in its own bytes and are no more than those.
THEOREM FragmentsBounded == Spec => []FragmentBounded
  <1>1. IInv => FragmentBounded
    <2> SUFFICES ASSUME IInv, NEW i \in DOMAIN delivered, delivered[i].au.fmp4
                 PROVE  LET au == delivered[i].au
                            same == {j \in DOMAIN delivered : delivered[j].au.seq = au.seq}
                            len == Stream.segs[au.uri].frag.len
                        IN  /\ 0 <= au.ids[1] /\ au.ids[1] < au.ids[2] /\ au.ids[2] <= len
                            /\ Cardinality(same) <= len
      BY DEF FragmentBounded
    <2> DEFINE au == delivered[i].au
               same == {j \in DOMAIN delivered : delivered[j].au.seq = au.seq}
               all == {j \in 1..Len(Out) : Out[j].seq = Out[i].seq}
               len == Stream.segs[au.uri].frag.len
    <2>1. PICK m \in Nat, n \in Nat : m = Len(delivered) /\ n = Len(Out) /\ m <= n
      BY OutFacts DEF IInv
    <2>2. DOMAIN delivered = 1..m /\ i \in 1..m /\ i \in 1..n
      <3>1. DOMAIN delivered = 1..m
        BY <2>1 DEF IInv, SequenceInv, IsSeq
      <3> QED BY <2>1, <3>1
    <2>3. \A j \in 1..m : Out[j] = delivered[j].au
      BY <2>1, OutFacts DEF IInv
    <2>4. /\ au.uri \in 1..Len(Stream.segs)
          /\ 0 <= au.ids[1] /\ au.ids[1] < au.ids[2] /\ au.ids[2] <= len
          /\ Cardinality(all) <= len
      BY <2>1, <2>2, <2>3 DEF IInv, OutInv, Bounded
    <2>5. same \subseteq all
      BY <2>1, <2>2, <2>3
    <2>6. IsFiniteSet(all)
      <3>1. IsFiniteSet(1..n)
        BY FS_Interval
      <3>2. all \subseteq 1..n
        BY <2>1
      <3> HIDE DEF all
      <3> QED BY <3>1, <3>2, FS_Subset
    <2>7. len \in Nat
      <3>1. Stream.segs \in Seq(Segment)
        BY StreamFacts DEF IInv, StreamType
      <3>2. Stream.segs[au.uri] \in Segment
        BY <2>4, <3>1
      <3> QED BY <3>2 DEF Segment, Fragment
    <2> HIDE DEF same, all, len
    <2>8. /\ IsFiniteSet(same) /\ Cardinality(same) <= Cardinality(all)
      BY <2>5, <2>6, FS_Subset
    <2>9. Cardinality(same) \in Nat /\ Cardinality(all) \in Nat
      BY <2>6, <2>8, FS_CardinalityType
    <2>10. Cardinality(same) <= len
      BY <2>4, <2>7, <2>8, <2>9
    <2> QED BY <2>4, <2>10 DEF same, len
  <1> QED BY <1>1, Inductive, PTL

\* reinitFMP4: through any sequence of initialization segments, the consumer was
\* told the configuration a frame needs before the frame.
THEOREM ConfigToldFirst == Spec => []CodecTold
  <1>1. IInv => CodecTold
    BY DEF IInv, OutInv
  <1> QED BY <1>1, Inductive, PTL

\* The Source interface (source.go): the source ends once, for the first cause
\* recorded; Wait returns that cause and only after the reader is done; no frame
\* is delivered after that.
THEOREM HlsIsSource == Spec => ImplementsSource
  <1>1. Init => Contract!Init
    <2> SUFFICES ASSUME Init PROVE Contract!Init
      OBVIOUS
    <2>1. IInv /\ pc["open"] = "start"
      BY InitIInv, ActorFacts, HlsAssumption DEF Init, LifecycleInit
    <2>2. ~Done
      BY <2>1 DEF IInv, ControlInv, Done
    <2>3. Len(delivered) \in Nat
      BY <2>1, OutFacts DEF IInv
    <2> QED BY <2>2, <2>3 DEF Init, LifecycleInit, Contract!Init, Done
  <1>2. IInv /\ [Next]_vars => [Contract!Next]_Contract!vars
    <2> SUFFICES ASSUME IInv, [Next]_vars PROVE [Contract!Next]_Contract!vars
      OBVIOUS
    <2>1. Invisible \/ Visible
      BY NextCases, VisibleStep DEF IInv
    <2>2. Invisible => UNCHANGED Contract!vars
      BY DEF Invisible, Contract!vars
    <2>3. Delivers => Contract!Deliver
      <3>1. ASSUME NEW e, delivered' = Append(delivered, e) PROVE Len(delivered') \in Nat
        BY <3>1, AppendFacts, OutFacts DEF IInv, SequenceInv
      <3> QED BY <3>1 DEF Delivers, Contract!Deliver, Done
    <2>4. Visible => Contract!Next
      BY <2>3 DEF Visible, Contract!Next, SourceCauses
    <2> QED BY <2>1, <2>2, <2>4
  <1> QED
    BY <1>1, <1>2, Inductive, PTL DEF Spec, ImplementsSource, Contract!Spec
=============================================================================
