-------------------------------- MODULE Fmp4 --------------------------------
(***************************************************************************)
(* The fMP4 demuxer of the HLS source (hlssource/fmp4demux.go) and the ISO *)
(* BMFF reader under it (internal/mp4).  An initialization segment is a    *)
(* record [moov, tracks, trex], a track [handler, id, timescale, entries], *)
(* a sample entry [typ, aac, asc]; a media fragment is [len, moof, trafs], *)
(* a track fragment [id, base, size, truns], a run [off, sizes, n]: sizes  *)
(* when it lists them, n samples of the default size when it does not.     *)
(* Lengths and offsets count cells; 0 stands for an absent default, None   *)
(* for an absent offset.                                                   *)
(***************************************************************************)
EXTENDS Integers, Sequences

None == -1000

\* A trun, a traf, a media segment, and the defaults an init segment declares.
TrackRun == [off : Int, sizes : Seq(Nat), n : Nat]
TrackFragment == [id : Nat, base : Int, size : Nat, truns : Seq(TrackRun)]
Fragment == [len : Nat, moof : BOOLEAN, trafs : Seq(TrackFragment)]

InitType(b) == \A i \in DOMAIN b.trex : b.trex[i] \in Nat

Init4(err, asc, id, size) == [err |-> err, asc |-> asc, id |-> id, size |-> size]
NoInit(err) == Init4(err, "none", 0, 0)

FirstOf(S) == CHOOSE i \in S : \A j \in S : i <= j

\* parseSTSDForASC: the first mp4a entry decides, else why there is none.
ParseSTSD(entries) ==
    LET M == {i \in DOMAIN entries : entries[i].typ = "mp4a"}
        e == entries[FirstOf(M)]
    IN  IF M # {} THEN IF ~e.aac THEN NoInit("unsupportedCodec")
                       ELSE IF e.asc = "none" THEN NoInit("malformedSegment")
                       ELSE Init4("ok", e.asc, 0, 0)
        ELSE NoInit(IF entries = <<>> THEN "malformedSegment" ELSE "unsupportedCodec")

\* parseTrak for the first track whose handler is 'soun'.
ParseTrak(t) ==
    LET e == ParseSTSD(t.entries)
    IN  IF t.id = 0 THEN NoInit("malformedSegment")
        ELSE IF e.err # "ok" THEN e
        ELSE IF t.timescale = 0 THEN NoInit("malformedSegment")
        ELSE [e EXCEPT !.id = t.id]

\* ParseInit, under mapMP4Err; trex[id] is a track's default sample size.
ParseInit(b) ==
    LET A == {i \in DOMAIN b.tracks : b.tracks[i].handler = "soun"}
        r == ParseTrak(b.tracks[FirstOf(A)])
    IN  IF ~b.moov \/ A = {} THEN NoInit("malformedSegment")
        ELSE IF r.err = "ok" /\ r.id \in DOMAIN b.trex THEN [r EXCEPT !.size = b.trex[r.id]]
        ELSE r

\* A walk over runs: the data pointer, whether it is located, what was sliced.
Walk(ptr, located, left, out, st) ==
    [ptr |-> ptr, located |-> located, left |-> left, out |-> out, st |-> st]

\* One sample of size n at the pointer.
SliceSample(w, n, len) ==
    IF w.st # "ok" THEN w
    ELSE IF n = 0 \/ w.ptr < 0 \/ w.ptr + n > len THEN [w EXCEPT !.st = "short"]
    ELSE IF w.left = 0 THEN [w EXCEPT !.st = "malformedSegment"]
    ELSE Walk(w.ptr + n, w.located, w.left - 1,
              Append(w.out, [from |-> w.ptr, to |-> w.ptr + n]), "ok")

\* Mutant of Budget: every run starts with the whole of it.
BudgetPerRun(w, len) == [w EXCEPT !.left = len]

\* The bound on samples spans the fragment, not one run.
Budget(w, len) == w

\* parseTrun.
ParseTrun(w, r, base, size, len) ==
    LET sizes == IF r.sizes # <<>> THEN r.sizes ELSE [i \in 1..r.n |-> size]
        placed == [Budget(w, len) EXCEPT !.ptr = IF r.off = None THEN @ ELSE base + r.off,
                                         !.located = @ \/ r.off # None]
        S[i \in 0..Len(sizes)] ==
            IF i = 0 THEN placed ELSE SliceSample(S[i - 1], sizes[i], len)
    IN  IF ~placed.located \/ (r.sizes = <<>> /\ r.n > len)
        THEN [w EXCEPT !.st = "malformedSegment"]
        ELSE S[Len(sizes)]

\* parseTraf: the runs share one pointer, base and defaults.
ParseTraf(t, init, len) ==
    LET base == IF t.base = None THEN 0 ELSE t.base
        size == IF t.size # 0 THEN t.size ELSE init.size
        R[i \in 0..Len(t.truns)] ==
            IF i = 0 THEN Walk(base, t.base # None, len, <<>>, "ok")
            ELSE LET w == R[i - 1]
                 IN  IF w.st = "ok" THEN ParseTrun(w, t.truns[i], base, size, len) ELSE w
    IN  R[Len(t.truns)]

\* ParseFragment; the moof is at position 0.
ParseFragment(init, f) ==
    LET T == {i \in DOMAIN f.trafs : f.trafs[i].id = init.id}
    IN  IF ~f.moof \/ T = {} THEN Walk(0, FALSE, 0, <<>>, "malformedSegment")
        ELSE ParseTraf(f.trafs[FirstOf(T)], init, f.len)

\* demux: data that overruns the fragment is a counted gap, not an error.
DemuxFragment(d, f) ==
    LET w == ParseFragment(d.init, f)
    IN  [d |-> [d EXCEPT !.gaps = @ + (IF w.st = "short" THEN 1 ELSE 0)],
         aus |-> [i \in DOMAIN w.out |->
                     [ids |-> <<w.out[i].from, w.out[i].to>>, cfg |-> d.init.asc]],
         err |-> IF w.st = "short" THEN "ok" ELSE w.st]
=============================================================================
