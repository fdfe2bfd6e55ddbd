----------------------------- MODULE MCHlsSource ----------------------------
EXTENDS HlsSource

(* Transport streams.  A frame takes three cells, here and there across two  *)
(* packets or two segments.                                                 *)
Pkt(k) == [k |-> k, pid |-> 0, start |-> TRUE, cc |-> 0, splice |-> FALSE, bad |-> FALSE,
           hdr |-> 0, at |-> 0, es |-> <<>>, maps |-> 0, last |-> TRUE]
Pat == [Pkt("pat") EXCEPT !.maps = 1]
Pmt(types) == [Pkt("pmt") EXCEPT !.pid = 1, !.es = types, !.maps = 2]
Tables == <<Pat, Pmt(<<"video", "aac">>)>>
Moved(pkts) ==
    [i \in DOMAIN pkts |-> IF pkts[i].k = "pmt" THEN [pkts[i] EXCEPT !.maps = 3]
                           ELSE IF pkts[i].k = "audio" THEN [pkts[i] EXCEPT !.pid = 3]
                           ELSE pkts[i]]

Audio(cc, at, es) == [Pkt("audio") EXCEPT !.pid = 2, !.cc = cc, !.at = at, !.es = es]
Rest(cc, at, es) == [Audio(cc, at, es) EXCEPT !.start = FALSE]
Frame(c) == <<c, "x", "x">>
Frames(c) == Frame(c) \o Frame(c)

NoFragment == [len |-> 0, moof |-> FALSE, trafs |-> <<>>]
Seg(data) == [gap |-> FALSE, disc |-> FALSE, init |-> "", ts |-> data, frag |-> NoFragment]
Gap == [Seg(<<>>) EXCEPT !.gap = TRUE]
Disc(s) == [s EXCEPT !.disc = TRUE]

Base == [first |-> 1, segs |-> <<>>, inits |-> [u \in {} |-> 0], vod |-> FALSE,
         master |-> <<>>, lines |-> <<>>, relist |-> <<>>, update |-> FALSE, idle |-> FALSE]
Live(segs) == [Base EXCEPT !.segs = segs]
Vod(segs) == [Live(segs) EXCEPT !.vod = TRUE]

\* Segment k of a continuous stream: a frame, and the first cells of another
\* whose rest opens segment k + 1.
Cont(k) ==
    LET at == 6 * k - 5
    IN  Seg(Tables \o (IF k = 1 THEN <<>> ELSE <<Rest(3, at, <<"x">>)>>)
            \o <<Audio(0, at + 1, Frame("a")), Rest(1, at + 4, <<"a", "x">>)>>)
First1 == Seg(Tables \o <<Audio(0, 1, Frames("a"))>>)

\* Every kind of break inside one segment, between a frame cut short and the
\* tail of one whose head was lost.
Broken(p) ==
    Seg(Tables \o <<Audio(0, 1, Frames("a")), Rest(1, 7, <<"a">>)>> \o p
        \o <<Audio(1, 20, <<"x", "x">> \o Frames("a"))>>)
Breaks ==
    <<<<Rest(3, 12, <<"x", "x">>)>>,                                \* packets lost
     <<Rest(1, 7, <<"a">>), Rest(2, 8, <<"x", "x">>)>>,            \* one repeated
     <<[Rest(1, 12, <<"x", "x">>) EXCEPT !.splice = TRUE]>>,       \* announced
     <<[Rest(0, 12, <<>>) EXCEPT !.splice = TRUE], Rest(2, 12, <<"x", "x">>)>>,
     <<Pkt("error"), Pkt("null"), Pkt("garbage"), Rest(3, 12, <<"x", "x">>)>>,
     <<[Audio(2, 0, <<>>) EXCEPT !.hdr = 1], Rest(3, 7, <<"x", "x", "x">>)>>,
     <<[Audio(2, 10, <<>>) EXCEPT !.bad = TRUE], Rest(3, 11, <<"x">>), Rest(0, 12, <<"x">>)>>>>

\* A table in two packets, a continuation without a beginning, a pointer that
\* leads nowhere and a table without a program.
LongPat ==
    <<[Pat EXCEPT !.start = FALSE], [Pat EXCEPT !.last = FALSE], [Pat EXCEPT !.bad = TRUE],
     [Pat EXCEPT !.start = FALSE], [Pat EXCEPT !.maps = 0]>>

\* The audio moves to another PID in the middle of a frame.
Cut == Seg(Tables \o <<Audio(0, 1, Frames("a")), Rest(1, 7, <<"a">>)>>)
Elsewhere == Seg(Moved(Tables \o <<Audio(0, 20, <<"x", "x">> \o Frames("a"))>>))

TsStreams ==
    <<[Live(<<Cont(1), Cont(2), Cont(3), Cont(4)>>) EXCEPT !.idle = TRUE],
     Live(<<Cont(1), Gap, Cont(3), Gap, Cont(5)>>),
     Vod(<<Gap, First1, Disc(Seg(Tables \o <<Audio(0, 20, Frames("b"))>>))>>),
     Vod(<<Seg(Tables \o <<Audio(0, 1, <<"x", "x">> \o Frames("a"))>>),
           Disc(Seg(Tables \o <<Audio(0, 20, Frames("b"))>>))>>),
     Vod(<<First1, Seg(<<Pkt("garbage")>>)>>),
     Vod(<<First1, Seg(<<Pkt("scrambled")>>)>>),
     Vod(<<Seg(LongPat \o <<Pmt(<<"aac">>), Pmt(<<"mp3">>), Audio(0, 1, Frames("a"))>>)>>),
     Vod(<<Seg(<<Pmt(<<"aac">>), Pat, Pmt(<<"mp3">>)>>)>>),
     Vod(<<Seg(Tables)>>),
     Vod(<<Cut, Elsewhere>>), Vod(<<Cut, Disc(Elsewhere)>>), Vod(<<Cut, Gap, Elsewhere>>)>>
    \o [i \in DOMAIN Breaks |-> Vod(<<Broken(Breaks[i]), Cont(5)>>)]

(* Fragmented MP4. *)
Entry4(typ, asc) == [typ |-> typ, aac |-> typ = "mp4a", asc |-> asc]
Track(h, id, entries) == [handler |-> h, id |-> id, timescale |-> 1, entries |-> entries]
Moov(tracks) == [moov |-> TRUE, tracks |-> tracks, trex |-> [i \in {1} |-> 1]]
Sound(asc) == Moov(<<Track("vide", 2, <<>>), Track("soun", 1, <<Entry4("enca", asc), Entry4("mp4a", asc)>>)>>)
BadInits ==
    <<[Sound("a") EXCEPT !.moov = FALSE], Moov(<<>>), Moov(<<Track("soun", 1, <<>>)>>),
     Moov(<<Track("soun", 0, <<Entry4("mp4a", "a")>>)>>), Sound("none"),
     Moov(<<Track("soun", 1, <<Entry4("enca", "a")>>)>>)>>

Run(off, sizes, n) == [off |-> off, sizes |-> sizes, n |-> n]
Traf(base, size, truns) == [id |-> 1, base |-> base, size |-> size, truns |-> truns]
Frag(truns) == [len |-> 4, moof |-> TRUE, trafs |-> <<Traf(None, 0, truns)>>]
Good == Frag(<<Run(0, <<2, 1>>, 0)>>)
Fragments ==
    <<Good,
     Frag(<<Run(None, <<1>>, 0)>>),                             \* nowhere
     Frag(<<Run(2, <<1, 2>>, 0)>>),                             \* overruns
     Frag(<<Run(0, <<>>, 3), Run(0, <<>>, 3)>>),                \* over itself
     Frag(<<Run(0, <<>>, 9)>>),
     [Good EXCEPT !.trafs = <<Traf(1, 2, <<Run(None, <<>>, 1), Run(-1, <<0>>, 0)>>)>>],
     [Good EXCEPT !.trafs[1].id = 7], [Good EXCEPT !.moof = FALSE]>>

Seg4(uri, f) == [gap |-> FALSE, disc |-> FALSE, init |-> uri, ts |-> <<>>, frag |-> f]
Cmaf(segs, u, v) ==
    [Vod(segs) EXCEPT !.inits = [i \in {"u", "v"} |-> IF i = "u" THEN u ELSE v]]

Change(asc, update) ==
    [Cmaf(<<Seg4("u", Frag(<<Run(3, <<1, 1>>, 0)>>)), Seg4("v", Good), Seg4("u", Good)>>,
          Sound("a"), Sound(asc)) EXCEPT !.update = update]

Fmp4Streams ==
    [i \in DOMAIN Fragments |->
        Cmaf(<<Seg4("u", Good), Seg4("u", Fragments[i]), Seg4("u", Good)>>, Sound("a"), Sound("a"))]
    \o [i \in DOMAIN BadInits |-> Cmaf(<<Seg4("u", Good)>>, BadInits[i], Sound("a"))]
    \o <<Change("a", FALSE), Change("b", FALSE), Change("b", TRUE),
         Cmaf(<<Seg4("u", Good), Seg4("v", Good)>>, Sound("a"), Sound("none")),
         Cmaf(<<First1, Seg4("u", Good)>>, Sound("a"), Sound("a"))>>

(* Playlists. *)
V(bw, group, uri) == L("variant", [bw |-> bw, group |-> group, uri |-> "none"])
A(group, dflt, uri) == L("audio", [group |-> group, dflt |-> dflt, uri |-> uri])
Master == <<L("m3u", ""), A("g", FALSE, "en"), A("g", TRUE, "fr"),
            V(2, "", ""), L("uri", "hi"), V(1, "g", ""), L("uri", "lo")>>
One == <<L("m3u", ""), L("target", "ok"), L("extinf", "ok"), L("uri", 1)>>
BadBodies ==
    <<<<L("other", "")>>, <<L("m3u", ""), L("target", "bad")>>, <<L("m3u", ""), L("uri", 1)>>,
     <<L("m3u", ""), L("endlist", "")>>, One \o <<L("key", "aes")>>, One \o <<L("byterange", "")>>,
     One \o <<L("map", "range")>>, One \o <<L("map", "")>>, One \o <<L("extinf", "bad")>>,
     One \o <<L("extinf", "ok"), L("uri", 1), L("extinf", "ok"), L("uri", 1), L("extinf", "ok"),
              L("uri", 1)>>,
     One \o <<A("g", TRUE, "en")>>>>

\* A jump of the numbers past what an int holds, and a gap on top of it.
Far == <<L("m3u", ""), L("target", "ok"), L("seq", MaxSeqNo - 2), L("gap", ""),
         L("extinf", "ok"), L("uri", 1), L("extinf", "ok"), L("uri", 2)>>

Short == Live(<<First1, Cont(2), Cont(3)>>)
ListStreams ==
    <<[Short EXCEPT !.master = Master], [Short EXCEPT !.master = Master, !.lines = Master],
     [Short EXCEPT !.master = <<L("m3u", ""), A("g", TRUE, "")>>],
     [Short EXCEPT !.master = <<L("m3u", ""), A("g", TRUE, "en")>>],
     [Short EXCEPT !.master = <<L("other", "")>>],
     [Short EXCEPT !.relist = Master], [Short EXCEPT !.relist = One \o <<L("key", "none")>>],
     [Short EXCEPT !.relist = <<L("m3u", ""), A("g", TRUE, "")>>],
     [Short EXCEPT !.relist = <<L("m3u", "")>>],
     [Short EXCEPT !.relist = Far],
     [Short EXCEPT !.first = MaxSeqNo - 2], [Short EXCEPT !.first = MaxSeqNo - 1],
     Live(<<Gap, Gap>>), Vod(<<Gap, Gap>>)>>
    \o [i \in DOMAIN BadBodies |-> [Short EXCEPT !.lines = BadBodies[i]]]

MCStreams == TsStreams \o Fmp4Streams \o ListStreams
MCWorkers == {"open", "reader", "watchdog"}
=============================================================================
