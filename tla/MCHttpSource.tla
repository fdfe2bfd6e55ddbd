---------------------------- MODULE MCHttpSource ----------------------------
EXTENDS HttpSource

\* What every scenario starts from: an MP3 body without credentials.
Base == [creds |-> FALSE, safe |-> FALSE, shape |-> TRUE, idle |-> FALSE,
         type |-> "mp3", riff |-> "other", chunks |-> <<>>, body |-> <<>>]

Chk(id, size, form) == [id |-> id, size |-> size, form |-> form]
Pcm == Chk("fmt", 2, "pcm")
Wav(chunks) == [Base EXCEPT !.type = "wav", !.riff = "riff", !.chunks = chunks,
                            !.body = <<"x", "x", "x", "x", "x">>]

WavScenarios ==
    {[Wav(<<Chk("junk", 1, "pcm"), Pcm, Chk("data", 3, "pcm")>>) EXCEPT !.idle = TRUE],
     Wav(<<Chk("fmt", 5, "ext"), Chk("data", 0, "pcm")>>),
     Wav(<<Chk("fmt", 3, "ext"), Chk("data", 4, "pcm")>>),
     Wav(<<Chk("fmt", 2, "unsupported")>>),
     Wav(<<Chk("junk", 4, "pcm"), Chk("fmt", 5, "pcm")>>),
     Wav(<<Chk("junk", 2, "pcm"), Chk("junk", 5, "pcm")>>),
     Wav(<<Chk("junk", 2, "pcm"), Chk("junk", 4, "pcm"), Pcm>>),
     Wav(<<Chk("data", 2, "pcm")>>),
     Wav(<<Pcm>>),
     [Wav(<<Pcm, Chk("data", 2, "pcm")>>) EXCEPT !.type = "sniff"],
     [Base EXCEPT !.type = "wav"],
     [Base EXCEPT !.type = "sniff", !.riff = "rf64"],
     [Base EXCEPT !.type = "sniff", !.body = <<"x">>],
     [Base EXCEPT !.type = "sniff", !.body = <<"x", "x">>, !.shape = FALSE],
     [Base EXCEPT !.type = "l16", !.body = <<"x", "x", "x">>],
     [Base EXCEPT !.type = "other"]}

Mp3(b) == [Base EXCEPT !.body = b]
Aac(b) == [Base EXCEPT !.type = "aac", !.body = b]

\* Leading garbage, a tag between frames, a change of configuration, a frame
\* cut short, a sync that is none, several blocks in one frame, no body at all.
FramedScenarios ==
    {Mp3(<<"x", "x", "a", "x", "x", "a", "x", "x", "b", "x", "x">>),
     Mp3(<<"t", "x", "x", "a", "x", "x", "t", "x", "x", "a", "x", "x", "a", "x", "x">>),
     Mp3(<<"a", "x", "a", "x", "x", "a", "x", "x", "a", "x">>),
     Aac(<<"t", "x", "x", "a", "x", "x", "a", "x", "x", "m", "x", "x", "a", "x", "x">>),
     Aac(<<"a", "x", "a", "x", "x", "a", "x", "x", "x", "b", "x", "x", "b", "x", "x">>),
     Aac(<<"x", "b", "x", "x", "x", "x", "x">>),
     Aac(<<"T", "x", "x">>),
     Aac(<<"t", "x">>),
     Aac(<<>>)}

AuthScenarios ==
    {[Mp3(<<"a", "x", "x">>) EXCEPT !.creds = TRUE, !.safe = b] : b \in BOOLEAN}

MCScenarios == WavScenarios \cup FramedScenarios \cup AuthScenarios

R(status, challenges, stale_) ==
    [status |-> status, challenges |-> challenges, stale |-> stale_]
MCReplies ==
    {R("200", {}, FALSE), R("3xx", {}, FALSE),
     R("401", {"md5", "basic"}, TRUE), R("401", {"sha256"}, FALSE), R("401", {"basic"}, FALSE)}

MCWorkers == {"open", "timer", "bridge", "reader", "watchdog"}
=============================================================================
