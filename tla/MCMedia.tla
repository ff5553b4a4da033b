------------------------------ MODULE MCMedia ------------------------------
(* Two requests at a time of ten sorts, over chains of one and two candidates. *)
EXTENDS Media

C(p, m, k) == [provider |-> p, model |-> m, kind |-> k]
A(cap, want, chain) == [cap |-> cap, want |-> want, chain |-> chain]

MCSlots == {1, 2}
MCCap == [p \in {"A", "B"} |-> 1]
MCAsks ==
  { A("image", TRUE, <<C("A", "m", "cloudflare"), C("B", "m", "dashscope")>>),
    A("image", FALSE, <<C("A", "m", "openai")>>),
    A("speech", FALSE, <<C("A", "s", "dashscope"), C("B", "s", "cloudflare")>>),
    A("transcription", FALSE, <<C("B", "t", "meta")>>),
    A("rerank", FALSE, <<C("A", "r", "voyage")>>),
    A("systemone", FALSE, <<C("B", "j", "cloudflare"), C("B", "k", "vercel")>>),
    A("video", FALSE, <<C("A", "v", "job"), C("B", "v", "job")>>),
    A("search", FALSE, <<C("A", "", "brave"), C("B", "", "jina")>>),
    A("fetch", FALSE, <<C("B", "", "jina")>>),
    A("image", FALSE, <<>>) }
=============================================================================
