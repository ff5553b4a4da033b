------------------------------ MODULE MCStores ------------------------------
EXTENDS Stores, TLC

Alike == Permutations(Callers) \cup Permutations(Finders) \cup Permutations(Attempts)

\* A page with a text, one without; both are parsed, or one.
MCDocuments == "a" :> <<"blank", "typed">>

MCPaths == {<<>>, <<"a">>, <<"d">>, <<"d", "a">>}

\* Lines "y" and "xx"; "x" stands once in a file, twice, or over itself.
MCTexts == {<<"y", NL>>, <<"x", "x">>}
MCSought == {<<>>, <<"x">>, <<"x", NL>>}

MCTrees ==
  {[p \in MCPaths |-> None],
   [p \in MCPaths |-> IF p = Root THEN File(<<"y">>) ELSE None],
   [p \in MCPaths |-> CASE p = <<"a">> -> File(<<"x", NL, "y">>)
                        [] p = <<"d", "a">> -> File(<<"x", NL, "x", NL>>)
                        [] OTHER -> Dir]}

\* Spellings of m; "-free" behind "-latest" comes off first, before it not at all.
M == <<"m">>
MFree == <<"a", "/", "m", ":free">>
MLatest == <<"claude-", "m", "-latest", "-free">>
MOdd == <<"m", "-free", "-latest">>
N == <<"n">>

Rec(id, prompt, completion, free, window) ==
  [id |-> id, prompt |-> prompt, completion |-> completion, free |-> free, window |-> window]

\* Nothing; one model under two ids; one id twice, and a free one; what is odd.
MCListings ==
  {<<>>,
   <<Rec(M, "zero", "zero", FALSE, 0), Rec(MFree, "none", "none", FALSE, -1)>>,
   <<Rec(N, "none", "none", FALSE, -1), Rec(N, "zero", "paid", TRUE, 8), Rec(MLatest, "none", "none", FALSE, -1)>>,
   <<Rec(MOdd, "none", "zero", TRUE, 9), Rec(N, "none", "none", FALSE, 0)>>}

\* Two resellers of m disagree; n can only be toggled.
MCEntries ==
  <<[id |-> <<"b", "/", "m">>, tools |-> "yes", efforts |-> {"high", "low", "ultra"}, window |-> 5],
    [id |-> MFree, tools |-> "no", efforts |-> {}, window |-> 7],
    [id |-> N, tools |-> "unknown", efforts |-> {}, window |-> 0]>>

P(enabled, discover, chat, configured) ==
  [enabled |-> enabled, discover |-> discover, models_url |-> FALSE, chat |-> chat, configured |-> configured]

MCProviders == ("p" :> P(TRUE, TRUE, TRUE, {M, MOdd})) @@ ("q" :> [P(TRUE, TRUE, FALSE, {N}) EXCEPT !.models_url = TRUE])
               @@ ("r" :> P(TRUE, TRUE, TRUE, {})) @@ ("s" :> P(TRUE, TRUE, FALSE, {M}))
               @@ ("t" :> P(FALSE, TRUE, TRUE, {M})) @@ ("u" :> P(TRUE, FALSE, TRUE, {M}))

\* A chat leg and a media leg, of one provider.
MCLegs == "chat" :> [agent |-> "codex", provider |-> "p", model |-> "m", input |-> 2]
MCMediaLegs == "media" :> [agent |-> "other", provider |-> "p", model |-> "n"]

\* Rows that differ in what a report may tell apart.
Row(at, of, outcome, ms, input) == [at |-> at, of |-> of, outcome |-> outcome, ms |-> ms, input |-> input]

MCRows == {Row(at, of, outcome, IF of = "media" THEN 1 ELSE 2 + at, IF of = "media" THEN 0 ELSE at)
             : at \in {0, 2}, of \in {"chat", "media"}, outcome \in {"truncated", "http", "dead"}}

MCTables == UNION {[1 .. n -> MCRows] : n \in 1 .. 3}
=============================================================================
