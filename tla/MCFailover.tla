----------------------------- MODULE MCFailover -----------------------------
(* Three candidates over two provider accounts: two free models of the first  *)
(* account, of which the second has the larger window and speaks Anthropic,   *)
(* and a paid model elsewhere.                                                *)
EXTENDS Failover

CONSTANTS p1, p2, m1, m2, free1, free2, paid

ChainCands == {free1, free2, paid}
ChainKeys == [c \in ChainCands |-> IF c = paid THEN p2 ELSE p1]
ChainModels == [c \in ChainCands |-> IF c = free2 THEN m2 ELSE m1]
ChainWindows == [c \in ChainCands |-> IF c = free1 THEN 1 ELSE 2]

\* A network failure of an earlier request still cools the first account.
NetworkBlock ==
  {<<<<p1, AnyModel>>, [left |-> 2, level |-> 1, retryable |-> TRUE], "other">>}

WindowSpans == [w \in {"5h", "week", "month"} |-> IF w = "5h" THEN 3 ELSE 4]

\* Nothing is spent; a window; a rate, with its reset and without; allowances, over a
\* window as well.
SomeReports ==
  LET Says(q, reset, f, p) == [quota |-> q, reset |-> reset, free |-> f, plan |-> p]
  IN  {Says("none", NoHint, NotSpent, NotSpent), Says("5h", NoHint, NotSpent, NotSpent),
       Says("rate", 1, NotSpent, NotSpent), Says("rate", NoHint, NotSpent, NotSpent),
       Says("none", NoHint, 3, NotSpent), Says("month", NoHint, 3, 1)}

WholeChain == {<<free1, free2, paid>>}
ChainAndSingle == {<<free1, free2, paid>>, <<free1>>}
PairAndSingle == {<<free1, paid>>, <<free1>>}
=============================================================================
