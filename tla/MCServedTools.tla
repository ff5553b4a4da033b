---------------------------- MODULE MCServedTools ----------------------------
EXTENDS ServedTools

Plain == [cap |-> -1, model |-> "absent", results |-> -1, total |-> -1, panel |-> <<>>,
          forward |-> FALSE, engine |-> "auto"]
Declared(kind, name, held) ==
  [kind |-> kind, name |-> name, deferred |-> held, pxy |-> TRUE, params |-> Plain]
Fn(name) == Declared("own", name, FALSE)
Deferred(name) == Declared("own", name, TRUE)
Tool(name) == Declared("served", name, FALSE)

Search == [Tool("web_search") EXCEPT !.pxy = FALSE, !.params.total = 3, !.params.results = 2,
                                     !.params.cap = 3]
Finder == [Tool("tool_search") EXCEPT !.params.cap = 1, !.params.results = 1]
Advise == [Tool("advisor") EXCEPT !.params.model = "mentor"]
Describe == [Tool("describe_image") EXCEPT !.params.model = "eye"]

Request(tools, choice, budget) ==
  [tools |-> tools, choice |-> choice, budget |-> budget, used |-> {}, found |-> {}]

MCPayloads == {
  Request(<<Search, Tool("web_search"), Fn("a")>>, <<"fn", "bare", "web_search">>, 3),
  Request(<<Search>>, <<"required">>, -1),
  Request(<<Finder, Deferred("a"), Deferred("b"), Fn("c")>>, <<>>, 3),
  Request(<<Deferred("a"), Finder, Deferred("b")>>, <<"fn", "own", "b">>, 1),
  Request(<<Finder, Deferred("a"), Deferred("b")>>, <<"fn", "bare", "tool_search">>, -1),
  Request(<<Deferred("a"), Fn("c"), Tool("verify")>>, <<"fn", "bare", "verify">>, -1),
  Request(<<Advise, Describe, Fn("a")>>, <<>>, 2),
  Request(<<Tool("advisor"), Tool("subagent")>>, <<"auto">>, 1),
  Request(<<Tool("fusion")>>, <<"required">>, 0),
  Request(<<Search, Fn("a")>>, <<"none">>, -1),
  Request(<<Fn("a"), Declared("hosted", "computer", FALSE)>>, <<>>, -1),
  Request(<<Fn("a"), Tool("memory")>>, <<>>, -1)}

MCCandidates == {[wire |-> "openai", calls |-> TRUE, vision |-> FALSE],
                 [wire |-> "openai", calls |-> FALSE, vision |-> TRUE],
                 [wire |-> "anthropic", calls |-> TRUE, vision |-> TRUE]}

MCEnabled == {"web_search", "tool_search", "advisor", "subagent", "fusion", "describe_image",
              "datetime", "verify"}
MCAble == MCEnabled \ {"verify"}
MCMeta == {"advisor", "subagent", "fusion", "describe_image"}
MCDefaults == <<[Tool("datetime") EXCEPT !.params.cap = 0]>>

Args == [given |-> TRUE, model |-> "absent", image |-> 0, limit |-> -1]
None == [Args EXCEPT !.given = FALSE]

MCArguments ==
  [t \in MCEnabled |->
     CASE t = "tool_search" -> {Args, [Args EXCEPT !.limit = 9]}
       [] t = "advisor" -> {[Args EXCEPT !.model = "own choice"], None}
       [] t = "describe_image" -> {[Args EXCEPT !.image = 2], [Args EXCEPT !.image = 3], Args}
       [] t \in {"web_search", "datetime"} -> {Args, None}
       [] OTHER -> {Args}]
MCPanel == <<"p", "q">>
=============================================================================
