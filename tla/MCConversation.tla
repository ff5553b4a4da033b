--------------------------- MODULE MCConversation ---------------------------
EXTENDS Conversation

Up(wire) == [wire |-> wire, replay |-> FALSE, native |-> FALSE, marks |-> FALSE, vision |-> TRUE,
             limit |-> 4096, efforts |-> {}, drops |-> <<>>, force |-> FALSE]

MCUpstreams ==
  {Up("chat"),
   [Up("chat") EXCEPT !.replay = TRUE, !.vision = FALSE, !.efforts = {"none", "high"}, !.force = TRUE,
                      !.drops = <<<<"stream_options", "include_usage">>, <<"model">>>>],
   [Up("responses") EXCEPT !.native = TRUE, !.efforts = {"low", "max"},
                           !.drops = <<<<"parallel_tool_calls">>, <<"stream">>>>],
   [Up("anthropic") EXCEPT !.force = TRUE],
   [Up("anthropic") EXCEPT !.replay = TRUE, !.marks = TRUE,
                           !.drops = <<<<"thinking", "type">>, <<"thinking", "budget_tokens">>>>],
   [Up("advisor") EXCEPT !.vision = FALSE]}

Reply == [think |-> "none", text |-> "none", calls |-> 0, tail |-> "none", served |-> FALSE]

MCReplies ==
  {[Reply EXCEPT !.text = "trailing"],
   [Reply EXCEPT !.think = "plain", !.text = "word", !.calls = 2],
   [Reply EXCEPT !.think = "signed", !.calls = 1],
   [Reply EXCEPT !.think = "plain", !.text = "empty"],
   [Reply EXCEPT !.think = "signed", !.text = "empty"],
   [Reply EXCEPT !.text = "word", !.calls = 1, !.tail = "word"],
   [Reply EXCEPT !.text = "blank"],
   [Reply EXCEPT !.calls = 2, !.served = TRUE]}

Remark == [text |-> "word", image |-> FALSE, early |-> FALSE, mark |-> FALSE]

MCRemarks == {Remark, [Remark EXCEPT !.image = TRUE], [Remark EXCEPT !.text = "empty"],
              [Remark EXCEPT !.early = TRUE], [Remark EXCEPT !.text = "empty", !.mark = TRUE],
              [Remark EXCEPT !.mark = TRUE]}

\* Settings as a client of each dialect writes them.
Efforts == ToSet(Levels) \cup {"off", ""}
If(holds, part) == IF holds THEN part ELSE <<>>

ChatBody(effort, caps, stop) ==
  [stream |-> FALSE, plugins |-> "file-parser", response_format |-> "json_object"]
  @@ Only([max_tokens |-> 500, max_completion_tokens |-> 9000], caps)
  @@ If(effort # "", [reasoning_effort |-> effort]) @@ If(stop, [stop |-> <<"END">>])
ResponsesBody(effort, caps) ==
  [stream |-> TRUE, parallel_tool_calls |-> TRUE, max_tool_calls |-> 5]
  @@ If(caps # {}, [max_output_tokens |-> 500, text |-> [format |-> "json_object"]])
  @@ If(effort # "", [reasoning |-> [effort |-> effort]])
AnthropicBody(budget, stop) ==
  [max_tokens |-> 12000, temperature |-> 1]
  @@ If(budget > 0, [thinking |-> Enabled(budget)]) @@ If(stop, [stop_sequences |-> <<>>])
AiSdkBody(cap) == [stream |-> TRUE] @@ If(cap, [maxOutputTokens |-> 500, responseFormat |-> "schema"])

Variants == {"", "none", "minimal", "medium", "xhigh"}
Ask(name, body, variant) == [client |-> name, body |-> body, variant |-> variant]

MCAsks ==
  {Ask("chat", ChatBody(effort, caps, caps = {}), variant) :
     effort \in Efforts, caps \in SUBSET {"max_tokens", "max_completion_tokens"}, variant \in {"", "high"}}
  \cup {Ask("responses", ResponsesBody(effort, caps), variant) :
          effort \in Efforts, caps \in {{}, {"max_output_tokens"}}, variant \in {"", "none"}}
  \cup {Ask("anthropic", AnthropicBody(budget, budget > 1024), variant) :
          budget \in {0, 1024, 1025, 10240, 10241}, variant \in Variants}
  \cup {Ask("aisdk", AiSdkBody(cap), variant) : cap \in BOOLEAN, variant \in Variants}
=============================================================================
