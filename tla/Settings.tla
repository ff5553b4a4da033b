------------------------------ MODULE Settings ------------------------------
(***************************************************************************)
(* The settings of a request on their way from a client to an upstream:    *)
(* the cap on its answer, how hard to think, the form of the answer, where *)
(* to stop, and pxy's own keys (router.rs from the door to the send, the   *)
(* request half of each translator).                                       *)
(*                                                                         *)
(* A body is a function of the keys it has. Messages and tools are not in  *)
(* it (Histories, ToolOffer).                                              *)
(***************************************************************************)
EXTENDS Integers, SequencesExt

\* refresh.rs, EFFORTS: from least to most.
Levels == <<"none", "minimal", "low", "medium", "high", "xhigh", "max">>
Off == {"none", "off", "disabled"}

With(body, key, value) == (key :> value) @@ body
Without(body, keys) == Restrict(body, DOMAIN body \ keys)
Only(body, keys) == Restrict(body, DOMAIN body \cap keys)

\* What body has under key, put under another.
Taken(body, key, as) == IF key \in DOMAIN body THEN as :> body[key] ELSE <<>>

\* Where to stop, if anywhere.
Stops(body, key, as) == IF key \in DOMAIN body /\ body[key] = <<>> THEN <<>> ELSE Taken(body, key, as)

Enabled(budget) == [type |-> "enabled", budget_tokens |-> budget]

-----------------------------------------------------------------------------
(* At the door.                                                            *)

\* More than the budget, which counts against the cap.
Roomy(cap, budget) == IF cap <= budget THEN budget + 4096 ELSE cap

Budget(effort) == CASE effort \in {"low", "minimal"} -> 1024
                    [] effort = "medium" -> 8192
                    [] OTHER -> 16384

\* apply_model_variant: what the requested id asks for is written in the client's own dialect.
Varied(dialect, body, variant) ==
  CASE variant = "" -> body
    [] variant # "" /\ dialect = "chat" -> With(body, "reasoning_effort", variant)
    [] variant = "none" /\ dialect = "anthropic" -> Without(body, {"thinking"})
    [] variant \notin {"", "none"} /\ dialect = "anthropic" ->
         LET budget == Budget(variant)
             cap == IF "max_tokens" \in DOMAIN body THEN body.max_tokens ELSE 0
         IN  With(With(body, "thinking", Enabled(budget)), "max_tokens", Roomy(cap, budget))

-----------------------------------------------------------------------------
(* Between dialects.                                                       *)

\* anthropic_to_openai.rs, request.
EffortOf(budget) == CASE budget <= 1024 -> "low"
                      [] budget \in 1025 .. 10240 -> "medium"
                      [] budget > 10240 -> "high"

FromAnthropic(body) ==
  Only(body, {"max_tokens", "temperature", "top_p", "stream"})
  @@ Stops(body, "stop_sequences", "stop")
  @@ (IF "thinking" \in DOMAIN body /\ body.thinking.type = "enabled"
      THEN [reasoning_effort |-> EffortOf(body.thinking.budget_tokens)] ELSE <<>>)

\* A form of answer: "json_object", or a schema.
\* responses.rs, request.
FromResponses(body) ==
  Only(body, {"stream", "temperature", "top_p", "parallel_tool_calls", "max_tool_calls", "plugins"})
  @@ Taken(body, "max_output_tokens", "max_tokens")
  @@ (IF "reasoning" \in DOMAIN body THEN Taken(body.reasoning, "effort", "reasoning_effort") ELSE <<>>)
  @@ (IF "text" \in DOMAIN body THEN Taken(body.text, "format", "response_format") ELSE <<>>)

\* aisdk.rs, request: whether to stream is in a header.
AiSdkForm(body) == Taken(body, "responseFormat", "response_format")
FromAiSdk(body) ==
  [stream |-> body.stream] @@ Taken(body, "maxOutputTokens", "max_tokens") @@ AiSdkForm(body)

\* Thinking has a budget there, and a word that turns it off none.
Budgeted(body, cap) ==
  LET budget == Budget(body.reasoning_effort)
  IN  IF "reasoning_effort" \in DOMAIN body /\ body.reasoning_effort \notin Off
      THEN [thinking |-> Enabled(budget), max_tokens |-> Roomy(cap, budget)]
      ELSE [max_tokens |-> cap]

\* openai_to_anthropic.rs, request. limit: the most the model answers.
ToAnthropic(body, limit) ==
  LET cap == CASE "max_tokens" \in DOMAIN body -> body.max_tokens
               [] {"max_tokens", "max_completion_tokens"} \cap DOMAIN body = {"max_completion_tokens"} ->
                    body.max_completion_tokens
               [] {"max_tokens", "max_completion_tokens"} \cap DOMAIN body = {} -> limit
  IN  Only(body, {"temperature", "top_p", "stream"}) @@ Stops(body, "stop", "stop_sequences")
      @@ Budgeted(body, cap)

\* responses_upstream.rs, request.
ToResponses(body) ==
  Only(body, {"stream", "temperature", "top_p", "parallel_tool_calls"})
  @@ [store |-> FALSE]
  @@ (IF "max_tokens" \in DOMAIN body THEN Taken(body, "max_tokens", "max_output_tokens")
      ELSE Taken(body, "max_completion_tokens", "max_output_tokens"))
  @@ (IF "reasoning_effort" \in DOMAIN body
      THEN [reasoning |-> [effort |-> body.reasoning_effort, summary |-> "auto"]] ELSE <<>>)
  @@ (IF "response_format" \in DOMAIN body THEN [text |-> [format |-> body.response_format]] ELSE <<>>)

-----------------------------------------------------------------------------
(* For the upstream: [wire, native, limit, efforts, drops, force, ...].    *)

\* normalize_max_tokens_field: one cap, under the name the upstream reads.
Normalized(body, native) ==
  LET keep == IF native THEN "max_completion_tokens" ELSE "max_tokens"
      alias == IF native THEN "max_tokens" ELSE "max_completion_tokens"
  IN  Without(body, {alias}) @@ Taken(body, alias, keep)

\* attempt: an upstream may have to stream what the client gets in one piece.
Streamed(up, body) ==
  LET streams == up.force \/ ("stream" \in DOMAIN body /\ body.stream)
      forced == IF streams THEN With(body, "stream", TRUE) ELSE body
  IN  IF streams /\ up.wire # "anthropic"
      THEN forced @@ [stream_options |-> [include_usage |-> TRUE]] ELSE forced

Distance(a, b) == IF a < b THEN b - a ELSE a - b

\* clamp_effort: the listed level nearest to the one asked for, the higher of two.
Nearest(want, listed) ==
  CHOOSE n \in listed : \A k \in listed \ {n} :
    \/ Distance(n, want) < Distance(k, want)
    \/ Distance(n, want) = Distance(k, want) /\ k < n

Clamped(body, efforts) ==
  LET listed == {n \in DOMAIN Levels : Levels[n] \in efforts}
      asked == {n \in DOMAIN Levels : Levels[n] = body.reasoning_effort}
  IN  IF \/ "reasoning_effort" \notin DOMAIN body \/ listed = {}
         \/ asked = {} \/ asked \subseteq listed
      THEN body
      ELSE With(body, "reasoning_effort", Levels[Nearest(CHOOSE n \in asked : TRUE, listed)])

\* Keys whose value is an object.
Objects == {"thinking", "reasoning", "text", "format", "stream_options"}

\* remove_param_path: a parent left with nothing goes too.
RECURSIVE Removed(_, _)
Removed(body, path) ==
  LET key == path[1]
  IN  IF Len(path) = 1 THEN Without(body, {key})
      ELSE IF key \notin DOMAIN body \/ key \notin Objects THEN body
      ELSE LET child == Removed(body[key], Tail(path))
           IN  IF DOMAIN child = {} THEN Without(body, {key}) ELSE With(body, key, child)

\* drop_params: pxy's own keys stay, whatever is configured.
Pruned(body, drops) ==
  FoldLeft(Removed, body, SelectSeq(drops, LAMBDA path : path \notin {<<"model">>, <<"stream">>}))

\* A request as handle_chat is given it: of the two dialects it knows.
AtDoor(client, body) == CASE client = "responses" -> FromResponses(body)
                          [] client = "aisdk" -> FromAiSdk(body)
                          [] OTHER -> body
Spoken(client) == IF client = "anthropic" THEN "anthropic" ELSE "chat"

Translated(client, up, body) ==
  CASE up.wire = "anthropic" /\ client # "anthropic" -> ToAnthropic(body, up.limit)
    [] up.wire # "anthropic" /\ client = "anthropic" -> FromAnthropic(body)
    [] OTHER -> body

Named(up, body) == IF up.wire = "anthropic" THEN body ELSE Normalized(body, up.native)

\* What try_candidate_inner sends, in its order.  ask: [client, body, variant].
SentSettings(up, ask) ==
  LET payload == Varied(Spoken(ask.client), AtDoor(ask.client, ask.body), ask.variant)
      body == Without(Translated(ask.client, up, payload), {"max_tool_calls", "plugins"})
      ready == Pruned(Clamped(Streamed(up, Named(up, body)), up.efforts), up.drops)
  IN  IF up.wire = "responses" THEN ToResponses(ready) ELSE ready

-----------------------------------------------------------------------------
(* What is asked of the settings, read in each dialect.                    *)

Keys(wire) ==
  CASE wire = "anthropic" -> {"max_tokens", "stream", "temperature", "top_p", "stop_sequences", "thinking"}
    [] wire = "chat" -> {"max_tokens", "max_completion_tokens", "stream", "temperature", "top_p", "stop",
                         "reasoning_effort", "response_format", "parallel_tool_calls", "stream_options"}
    [] wire = "responses" -> {"max_output_tokens", "stream", "temperature", "top_p", "reasoning",
                              "text", "parallel_tool_calls", "store"}

Caps(body) ==
  {body[key] : key \in DOMAIN body \cap {"max_tokens", "max_completion_tokens", "max_output_tokens",
                                         "maxOutputTokens"}}
Forms(body) ==
  {body[key] : key \in DOMAIN body \cap {"response_format", "responseFormat"}}
  \cup (IF "text" \in DOMAIN body THEN {body.text.format} ELSE {})
StopsOf(body) == {body[key] : key \in DOMAIN body \cap {"stop", "stop_sequences"}} \ {<<>>}
EffortsOf(body) ==
  {body[key] : key \in DOMAIN body \cap {"reasoning_effort"}}
  \cup (IF "reasoning" \in DOMAIN body THEN {body.reasoning.effort} ELSE {})

\* How much thinking is asked for: a level, or a budget.
Amount(body) ==
  LET levels == {n \in DOMAIN Levels : Levels[n] \in EffortsOf(body) \ Off}
  IN  CASE levels # {} -> CHOOSE n \in levels : TRUE
        [] levels = {} /\ "thinking" \in DOMAIN body /\ "budget_tokens" \in DOMAIN body.thinking ->
               body.thinking.budget_tokens
        [] OTHER -> 0

\* As much as the name of the model asks for, where it does.
Wish(ask) ==
  CASE ask.variant = "" -> Amount(ask.body)
    [] ask.variant # "" /\ ask.client = "anthropic" ->
         IF ask.variant = "none" THEN 0 ELSE Budget(ask.variant)
    [] OTHER -> Amount([reasoning_effort |-> ask.variant])

Reaches(body, path) ==
  \/ Len(path) = 1 /\ path[1] \in DOMAIN body
  \/ Len(path) = 2 /\ path[1] \in DOMAIN body \cap Objects /\ path[2] \in DOMAIN body[path[1]]

AcceptsSettings(up, told) ==
  /\ DOMAIN told \subseteq Keys(up.wire)
  /\ \A key \in DOMAIN told \cap Objects : DOMAIN told[key] # {}
  /\ up.wire = "anthropic" =>
       /\ "max_tokens" \in DOMAIN told
       /\ told.max_tokens > (IF "thinking" \in DOMAIN told THEN Amount(told) ELSE 0)
  /\ up.wire = "chat" =>
       (IF up.native THEN "max_tokens" ELSE "max_completion_tokens") \notin DOMAIN told
  /\ up.efforts # {} => EffortsOf(told) \cap ToSet(Levels) \subseteq up.efforts
  /\ "stream_options" \in DOMAIN told => told.stream
  /\ \A path \in ToSet(up.drops) : Reaches(told, path) => path \in {<<"model">>, <<"stream">>}

\* An ask for thought makes room for it, nothing else moves a cap.
KeepsCap(up, ask, told) ==
  LET said == Caps(ask.body)
  IN  said # {} =>
        /\ Caps(told) # {}
        /\ \A cap \in Caps(told) \ said :
             /\ Wish(ask) > 0
             /\ \E budget \in {1024, 8192, 16384} : cap = budget + 4096 /\ \E c \in said : c <= budget

KeepsSettings(up, ask, told) ==
  /\ KeepsCap(up, ask, told)
  /\ up.efforts = {} /\ (\A path \in ToSet(up.drops) : path[1] \notin {"thinking", "reasoning_effort"}) =>
       (Amount(told) > 0 <=> Wish(ask) > 0)
  /\ up.wire # "anthropic" => Forms(told) = Forms(ask.body)
  /\ up.wire # "responses" => StopsOf(told) = StopsOf(ask.body)
  /\ "stream" \in DOMAIN ask.body => told.stream = (ask.body.stream \/ up.force)
=============================================================================
