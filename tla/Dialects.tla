------------------------------ MODULE Dialects ------------------------------
(***************************************************************************)
(* A streamed turn on its way from the dialect of an upstream to that of   *)
(* a client: the translator of the upstream's events, the relay of         *)
(* router.rs (StreamCtx), and the translator of the client's.  An upstream *)
(* says what its dialect allows, breaks off, or has a search served; the   *)
(* client reads one event at a time.                                       *)
(***************************************************************************)
EXTENDS Translators, TextFilters,
        FiniteSets

CONSTANTS
  Routes,     \* [up, client, snapshot, reads, says]: the dialects, whether the upstream
              \* resends all arguments of a call with each part, the filter its text goes
              \* through, and the bound of what it says
  MaxCalls,   \* bound of the model: calls of a turn
  MaxSaid,    \* bound of the model: pieces and items any upstream sends
  HoldCap,    \* HOLD_CAP: what tool_text.rs buffers of a call
  MaxServed   \* bound of the model: searches served in a turn

Calls == 1 .. MaxCalls

ASSUME DialectsAssumption ==
  /\ Routes \subseteq [up : {"chat", "anthropic", "responses"},
                       client : {"anthropic", "responses", "aisdk", "json"},
                       snapshot : BOOLEAN, reads : {"plain", "think", "calls"},
                       says : 0 .. MaxSaid]
  \* An Anthropic client of an Anthropic upstream reads the upstream's own bytes.
  /\ \A r \in Routes : r.up = "anthropic" => r.client # "anthropic"
  \* A reply collected from an Anthropic upstream goes another way.
  /\ \A r \in Routes : r.up = "anthropic" => r.client # "json"
  /\ \A r \in Routes : r.snapshot => r.up = "chat" /\ r.client = "anthropic"
  \* The filters sit behind an OpenAI upstream.
  /\ \A r \in Routes : r.reads # "plain" => r.up = "chat" /\ ~r.snapshot
  /\ {MaxCalls, MaxSaid, MaxServed, HoldCap} \subseteq Nat

VARIABLES
  route,   \* the dialects: fixed
  up,      \* what the upstream has said
  sent,    \* the pieces it has sent, of text, of thought and of each call
  in,      \* what of it pxy has not handled yet
  mid,     \* the translator of the upstream's dialect, or the filter of its text
  relay,   \* client_done and terminated of StreamCtx
  tr,      \* the translator of the client's dialect
  out,     \* events on their way to the client
  view     \* what the client made of them

vars == <<route, up, sent, in, mid, relay, tr, out, view>>

Indexes == 0 .. 2 * (MaxSaid + MaxServed)
Whats == {TEXT, THINK, SERVED} \cup 0 .. MaxCalls  \* 0 has no name
Pieces == VALID .. MaxSaid  \* with the tokens of TextFilters

TypeOK ==
  /\ route \in Routes
  /\ up.stage \in {"fresh", "saying", "finished", "over"}
  /\ up.said \in 0 .. MaxSaid /\ up.served \in 0 .. MaxServed
  /\ up.begun \subseteq Calls /\ up.known \subseteq up.begun /\ up.named \subseteq up.begun
  /\ sent \in [{TEXT, THINK} \cup Calls -> Seq(Pieces)]
  /\ relay \in [done : BOOLEAN, terminated : BOOLEAN]
  \* A call reaches the client's translator under the number it has among the calls.
  /\ route.client \in {"responses", "json"} /\ route.reads # "calls" =>
       DOMAIN tr.tools \subseteq {k - 1 : k \in up.begun}
  /\ view.stage \in {"before", "open", "ended"}
  /\ DOMAIN view.body \subseteq Indexes /\ view.closed \subseteq Indexes
  /\ view.read \in [Whats -> Seq(Pieces)]

NoView ==
  [stage |-> "before", body |-> [i \in {} |-> 0], closed |-> {}, told |-> [i \in {} |-> 0],
   what |-> [i \in {} |-> 0], read |-> [w \in Whats |-> <<>>], calls |-> {}, why |-> "none",
   fault |-> FALSE, message |-> MFresh]

\* "json" is a client that asked for no stream.
TrFresh(client) ==
  CASE client = "anthropic" -> AFresh
    [] client = "responses" -> RFresh
    [] client = "aisdk" -> SFresh
    [] client = "json" -> JFresh

MidFresh == CASE route.up = "anthropic" -> FFresh [] route.up = "responses" -> GFresh
              [] route.up = "chat" /\ route.reads = "plain" -> "chat"
              [] route.reads = "think" -> ThinkFresh
              [] route.reads = "calls" -> CallTextFresh

Init ==
  /\ route \in Routes
  /\ up = [stage |-> "fresh", said |-> 0, block |-> NoBlock, style |-> "none", begun |-> {}, known |-> {},
           named |-> {}, items |-> 0, served |-> 0, why |-> "none", broke |-> FALSE]
  /\ sent = [w \in {TEXT, THINK} \cup Calls |-> <<>>]
  /\ in = <<>>
  /\ mid = MidFresh
  /\ relay = [done |-> FALSE, terminated |-> FALSE]
  /\ tr = TrFresh(route.client)
  /\ out = <<>>
  /\ view = NoView

-----------------------------------------------------------------------------
(* The relay and the client's translator. *)

\* process: what becomes of a chunk.  The tail of an OpenAI upstream is completed when it
\* has no finish reason.
Passed(r, c) ==
  CASE r.terminated -> Step(r, <<>>)
    [] ~r.terminated /\ c.t = "done" /\ route.client = "anthropic" ->
         Step([r EXCEPT !.terminated = TRUE], <<c>>)
    [] ~r.terminated /\ c.t = "done" /\ route.client # "anthropic" /\ route.up # "anthropic" ->
         Step([done |-> TRUE, terminated |-> TRUE],
              IF r.done THEN <<c>> ELSE <<Finish("stop"), c>>)
    [] ~r.terminated /\ c.t = "finish" /\ route.client # "anthropic" ->
         Step([r EXCEPT !.done = TRUE], <<c>>)
    [] OTHER -> Step(r, <<c>>)

Relayed(r, chunks) == Fed(Passed, r, chunks)

Translated(st, c) ==
  CASE route.client = "anthropic" -> AOn(st, c)
    [] route.client = "responses" -> ROn(st, c)
    [] route.client = "aisdk" -> SOn(st, c)
    [] route.client = "json" -> Step(JOn(st, c), <<>>)

Told(st, chunks) == Fed(Translated, st, chunks)

\* The translator's own last step when the body ends: server.rs, collect_stream_json.
Completed(st) ==
  CASE route.client = "responses" -> RFinish(st)
    [] route.client = "aisdk" -> SFinish(st)
    [] route.client = "json" ->
         LET slots == InOrder(DOMAIN st.tools)
         IN  Step(st, <<Start, Say(TEXT, st.text), Say(THINK, st.think)>>
                      \o [n \in DOMAIN slots |-> Say(st.tools[slots[n]].name, st.tools[slots[n]].args)]
                      \o <<End(st.reason)>>)
    [] OTHER -> Step(st, <<>>)

\* A chunk of text, or of thought and text, if there is any.
Chunk(think, text) ==
  (IF think = <<>> THEN <<>> ELSE <<Think(think)>>)
  \o (IF text = <<>> THEN <<>> ELSE <<Text(text)>>)

\* What a filter holds back, let out at the end: think_flush_chunk, tooltext_flush_chunk.
Flushed(st) ==
  CASE route.reads = "think" ->
         LET f == ThinkFlush(st) IN Step(f.st, Chunk(f.think, f.text))
    [] route.reads = "calls" ->
         LET f == CallFlush(st) IN Step(f.st, Chunk(<<>>, f.out))
    [] OTHER -> Step(st, <<>>)

\* rewrite_chunk_think.  A chunk left empty is still a chunk.
ThinkRewritten(st, e) ==
  LET f == ThinkPush(st, e.ps)
  IN  Step(f.st, <<Role>> \o Chunk(f.think, f.text))

\* rewrite_chunk_tools: a call is numbered by the calls there are when the whole chunk is
\* read, from 100 on.  Two calls of one chunk get one number; Texts ends one call a chunk.
CallsRewritten(st, e) ==
  LET f == CallPush(st, e.ps, HoldCap)
      texts == [n \in DOMAIN f.out |-> f.out[n].text]
      calls == [n \in 1 .. f.st.calls - st.calls |->
                  Call(99 + f.st.calls, f.st.calls, f.st.calls, <<>>)]
  IN  Step(f.st, <<Role>> \o Chunk(<<>>, FlattenSeq(texts)) \o calls)

Reason(st, why) ==
  IF route.reads = "calls" /\ why = "stop" /\ st.calls > 0 THEN "calls" ELSE why

\* What an event of the upstream is as chunks.
Adapted(st, e) ==
  CASE route.up = "anthropic" -> FOn(st, e)
    [] route.up = "responses" -> GOn(st, e)
    [] route.up = "chat" /\ e.t = "text" /\ route.reads = "think" -> ThinkRewritten(st, e)
    [] route.up = "chat" /\ e.t = "text" /\ route.reads = "calls" -> CallsRewritten(st, e)
    [] route.up = "chat" /\ e.t = "finish" -> Step(st, <<Finish(Reason(st, e.why))>>)
    [] route.up = "chat" /\ e.t = "done" -> LET f == Flushed(st) IN Step(f.st, Append(f.out, e))
    [] OTHER -> Step(st, <<e>>)

\* What came goes all the way.
Handles ==
  /\ in # <<>>
  /\ in' = <<>>
  /\ LET m == Fed(Adapted, mid, in)
         r == Relayed(relay, m.out)
         t == Told(tr, r.out)
     IN  /\ mid' = m.st
         /\ relay' = r.st
         /\ tr' = t.st
         /\ out' = t.out
  /\ UNCHANGED <<route, up, sent, view>>

-----------------------------------------------------------------------------
(* What upstreams say.  Each waits until the client has read what there is. *)

Quiet == in = <<>> /\ out = <<>>

Ready == Quiet /\ up.stage \in {"fresh", "saying"}

FeedAll(es) == in' = es /\ UNCHANGED <<route, mid, relay, tr, out, view>>

Feed(e) == FeedAll(<<e>>)

Speaks == Ready /\ up.said < route.says

\* The number of the next piece.
NextPiece == up.said + 1

Said(change) == up' = [change EXCEPT !.stage = "saying", !.said = @ + 1]

Pieced(what, p) == sent' = [sent EXCEPT ![what] = Append(@, p)]

Announces ==
  /\ Ready /\ up.stage = "fresh"
  /\ up' = [up EXCEPT !.stage = "saying"]
  /\ Feed(IF route.up = "chat" THEN Role ELSE Start)
  /\ UNCHANGED sent

\* The texts a chunk may bring: of a filtered text, tokens with tags cut at every place.
Texts ==
  LET n == NextPiece
  IN  CASE route.reads = "plain" -> {<<n>>} \cup (IF sent[TEXT] = <<>> THEN {<<Blank>>} ELSE {})
        [] route.reads = "think" ->
             {<<n>>, <<LT>>, <<SLASH>>, <<THINKS>>, <<LT, THINKS>>, <<n, LT>>, <<THINKS, n>>,
              <<SLASH, THINKS, n>>}
        [] route.reads = "calls" ->
             {<<n>>, <<LT>>, <<CALLS>>, <<VALID>>, <<CLOSER>>, <<n, LT>>, <<CALLS, VALID>>,
              <<VALID, CLOSER, n>>, <<CLOSER, LT>>}

\* A text or a thought of a chat upstream.
ChatSpeaks ==
  /\ Speaks /\ route.up = "chat"
  /\ Said(up)
  /\ \/ \E ps \in Texts : /\ sent' = [sent EXCEPT ![TEXT] = @ \o ps]
                          /\ Feed(Text(ps))
     \/ route.reads # "think" /\ Pieced(THINK, NextPiece) /\ Feed(Think(<<NextPiece>>))

\* A chunk of a call: its id and its name come once, together or apart, before, with or
\* after the first arguments.
ChatCalls ==
  /\ Speaks /\ route.up = "chat" /\ route.reads = "plain"
  /\ \E k \in Calls, id \in BOOLEAN, name \in BOOLEAN, piece \in BOOLEAN :
       /\ k = 1 \/ k - 1 \in up.begun
       /\ id \/ name \/ piece
       /\ id => k \notin up.known
       /\ name => k \notin up.named
       /\ Said([up EXCEPT !.begun = @ \cup {k}, !.known = IF id THEN @ \cup {k} ELSE @,
                          !.named = IF name THEN @ \cup {k} ELSE @])
       /\ LET all == IF piece THEN Append(sent[k], NextPiece) ELSE sent[k]
              args == IF ~piece THEN <<>> ELSE IF route.snapshot THEN all ELSE <<NextPiece>>
          IN  /\ sent' = [sent EXCEPT ![k] = all]
              /\ Feed(Call(k - 1, IF id THEN k ELSE 0, IF name THEN k ELSE 0, args))

\* A finish reason and, if it is sent, the usage.  "other" is a reason no client has a name for.
ChatFinishes ==
  /\ Ready /\ route.up = "chat" /\ up.stage = "saying"
  /\ up.known = up.begun /\ up.named = up.begun
  /\ \E why \in {"stop", "length", "calls", "filter", "error", "other"}, usage \in BOOLEAN :
       /\ why = "calls" => up.begun # {}
       /\ up' = [up EXCEPT !.stage = "finished", !.why = why]
       /\ FeedAll(<<Finish(why)>> \o (IF usage THEN <<Usage>> ELSE <<>>))
  /\ UNCHANGED sent

\* [DONE], which an upstream may send with no finish reason before it.
ChatDone ==
  /\ Quiet /\ route.up = "chat" /\ up.stage \in {"saying", "finished"}
  /\ ~relay.terminated /\ ~up.broke
  /\ up' = [up EXCEPT !.stage = "finished"]
  /\ Feed(Done)
  /\ UNCHANGED sent

\* An Anthropic message is blocks, one after the other.
AnthropicBlock ==
  /\ Speaks /\ route.up = "anthropic" /\ up.stage = "saying"
  /\ \/ /\ up.block = NoBlock
        /\ \E what \in {TEXT, THINK} \cup {k \in Calls : k = Cardinality(up.begun) + 1} :
             /\ Said([up EXCEPT !.block = what, !.items = @ + 1,
                                !.begun = IF what \in Calls THEN @ \cup {what} ELSE @,
                                !.known = IF what \in Calls THEN @ \cup {what} ELSE @,
                                !.named = IF what \in Calls THEN @ \cup {what} ELSE @])
             /\ Feed(Open(up.items, what))
        /\ UNCHANGED sent
     \/ /\ up.block # NoBlock
        /\ Said(up)
        /\ Pieced(up.block, NextPiece)
        /\ Feed(Piece(up.items - 1, up.block, <<NextPiece>>))

AnthropicStops ==
  /\ Ready /\ route.up = "anthropic" /\ up.block # NoBlock
  /\ up' = [up EXCEPT !.block = NoBlock]
  /\ Feed(Close(up.items - 1, up.block, <<>>))
  /\ UNCHANGED sent

\* message_delta, with message_stop behind it or, from some gateways, message_stop alone.
AnthropicEnds ==
  /\ Ready /\ route.up = "anthropic" /\ up.stage = "saying" /\ up.block = NoBlock
  /\ \E e \in {End(why) : why \in {"end_turn", "max_tokens", "tool_use", "refusal"}} \cup {[e |-> "stop"]} :
       /\ e = End("tool_use") => up.begun # {}
       /\ Feed(e)
       /\ up' = [up EXCEPT !.stage = "finished", !.why = IF e.e = "end" THEN e.why ELSE "none"]
  /\ UNCHANGED sent

\* An upstream of the Responses API: the deltas of a message or of a summary, a function
\* call announced, or a part of its arguments.
ResponsesSays ==
  /\ Speaks /\ route.up = "responses" /\ up.stage = "saying"
  /\ \/ \E what \in {TEXT, THINK} :
          /\ what = THINK => up.style # "whole"
          /\ Said(IF what = THINK THEN [up EXCEPT !.style = "streamed"] ELSE up)
          /\ Pieced(what, NextPiece)
          /\ Feed(Piece(0, what, <<NextPiece>>))
     \/ \E k \in Calls :
          /\ k = Cardinality(up.begun) + 1
          /\ Said([up EXCEPT !.begun = @ \cup {k}, !.known = @ \cup {k}, !.named = @ \cup {k}])
          /\ Feed(Open(k, k))
          /\ UNCHANGED sent
     \/ \E k \in up.begun :
          /\ Said(up)
          /\ Pieced(k, NextPiece)
          /\ Feed(Piece(k, k, <<NextPiece>>))

\* A reasoning item is done.  One gateway streams summaries, another tells them whole.
ResponsesReasons ==
  /\ Speaks /\ route.up = "responses" /\ up.stage = "saying"
  /\ \/ /\ up.style # "streamed"
        /\ Said([up EXCEPT !.style = "whole"])
        /\ Pieced(THINK, NextPiece)
        /\ Feed(Close(0, THINK, <<NextPiece>>))
     \/ /\ up.style = "streamed"
        /\ Said(up)
        /\ Feed(Close(0, THINK, sent[THINK]))
        /\ UNCHANGED sent

ResponsesEnds ==
  /\ Ready /\ route.up = "responses" /\ up.stage = "saying"
  /\ \E why \in {"completed", "max_output_tokens", "content_filter"} :
       /\ Feed(End(why))
       /\ up' = [up EXCEPT !.stage = "finished", !.why = why]
  /\ UNCHANGED sent

\* An error told in the stream.
Faults ==
  /\ Ready /\ up.stage = "saying"
  /\ up' = [up EXCEPT !.stage = "finished", !.broke = TRUE]
  /\ Feed(IF route.up = "chat" THEN Error ELSE Fault)
  /\ UNCHANGED sent

\* The call ends on reserved calls alone: its chunks come without them and without a
\* reason, a search or another tool is served and the answer comes from another call
\* (continue_after_server_calls).
Serves ==
  /\ Ready /\ up.stage = "saying" /\ route.up # "anthropic" /\ route.reads = "plain"
  /\ up.begun = {} /\ up.served < MaxServed
  /\ up' = [up EXCEPT !.served = @ + 1, !.style = "none"]
  /\ mid' = MidFresh
  /\ \E search \in BOOLEAN :
       LET t == Told(tr, <<Role, Usage>>)
           s == CASE route.client = "anthropic" -> AServed(t.st, search)
                  [] route.client = "responses" -> ROn(t.st, Marker(search))
                  [] OTHER -> Step(t.st, <<>>)
       IN  tr' = s.st /\ out' = t.out \o s.out
  /\ UNCHANGED <<route, sent, in, relay, view>>

\* The body ends, breaks or stalls, whatever was said before: finish of StreamCtx, and
\* then the end of its stream.  A think filter is flushed for an Anthropic client alone.
Ends ==
  /\ Quiet /\ up.stage \in {"saying", "finished"}
  /\ up' = [up EXCEPT !.stage = "over"]
  /\ LET held == IF route.client = "anthropic" \/ route.reads = "calls" THEN Flushed(mid)
                 ELSE Step(mid, <<>>)
         tail == IF route.client = "anthropic" THEN <<Done>>
                 ELSE IF relay.done THEN <<>> ELSE <<Finish("stop"), Done>>
         t == Told(tr, held.out \o tail)
         c == Completed(t.st)
     IN  mid' = held.st /\ tr' = c.st /\ out' = t.out \o c.out
  /\ relay' = [relay EXCEPT !.done = TRUE]
  /\ UNCHANGED <<route, sent, in, view>>

-----------------------------------------------------------------------------
(* The client. *)

Grown(f, i, x) == [j \in DOMAIN f \cup {i} |-> IF j = i THEN x ELSE f[j]]

Body(i) == IF i \in DOMAIN view.body THEN view.body[i] ELSE <<>>

Seen(e) ==
  CASE e.e = "start" -> [view EXCEPT !.stage = "open"]
    [] e.e = "open" ->
         [view EXCEPT !.body = Grown(@, e.i, <<>>), !.what = Grown(@, e.i, e.what),
                      !.calls = IF e.what \in Calls THEN @ \cup {e.what} ELSE @]
    [] e.e = "piece" ->
         [view EXCEPT !.body = Grown(@, e.i, Body(e.i) \o e.ps), !.read[e.what] = @ \o e.ps]
    [] e.e = "close" ->
         [view EXCEPT !.body = Grown(@, e.i, Body(e.i)), !.closed = @ \cup {e.i},
                      !.told = Grown(@, e.i, e.ps), !.what = Grown(@, e.i, e.what)]
    [] e.e = "say" -> [view EXCEPT !.read[e.what] = @ \o e.ps,
                                   !.calls = IF e.what \in Calls THEN @ \cup {e.what} ELSE @]
    [] e.e = "fault" -> [view EXCEPT !.fault = TRUE]
    [] e.e = "end" -> [view EXCEPT !.stage = "ended", !.why = e.why]

\* The client reads an event, and aggregate.rs in its place if it asked for no stream.
Reads ==
  /\ out # <<>>
  /\ out' = Tail(out)
  /\ view' = [Seen(Head(out)) EXCEPT
                !.message = IF route.client = "anthropic" THEN MOn(@, Head(out)) ELSE @]
  /\ UNCHANGED <<route, up, sent, in, mid, relay, tr>>

-----------------------------------------------------------------------------
(* The same turn with no stream asked for on either side.                  *)

\* What the upstream would have said as one reply.
Whole ==
  LET calls == [n \in 1 .. Cardinality(up.begun) |-> Item(n, sent[n])]
      each(w) == [n \in DOMAIN sent[w] |-> Item(w, <<sent[w][n]>>)]
  IN  IF route.up = "chat" THEN Completion(sent[TEXT], sent[THINK], calls, up.why)
      ELSE Listed(each(THINK) \o each(TEXT) \o calls, up.why)

\* extract_think_from_response.
ThinkRead(c) ==
  LET f == ThinkPush(ThinkFresh, c.text)
      rest == ThinkFlush(f.st)
      thought == f.think \o rest.think
  IN  IF thought = <<>> THEN c
      ELSE [c EXCEPT !.think = @ \o thought, !.text = f.text \o rest.text]

\* extract_from_response: a reply that has calls keeps its text.
CallsRead(c) ==
  LET f == CallPush(CallTextFresh, c.text, HoldCap)
  IN  IF c.calls # <<>> \/ f.st.calls = 0 THEN c
      ELSE [c EXCEPT !.text = FlattenSeq([n \in DOMAIN f.out |-> f.out[n].text]) \o CallFlush(f.st).out,
                     !.calls = [n \in 1 .. f.st.calls |-> Item(n, <<>>)],
                     !.why = "calls"]

\* openai_to_anthropic.rs, responses_upstream.rs: an upstream's reply as a chat completion.
FBody(reply) == FromItems(reply.items, FReason(reply.why))
GBody(reply) == FromItems(reply.items, GReason(reply.why, CallsAmong(reply.items) # <<>>))

\* try_candidate_inner, a reply that is not streamed.
AsChat ==
  CASE route.up = "anthropic" -> FBody(Whole)
    [] route.up = "responses" -> GBody(Whole)
    [] route.reads = "think" -> ThinkRead(Whole)
    [] route.reads = "calls" -> CallsRead(Whole)
    [] OTHER -> Whole

\* Mutant: a reason is taken as it is said.
LegacyFinish_AsSaid(why, calls) == Unified(why, FALSE)

\* legacy_finish.
LegacyFinish(why, calls) == Unified(why, calls)

\* anthropic_to_openai.rs, responses.rs, aisdk.rs: a chat completion for a client.
ABody(c) == ToItems(c, AReason(c.why))
RBody(c) == ToItems(c, "completed")
SBody(c) == ToItems(c, LegacyFinish(c.why, c.calls # <<>>))

\* The reply a client reads.
Delivered ==
  CASE route.client = "anthropic" -> ABody(AsChat)
    [] route.client = "responses" -> RBody(AsChat)
    [] route.client = "aisdk" -> SBody(AsChat)
    [] route.client = "json" -> ToItems(AsChat, AsChat.why)

-----------------------------------------------------------------------------

Next ==
  \/ Announces \/ ChatSpeaks \/ ChatCalls \/ ChatFinishes \/ ChatDone
  \/ AnthropicBlock \/ AnthropicStops \/ AnthropicEnds
  \/ ResponsesSays \/ ResponsesReasons \/ ResponsesEnds
  \/ Faults \/ Serves \/ Ends \/ Handles \/ Reads

Spec == Init /\ [][Next]_vars

-----------------------------------------------------------------------------
(* Properties. *)

Of(client, x, otherwise) == IF route.client = client THEN x ELSE otherwise

NoItems == [i \in {} |-> <<>>]

AnthropicTurn ==
  INSTANCE ClientTurn WITH
    Dense <- TRUE, Strays <- FALSE,
    stage <- Of("anthropic", view.stage, "before"),
    body <- Of("anthropic", view.body, NoItems),
    closed <- Of("anthropic", view.closed, {})

\* anthropic_to_openai.rs: whatever an upstream interleaves or breaks off, an Anthropic
\* client is sent blocks numbered without a gap, fills no block that is not open, and
\* finds every block closed when the message ends.
AnthropicBlocks == AnthropicTurn!TurnSpec

ResponsesTurn ==
  INSTANCE ClientTurn WITH
    Dense <- FALSE, Strays <- TRUE,
    stage <- Of("responses", view.stage, "before"),
    body <- Of("responses", view.body, NoItems),
    closed <- Of("responses", view.closed, {})

\* responses.rs: a client of the Responses API is told of the response before its items,
\* of each item once, and of the end when every item it was told of is closed.
ResponsesItems == ResponsesTurn!TurnSpec

\* What a client is due of what was sent.  Responses trims the white space a text begins with.
Due(w) ==
  CASE w = TEXT /\ route.reads = "think" -> ContentOf(sent[w])
    [] w = THINK /\ route.reads = "think" -> ThoughtOf(sent[TEXT])
    [] w = TEXT /\ route.client = "responses" -> SelectSeq(sent[w], LAMBDA p : p # Blank)
    [] OTHER -> sent[w]

\* What a filter kept of a turn that ended without [DONE] (Ends).
Unflushed == IF route.reads = "think" THEN mid.buf ELSE <<>>

\* The calls a client can be handed: AI SDK wants a name, Responses an id as well, and
\* AI SDK takes none of a turn that failed.
Named == IF route.reads = "calls" THEN 1 .. mid.calls ELSE up.named

Callable ==
  CASE route.client = "responses" -> Named \cap up.known
    [] route.client = "aisdk" -> IF up.broke THEN {} ELSE Named
    [] OTHER -> Named

\* Is a text read by another rule than Due?
Filtered(w) ==
  \/ route.reads = "calls" /\ w = TEXT
  \/ route.reads = "think" /\ w \in {TEXT, THINK} /\ StrayClose(sent[TEXT])

Times(n, s) == Cardinality({i \in DOMAIN s : s[i] = n})

\* The translators and the relay between them: a client has read, at any time, the
\* beginning of each text, thought and argument that was sent, and at the end all of
\* it, once and in order, however the turn ended; what an item or a collected reply says
\* as a whole is what its parts said.  A text item of a Responses client is whole only if
\* no call and no served search came before more of the text: close_message is final.
\* think.rs and tool_text.rs: however a text is cut into chunks, what goes out is what
\* the text says when it is read whole.  Two exceptions: a closing tag of no block makes
\* thought only of what is still held back, so there each piece arrives once, as text or
\* as thought; a call that outgrows the buffer is text.
ContentArrives ==
  /\ \A w \in {TEXT, THINK} \cup Calls :
       Filtered(w) \/ Begins(view.read[w], Due(w))
  /\ view.stage = "ended" =>
       /\ \A w \in {TEXT, THINK} \cup Callable :
            \/ Filtered(w)
            \/ view.read[w] = Due(w)
            \/ route.client # "anthropic" /\ view.read[w] \o Unflushed = Due(w)
       /\ route.client = "anthropic" => view.message.content = view.body
       /\ route.reads = "think" =>
            \A n \in 1 .. MaxSaid : Times(n, sent[TEXT]) = Times(n, view.read[TEXT] \o view.read[THINK])
  /\ route.reads = "calls" =>
       \E spans \in SUBSET CallSpans(sent[TEXT]) :
         LET rest == Without(sent[TEXT], spans)
         IN  IF view.stage = "ended"
             THEN view.read[TEXT] = rest /\ Cardinality(spans) = mid.calls
             ELSE Begins(view.read[TEXT], rest)
  /\ route.client = "responses" =>
       \A i \in view.closed :
         /\ \/ view.what[i] \in Callable
            \/ view.what[i] = TEXT /\ up.begun = {} /\ up.served = 0
            => view.told[i] = view.body[i]
         /\ view.what[i] \in {TEXT, THINK} => Begins(view.told[i], view.body[i])

\* aisdk.rs, unified_finish and finish; anthropic_to_openai.rs, clear_finish_reason: the
\* end a client is told agrees with the calls it was handed and with the upstream's.  An AI
\* SDK client kills a turn with calls that ends as stop, other or error, so only a cut stays
\* beside them; a turn whose stream told of a failure hands out no call and ends as error.
\* A body that breaks off is no failure to pxy, and its calls are handed out as they are.
CallsAgree ==
  /\ view.calls \subseteq Named
  /\ view.stage = "ended" =>
       /\ view.calls = Callable
       /\ route.client = "aisdk" =>
            /\ view.calls # {} => view.why \in {"tool-calls", "length", "content-filter"}
            /\ view.why = "tool-calls" => view.calls # {}
            /\ view.why = "error" <=> up.broke \/ (up.why = "error" /\ view.calls = {})
            /\ view.why = "length" <=> up.why \in {"length", "max_tokens", "max_output_tokens"}
            /\ view.why = "content-filter" <=> up.why \in {"filter", "refusal"}
       /\ route.client = "anthropic" =>
            /\ view.why = "tool_use" => view.calls # {}
            /\ up.why = "calls" => view.why = "tool_use"
       \* Clients gate tool execution on this.
       /\ route.reads = "calls" /\ view.calls # {} /\ up.why = "stop" =>
            view.why \in {"calls", "tool-calls", "tool_use"}

Inked(ps) == SelectSeq(ps, LAMBDA p : p # Blank)

\* A turn that both paths bring to an end of its own.
Plain == view.stage = "ended" /\ up.why # "none" /\ ~up.broke /\ up.served = 0

\* Where the two paths are known to differ: a stray closing tag (ContentArrives), a text
\* with tags and no thought, which a whole reply keeps with its tags, what an unfinished
\* turn left in the filter, calls in a text that outgrew the buffer, and calls in a text that
\* did not end as usual, whose whole reply says tool_calls whatever the upstream said.
TwoReadings ==
  CASE route.reads = "think" ->
         \/ StrayClose(sent[TEXT])
         \/ At(sent[TEXT], OpenTag) # {} /\ ThoughtOf(sent[TEXT]) = <<>>
         \/ route.client # "anthropic" /\ Unflushed # <<>>
    [] route.reads = "calls" ->
         \/ Len(CallsAmong(Delivered.items)) # mid.calls
         \/ mid.calls > 0 /\ up.why \in {"length", "filter"}
         \/ mid.calls > 0 /\ up.why \in {"error", "other"} /\ route.client # "aisdk"
    [] OTHER -> FALSE

\* router.rs, try_candidate_inner, has two paths from an upstream to a client, one event
\* by event and one for whole replies, each with its own translators and filters: a client
\* reads the same texts, thoughts, calls and end from either.  White space is left aside.
BodyIsStream ==
  Plain /\ ~TwoReadings =>
    LET reply == Delivered
    IN  /\ \A w \in {TEXT, THINK} \cup Calls :
             Inked(AllOf(reply.items, w)) = Inked(view.read[w])
        /\ {CallsAmong(reply.items)[n].what : n \in DOMAIN CallsAmong(reply.items)} = view.calls
        /\ reply.why = view.why
=============================================================================
