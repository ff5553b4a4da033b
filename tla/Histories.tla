----------------------------- MODULE Histories -----------------------------
(***************************************************************************)
(* How the history of a conversation is rewritten on its way from the      *)
(* dialect of a client to the wire of an upstream (src/translate: the      *)
(* request half of each translator, anthropic_sanitize.rs,                 *)
(* cache_control.rs, mod.rs).                                              *)
(*                                                                         *)
(* A history is a sequence of messages [role, blocks] in every dialect: an *)
(* item of the Responses API is a message of one block, a tool message of  *)
(* a chat one of one result. A text is a sequence of numbered words.       *)
(***************************************************************************)
EXTENDS Integers, SequencesExt

\* Words pxy writes itself, and white space.
Blank == 0
NoAnswer == -1      \* "[No response received]"
Placeholder == -2   \* "." or "..."

Shown(n) == -10 - n      \* "[image n]"
Called(id) == -100 - id  \* "[tool call id]"

\* signed: a thought has an upstream's signature; mark: a cache breakpoint is on the block.
Block(t, id, words) == [t |-> t, id |-> id, words |-> words, signed |-> FALSE, mark |-> FALSE]
Text(words) == Block("text", 0, words)
Think(words, signed) == [Block("think", 0, words) EXCEPT !.signed = signed]
Call(id) == Block("call", id, <<>>)
Result(id, words) == Block("result", id, words)
Message(role, blocks) == [role |-> role, blocks |-> blocks]

Of(kinds, blocks) == SelectSeq(blocks, LAMBDA b : b.t \in kinds)
Has(t, blocks) == \E n \in DOMAIN blocks : blocks[n].t = t
Ids(t, blocks) == {b.id : b \in ToSet(Of({t}, blocks))}
Map(Op(_), s) == [n \in DOMAIN s |-> Op(s[n])]
In(role, messages) == SelectSeq(messages, LAMBDA m : m.role = role)

\* The texts of some blocks joined.
Joined(kinds, blocks) == FlattenSeq(Map(LAMBDA b : b.words, Of(kinds, blocks)))
TextIfAny(words) == IF words = <<>> THEN <<>> ELSE <<Text(words)>>

\* A block without what only its own dialect has a place for.
Bare(b) == Block(b.t, b.id, b.words)

\* Parts of one sort are one string.
Parts(blocks) == IF Has("image", blocks) THEN Map(Bare, blocks) ELSE <<Text(Joined({"text"}, blocks))>>

ToolMessages(results) == Map(LAMBDA b : Message("tool", <<Bare(b)>>), results)

-----------------------------------------------------------------------------
(* From a client to chat messages. *)

\* push_user_turn: results go first, a message each.
ChatUser(blocks) ==
  LET parts == Of({"text", "image"}, blocks)
  IN  ToolMessages(Of({"result"}, blocks))
      \o (IF parts = <<>> THEN <<>> ELSE <<Message("user", Parts(parts))>>)

\* push_assistant_turn: what pxy served is told as prose, a thought where it is asked for.
ChatAssistant(blocks, replay) ==
  LET thought == IF replay THEN Joined({"think"}, blocks) ELSE <<>>
  IN  Message("assistant",
        (IF thought = <<>> THEN <<>> ELSE <<Think(thought, FALSE)>>)
        \o TextIfAny(Joined({"text", "served"}, blocks)) \o Map(Bare, Of({"call"}, blocks)))

Unanswered(ids) == Map(LAMBDA id : Message("tool", <<Result(id, <<NoAnswer>>)>>), ids)

CallIds(m) == Map(LAMBDA b : b.id, Of({"call"}, m.blocks))

\* repair_tool_pairs of anthropic_to_openai.rs: the next message that is no result ends the
\* wait for answers; a result nobody waits for is dropped.
PairChat(messages) ==
  LET Take(acc, m) ==
        CASE m.role = "tool" /\ Contains(acc.pending, m.blocks[1].id) ->
               [out |-> Append(acc.out, m), pending |-> RemoveFirst(acc.pending, m.blocks[1].id)]
          [] m.role = "tool" /\ ~Contains(acc.pending, m.blocks[1].id) -> acc
          [] m.role # "tool" ->
               [out |-> Append(acc.out \o Unanswered(acc.pending), m),
                pending |-> IF m.role = "assistant" THEN CallIds(m) ELSE <<>>]
      all == FoldLeft(Take, [out |-> <<>>, pending |-> <<>>], messages)
  IN  all.out \o Unanswered(all.pending)

\* anthropic_to_openai.rs, request. The system field is a message here.
FromAnthropicClient(history, replay) ==
  PairChat(FlattenSeq(Map(LAMBDA m :
    CASE m.role = "assistant" -> <<ChatAssistant(m.blocks, replay)>>
      [] m.role = "user" -> ChatUser(m.blocks)
      [] m.role = "system" -> Map(LAMBDA b : Message("system", <<b>>),
                                  TextIfAny(Joined({"text"}, m.blocks))),
    history)))

\* responses.rs, request: a reply and the calls next to it are one message. A result is
\* dropped when no message has its call.
FromResponsesClient(items) ==
  LET Flushed(acc) == acc.out \o acc.held
      Take(acc, m) ==
        CASE m.role = "assistant" ->
               IF acc.held # <<>> /\ ~Has("text", acc.held[1].blocks)
               THEN [acc EXCEPT !.held[1].blocks = m.blocks \o @]
               ELSE [out |-> Flushed(acc), held |-> <<m>>]
          [] m.role = "call" ->
               IF acc.held # <<>> THEN [acc EXCEPT !.held[1].blocks = @ \o m.blocks]
               ELSE [acc EXCEPT !.held = <<Message("assistant", m.blocks)>>]
          [] m.role = "output" -> [out |-> Flushed(acc) \o ToolMessages(m.blocks), held |-> <<>>]
          [] m.role = "reasoning" -> acc
          [] OTHER -> [out |-> Append(Flushed(acc), m), held |-> <<>>]
      all == Flushed(FoldLeft(Take, [out |-> <<>>, held |-> <<>>], items))
      calls == UNION {Ids("call", m.blocks) : m \in ToSet(all)}
      paired == SelectSeq(all, LAMBDA m : m.role # "tool" \/ m.blocks[1].id \in calls)
  IN  IF paired = <<>> THEN <<Message("user", <<Text(<<Placeholder>>)>>)>> ELSE paired

\* aisdk.rs, request.
FromAiSdkClient(prompt) ==
  FlattenSeq(Map(LAMBDA m :
    CASE m.role = "assistant" ->
           <<Message("assistant", TextIfAny(Joined({"text"}, m.blocks))
                                  \o Map(Bare, Of({"call"}, m.blocks)))>>
      [] m.role = "tool" -> ToolMessages(m.blocks)
      [] m.role = "user" -> <<Message("user", Parts(m.blocks))>>
      [] OTHER -> <<m>>,
    prompt))

ToChat(client, history, replay) ==
  CASE client = "anthropic" -> FromAnthropicClient(history, replay)
    [] client = "responses" -> FromResponsesClient(history)
    [] client = "aisdk" -> FromAiSdkClient(history)
    [] client = "chat" -> history

-----------------------------------------------------------------------------
(* Chat messages for an OpenAI upstream. *)

\* developer_role_to_system.
SystemRole(messages) ==
  Map(LAMBDA m : IF m.role = "developer" THEN [m EXCEPT !.role = "system"] ELSE m, messages)

\* backfill_openai_reasoning, backfill_anthropic_thinking: a turn with calls has a thought.
Backfilled(messages, signed) ==
  Map(LAMBDA m : IF m.role = "assistant" /\ Has("call", m.blocks) /\ ~Has("think", m.blocks)
                 THEN [m EXCEPT !.blocks = <<Think(<<Blank>>, signed)>> \o @] ELSE m,
      messages)

Images(messages) == FlattenSeq(Map(LAMBDA m : Of({"image"}, m.blocks), messages))

\* Mutant: the numbers begin anew in each message.
ImageNumber_InMessage(messages, n, k) == Len(Of({"image"}, SubSeq(messages[n].blocks, 1, k)))

\* The number of the image that is block k of message n, counted over the whole history.
ImageNumber(messages, n, k) ==
  Len(Images(SubSeq(messages, 1, n - 1))) + Len(Of({"image"}, SubSeq(messages[n].blocks, 1, k)))

\* swap_image_parts: what a model that sees no images is sent.
SwapImages(messages) ==
  [n \in DOMAIN messages |->
     [messages[n] EXCEPT !.blocks =
        [k \in DOMAIN @ |-> IF @[k].t = "image" THEN Text(<<Shown(ImageNumber(messages, n, k))>>)
                            ELSE @[k]]]]

\* responses_upstream.rs, request: messages to items.
ToItems(messages) ==
  LET system == Joined({"text"}, FlattenSeq(Map(LAMBDA m : m.blocks, In("system", messages)
                                                                     \o In("developer", messages))))
      Item(m) ==
        CASE m.role \in {"system", "developer"} -> <<>>
          [] m.role = "assistant" ->
               Map(LAMBDA b : Message("assistant", <<b>>), TextIfAny(Joined({"text"}, m.blocks)))
               \o Map(LAMBDA b : Message("call", <<b>>), Of({"call"}, m.blocks))
          [] m.role = "tool" -> <<Message("output", m.blocks)>>
          [] OTHER -> <<m>>
  IN  Map(LAMBDA b : Message("system", <<b>>), TextIfAny(system)) \o FlattenSeq(Map(Item, messages))

\* transcript_as_prose: the turns as an advisor reads them, who is given no tools.
Prose(messages) ==
  LET Words(m) == CASE m.role = "assistant" ->
                         Joined({"text"}, m.blocks) \o Map(Called, CallIds(m))
                    [] m.role = "tool" -> <<Called(m.blocks[1].id)>> \o m.blocks[1].words
                    [] OTHER -> Joined({"text"}, m.blocks)
      Turn(m) == IF m.role \in {"system", "developer"} THEN <<Message("system", <<Text(Words(m))>>)>>
                 ELSE Map(LAMBDA b : Message(IF m.role = "assistant" THEN "assistant" ELSE "user", <<b>>),
                          TextIfAny(Words(m)))
  IN  FlattenSeq(Map(Turn, messages))

-----------------------------------------------------------------------------
(* Messages for an Anthropic upstream. *)

\* openai_to_anthropic.rs, request: results wait for the next turn and are one message.
ToMessages(chat, replay) ==
  LET Flushed(acc) == IF acc.results = <<>> THEN acc.out
                      ELSE Append(acc.out, Message("user", acc.results))
      Assistant(m) ==
        (IF replay THEN Map(LAMBDA b : [b EXCEPT !.signed = TRUE], Of({"think"}, m.blocks)) ELSE <<>>)
        \o TextIfAny(Joined({"text"}, m.blocks)) \o Of({"call"}, m.blocks)
      User(m) == IF Has("image", m.blocks) THEN m.blocks ELSE TextIfAny(Joined({"text"}, m.blocks))
      Take(acc, m) ==
        CASE m.role \in {"system", "developer"} ->
               [acc EXCEPT !.system = @ \o Joined({"text"}, m.blocks)]
          [] m.role = "tool" -> [acc EXCEPT !.results = @ \o m.blocks]
          [] OTHER ->
               LET blocks == IF m.role = "assistant" THEN Assistant(m) ELSE User(m)
               IN  [acc EXCEPT !.results = <<>>,
                               !.out = Flushed(acc) \o (IF blocks = <<>> THEN <<>>
                                                        ELSE <<Message(m.role, blocks)>>)]
      all == FoldLeft(Take, [system |-> <<>>, out |-> <<>>, results |-> <<>>], chat)
  IN  Map(LAMBDA b : Message("system", <<b>>), TextIfAny(all.system)) \o Flushed(all)

\* Mutant: the breakpoint of a dropped block goes with it.
Stripped_Unmarked(blocks) ==
  SelectSeq(blocks, LAMBDA b : (b.t = "think" => b.signed) /\ (b.t = "text" => b.words # <<>>))

\* strip_invalid_blocks: unsigned thoughts and empty texts go; the breakpoint of one goes to the
\* block before it, or to the next.
Stripped(blocks) ==
  LET Take(acc, b) ==
        CASE (b.t = "think" => b.signed) /\ (b.t = "text" => b.words # <<>>) ->
               [kept |-> Append(acc.kept, [b EXCEPT !.mark = @ \/ acc.mark]), mark |-> FALSE]
          [] OTHER -> IF b.mark /\ acc.kept # <<>> THEN [acc EXCEPT !.kept[Len(acc.kept)].mark = TRUE]
                      ELSE [acc EXCEPT !.mark = @ \/ b.mark]
  IN  FoldLeft(Take, [kept |-> <<>>, mark |-> FALSE], blocks).kept

Answers(messages, n) ==
  IF n < Len(messages) /\ messages[n + 1].role = "user" THEN Ids("result", messages[n + 1].blocks)
  ELSE {}

\* Mutant: one answer is as good as all.
StandIns_AllOrNone(messages, n) ==
  IF messages[n].role # "assistant" \/ Answers(messages, n) # {} THEN <<>>
  ELSE Map(LAMBDA id : Result(id, <<NoAnswer>>), CallIds(messages[n]))

\* The results that stand in for those the next message does not have.
StandIns(messages, n) ==
  IF messages[n].role # "assistant" THEN <<>>
  ELSE Map(LAMBDA id : Result(id, <<NoAnswer>>),
           SelectSeq(CallIds(messages[n]), LAMBDA id : id \notin Answers(messages, n)))

\* repair_tool_pairs of anthropic_sanitize.rs: stand-ins go to the front of the next turn, or
\* make one; a result that answers nothing becomes text.
PairMessages(messages) ==
  LET Asked(n) == IF n > 1 /\ messages[n - 1].role = "assistant"
                  THEN ToSet(CallIds(messages[n - 1])) ELSE {}
      AsText(n, b) == IF b.t = "result" /\ b.id \notin Asked(n) THEN Text(b.words) ELSE b
      User(n) == Message("user", (IF n > 1 THEN StandIns(messages, n - 1) ELSE <<>>)
                                 \o Map(LAMBDA b : AsText(n, b), messages[n].blocks))
      Assistant(n) ==
        <<messages[n]>> \o (IF StandIns(messages, n) = <<>>
                               \/ (n < Len(messages) /\ messages[n + 1].role = "user") THEN <<>>
                            ELSE <<Message("user", StandIns(messages, n))>>)
  IN  FlattenSeq([n \in DOMAIN messages |->
                    IF messages[n].role = "user" THEN <<User(n)>> ELSE Assistant(n)])

\* ensure_first_user.
FirstUser(messages) ==
  IF messages # <<>> /\ messages[1].role # "user"
  THEN <<Message("user", <<Text(<<Placeholder>>)>>)>> \o messages ELSE messages

\* trim_end.
Trimmed(words) ==
  LET said == {n \in DOMAIN words : words[n] # Blank}
  IN  SubSeq(words, 1, IF said = {} THEN 0 ELSE CHOOSE n \in said : \A k \in said : k <= n)

\* trim_trailing_assistant: the last text of a last message that is the assistant's.
TrimLast(messages) ==
  IF messages = <<>> \/ Last(messages).role # "assistant" \/ ~Has("text", Last(messages).blocks)
  THEN messages
  ELSE LET b == SelectLastInSeq(Last(messages).blocks, LAMBDA x : x.t = "text")
       IN  [messages EXCEPT ![Len(messages)].blocks[b].words = Trimmed(@)]

OrPlaceholder(messages) ==
  IF messages = <<>> THEN <<Message("user", <<Text(<<Placeholder>>)>>)>> ELSE messages

\* anthropic_sanitize.rs, sanitize.
Sanitized(history) ==
  LET messages == SelectSeq(history, LAMBDA m : m.role # "system")
      kept == SelectSeq(Map(LAMBDA m : [m EXCEPT !.blocks = Stripped(@)], messages),
                        LAMBDA m : m.blocks # <<>>)
  IN  In("system", history) \o OrPlaceholder(TrimLast(FirstUser(PairMessages(kept))))

\* mark_message: the last block, if it is no thought.
Hosts(messages) == {n \in DOMAIN messages : /\ messages[n].role # "system"
                                            /\ messages[n].blocks # <<>>
                                            /\ Last(messages[n].blocks).t # "think"}

\* cache_control.rs, inject: the system prompt and the last two messages that can bear one. The
\* last tool, marked where there is no system prompt, is not part of a history.
Marked(messages) ==
  LET set == \E n \in DOMAIN messages : \E b \in ToSet(messages[n].blocks) : b.mark
      hosts == {n \in Hosts(messages) : ~\E i, j \in Hosts(messages) : n < i /\ i < j}
      all == hosts \cup {n \in DOMAIN messages : messages[n].role = "system"}
  IN  IF set THEN messages
      ELSE [n \in DOMAIN messages |->
              IF n \in all THEN [messages[n] EXCEPT !.blocks[Len(messages[n].blocks)].mark = TRUE]
              ELSE messages[n]]

-----------------------------------------------------------------------------

(* What try_candidate_inner sends, in its order. up: [wire, replay, native, marks, vision]. *)

\* The developer's role is one an upstream may not know.
Native(up, chat) == IF up.native THEN chat ELSE SystemRole(chat)

Thinking(up, chat) == IF up.replay THEN Backfilled(chat, FALSE) ELSE chat

Seen(up, chat) == IF up.vision THEN chat ELSE SwapImages(chat)

Cached(up, messages) == IF up.marks THEN Marked(messages) ELSE messages

Rendered(client, up, history, chat) ==
  Sanitized(IF client = "anthropic" THEN history ELSE ToMessages(chat, up.replay))

Signed(up, messages) == IF up.replay THEN Backfilled(messages, TRUE) ELSE messages

Sent(client, up, history) ==
  LET chat == ToChat(client, history, up.replay)
      shown == Seen(up, Thinking(up, Native(up, chat)))
  IN  CASE up.wire = "chat" -> shown
        [] up.wire = "responses" -> ToItems(shown)
        [] up.wire = "advisor" -> Prose(shown)
        [] up.wire = "anthropic" -> Signed(up, Cached(up, Rendered(client, up, history, chat)))
=============================================================================
