---------------------------- MODULE Conversation ----------------------------
(***************************************************************************)
(* A conversation as a client keeps it and sends it again in full with     *)
(* every turn: what it said, what it was told by whichever upstream came   *)
(* first, the results of the calls it ran.  A turn may be interrupted      *)
(* before its calls are answered, an answer may come late, and the client  *)
(* may cut off the beginning of what it keeps.  The properties are about   *)
(* what any upstream would be sent (Histories, Sent), at any moment.       *)
(***************************************************************************)
EXTENDS Histories, Settings, FiniteSets

CONSTANTS
  Clients,    \* dialects of clients
  Upstreams,  \* what an upstream takes: of a history [wire, replay, native, marks, vision],
              \* of settings [limit, efforts, drops, force]
  Asks,       \* [client, body, variant]: settings of a turn
  Replies,    \* [think, text, calls, tail, served]: shapes of an upstream's turn
  Remarks,    \* [text, image, early, mark]: shapes of what a user says
  MaxTurns,   \* bound of the model: turns
  MaxImages   \* bound of the model: images

VARIABLES
  client,   \* its dialect: fixed
  history,  \* what it keeps
  turns,    \* turns so far
  words,    \* words so far, each a new number
  asked,    \* calls so far, numbered
  open,     \* the calls of the last turn
  late,     \* earlier calls with no answer
  whole     \* history: every call was answered by the next turn, and none is cut from its answer

vars == <<client, history, turns, words, asked, open, late, whole>>

Texts == {"none", "empty", "blank", "word", "trailing"}

ASSUME ConversationAssumption ==
  /\ Clients \subseteq {"anthropic", "chat", "responses", "aisdk"}
  /\ Upstreams \subseteq [wire : {"chat", "responses", "anthropic", "advisor"}, replay : BOOLEAN,
                          native : BOOLEAN, marks : BOOLEAN, vision : BOOLEAN, limit : Nat,
                          efforts : SUBSET STRING, drops : Seq(Seq(STRING)), force : BOOLEAN]
  /\ \A ask \in Asks : ask.client \in Clients /\ ask.variant \in ToSet(Levels) \cup {""}
  /\ Replies \subseteq [think : {"none", "plain", "signed"}, text : Texts, calls : Nat,
                        tail : Texts, served : BOOLEAN]
  /\ Remarks \subseteq [text : Texts, image : BOOLEAN, early : BOOLEAN, mark : BOOLEAN]

\* Breakpoints, signatures and blocks of served tools exist in one dialect.
Fits(shape) == /\ "mark" \in DOMAIN shape => (shape.mark => client = "anthropic")
               /\ "mark" \in DOMAIN shape => (shape.early => client = "anthropic")
               /\ "served" \in DOMAIN shape => (shape.served => client = "anthropic")
               /\ "served" \in DOMAIN shape => (shape.think = "signed" => client = "anthropic")

\* How a turn is kept: a client of the Responses API has items, the others messages.
Kept(role, blocks) ==
  LET Item(b) == CASE b.t = "text" -> role [] b.t = "image" -> role [] b.t = "think" -> "reasoning"
                   [] b.t = "call" -> "call" [] b.t = "result" -> "output"
      results == Of({"result"}, blocks)
      others == Of({"text", "image"}, blocks)
      Rest == IF others = <<>> THEN <<>> ELSE <<Message(role, others)>>
  IN  CASE client = "responses" -> Map(LAMBDA b : Message(Item(b), <<b>>), blocks)
        [] client = "chat" /\ role = "user" -> ToolMessages(results) \o Rest
        [] client = "chat" /\ role # "user" ->
             <<Message(role, Of({"think"}, blocks) \o TextIfAny(Joined({"text"}, blocks))
                             \o Of({"call"}, blocks))>>
        [] client = "aisdk" /\ role = "user" ->
             (IF results = <<>> THEN <<>> ELSE <<Message("tool", results)>>) \o Rest
        [] OTHER -> <<Message(role, blocks)>>

\* The text of a shape, its word numbered w.
Said(text, w) == CASE text = "none" -> <<>>
                   [] text = "empty" -> <<Text(<<>>)>>
                   [] text = "blank" -> <<Text(<<Blank>>)>>
                   [] text = "word" -> <<Text(<<w>>)>>
                   [] text = "trailing" -> <<Text(<<w, Blank>>)>>

Init ==
  /\ client \in Clients
  /\ history \in {<<>>, <<Message(IF client = "responses" THEN "developer" ELSE "system",
                                  <<Text(<<1>>)>>)>>}
  /\ turns = 0
  /\ words = 1
  /\ asked = 0
  /\ open = {} /\ late = {}
  /\ whole = TRUE

Speaker == IF history = <<>> THEN "none" ELSE Last(history).role

\* A turn of the user's side: the results of some calls, and a remark or none. What still runs
\* when the user speaks may be answered in a turn of its own.
UserTurn ==
  /\ turns < MaxTurns
  /\ Speaker \in {"user", "tool", "output"} => late # {}
  /\ \E answered \in SUBSET (open \cup late), remark \in Remarks \cup {<<>>} :
       LET ids == SetToSortSeq(answered, <)
           results == [n \in DOMAIN ids |-> Result(ids[n], <<words + n>>)]
           n == words + Len(ids)
           text == IF remark = <<>> THEN <<>> ELSE Said(remark.text, n + 1)
           image == IF remark = <<>> \/ ~remark.image THEN <<>> ELSE <<Block("image", 0, <<n + 2>>)>>
           said == IF remark = <<>> \/ ~remark.mark \/ text = <<>> THEN text \o image
                   ELSE <<[text[1] EXCEPT !.mark = TRUE]>> \o image
           blocks == IF remark # <<>> /\ remark.early THEN said \o results ELSE results \o said
       IN  /\ blocks # <<>>
           /\ remark # <<>> => Fits(remark)
           /\ image # <<>> => Len(Images(history)) < MaxImages
           /\ history' = history \o Kept("user", blocks)
           /\ words' = n + 2
           /\ late' = (late \cup open) \ answered
           /\ whole' = (whole /\ answered = open)
  /\ open' = {}
  /\ turns' = turns + 1
  /\ UNCHANGED <<client, asked>>

\* A turn of an upstream's.
AssistantTurn ==
  /\ turns < MaxTurns
  /\ Speaker \in {"user", "tool", "output"}
  /\ \E reply \in Replies :
       LET think == IF reply.think = "none" THEN <<>>
                    ELSE <<Think(<<words + 1>>, reply.think = "signed")>>
           served == IF reply.served THEN <<Block("served", 0, <<words + 2>>)>> ELSE <<>>
           calls == [n \in 1 .. reply.calls |-> Call(asked + n)]
       IN  /\ Fits(reply)
           /\ history' = history \o Kept("assistant",
                           think \o served \o Said(reply.text, words + 3) \o calls
                                 \o Said(reply.tail, words + 4))
           /\ asked' = asked + reply.calls
           /\ open' = asked + 1 .. asked + reply.calls
  /\ words' = words + 4
  /\ turns' = turns + 1
  /\ UNCHANGED <<client, late, whole>>

\* The client drops the beginning, the system prompt apart.
Compact ==
  /\ turns = MaxTurns
  /\ turns' = turns + 1
  /\ \E n \in 1 .. Len(history) - 1 :
       LET rest == SelectSeq(SubSeq(history, n + 1, Len(history)),
                             LAMBDA m : m.role \notin {"system", "developer"})
       IN  /\ rest # <<>>
           /\ history' = In("system", history) \o In("developer", history) \o rest
           /\ whole' = (whole /\ rest[1].role = "user" /\ ~Has("result", rest[1].blocks))
  /\ UNCHANGED <<client, words, asked, open, late>>

Next == UserTurn \/ AssistantTurn \/ Compact

Spec == Init /\ [][Next]_vars

-----------------------------------------------------------------------------
(* What upstreams ask of a history.                                        *)

\* The results right behind message n.
Behind(messages, n) ==
  UNION {Ids("result", messages[k].blocks) :
           k \in {j \in DOMAIN messages : /\ j > n
                                          /\ \A i \in n + 1 .. j : messages[i].role = "tool"}}

Paired(messages) ==
  /\ \A n \in DOMAIN messages : messages[n].role = "assistant" =>
       Ids("call", messages[n].blocks) \subseteq Behind(messages, n)
  /\ \A n \in DOMAIN messages : messages[n].role = "tool" =>
       \E k \in 1 .. n - 1 :
         /\ messages[k].role = "assistant"
         /\ Ids("result", messages[n].blocks) \subseteq Ids("call", messages[k].blocks)
         /\ \A i \in k + 1 .. n : messages[i].role = "tool"

\* A reply item behind a call: responses.rs closes the message of the call for it, and the
\* result comes too late.
Split == client = "responses" /\ \E n \in 2 .. Len(history) :
                                  history[n - 1].role = "call" /\ history[n].role = "assistant"

\* A chat upstream: calls and results are paired (pxy repairs the pairs of the one dialect and
\* drops orphans of another, elsewhere they are as the client has them).
ChatAccepts(up, messages) ==
  /\ client = "anthropic" \/ (whole /\ open = {} /\ ~Split) => Paired(messages)
  /\ client = "responses" =>
       \A m \in ToSet(In("tool", messages)) :
         \E k \in ToSet(messages) : Ids("result", m.blocks) \subseteq Ids("call", k.blocks)
  /\ client = "responses" => messages # <<>>
  /\ up.replay => \A m \in ToSet(In("assistant", messages)) :
                    Has("call", m.blocks) => Has("think", m.blocks)
  /\ ~up.native => In("developer", messages) = <<>>
  /\ ~up.vision => Images(messages) = <<>>

\* An item of a result has a call before it, and of a call a result behind it.
ItemsAccepted(items) ==
  whole => \A id \in 1 .. asked :
             LET at(t) == {n \in DOMAIN items : id \in Ids(t, items[n].blocks)}
             IN  /\ Cardinality(at("call")) <= 1 /\ Cardinality(at("result")) <= 1
                 /\ \A n \in at("result") : \E k \in at("call") : k < n

\* An Anthropic upstream: the list at the head of anthropic_sanitize.rs, and one breakpoint in
\* four. A last reply of white space alone is trimmed to an empty text.
AnthropicAccepts(up, body) ==
  LET messages == SelectSeq(body, LAMBDA m : m.role # "system")
      Calls(n) == IF n \in DOMAIN messages /\ messages[n].role = "assistant"
                  THEN Ids("call", messages[n].blocks) ELSE {}
      Results(n) == IF n \in DOMAIN messages THEN Ids("result", messages[n].blocks) ELSE {}
      bare == \E m \in ToSet(In("assistant", history)) :
                \E b \in ToSet(m.blocks) : b.words = <<Blank>>
  IN  /\ messages # <<>> /\ messages[1].role = "user"
      /\ \A n \in DOMAIN messages :
           /\ messages[n].blocks # <<>>
           /\ \A b \in ToSet(messages[n].blocks) :
                /\ b.t = "think" => b.signed /\ ~b.mark
                /\ b.t = "text" => b.words # <<>> \/ (n = Len(messages) /\ bare)
           /\ Calls(n) \subseteq Results(n + 1)
           /\ Results(n) \subseteq Calls(n - 1)
      /\ up.replay => \A n \in DOMAIN messages :
                        Calls(n) # {} => Has("think", messages[n].blocks)
      /\ Last(messages).role = "assistant" /\ Has("text", Last(messages).blocks) =>
           LET text == Joined({"text"}, Last(messages).blocks)
           IN  text = <<>> \/ Last(text) # Blank \/ ~Has("text", <<Last(Last(messages).blocks)>>)

Accepts(up, body) ==
  CASE up.wire = "chat" -> ChatAccepts(up, body)
    [] up.wire = "responses" -> ItemsAccepted(body)
    [] up.wire = "anthropic" -> AnthropicAccepts(up, body)
    [] up.wire = "advisor" -> \A m \in ToSet(body) : Joined({"text"}, m.blocks) # <<>>

\* Those the settings go to: an advisor is asked with none.
Askable == {up \in Upstreams : up.wire # "advisor"}

\* The settings of a turn are its own: that they hold at the first shows them for every one.
SettingsAccepted ==
  \A up \in Askable, ask \in Asks : AcceptsSettings(up, SentSettings(up, ask))

\* And whoever asks a model for more thinking is not given less.
SettingsKept ==
  \A up \in Askable :
    LET given == {[client |-> ask.client, wish |-> Wish(ask), amount |-> Amount(SentSettings(up, ask))] :
                    ask \in Asks}
    IN  /\ \A ask \in Asks : KeepsSettings(up, ask, SentSettings(up, ask))
        /\ \A more, less \in given :
             more.client = less.client /\ more.wish > less.wish => more.amount >= less.amount

\* Whatever a client has kept, no upstream is sent a history it would refuse with a 400 for its
\* form: pairs, placeholders, roles, signatures (anthropic_sanitize.rs:1-19,
\* anthropic_to_openai.rs repair_tool_pairs, the backfills of mod.rs).
UpstreamAccepts ==
  /\ \A up \in Upstreams : Accepts(up, Sent(client, up, history))
  /\ turns = 0 => SettingsAccepted

-----------------------------------------------------------------------------
(* What must arrive.                                                       *)

\* Words of messages, "[image n]" read as the n-th of images.
Flat(messages, images) ==
  LET Read(w) == IF \E n \in DOMAIN images : w = Shown(n)
                 THEN images[CHOOSE n \in DOMAIN images : w = Shown(n)].words[1] ELSE w
      Text1(b) == Map(Read, b.words)
  IN  SelectSeq(FlattenSeq(Map(LAMBDA m : FlattenSeq(Map(Text1, m.blocks)), messages)),
                LAMBDA w : w > 0)

Blocks == FlattenSeq(Map(LAMBDA m : m.blocks, history))

\* Results that come too late or have lost their call, as a chat upstream reads the history.
Orphans ==
  {b.words[1] : b \in {x \in ToSet(Of({"result"}, Blocks)) :
     CASE client = "anthropic" ->
            ~\E k, n \in DOMAIN history :
               /\ k < n /\ x \in ToSet(history[n].blocks) /\ x.id \in Ids("call", history[k].blocks)
               /\ \A i \in k + 1 .. n - 1 : \A b \in ToSet(history[i].blocks) : b.t = "result"
       [] client = "responses" -> x.id \notin Ids("call", Blocks)
       [] OTHER -> FALSE}}

\* Is a thought sent on?  Prose and items have none, nor have two of the dialects; a signature
\* counts where both sides know one.
Replayed(up, x) ==
  CASE up.wire \in {"responses", "advisor"} \/ client \in {"responses", "aisdk"} -> FALSE
    [] client = "anthropic" /\ up.wire = "anthropic" -> x.signed
    [] client = "chat" /\ up.wire = "chat" -> TRUE
    [] OTHER -> up.replay

\* What an upstream is not told: thoughts, orphans it would refuse, images in prose.
Dropped(up) ==
  {b.words[1] : b \in {x \in ToSet(Blocks) :
     \/ x.t = "think" /\ ~Replayed(up, x)
     \/ x.t = "image" /\ up.wire = "advisor" /\ up.vision}}
  \cup (IF client = "anthropic" /\ up.wire = "anthropic" THEN {} ELSE Orphans)

\* Every word of the conversation reaches the upstream once, in the order it was said, but for
\* those listed in Dropped; no orphan's replacement, no merge of items and no numbering of
\* images loses, repeats or moves one (the request half of each translator).
NothingLost ==
  LET images == Images(ToChat(client, history, FALSE))
      said == Flat(history, images)
  IN  /\ turns = 0 => SettingsKept
      /\ \A up \in Upstreams :
        LET dropped == Dropped(up)
            must == SelectSeq(said, LAMBDA w : w \notin dropped)
            body == Flat(Sent(client, up, history), images)
        IN  IF client = "anthropic" /\ up.wire = "anthropic" THEN body = must
            ELSE ToSet(body) = ToSet(must) /\ \A n \in 2 .. Len(body) : body[n - 1] < body[n]

Bears(m) == \E b \in ToSet(m.blocks) : b.mark

\* Two messages share a word that was said.
SameTurn(m, k) ==
  \E b \in ToSet(m.blocks), c \in ToSet(k.blocks) :
    b.words # <<>> /\ b.words[1] > 0 /\ b.words[1] \in ToSet(c.words)

\* The client's turns with a breakpoint of which something is in the body, as what it was.
Ours(body) ==
  {m \in ToSet(history) :
     /\ Bears(m) /\ \E k \in ToSet(body) : SameTurn(m, k)
     /\ Ids("result", m.blocks) \subseteq
          UNION {Ids("call", history[n - 1].blocks) : n \in {k \in 2 .. Len(history) : history[k] = m}}}

MarksKept(body, ours) ==
  /\ \A m \in ours, k \in ToSet(body) : SameTurn(m, k) => Bears(k)
  /\ Cardinality({n \in DOMAIN body : Bears(body[n])})
       <= IF ours = {} THEN 4 ELSE Cardinality({n \in DOMAIN history : Bears(history[n])})

BodyKept(body) == MarksKept(body, Ours(body))

\* A breakpoint the client set stays in its message as long as the message does (an orphaned
\* result that becomes text loses it), and pxy adds none beside it: four are the most an
\* upstream takes (anthropic_sanitize.rs:47-54, cache_control.rs:12-19).
CacheKept ==
  client = "anthropic" =>
    \A up \in {u \in Upstreams : u.wire = "anthropic"} : BodyKept(Sent(client, up, history))
=============================================================================
