---------------------------- MODULE Translators ----------------------------
(***************************************************************************)
(* The translators of streams, event by event: what an upstream of each    *)
(* dialect sends to chat chunks, and chat chunks to what a client of each  *)
(* dialect is sent.                                                        *)
(***************************************************************************)
EXTENDS Wire


-----------------------------------------------------------------------------
(* openai_to_anthropic.rs, StreamState: the events of an Anthropic         *)
(* upstream to chat chunks.                                                *)

\* indices: <<content block, chat index>> of the calls, in the order they began.
FFresh == [indices |-> <<>>, finished |-> FALSE]

\* Mutant: a call keeps the number of its block.
FIndex_OfBlock(st, block) == block

\* The chat index of a block, 0 for one that is no call.
FIndex(st, block) ==
  IF \E n \in DOMAIN st.indices : st.indices[n][1] = block
  THEN st.indices[CHOOSE n \in DOMAIN st.indices : st.indices[n][1] = block][2]
  ELSE 0

\* map_stop_reason.  "filter" is content_filter.
FReason(why) ==
  CASE why = "max_tokens" -> "length" [] why = "tool_use" -> "calls"
    [] why = "refusal" -> "filter" [] OTHER -> "stop"

\* The usage rides the chunk that finishes.
FClosing(st, why) == Step([st EXCEPT !.finished = TRUE], <<Usage, Finish(why), Done>>)

\* on_event.
FOn(st, e) ==
  CASE e.e = "start" -> Step(st, <<Role>>)
    [] e.e = "open" /\ e.what \notin {TEXT, THINK} ->
         LET i == Len(st.indices)
         IN  Step([st EXCEPT !.indices = Append(@, <<e.i, i>>)],
                  <<Call(i, e.what, e.what, <<>>)>>)
    [] e.e = "piece" ->
         Step(st, <<CASE e.what = TEXT -> Text(e.ps)
                      [] e.what = THINK -> Think(e.ps)
                      [] OTHER -> Call(FIndex(st, e.i), 0, 0, e.ps)>>)
    [] e.e = "end" -> FClosing(st, FReason(e.why))
    [] e.e = "stop" -> IF st.finished THEN Step(st, <<>>) ELSE FClosing(st, "stop")
    [] e.e = "fault" -> Step(st, <<Error>>)
    [] OTHER -> Step(st, <<>>)

-----------------------------------------------------------------------------
(* responses_upstream.rs, StreamState and chat_stream: the events of an    *)
(* upstream of the Responses API to chat chunks.                           *)

\* tools: the chat index of each function_call item, by the item.
GFresh == [tools |-> [i \in {} |-> 0], streamed |-> FALSE, done |-> FALSE]

\* finish_reason.  A response cut by a content filter is no other than a complete one.
GReason(why, calls) == IF why = "max_output_tokens" THEN "length"
                       ELSE IF calls THEN "calls" ELSE "stop"

\* Mutant: a reasoning item is told again when it is done.
GRetells_Always(st) == TRUE

\* Is the summary of a reasoning item that is done passed on?
GRetells(st) == ~st.streamed

GIndex(st, i) == st.tools[i]

\* on_event.  Each event is translated on its own, and nothing behind the last one.
GOn(st, e) ==
  LET next == {st.tools[i] : i \in DOMAIN st.tools}
      fresh == IF next = {} THEN 0 ELSE 1 + CHOOSE k \in next : \A j \in next : j <= k
  IN  CASE st.done -> Step(st, <<>>)
        [] ~st.done /\ e.e = "start" -> Step(st, <<Role>>)
        [] ~st.done /\ e.e = "open" ->
             Step([st EXCEPT !.tools = [i \in DOMAIN @ \cup {e.i} |-> IF i = e.i THEN fresh ELSE @[i]]],
                  <<Call(fresh, e.what, e.what, <<>>)>>)
        [] ~st.done /\ e.e = "piece" /\ e.what = TEXT -> Step(st, <<Text(e.ps)>>)
        [] ~st.done /\ e.e = "piece" /\ e.what = THINK ->
             Step([st EXCEPT !.streamed = TRUE], <<Think(e.ps)>>)
        [] ~st.done /\ e.e = "piece" /\ e.what \notin {TEXT, THINK} ->
             Step(st, IF e.i \in DOMAIN st.tools THEN <<Call(GIndex(st, e.i), 0, 0, e.ps)>> ELSE <<>>)
        [] ~st.done /\ e.e = "close" ->
             Step(st, IF e.what = THINK /\ GRetells(st) /\ e.ps # <<>> THEN <<Think(e.ps)>> ELSE <<>>)
        [] ~st.done /\ e.e = "end" ->
             Step([st EXCEPT !.done = TRUE],
                  <<Finish(GReason(e.why, DOMAIN st.tools # {})), Usage, Done>>)
        [] ~st.done /\ e.e = "fault" -> Step([st EXCEPT !.done = TRUE], <<Error>>)


-----------------------------------------------------------------------------
(* anthropic_to_openai.rs, StreamState: chat chunks to the content blocks  *)
(* of an Anthropic client.                                                 *)

NoBlock == -1

\* open is <<>> or <<index, kind>>, tools the slots in the order they appeared.
AFresh == [started |-> FALSE, next |-> 0, open |-> <<>>, tools |-> <<>>, reason |-> "none"]

AFreshTool(i) == [openai |-> i, block |-> NoBlock, id |-> 0, name |-> 0, args |-> <<>>]

\* open_text.take() and its stop_block.
AShut(st) ==
  Step([st EXCEPT !.open = <<>>],
       IF st.open = <<>> THEN <<>> ELSE <<Close(st.open[1], st.open[2], <<>>)>>)

\* text_delta.
AText(st, ps, kind) ==
  IF st.open # <<>> /\ st.open[2] = kind
  THEN Step(st, <<Piece(st.open[1], kind, ps)>>)
  ELSE And(AShut(st),
           Step([st EXCEPT !.open = <<st.next, kind>>, !.next = @ + 1],
                <<Open(st.next, kind), Piece(st.next, kind, ps)>>))

\* Is one sequence the beginning of another?
Begins(s, t) == Len(s) <= Len(t) /\ SubSeq(t, 1, Len(s)) = s

\* What a chunk adds to the arguments: an upstream may repeat all of them so far.
Suffix(known, args) ==
  IF known # <<>> /\ Begins(known, args)
  THEN SubSeq(args, Len(known) + 1, Len(args)) ELSE args

\* The slot of a call, pushed when its index is new.
ASlots(st, i) ==
  IF \E n \in DOMAIN st.tools : st.tools[n].openai = i THEN st.tools
  ELSE Append(st.tools, AFreshTool(i))

AToolOpens(slot) == slot.block = NoBlock /\ slot.name # 0

\* tool_delta: the block starts when the call's name is known, with the arguments that
\* came before it.
ATool(st, c) ==
  LET slots == ASlots(st, c.i)
      n == CHOOSE k \in DOMAIN slots : slots[k].openai = c.i
      slot == [slots[n] EXCEPT !.id = IF c.id # 0 THEN c.id ELSE @,
                               !.name = IF @ = 0 THEN c.name ELSE @]
      opens == AToolOpens(slot)
      block == IF opens THEN st.next ELSE slot.block
      shut == IF opens THEN AShut(st) ELSE Step(st, <<>>)
      fresh == Suffix(slot.args, c.args)
      known == [slot EXCEPT !.block = block, !.args = @ \o fresh]
      started == IF ~opens THEN <<>>
                 ELSE <<Open(block, slot.name)>>
                      \o (IF slot.args = <<>> THEN <<>>
                          ELSE <<Piece(block, slot.name, slot.args)>>)
      more == IF block = NoBlock \/ fresh = <<>> THEN <<>>
              ELSE <<Piece(block, slot.name, fresh)>>
  IN  Step([shut.st EXCEPT !.tools = [slots EXCEPT ![n] = known],
                           !.next = IF opens THEN @ + 1 ELSE @],
           shut.out \o started \o more)

\* clear_finish_reason, and emit_block twice for a search: its call and its result.  No other
\* tool pxy serves has blocks to show.
AServed(st, search) ==
  LET i == st.next
      shut == AShut([st EXCEPT !.next = @ + 2, !.reason = "none"])
  IN  IF ~search THEN Step([st EXCEPT !.reason = "none"], <<>>)
      ELSE Step(shut.st,
                shut.out \o <<Open(i, SERVED), Piece(i, SERVED, <<Blank>>), Close(i, SERVED, <<>>),
                              Open(i + 1, SERVED), Close(i + 1, SERVED, <<>>)>>)

\* map_finish_reason.  A filtered or a failed turn ends like any other.
AReason(why) == CASE why = "length" -> "max_tokens"
                  [] why = "calls" -> "tool_use"
                  [] OTHER -> "end_turn"

\* Mutant: the blocks of the calls are left to the end of the message.
AFinish_LeavesTools(st) ==
  IF ~st.started THEN Step(st, <<>>)
  ELSE And(AShut(st), Step([st EXCEPT !.started = FALSE, !.open = <<>>], <<End(AReason(st.reason))>>))

\* finish: every open block is closed, then message_delta and message_stop.
AFinish(st) ==
  LET open == InOrder({n \in DOMAIN st.tools : st.tools[n].block # NoBlock})
      stops == [k \in DOMAIN open |-> Close(st.tools[open[k]].block, st.tools[open[k]].name, <<>>)]
  IN  IF ~st.started THEN Step(st, <<>>)
      ELSE And(AShut(st),
               Step([st EXCEPT !.open = <<>>, !.started = FALSE,
                               !.tools = [n \in DOMAIN st.tools |->
                                            [st.tools[n] EXCEPT !.block = NoBlock]]],
                    stops \o <<End(AReason(st.reason))>>))

\* on_data.  A chunk with none of the fields it reads still begins the message.
AOn(st, c) ==
  LET begun == [st EXCEPT !.started = TRUE]
      said == CASE c.t = "text" -> AText(begun, c.ps, TEXT)
                [] c.t = "think" -> AText(begun, c.ps, THINK)
                [] c.t = "call" -> ATool(begun, c)
                [] c.t = "finish" -> Step([begun EXCEPT !.reason = c.why], <<>>)
                [] OTHER -> Step(begun, <<>>)
  IN  IF c.t = "done" THEN AFinish(st)
      ELSE And(Step(begun, IF st.started THEN <<>> ELSE <<Start>>), said)

-----------------------------------------------------------------------------
(* responses.rs, StreamState: chat chunks to the items of a client of the  *)
(* Responses API.                                                          *)

\* think and message are <<>> or [index, buf, done]; a slot per chat index in tools.
RFresh == [started |-> FALSE, next |-> 0, think |-> <<>>, message |-> <<>>,
           tools |-> [i \in {} |-> 0], usage |-> FALSE, awaiting |-> FALSE,
           completed |-> FALSE, failed |-> FALSE]

RFreshTool(index) == [index |-> index, id |-> 0, name |-> 0, args |-> <<>>,
                      added |-> FALSE, done |-> FALSE]

\* close_message, close_reasoning.
RCloseMessage(st) ==
  IF st.message = <<>> \/ st.message[1].done THEN Step(st, <<>>)
  ELSE Step([st EXCEPT !.message[1].done = TRUE],
            <<Close(st.message[1].index, TEXT, st.message[1].buf)>>)

RCloseThink(st) ==
  IF st.think = <<>> \/ st.think[1].done THEN Step(st, <<>>)
  ELSE Step([st EXCEPT !.think[1].done = TRUE],
            <<Close(st.think[1].index, THINK, st.think[1].buf)>>)

\* reasoning_delta: one reasoning item for the whole response.
RThink(st, ps) ==
  LET fresh == st.think = <<>>
      item == IF fresh THEN [index |-> st.next, buf |-> <<>>, done |-> FALSE] ELSE st.think[1]
  IN  Step([st EXCEPT !.think = <<[item EXCEPT !.buf = @ \o ps]>>,
                      !.next = IF fresh THEN @ + 1 ELSE @],
           (IF fresh THEN <<Open(item.index, THINK)>> ELSE <<>>)
           \o <<Piece(item.index, THINK, ps)>>)

\* text_delta: one message item for the whole response.
RText(st, ps) ==
  LET fresh == st.message = <<>>
      item == IF fresh THEN [index |-> st.next, buf |-> <<>>, done |-> FALSE] ELSE st.message[1]
  IN  Step([st EXCEPT !.message = <<[item EXCEPT !.buf = @ \o ps]>>,
                      !.next = IF fresh THEN @ + 1 ELSE @],
           (IF fresh THEN <<Open(item.index, TEXT)>> ELSE <<>>)
           \o <<Piece(item.index, TEXT, ps)>>)

\* tool_call_delta: the item is announced when its id and name are known, with the
\* arguments that came before.
RCall(st, c) ==
  LET fresh == c.i \notin DOMAIN st.tools
      slot == IF fresh THEN RFreshTool(st.next) ELSE st.tools[c.i]
      id == IF slot.id = 0 THEN c.id ELSE slot.id
      name == IF slot.name = 0 THEN c.name ELSE slot.name
      adds == ~slot.added /\ id # 0 /\ name # 0
      args == slot.args \o c.args
      more == IF adds THEN args ELSE IF slot.added THEN c.args ELSE <<>>
      known == [slot EXCEPT !.id = id, !.name = name, !.args = args, !.added = @ \/ adds]
  IN  Step([st EXCEPT !.tools = [i \in DOMAIN @ \cup {c.i} |-> IF i = c.i THEN known ELSE @[i]],
                      !.next = IF fresh THEN @ + 1 ELSE @],
           (IF adds THEN <<Open(slot.index, name)>> ELSE <<>>)
           \o (IF more = <<>> THEN <<>> ELSE <<Piece(slot.index, name, more)>>))

\* Which calls close_tools closes, in the order of the map.
RUnclosed(st) ==
  InOrder({i \in DOMAIN st.tools : ~st.tools[i].done /\ st.tools[i].id # 0})

RCloseTools(st) ==
  LET keys == RUnclosed(st)
      slot(n) == st.tools[keys[n]]
  IN  Step([st EXCEPT !.tools = [i \in DOMAIN @ |->
                                   [@[i] EXCEPT !.done = @ \/ i \in {keys[n] : n \in DOMAIN keys}]]],
           [n \in DOMAIN keys |-> Close(slot(n).index, slot(n).name, slot(n).args)])

\* Mutant: the calls are left open.
RCloseAll_LeavesTools(st) == LET m == RCloseMessage(st) IN And(m, RCloseThink(m.st))

RCloseAll(st) ==
  LET m == RCloseMessage(st)
      t == RCloseThink(m.st)
      c == RCloseTools(t.st)
  IN  And(And(m, t), c)

\* send_completed, send_failed.
RComplete(st) ==
  IF st.completed THEN Step(st, <<>>)
  ELSE Step([st EXCEPT !.completed = TRUE], <<End("completed")>>)

RFail(st) == Step([st EXCEPT !.completed = TRUE], <<End("failed")>>)

\* web_search_call: an item told whole.
RServed(st) ==
  LET t == RCloseThink(st)
      m == RCloseMessage(t.st)
      i == m.st.next
  IN  And(And(t, m),
          Step([m.st EXCEPT !.next = @ + 1], <<Open(i, SERVED), Close(i, SERVED, <<>>)>>))

\* A text without the white space it begins with.
RTrimmed(ps) ==
  LET said == {n \in DOMAIN ps : ps[n] # Blank}
  IN  IF said = {} THEN <<>> ELSE SubSeq(ps, CHOOSE n \in said : \A m \in said : n <= m, Len(ps))

\* The parts of on_data behind its first event.  A text is trimmed while the message is empty.
RSaid(st, c) ==
  CASE c.t = "think" -> RThink(st, c.ps)
    [] c.t = "text" ->
         LET empty == st.message = <<>> \/ st.message[1].buf = <<>>
             text == IF empty THEN RTrimmed(c.ps) ELSE c.ps
             t == RCloseThink(st)
         IN  IF text = <<>> THEN Step(st, <<>>) ELSE And(t, RText(t.st, text))
    [] c.t = "call" ->
         LET t == RCloseThink(st)
             m == RCloseMessage(t.st)
         IN  And(And(t, m), RCall(m.st, c))
    [] c.t = "finish" ->
         LET all == RCloseAll(st)
         IN  IF st.usage THEN And(all, RComplete(all.st))
             ELSE Step([all.st EXCEPT !.awaiting = TRUE], all.out)
    [] OTHER -> Step(st, <<>>)

\* on_data.  A chunk with no choices is a marker, the usage or an error; the marker of a tool
\* other than the search is swallowed.
ROn(st, c) ==
  CASE c.t = "done" -> Step(st, <<>>)
    [] c.t = "marker" -> IF c.search THEN RServed(st) ELSE Step(st, <<>>)
    [] c.t = "usage" ->
         LET known == [st EXCEPT !.usage = TRUE]
         IN  IF st.awaiting THEN RComplete(known) ELSE Step(known, <<>>)
    [] c.t = "error" -> IF st.awaiting THEN RComplete(st) ELSE Step(st, <<>>)
    [] OTHER ->
         And(Step([st EXCEPT !.started = TRUE], IF st.started THEN <<>> ELSE <<Start>>),
             RSaid([st EXCEPT !.started = TRUE], c))

\* finish.  fail is called for a body that breaks, which the relay's never does.
RFinish(st) ==
  LET all == RCloseAll(st)
  IN  IF st.failed /\ ~st.completed THEN And(all, RFail(all.st)) ELSE And(all, RComplete(all.st))

-----------------------------------------------------------------------------
(* aisdk.rs, StreamState: chat chunks to the events of an AI SDK client,   *)
(* which is given the calls of a turn at its end.                          *)

\* tools: [openai, id, name, args] in the order they appeared.
SFresh == [started |-> FALSE, finished |-> FALSE, failed |-> FALSE, tools |-> <<>>,
           reason |-> "none"]

\* The part of on_data that reads tool_calls.
SCall(st, c) ==
  LET slots == IF \E n \in DOMAIN st.tools : st.tools[n].openai = c.i THEN st.tools
               ELSE Append(st.tools, [openai |-> c.i, id |-> 0, name |-> 0, args |-> <<>>])
      n == CHOOSE k \in DOMAIN slots : slots[k].openai = c.i
  IN  [st EXCEPT !.tools = [slots EXCEPT ![n].id = IF c.id # 0 THEN c.id ELSE @,
                                         ![n].name = IF c.name # 0 THEN c.name ELSE @,
                                         ![n].args = @ \o c.args]]

\* unified_finish.
Unified(why, calls) ==
  LET mapped == CASE why = "calls" -> "tool-calls"
                  [] why = "filter" -> "content-filter"
                  [] why \in {"length", "error"} -> why
                  [] why \in {"none", "stop"} -> "stop"
                  [] OTHER -> "other"
  IN  IF calls /\ mapped \in {"stop", "other", "error"} THEN "tool-calls" ELSE mapped

\* Mutant: what a failed turn has buffered is sent.
SFinish_SendsAll(st) ==
  LET named == SelectSeq(st.tools, LAMBDA slot : slot.name # 0)
      calls == [n \in DOMAIN named |-> Say(named[n].name, named[n].args)]
  IN  IF st.finished THEN Step(st, <<>>)
      ELSE Step([st EXCEPT !.finished = TRUE, !.tools = <<>>],
                calls \o <<End(IF st.failed THEN "error" ELSE Unified(st.reason, named # <<>>))>>)

\* finish: a failed turn drops its calls, and one with no name is never sent.
SFinish(st) ==
  LET named == IF st.failed THEN <<>> ELSE SelectSeq(st.tools, LAMBDA slot : slot.name # 0)
      calls == [n \in DOMAIN named |-> Say(named[n].name, named[n].args)]
  IN  IF st.finished THEN Step(st, <<>>)
      ELSE Step([st EXCEPT !.finished = TRUE, !.tools = <<>>],
                calls \o <<End(IF st.failed THEN "error" ELSE Unified(st.reason, named # <<>>))>>)

\* on_data.
SOn(st, c) ==
  LET begun == [st EXCEPT !.started = TRUE]
      said == CASE c.t = "error" -> Step([begun EXCEPT !.failed = TRUE], <<Fault>>)
                [] c.t = "text" -> Step(begun, <<Say(TEXT, c.ps)>>)
                [] c.t = "think" -> Step(begun, <<Say(THINK, c.ps)>>)
                [] c.t = "call" -> Step(SCall(begun, c), <<>>)
                [] c.t = "finish" -> Step([begun EXCEPT !.reason = c.why], <<>>)
                [] OTHER -> Step(begun, <<>>)
  IN  IF c.t = "done" THEN SFinish(st)
      ELSE And(Step(begun, IF st.started THEN <<>> ELSE <<Start>>), said)
=============================================================================
