-------------------------------- MODULE Wire --------------------------------
(***************************************************************************)
(* The events that pass through a translator of pxy (src/translate).  All  *)
(* of them read or write one dialect, the chat chunk; what a client is     *)
(* sent is written here in one alphabet for the four clients.  Then whole  *)
(* replies: a stream collected into one (aggregate.rs), and the reply of   *)
(* an upstream as a chat completion and as what a client reads.            *)
(*                                                                         *)
(* A text, a thought or a part of a call's arguments is a piece, numbered  *)
(* in the order the upstream sent it; Blank is one of white space alone.   *)
(* A call's id and name are its number, 0 where the chunk has none.        *)
(***************************************************************************)
EXTENDS Integers, SequencesExt

Blank == 0

\* What an item is, or a piece is of: the number of a call, or one of these.
TEXT == -1
THINK == -2
SERVED == -3

\* Chunks.  A chunk that carries several things is the sequence of them.
Role == [t |-> "role"]
Think(ps) == [t |-> "think", ps |-> ps]
Text(ps) == [t |-> "text", ps |-> ps]
Call(i, id, name, args) == [t |-> "call", i |-> i, id |-> id, name |-> name, args |-> args]
Finish(why) == [t |-> "finish", why |-> why]
Usage == [t |-> "usage"]
Marker(search) == [t |-> "marker", search |-> search]
Error == [t |-> "error"]
Done == [t |-> "done"]

\* What a client is sent.
Start == [e |-> "start"]
Open(i, what) == [e |-> "open", i |-> i, what |-> what]
Piece(i, what, ps) == [e |-> "piece", i |-> i, what |-> what, ps |-> ps]
Close(i, what, ps) == [e |-> "close", i |-> i, what |-> what, ps |-> ps]
Say(what, ps) == [e |-> "say", what |-> what, ps |-> ps]
End(why) == [e |-> "end", why |-> why]
Fault == [e |-> "fault"]

\* A translator's step: its state after it and what it wrote.
Step(st, out) == [st |-> st, out |-> out]

\* A step and the one that follows it.
And(r, s) == [st |-> s.st, out |-> r.out \o s.out]

\* The steps of a translator that is fed a sequence.
Fed(On(_, _), st, seq) ==
  LET fed[n \in 0 .. Len(seq)] ==
        IF n = 0 THEN Step(st, <<>>) ELSE And(fed[n - 1], On(fed[n - 1].st, seq[n]))
  IN  fed[Len(seq)]

\* A set of numbers from least to greatest.
InOrder(S) ==
  [n \in 1 .. Cardinality(S) |-> CHOOSE i \in S : Cardinality({j \in S : j < i}) = n - 1]

-----------------------------------------------------------------------------
(* openai: chat chunks to a chat completion. *)

JFresh == [text |-> <<>>, think |-> <<>>, tools |-> [i \in {} |-> 0], reason |-> "none"]

\* A slot keeps the last id and name and all of the arguments.
JCall(acc, c) ==
  LET slot == IF c.i \in DOMAIN acc.tools THEN acc.tools[c.i]
              ELSE [id |-> 0, name |-> 0, args |-> <<>>]
      known == [id |-> IF c.id # 0 THEN c.id ELSE slot.id,
                name |-> IF c.name # 0 THEN c.name ELSE slot.name,
                args |-> slot.args \o c.args]
  IN  [acc EXCEPT !.tools = [i \in DOMAIN @ \cup {c.i} |-> IF i = c.i THEN known ELSE @[i]]]

JOn(acc, c) ==
  CASE c.t = "text" -> [acc EXCEPT !.text = @ \o c.ps]
    [] c.t = "think" -> [acc EXCEPT !.think = @ \o c.ps]
    [] c.t = "call" -> JCall(acc, c)
    [] c.t = "finish" -> [acc EXCEPT !.reason = c.why]
    [] OTHER -> acc

-----------------------------------------------------------------------------
(* anthropic: the events of a message to the message. *)

MFresh == [content |-> [i \in {} |-> 0], partials |-> [i \in {} |-> 0]]

\* A call's input is its parts, put together when the block stops.
MOn(m, e) ==
  CASE e.e = "open" ->
         [m EXCEPT !.content = [i \in DOMAIN @ \cup {e.i} |-> IF i = e.i THEN <<>> ELSE @[i]]]
    [] e.e = "piece" /\ e.i \in DOMAIN m.content /\ e.what \in {TEXT, THINK} ->
         [m EXCEPT !.content[e.i] = @ \o e.ps]
    [] e.e = "piece" /\ e.i \in DOMAIN m.content /\ e.what \notin {TEXT, THINK} ->
         [m EXCEPT !.partials = [i \in DOMAIN @ \cup {e.i} |->
                                   IF i # e.i THEN @[i]
                                   ELSE IF i \in DOMAIN @ THEN @[i] \o e.ps ELSE e.ps]]
    [] e.e = "close" /\ e.i \in DOMAIN m.partials ->
         [m EXCEPT !.content[e.i] = m.partials[e.i],
                   !.partials = [i \in DOMAIN @ \ {e.i} |-> @[i]]]
    [] OTHER -> m

-----------------------------------------------------------------------------
(* response, of every translator.  A chat completion is its text, its      *)
(* thought, its calls in order and its finish reason; an item of any other *)
(* reply is what it is, a call by its number, and what is in it.           *)

Item(what, ps) == [what |-> what, ps |-> ps]
Completion(text, think, calls, why) == [text |-> text, think |-> think, calls |-> calls, why |-> why]

\* A reply of items: the Anthropic message, the response of the Responses API.
Listed(items, why) == [items |-> items, why |-> why]

\* All the pieces of the items of one kind.
AllOf(items, what) ==
  LET its == SelectSeq(items, LAMBDA it : it.what = what)
  IN  FlattenSeq([n \in DOMAIN its |-> its[n].ps])

CallsAmong(items) == SelectSeq(items, LAMBDA it : it.what \notin {TEXT, THINK, SERVED})

\* openai_to_anthropic.rs and responses_upstream.rs: texts run together, and thoughts.
FromItems(items, why) == Completion(AllOf(items, TEXT), AllOf(items, THINK), CallsAmong(items), why)

\* anthropic_to_openai.rs and responses.rs: an item for what there is of each.
ToItems(c, why) ==
  Listed((IF c.think = <<>> THEN <<>> ELSE <<Item(THINK, c.think)>>)
         \o (IF c.text = <<>> THEN <<>> ELSE <<Item(TEXT, c.text)>>)
         \o c.calls, why)
=============================================================================
