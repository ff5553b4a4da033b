------------------------------- MODULE Frames -------------------------------
(***************************************************************************)
(* The answer of an upstream that is made to stream to a client that did   *)
(* not ask for a stream: the bytes come cut anywhere, sse.rs makes events  *)
(* of them, and the text of the events, if the client declared JSON mode,  *)
(* is healed (heal.rs).                                                    *)
(*                                                                         *)
(* A token stands for the characters its name shows: "q" is a quote, "sp"  *)
(* and "nl" white space of the answer, "bs" a backslash, "1" a digit or a  *)
(* literal, "k" a letter that JSON has no escape of.  A letter outside of  *)
(* ASCII is two bytes on the wire.                                         *)
(***************************************************************************)
EXTENDS Integers, Sequences, SequencesExt

CONSTANT
  Jobs        \* [answer, style, heal]: a turn, and whether pxy is to heal its answer

Wide == <<"wide1", "wide2">>

\* What a model says: the value it answers with and the prose around it.  meant is the JSON
\* that the value is, or becomes without the slips heal.rs knows; <<>> if there is none.
AnswerOfModel ==
  [before : Seq(STRING), value : Seq(STRING), after : Seq(STRING), meant : Seq(STRING)]

\* How an upstream writes its frames, and in how many of them at most an answer.
StyleOfUpstream ==
  [crlf : BOOLEAN, named : BOOLEAN, noise : {"none", "csi", "osc", "st"}, keeps : BOOLEAN,
   open : BOOLEAN, frames : Nat \ {0}]

ASSUME FramesAssumption ==
  Jobs \subseteq [answer : AnswerOfModel, style : StyleOfUpstream, heal : BOOLEAN]

VARIABLES
  job,      \* one of Jobs: fixed
  left,     \* what the upstream has not written yet
  frames,   \* the texts of the frames it wrote
  wire,     \* bytes on their way
  parser,   \* SseParser
  events,   \* the events it made
  body      \* the content the client is given

vars == <<job, left, frames, wire, parser, events, body>>

NoBody == <<"none">>

-----------------------------------------------------------------------------
(* SseParser.                                                              *)

Fresh == [tail |-> <<>>, text |-> <<>>]

\* Mutant: a character that is not all there is decoded.
Decodable_All(bytes) == bytes

\* The bytes that can be decoded: all but the first half of a character at the end.
Decodable(bytes) ==
  IF bytes # <<>> /\ Last(bytes) = "wide1" THEN Front(bytes) ELSE bytes

\* A half with no other half is replaced.
Decoded(bytes) ==
  FlattenSeq([i \in DOMAIN bytes |->
    CASE bytes[i] = "wide1" -> IF i < Len(bytes) /\ bytes[i + 1] = "wide2" THEN <<>> ELSE <<"?">>
      [] bytes[i] = "wide2" -> IF i > 1 /\ bytes[i - 1] = "wide1" THEN <<"wide">> ELSE <<"?">>
      [] OTHER -> <<bytes[i]>>])

\* find_event_end: a blank line in either spelling.
LfAt(text) == {i \in 1 .. Len(text) - 1 : SubSeq(text, i, i + 1) = <<"LF", "LF">>}
CrlfAt(text) == {i \in 1 .. Len(text) - 3 : SubSeq(text, i, i + 3) = <<"CR", "LF", "CR", "LF">>}

\* The bytes that end a control sequence.
FinalByte == {"m", "k", "[", "]", "{", "}", "bs"}

\* strip_ansi: an escape sequence is dropped up to its end, an ESC of no sequence alone.
Stripped(text) ==
  FoldLeft(LAMBDA st, c :
      CASE st.in \in {"no", "esc"} /\ c = "ESC" -> [st EXCEPT !.in = "esc"]
        [] st.in = "esc" /\ c = "[" -> [st EXCEPT !.in = "csi"]
        [] st.in = "esc" /\ c = "]" -> [st EXCEPT !.in = "osc"]
        [] st.in = "csi" -> IF c \in FinalByte THEN [st EXCEPT !.in = "no"] ELSE st
        [] st.in \in {"osc", "osc esc"} ->
             [st EXCEPT !.in = IF c = "BEL" \/ (c = "bs" /\ st.in = "osc esc") THEN "no"
                               ELSE IF c = "ESC" THEN "osc esc" ELSE "osc"]
        [] OTHER -> [out |-> Append(st.out, c), in |-> "no"],
    [out |-> <<>>, in |-> "no"], text).out

Lines(text) ==
  FoldLeft(LAMBDA ls, c : IF c = "LF" THEN Append(ls, <<>>)
                          ELSE [ls EXCEPT ![Len(ls)] = Append(@, c)],
           <<(<<>>)>>, SelectSeq(text, LAMBDA c : c # "CR"))

Field(line, name) == line # <<>> /\ Head(line) = name

Unspaced(line) == IF Field(line, "sp") THEN Tail(line) ELSE line

\* parse_event: the data of an event, nothing of a comment.
ParseEvent(raw) ==
  LET data == SelectSeq(Lines(raw), LAMBDA l : Field(l, "data:"))
      named == \E l \in ToSet(Lines(raw)) : Field(l, "event:")
  IN  IF data = <<>> /\ ~named THEN <<>>
      ELSE <<FlattenSeq([n \in DOMAIN data |-> Unspaced(Tail(data[n]))])>>

\* The loop of feed: all events that are whole, and the text behind them.
RECURSIVE Cut(_, _)
Cut(text, evs) ==
  LET ends == LfAt(text) \cup CrlfAt(text)
      at == CHOOSE i \in ends : \A j \in ends : i <= j
      over == at + (IF at \in LfAt(text) THEN 2 ELSE 4)
  IN  IF ends = {} THEN [text |-> text, events |-> evs]
      ELSE Cut(SubSeq(text, over, Len(text)),
               evs \o ParseEvent(Stripped(SubSeq(text, 1, at - 1))))

\* feed.
Feed(p, bytes) ==
  LET all == p.tail \o bytes
      now == Decodable(all)
      cut == Cut(p.text \o Decoded(now), <<>>)
  IN  [parser |-> [tail |-> SubSeq(all, Len(now) + 1, Len(all)), text |-> cut.text],
       events |-> cut.events]

-----------------------------------------------------------------------------
(* serde_json, as heal.rs uses it: is a text a JSON value?                 *)

White == {"sp", "nl"}

Shut(st) ==
  [st EXCEPT !.stack = Front(@), !.mode = IF Len(st.stack) = 1 THEN "end" ELSE "after"]

Begun(st, c) ==
  CASE c = "{" -> [st EXCEPT !.stack = Append(@, "{"), !.mode = "first key"]
    [] c = "[" -> [st EXCEPT !.stack = Append(@, "["), !.mode = "first"]
    [] c = "q" -> [st EXCEPT !.mode = "string"]
    [] c = "1" -> [st EXCEPT !.mode = IF st.stack = <<>> THEN "end" ELSE "number"]
    [] OTHER -> [st EXCEPT !.mode = "bad"]

Behind(st, c) ==
  CASE c = "," -> [st EXCEPT !.mode = IF Last(st.stack) = "{" THEN "key" ELSE "value"]
    [] c = "}" /\ Last(st.stack) = "{" -> Shut(st)
    [] c = "]" /\ Last(st.stack) = "[" -> Shut(st)
    [] OTHER -> [st EXCEPT !.mode = "bad"]

Json(st, c) ==
  CASE st.mode = "bad" -> st
    [] st.mode # "bad" /\ st.esc -> IF c \in {"q", "bs"} THEN [st EXCEPT !.esc = FALSE] ELSE [st EXCEPT !.mode = "bad"]
    [] st.mode = "string" /\ ~st.esc /\ c = "q" -> [st EXCEPT !.mode = IF st.stack = <<>> THEN "end" ELSE "after"]
    [] st.mode = "name" /\ ~st.esc /\ c = "q" -> [st EXCEPT !.mode = "colon"]
    [] st.mode \in {"string", "name"} /\ ~st.esc /\ c # "q" ->
         [st EXCEPT !.esc = c = "bs", !.mode = IF c = "nl" THEN "bad" ELSE @]
    [] st.mode = "number" /\ c = "1" -> st
    [] st.mode = "number" /\ c \in White -> [st EXCEPT !.mode = "after"]
    [] st.mode \notin {"bad", "string", "name", "number"} /\ c \in White -> st
    [] st.mode = "first" /\ c = "]" -> Shut(st)
    [] st.mode = "first key" /\ c = "}" -> Shut(st)
    [] st.mode \in {"first key", "key"} /\ c = "q" -> [st EXCEPT !.mode = "name"]
    [] st.mode = "colon" /\ c = ":" -> [st EXCEPT !.mode = "value"]
    [] st.mode \in {"after", "number"} /\ c \notin White \cup {"1"} -> Behind(st, c)
    [] st.mode = "value" /\ c \notin White -> Begun(st, c)
    [] st.mode = "first" /\ c \notin White \cup {"]"} -> Begun(st, c)
    [] OTHER -> [st EXCEPT !.mode = "bad"]

Parses(text) == FoldLeft(Json, [mode |-> "value", stack |-> <<>>, esc |-> FALSE], text).mode = "end"

-----------------------------------------------------------------------------
(* heal_json.                                                              *)

Word == {"k", "1", "wide"}
Closer(c) == IF c = "{" THEN "}" ELSE "]"

\* How far a word goes.
RECURSIVE WordFrom(_, _)
WordFrom(src, i) == IF i <= Len(src) /\ src[i] \in Word THEN 1 + WordFrom(src, i + 1) ELSE 0

\* Is there only a closer behind, or nothing?
Trailing(src, i) ==
  LET dark == {j \in i + 1 .. Len(src) : src[j] \notin White}
  IN  dark = {} \/ src[CHOOSE j \in dark : \A m \in dark : j <= m] \in {"}", "]"}

\* One character of rebuild.  stack: the closers that are due, and whether a key is.
Copy(src, st, i) ==
  LET c == src[i]
      put == [st EXCEPT !.out = Append(@, c), !.used = i]
      n == WordFrom(src, i)
      top == IF st.stack = <<>> THEN [closer |-> "", key |-> FALSE] ELSE Last(st.stack)
      due(k) == IF put.stack = <<>> THEN put
                ELSE [put EXCEPT !.stack[Len(put.stack)].key = k]
  IN  CASE st.over -> st
        [] ~st.over /\ st.skip > 0 -> [st EXCEPT !.skip = @ - 1, !.used = i]
        [] ~st.over /\ st.skip = 0 /\ st.in ->
             [put EXCEPT !.in = st.esc \/ c # "q", !.esc = ~st.esc /\ c = "bs"]
        [] OTHER ->
             CASE c = "q" -> [put EXCEPT !.in = TRUE]
               [] c \in {"{", "["} -> [put EXCEPT !.stack = Append(@, [closer |-> Closer(c), key |-> c = "{"])]
               [] c \in {"}", "]"} ->
                    [put EXCEPT !.stack = IF @ = <<>> THEN @ ELSE Front(@), !.over = Len(st.stack) <= 1]
               [] c = "," ->
                    IF Trailing(src, i) THEN [st EXCEPT !.used = i]
                    ELSE IF top.closer = "}" THEN due(TRUE) ELSE put
               [] c = ":" -> due(FALSE)
               [] c \in Word /\ top.closer = "}" /\ top.key ->
                    [st EXCEPT !.out = @ \o <<"q">> \o SubSeq(src, i, i + n - 1) \o <<"q">>,
                               !.skip = n - 1, !.used = i]
               [] OTHER -> put

\* rebuild: what was left open is closed.  A backslash a string was cut behind goes: it would
\* escape the quote.
Rebuilt(src) ==
  LET st == FoldLeftDomain(LAMBDA acc, i : Copy(src, acc, i),
                           [out |-> <<>>, stack |-> <<>>, in |-> FALSE, esc |-> FALSE, skip |-> 0,
                            over |-> FALSE, used |-> 0], src)
      quote == IF ~st.in THEN st.out ELSE Append(IF st.esc THEN Front(st.out) ELSE st.out, "q")
      open == Reverse(st.stack)
  IN  [text |-> quote \o [n \in DOMAIN open |-> open[n].closer], used |-> st.used]

\* Does a position open a line?
OpensLine(text, i) ==
  \A j \in 1 .. i - 1 : text[j] \in White \/ \E m \in j + 1 .. i - 1 : text[m] = "nl"

Starts(text) == {i \in DOMAIN text : text[i] \in {"{", "["}}

\* Mutant: every bracket has the rank of one that opens a line.
Ranks_One(text) == <<Starts(text), {}>>

Ranks(text) ==
  LET upper == {i \in Starts(text) : OpensLine(text, i)}
  IN  <<upper, Starts(text) \ upper>>

\* The candidates of a rank that parse, by their starts.
Sound(text, rank) == {i \in rank : Parses(Rebuilt(SubSeq(text, i, Len(text))).text)}

\* The one that accounts for the most text, the first of such.
Widest(text, sound) ==
  LET used(i) == Rebuilt(SubSeq(text, i, Len(text))).used
  IN  CHOOSE i \in sound : \A j \in sound : used(j) < used(i) \/ (used(j) = used(i) /\ i <= j)

Best(text, sound) == Rebuilt(SubSeq(text, Widest(text, sound), Len(text))).text

Trimmed(text) ==
  LET dark == {i \in DOMAIN text : text[i] \notin White}
  IN  {SubSeq(text, i, j) : <<i, j>> \in {p \in dark \X dark : \A d \in dark : p[1] <= d /\ d <= p[2]}}

\* heal_json, and the text as it is where it makes nothing of it or nothing new.
Healed(text) ==
  LET sound == SelectSeq([n \in 1 .. 2 |-> Sound(text, Ranks(text)[n])], LAMBDA s : s # {})
  IN  IF sound = <<>> \/ Best(text, Head(sound)) \in Trimmed(text) THEN text
      ELSE Best(text, Head(sound))

-----------------------------------------------------------------------------

\* What the model says, all of it.
Said == job.answer.before \o job.answer.value \o job.answer.after

Init ==
  /\ job \in Jobs
  /\ left = Said
  /\ frames = <<>> /\ wire = <<>>
  /\ parser = Fresh /\ events = <<>>
  /\ body = NoBody

Bytes(text) == FlattenSeq([i \in DOMAIN text |-> IF text[i] = "wide" THEN Wide ELSE <<text[i]>>])

\* A frame as an upstream writes it; the last one may lack its blank line.
Frame(text, last) ==
  LET s == job.style
      eol == IF s.crlf THEN <<"CR", "LF">> ELSE <<"LF">>
      noise == CASE s.noise = "none" -> <<>>
                 [] s.noise = "csi" -> <<"ESC", "[", "1", "m">>
                 [] s.noise = "osc" -> <<"ESC", "]", "k", "BEL">>
                 [] s.noise = "st" -> <<"ESC", "]", "k", "ESC", "bs">>
  IN  (IF s.keeps THEN <<":", "k">> \o eol \o eol ELSE <<>>)
      \o noise \o (IF s.named THEN <<"event:", "k">> \o eol ELSE <<>>)
      \o <<"data:", "sp">> \o Bytes(text) \o (IF last /\ s.open THEN <<>> ELSE eol \o eol)

\* The upstream writes a part of its answer, or the rest of it.
Writes ==
  /\ left # <<>>
  /\ \E n \in 1 .. Len(left) :
       /\ n < Len(left) => Len(frames) + 1 < job.style.frames
       /\ frames' = Append(frames, SubSeq(left, 1, n))
       /\ wire' = wire \o Frame(SubSeq(left, 1, n), n = Len(left))
       /\ left' = SubSeq(left, n + 1, Len(left))
  /\ UNCHANGED <<job, parser, events, body>>

\* Any number of bytes arrives.
Arrives ==
  /\ \E n \in 1 .. Len(wire) :
       LET fed == Feed(parser, SubSeq(wire, 1, n))
       IN  /\ parser' = fed.parser
           /\ events' = events \o fed.events
           /\ wire' = SubSeq(wire, n + 1, Len(wire))
  /\ UNCHANGED <<job, left, frames, body>>

\* heal_json_outcome.
Settled(content) == IF job.heal THEN Healed(content) ELSE content

\* The body is over: an event the upstream did not end is, and the reply is collected.
Ends ==
  /\ left = <<>> /\ wire = <<>> /\ body = NoBody
  /\ LET fed == Feed(parser, <<"LF", "LF">>)
     IN  /\ parser' = fed.parser
         /\ events' = events \o fed.events
         /\ body' = Settled(FlattenSeq(events \o fed.events))
  /\ UNCHANGED <<job, left, frames, wire>>

Next == Writes \/ Arrives \/ Ends

Spec == Init /\ [][Next]_vars

-----------------------------------------------------------------------------
(* Properties. *)

\* sse.rs: wherever the network cuts a stream, in a line end, an escape sequence or a
\* character, each frame that arrived whole is one event with its text, and at the end
\* there is one for every frame.
FramesArrive ==
  /\ IsPrefix(events, frames)
  /\ wire = <<>> /\ ~job.style.open => events = frames
  /\ body # NoBody => events = frames

\* Where the value begins, and the JSON there is, as it stands, at other brackets.
ValueAt == Len(job.answer.before) + 1

Runs ==
  {r \in (DOMAIN Said) \X (DOMAIN Said) :
     /\ r[1] \in Starts(Said) \ {ValueAt} /\ Said[r[2]] \in {"}", "]"}
     /\ Parses(SubSeq(Said, r[1], r[2]))}

\* Where healing is known to serve a run of the prose, or a part of the value, for the answer:
\* the run opens a line and the value does not, or neither or both do and the value is the
\* shorter; or no closers make JSON of the value.
Displaced ==
  \E r \in Runs :
    LET long == r[2] - r[1] + 1
    IN  \/ job.answer.meant = <<>>
        \/ OpensLine(Said, r[1]) /\ ~OpensLine(Said, ValueAt)
        \/ /\ OpensLine(Said, r[1]) <=> OpensLine(Said, ValueAt)
           /\ \/ long > Len(job.answer.value)
              \/ long = Len(job.answer.value) /\ r[1] < ValueAt

\* heal.rs: "serving one of those instead of the answer is silent".  A client that asked
\* for JSON is given the value the model meant, taken out of fences and prose and without
\* its slips, or all that was said where that is the value or no value can be had, and in
\* any case JSON or what was said; every other client what was said, word for word.
AnswerIsMeant ==
  body # NoBody =>
    IF ~job.heal THEN body = Said
    ELSE /\ body = Said \/ Parses(body)
         /\ \/ body = IF job.answer.meant \in {<<>>} \cup Trimmed(Said) THEN Said ELSE job.answer.meant
            \/ Displaced
=============================================================================
