----------------------------- MODULE TextFilters -----------------------------
(***************************************************************************)
(* The filters a chat upstream's text goes through as it streams: think.rs *)
(* takes out <think> spans, tool_text.rs the calls a model writes as text. *)
(* A text is a sequence of tokens, a tag of either filter two or three of  *)
(* them, so that a tag may be split between chunks at every place.         *)
(***************************************************************************)
EXTENDS Wire, FiniteSetsExt

\* <think> is LT THINKS, </think> is LT SLASH THINKS.
LT == -11
SLASH == -12
THINKS == -13

\* An opener of a call is LT CALLS, its closer one token: it is looked for in the buffer
\* alone.  VALID stands for the inside of a call of a declared tool.
CALLS == -14
CLOSER == -15
VALID == -16

OpenTag == <<LT, THINKS>>
CloseTag == <<LT, SLASH, THINKS>>
Opener == <<LT, CALLS>>

\* Where a tag begins in a text.
At(text, tag) ==
  {i \in 1 .. Len(text) - Len(tag) + 1 : SubSeq(text, i, i + Len(tag) - 1) = tag}

\* partial_suffix_len, longest_opener_prefix: the longest end of a text that a tag may
\* still come of.
Partial(text, tag) ==
  Max({0} \cup {k \in 1 .. Len(tag) - 1 : /\ k <= Len(text)
                                          /\ SubSeq(text, Len(text) - k + 1, Len(text)) = SubSeq(tag, 1, k)})

Upto(text, n) == SubSeq(text, 1, n)
From(text, n) == SubSeq(text, n, Len(text))

-----------------------------------------------------------------------------
(* ThinkFilter. *)

ThinkFresh == [inside |-> FALSE, buf |-> <<>>]

\* What a filter keeps and what it lets out, as thought and as text.
Sorted(st, think, text) == [st |-> st, think |-> think, text |-> text]

Kept(inside, buf) ==
  IF inside THEN Partial(buf, CloseTag) ELSE Max({Partial(buf, OpenTag), Partial(buf, CloseTag)})

\* n tokens of the buffer are let out, as thought or as text; rest is what is behind them.
LetOut(f, thought, n, inside, rest) ==
  Sorted([inside |-> inside, buf |-> rest],
         IF thought THEN f.think \o Upto(f.st.buf, n) ELSE f.think,
         IF thought THEN f.text ELSE f.text \o Upto(f.st.buf, n))

\* The loop of push: up to the next tag, if there is one.  Outside a block a closing tag counts
\* too: what is before it was thought.
ThinkRound(f) ==
  LET closes == At(f.st.buf, CloseTag)
      hits == closes \cup (IF f.st.inside THEN {} ELSE At(f.st.buf, OpenTag))
      i == Min(hits)
      close == i \in closes
  IN  IF hits = {} THEN f
      ELSE LetOut(f, f.st.inside \/ close, i - 1, ~close,
                  From(f.st.buf, i + Len(IF close THEN CloseTag ELSE OpenTag)))

\* Behind it: what no tag may come of.
ThinkRest(f) ==
  LET n == Len(f.st.buf) - Kept(f.st.inside, f.st.buf)
  IN  LetOut(f, f.st.inside, n, f.st.inside, From(f.st.buf, n + 1))

\* push.
ThinkPush(st, text) ==
  LET buf == st.buf \o text
      scan[n \in 0 .. Len(buf)] ==
        IF n = 0 THEN Sorted([st EXCEPT !.buf = buf], <<>>, <<>>) ELSE ThinkRound(scan[n - 1])
  IN  ThinkRest(scan[Len(buf)])

\* flush leaves inside as it is.
ThinkFlush(st) ==
  Sorted([st EXCEPT !.buf = <<>>], IF st.inside THEN st.buf ELSE <<>>,
         IF st.inside THEN <<>> ELSE st.buf)

-----------------------------------------------------------------------------
(* ToolTextFilter.  An op is a text or the call a span was. *)

CallTextFresh == [inCall |-> FALSE, buf |-> <<>>, calls |-> 0]

OpText(text) == [call |-> FALSE, text |-> text]
OpCall == [call |-> TRUE, text |-> <<>>]

\* validate: a span that is no call of a declared tool is text, all of it.
Validated(span) == span = Opener \o <<VALID, CLOSER>>

\* The loop of push: a call is closed, or one is opened.
CallRound(st) ==
  LET ends == At(st.buf, <<CLOSER>>)
      opens == At(st.buf, Opener)
      span == Upto(st.buf, Min(ends))
      good == Validated(span)
  IN  IF st.inCall /\ ends # {}
      THEN Step([inCall |-> FALSE, buf |-> From(st.buf, Min(ends) + 1),
                 calls |-> IF good THEN st.calls + 1 ELSE st.calls],
                <<IF good THEN OpCall ELSE OpText(span)>>)
      ELSE IF ~st.inCall /\ opens # {}
      THEN Step([st EXCEPT !.inCall = TRUE, !.buf = From(st.buf, Min(opens))],
                <<OpText(Upto(st.buf, Min(opens) - 1))>>)
      ELSE Step(st, <<>>)

\* Behind it: a call that outgrows the buffer is text, and so is what no call may come of.
CallRest(st, cap) ==
  LET n == Len(st.buf) - Partial(st.buf, Opener)
  IN  IF ~st.inCall THEN Step([st EXCEPT !.buf = From(st.buf, n + 1)], <<OpText(Upto(st.buf, n))>>)
      ELSE IF Len(st.buf) > cap
      THEN Step([st EXCEPT !.inCall = FALSE, !.buf = <<>>], <<OpText(st.buf)>>)
      ELSE Step(st, <<>>)

\* push.  A call takes two rounds.
CallPush(st, text, cap) ==
  LET buf == st.buf \o text
      scan[n \in 0 .. 2 * Len(buf)] ==
        IF n = 0 THEN Step([st EXCEPT !.buf = buf], <<>>)
        ELSE LET f == scan[n - 1] IN And(f, CallRound(f.st))
      last == scan[2 * Len(buf)]
  IN  And(last, CallRest(last.st, cap))

\* flush.
CallFlush(st) == Step([st EXCEPT !.inCall = FALSE, !.buf = <<>>], st.buf)

-----------------------------------------------------------------------------
(* What a text says, read whole. *)

\* Is a position in a thought?  A block opens where none is open and closes at the next
\* closing tag.
Inside(text, i) ==
  \E j \in At(text, OpenTag) : /\ j + 1 < i
                               /\ ~ \E k \in At(text, CloseTag) : j < k /\ k + 2 < i

\* A closing tag where no block is open.
StrayClose(text) == \E k \in At(text, CloseTag) : ~Inside(text, k)

InTag(text, i) ==
  \/ \E k \in At(text, CloseTag) : i \in k .. k + 2
  \/ \E j \in At(text, OpenTag) : i \in j .. j + 1 /\ ~Inside(text, j)

\* A part of a text, by position.
Part(text, S(_)) ==
  LET at == InOrder({i \in DOMAIN text : S(i)}) IN [n \in DOMAIN at |-> text[at[n]]]

ThoughtOf(text) == Part(text, LAMBDA i : Inside(text, i) /\ ~InTag(text, i))
ContentOf(text) == Part(text, LAMBDA i : ~Inside(text, i) /\ ~InTag(text, i))

\* A text without some of the calls written in it.
Without(text, spans) ==
  Part(text, LAMBDA i : \A j \in spans : i \notin j .. j + 3)

CallSpans(text) == At(text, Opener \o <<VALID, CLOSER>>)
=============================================================================
