------------------------------ MODULE MCFrames ------------------------------
EXTENDS Frames

Value(value, meant) == [value |-> value, meant |-> meant]
Valid(text) == Value(text, text)

Object == <<"{", "q", "k", "q", ":", "1", "}">>
Nested == <<"{", "q", "k", "q", ":", "[", "1", "]", "}">>
Quoted == <<"{", "q", "wide", "q", ":", "q", "[", "q", "}">>
Escaped == <<"{", "q", "k", "q", ":", "q", "bs", "q", "}", "q", "}">>
List == <<"[", "1", ",", "1", "]">>
Spread == <<"{", "q", "k", "q", ":", "nl", "[", "1", "]", "}">>

Values ==
  {Valid(t) : t \in {Object, Nested, Quoted, Escaped, List, Spread}}
  \cup
  \* a key without quotes, commas too many
  {Value(<<"{", "k", "1", ":", "1", "}">>, <<"{", "q", "k", "1", "q", ":", "1", "}">>),
   Value(<<"[", "1", ",", "nl", "]">>, <<"[", "1", "nl", "]">>),
   Value(<<"{", "q", "k", "q", ":", "1", ",", "}">>, Object)}

\* A value that was cut off; of the last two, no closers make JSON.
Cuts ==
  {Value(<<"{", "q", "k", "q", ":", "[", "1", ",">>, Nested),
   Value(<<"{", "q", "wide", "q", ":", "q", "[">>, Quoted),
   Value(<<"{", "q", "k", "q", ":", "q", "bs", "q", "}", "bs">>, Escaped),
   Value(<<"{", "q", "k", "q", ":", "1", ",", "q", "k">>, <<>>),
   Value(<<"{", "q", "k", "q", ":", "[", "1", "]", ",", "q", "k">>, <<>>)}

LongList == <<"[", "1", ",", "1", ",", "1", ",", "1", "]">>

\* Prose before a value: none, a fence's line, a line with a list in it or at its beginning, a
\* line it shares.
Befores ==
  {<<>>, <<"k", "nl">>, <<"k">> \o LongList \o <<"nl">>, <<"[", "1", "]", "k", "nl">>,
   LongList \o <<"nl">>, <<"k", "sp">>, <<"k">> \o LongList \o <<"sp">>}

Afters == {<<>>, <<"nl", "k">>, <<"sp", "k", "[", "1", "]">>}

Answer(before, v, after) == [before |-> before, value |-> v.value, after |-> after, meant |-> v.meant]

Told == {Answer(b, v, a) : b \in Befores, v \in Values, a \in Afters}
        \cup {Answer(b, v, <<>>) : b \in Befores, v \in Cuts}

\* No JSON in it, or JSON with a line break before it.
Bare == {Answer(<<>>, Value(<<"k", "wide", "k">>, <<>>), <<>>), Answer(<<"nl">>, Valid(List), <<"sp">>),
         Answer(<<>>, Value(<<"k", "[", "1", "]", "wide">>, <<>>), <<>>)}

Style(crlf, named, noise, keeps, open, most) ==
  [crlf |-> crlf, named |-> named, noise |-> noise, keeps |-> keeps, open |-> open, frames |-> most]

Plain(most) == Style(FALSE, FALSE, "none", FALSE, TRUE, most)

Styles ==
  {Plain(2), Style(TRUE, TRUE, "st", FALSE, FALSE, 2), Style(FALSE, FALSE, "csi", TRUE, FALSE, 2),
   Style(TRUE, FALSE, "osc", FALSE, TRUE, 2)}

\* Every answer is healed, some are written and cut in every way.
AllJobs ==
  [answer : Told, style : {Plain(1)}, heal : {TRUE}]
  \cup [answer : Bare \cup {Answer(<<>>, v, <<>>) : v \in Values}, style : Styles, heal : BOOLEAN]
=============================================================================
