--------------------------- MODULE Stream_proofs ---------------------------
(***************************************************************************)
(* Proofs about Stream, for every budget, number of re-sends and length of *)
(* an upstream call; and about ClientTurn, for a turn of any items: what a *)
(* client is promised of the events that Stream's turn is made of.         *)
(***************************************************************************)
EXTENDS Stream, ClientTurn, FiniteSetTheorems, TLAPS

-----------------------------------------------------------------------------
(* What the operators on the books return. *)

\* Banking touches the counter of one call.
LEMMA BankFacts ==
  ASSUME NEW b \in Books, NEW n \in {0} \cup Calls
  PROVE  /\ Bank(b, n) \in Books
         /\ Bank(b, n).calls = b.calls
         /\ Bank(b, n).rows = b.rows
         /\ Bank(b, n).written = b.written
         /\ Bank(b, n).seen = b.seen
         /\ Bank(b, n).faults = b.faults
         /\ Bank(b, n).ran = b.ran
         /\ \A m \in Calls : Bank(b, n).banked[m] >= b.banked[m]
         /\ n # 0 => Bank(b, n).banked[n] > 0
<1>1. CASE n = 0
  BY <1>1 DEF Bank, Books
<1>2. CASE n # 0
  <2>1. n \in Calls /\ b.banked \in [Calls -> Nat]
    BY <1>2 DEF Books
  <2>2. Bank(b, n) = [b EXCEPT !.banked = [b.banked EXCEPT ![n] = @ + 1]]
    BY <1>2 DEF Bank, Books
  <2>3. [b.banked EXCEPT ![n] = @ + 1] \in [Calls -> Nat]
    BY <2>1
  <2>4. Bank(b, n) \in Books
    BY <2>2, <2>3 DEF Books
  <2>5. /\ Bank(b, n).calls = b.calls
        /\ Bank(b, n).rows = b.rows
        /\ Bank(b, n).written = b.written
        /\ Bank(b, n).seen = b.seen
        /\ Bank(b, n).faults = b.faults
        /\ Bank(b, n).ran = b.ran
    BY <2>2 DEF Books
  <2>6. Bank(b, n).banked = [b.banked EXCEPT ![n] = @ + 1]
    BY <2>2 DEF Books
  <2>7. /\ \A m \in Calls : Bank(b, n).banked[m] >= b.banked[m]
        /\ n # 0 => Bank(b, n).banked[n] > 0
    BY <2>1, <2>6
  <2> QED
    BY <2>4, <2>5, <2>7
<1> QED
  BY <1>1, <1>2

\* A leg has its row once it is finished, and only one.
LEMMA WriteRowFacts ==
  ASSUME NEW b \in Books, NEW o \in Outcomes
  PROVE  /\ WriteRow(b, o) \in Books
         /\ WriteRow(b, o).calls = b.calls
         /\ WriteRow(b, o).banked = b.banked
         /\ WriteRow(b, o).seen = b.seen
         /\ WriteRow(b, o).ran = b.ran
         /\ WriteRow(b, o).faults = b.faults
         /\ WriteRow(b, o).written
         /\ WriteRow(b, o).rows = IF b.written THEN b.rows ELSE Append(b.rows, o)
<1>1. b.rows \in Seq(Outcomes) /\ Append(b.rows, o) \in Seq(Outcomes)
  BY DEF Books
<1>2. WriteRow(b, o) \in Books
  BY <1>1 DEF WriteRow, Books
<1>3. /\ WriteRow(b, o).calls = b.calls
      /\ WriteRow(b, o).banked = b.banked
      /\ WriteRow(b, o).seen = b.seen
      /\ WriteRow(b, o).ran = b.ran
      /\ WriteRow(b, o).faults = b.faults
  BY DEF WriteRow, Books
<1>4. /\ WriteRow(b, o).written
      /\ WriteRow(b, o).rows = IF b.written THEN b.rows ELSE Append(b.rows, o)
  BY DEF WriteRow, Books
<1> QED
  BY <1>2, <1>3, <1>4

\* The next call has a leg of its own, with its row to come.
LEMMA NextCallFacts ==
  ASSUME NEW b \in Books, NEW o \in Outcomes, b.calls + 1 \in Calls
  PROVE  /\ NextCall(b, o) \in Books
         /\ NextCall(b, o).calls = b.calls + 1
         /\ NextCall(b, o).banked = b.banked
         /\ NextCall(b, o).seen = b.seen
         /\ NextCall(b, o).ran = b.ran
         /\ NextCall(b, o).faults = b.faults
         /\ ~NextCall(b, o).written
         /\ NextCall(b, o).rows = IF b.written THEN b.rows ELSE Append(b.rows, o)
<1>1. WriteRow(b, o) \in Books
  BY WriteRowFacts
<1> DEFINE w == WriteRow(b, o)
<1>2. NextCall(b, o) = [w EXCEPT !.calls = @ + 1, !.written = FALSE]
  BY DEF NextCall
<1>3. w.calls + 1 \in Calls
  BY WriteRowFacts
<1> HIDE DEF w
<1>4. w \in Books => NextCall(b, o) \in Books
  BY <1>2, <1>3 DEF Books
<1>5. w \in Books =>
        /\ NextCall(b, o).calls = w.calls + 1
        /\ NextCall(b, o).banked = w.banked
        /\ NextCall(b, o).seen = w.seen
        /\ NextCall(b, o).ran = w.ran
        /\ NextCall(b, o).faults = w.faults
        /\ NextCall(b, o).rows = w.rows
  BY <1>2 DEF Books
<1>6. w \in Books => ~NextCall(b, o).written
  BY <1>2 DEF Books
<1> QED
  BY <1>1, <1>4, <1>5, <1>6, WriteRowFacts DEF w

\* Reading a report touches nothing else.
LEMMA SeeFacts ==
  ASSUME NEW b \in Books, NEW reports \in BOOLEAN
  PROVE  /\ See(b, reports) \in Books
         /\ See(b, reports).calls = b.calls
         /\ See(b, reports).banked = b.banked
         /\ See(b, reports).rows = b.rows
         /\ See(b, reports).written = b.written
         /\ See(b, reports).ran = b.ran
         /\ See(b, reports).faults = b.faults
         /\ See(b, reports).seen =
              b.seen \cup (IF reports /\ ~ctx.terminated THEN {b.calls} ELSE {})
<1>1. See(b, reports) \in Books
  BY DEF See, Books
<1>2. /\ See(b, reports).calls = b.calls
      /\ See(b, reports).banked = b.banked
      /\ See(b, reports).rows = b.rows
      /\ See(b, reports).written = b.written
      /\ See(b, reports).ran = b.ran
      /\ See(b, reports).faults = b.faults
  BY DEF See, Books
<1>3. See(b, reports).seen =
        b.seen \cup (IF reports /\ ~ctx.terminated THEN {b.calls} ELSE {})
  BY DEF See, Books
<1> QED
  BY <1>1, <1>2, <1>3

\* A drop or an end banks the usage it is given and closes the row.
LEMMA EndFacts ==
  ASSUME NEW b \in Books, NEW n \in {0} \cup Calls, NEW o \in Outcomes
  PROVE  /\ WriteRow(Bank(b, n), o) \in Books
         /\ WriteRow(Bank(b, n), o).calls = b.calls
         /\ WriteRow(Bank(b, n), o).seen = b.seen
         /\ WriteRow(Bank(b, n), o).ran = b.ran
         /\ WriteRow(Bank(b, n), o).faults = b.faults
         /\ WriteRow(Bank(b, n), o).written
         /\ WriteRow(Bank(b, n), o).rows = (IF b.written THEN b.rows ELSE Append(b.rows, o))
         /\ \A m \in Calls : WriteRow(Bank(b, n), o).banked[m] >= b.banked[m]
         /\ n # 0 => WriteRow(Bank(b, n), o).banked[n] > 0
<1>1. Bank(b, n) \in Books
  BY BankFacts
<1> DEFINE c == Bank(b, n)
<1>2. /\ c.calls = b.calls
      /\ c.seen = b.seen
      /\ c.ran = b.ran
      /\ c.faults = b.faults
      /\ c.written = b.written
      /\ c.rows = b.rows
      /\ \A m \in Calls : c.banked[m] >= b.banked[m]
      /\ n # 0 => c.banked[n] > 0
  BY BankFacts
<1> HIDE DEF c
<1>3. c \in Books =>
        /\ WriteRow(c, o) \in Books
        /\ WriteRow(c, o).calls = c.calls
        /\ WriteRow(c, o).seen = c.seen
        /\ WriteRow(c, o).ran = c.ran
        /\ WriteRow(c, o).faults = c.faults
        /\ WriteRow(c, o).banked = c.banked
        /\ WriteRow(c, o).written
        /\ WriteRow(c, o).rows = (IF c.written THEN c.rows ELSE Append(c.rows, o))
  BY WriteRowFacts
<1> QED
  BY <1>1, <1>2, <1>3 DEF c

-----------------------------------------------------------------------------
(* What relaying an event does. *)

LEMMA HeardFacts ==
  ASSUME TypeOK, NEW e \in Events, NEW reports \in BOOLEAN
  PROVE  /\ Heard(e, reports) \in Ctx
         /\ Heard(e, reports).search = ctx.search
         /\ Heard(e, reports).usesLeft = ctx.usesLeft
         /\ Heard(e, reports).left = ctx.left
         /\ Heard(e, reports).inner = ctx.inner
         /\ Heard(e, reports).started = ctx.started
         /\ Heard(e, reports).clientDone = ctx.clientDone
         /\ Heard(e, reports).terminated = ctx.terminated
         /\ Heard(e, reports).tap = (IF reports THEN books.calls ELSE ctx.tap)
         /\ Heard(e, reports).ours = (IF ctx.search /\ e = "call" THEN ctx.ours + 1 ELSE ctx.ours)
         /\ Heard(e, reports).sawOther <=> (ctx.sawOther \/ (ctx.search /\ e = "tool"))
         /\ Heard(e, reports).produced <=> (ctx.produced \/ e \in Output)
<1>1. ctx \in Ctx /\ books.calls \in Calls
  BY DEF TypeOK, Books
<1> DEFINE ours == IF ctx.search /\ e = "call" THEN ctx.ours + 1 ELSE ctx.ours
           other == ctx.sawOther \/ (ctx.search /\ e = "tool")
           prod == ctx.produced \/ e \in Output
           tap == IF reports THEN books.calls ELSE ctx.tap
<1>2. Heard(e, reports) =
        [ctx EXCEPT !.ours = ours, !.sawOther = other, !.produced = prod, !.tap = tap]
  BY <1>1 DEF Heard, Capture, Ctx
<1>3. ours \in Nat /\ other \in BOOLEAN /\ prod \in BOOLEAN /\ tap \in {0} \cup Calls
  BY <1>1 DEF Ctx
<1> HIDE DEF ours, other, prod, tap
<1>4. Heard(e, reports) \in Ctx
  BY <1>1, <1>2, <1>3 DEF Ctx
<1>5. /\ Heard(e, reports).search = ctx.search
      /\ Heard(e, reports).usesLeft = ctx.usesLeft
      /\ Heard(e, reports).left = ctx.left
      /\ Heard(e, reports).inner = ctx.inner
      /\ Heard(e, reports).started = ctx.started
      /\ Heard(e, reports).clientDone = ctx.clientDone
      /\ Heard(e, reports).terminated = ctx.terminated
  BY <1>1, <1>2 DEF Ctx
<1>6. /\ Heard(e, reports).tap = tap
      /\ Heard(e, reports).ours = ours
      /\ Heard(e, reports).sawOther = other
      /\ Heard(e, reports).produced = prod
  BY <1>1, <1>2 DEF Ctx
<1> QED
  BY <1>4, <1>5, <1>6 DEF ours, other, prod, tap

LEMMA ShowFacts ==
  ASSUME NEW c \in Client
  PROVE  /\ Show(c) \in Client
         /\ Show(c).closes = c.closes
         /\ Show(c).answers = c.answers
         /\ Show(c).late <=> (c.late \/ c.closes > 0)
<1> DEFINE late == c.late \/ c.closes > 0
<1>1. Show(c) = [c EXCEPT !.opened = TRUE, !.late = late]
  BY DEF Show, Client
<1>2. late \in BOOLEAN
  BY DEF Client
<1> HIDE DEF late
<1>3. Show(c) \in Client
  BY <1>1, <1>2 DEF Client
<1>4. Show(c).closes = c.closes /\ Show(c).late = late /\ Show(c).answers = c.answers
  BY <1>1 DEF Client
<1> QED
  BY <1>3, <1>4 DEF late

LEMMA CloseFacts ==
  ASSUME NEW c \in Client
  PROVE  /\ Close(c) \in Client
         /\ Close(c).closes = c.closes + 1
         /\ Close(c).late = c.late
         /\ Close(c).answers = c.answers
<1>1. c.closes + 1 \in Nat
  BY DEF Client
<1>2. Close(c) = [c EXCEPT !.opened = TRUE, !.closes = c.closes + 1]
  BY DEF Close, Client
<1>3. Close(c) \in Client
  BY <1>1, <1>2 DEF Client
<1>4. Close(c).closes = c.closes + 1 /\ Close(c).late = c.late /\ Close(c).answers = c.answers
  BY <1>2 DEF Client
<1> QED
  BY <1>3, <1>4

LEMMA ShownFacts ==
  ASSUME TypeOK, NEW e \in Events
  PROVE  /\ Shown(e) \in Client
         /\ Shown(e).closes = client.closes
         /\ Shown(e).late <=> (client.late \/ client.closes > 0)
         /\ Shown(e).answers =
              (IF e \in {"text", "tool"} THEN client.answers \cup {books.calls} ELSE client.answers)
<1>1. client \in Client /\ books.calls \in Calls
  BY DEF TypeOK, Books
<1> DEFINE s == Show(client)
<1>2. /\ s \in Client
      /\ s.closes = client.closes
      /\ s.late <=> (client.late \/ client.closes > 0)
      /\ s.answers = client.answers
  BY <1>1, ShowFacts
<1> HIDE DEF s
<1>3. s.answers \cup {books.calls} \in SUBSET Calls
  BY <1>1, <1>2 DEF Client
<1>4. ShowAnswer(client) = [s EXCEPT !.answers = s.answers \cup {books.calls}]
  BY <1>2 DEF ShowAnswer, s
<1>5. /\ ShowAnswer(client) \in Client
      /\ ShowAnswer(client).closes = s.closes
      /\ ShowAnswer(client).late = s.late
      /\ ShowAnswer(client).answers = s.answers \cup {books.calls}
  BY <1>2, <1>3, <1>4 DEF Client
<1>6. s.named \cup {books.calls} \in SUBSET Calls
  BY <1>1, <1>2 DEF Client
<1>7. ShowName(client) = [s EXCEPT !.named = s.named \cup {books.calls}]
  BY <1>2 DEF ShowName, s
<1>8. /\ ShowName(client) \in Client
      /\ ShowName(client).closes = s.closes
      /\ ShowName(client).late = s.late
      /\ ShowName(client).answers = s.answers
  BY <1>2, <1>6, <1>7 DEF Client
<1>9. CASE e \in {"text", "tool"}
  BY <1>2, <1>5, <1>9 DEF Shown
<1>10. CASE e = "name"
  <2>1. Shown(e) = ShowName(client)
    BY <1>10 DEF Shown
  <2> QED
    BY <1>2, <1>8, <1>10, <2>1
<1>11. CASE e \notin {"text", "tool", "name"}
  BY <1>2, <1>11 DEF Shown, s
<1> QED
  BY <1>9, <1>10, <1>11

\* What every kind of relay keeps or changes in the same way.
Carries(c, e) ==
  /\ c.search = ctx.search
  /\ c.usesLeft = ctx.usesLeft
  /\ c.left = ctx.left
  /\ c.ours = (IF ctx.search /\ e = "call" THEN ctx.ours + 1 ELSE ctx.ours)
  /\ c.sawOther <=> (ctx.sawOther \/ (ctx.search /\ e = "tool"))
  /\ c.produced <=> (ctx.produced \/ e \in Output)

\* The usage an end would bank.
Held == IF kind = "ToAnthropic" THEN ctx.inner ELSE ctx.tap

Tells(c, reports) ==
  /\ c.tap = (IF reports THEN books.calls ELSE Held)
  /\ kind = "ToAnthropic" => c.inner = c.tap

LEMMA RelayOpenaiFacts ==
  ASSUME TypeOK, NEW e \in Events, NEW reports \in BOOLEAN,
         kind = "OpenaiPass", RelayOpenai(e, reports)
  PROVE  /\ ctx' \in Ctx
         /\ client' \in Client
         /\ Carries(ctx', e)
         /\ Tells(ctx', reports)
<1> DEFINE h == Heard(e, reports)
<1>1. h \in Ctx /\ Carries(h, e) /\ Tells(h, reports)
  BY HeardFacts DEF Carries, Tells, Held
<1>2. \/ ctx' = h
      \/ ctx' = [h EXCEPT !.clientDone = TRUE]
      \/ ctx' = [h EXCEPT !.clientDone = TRUE, !.terminated = TRUE]
  BY DEF RelayOpenai, Events, Closing
<1>3. client' \in {client, Close(client), Shown(e)}
  BY DEF RelayOpenai, Events, Closing
<1> HIDE DEF h
<1>4. ctx' \in Ctx
  BY <1>1, <1>2 DEF Ctx
<1>5. Carries(ctx', e)
  BY <1>1, <1>2, ZenonT(60) DEF Carries, Ctx
<1>6. Tells(ctx', reports)
  BY <1>1, <1>2 DEF Tells, Ctx
<1>7. client' \in Client
  BY <1>3, ShownFacts, CloseFacts DEF TypeOK
<1> QED
  BY <1>4, <1>5, <1>6, <1>7

LEMMA RelayToOpenaiFacts ==
  ASSUME TypeOK, NEW e \in Events, NEW reports \in BOOLEAN,
         kind = "ToOpenai", RelayToOpenai(e, reports)
  PROVE  /\ ctx' \in Ctx
         /\ client' \in Client
         /\ Carries(ctx', e)
         /\ Tells(ctx', reports)
<1> DEFINE h == Heard(e, reports)
<1>1. h \in Ctx /\ Carries(h, e) /\ Tells(h, reports)
  BY HeardFacts DEF Carries, Tells, Held
<1>2. ctx' = h \/ ctx' = [h EXCEPT !.clientDone = TRUE]
  BY DEF RelayToOpenai
<1>3. client' \in {client, Close(client), Shown(e)}
  BY DEF RelayToOpenai, Events, Closing
<1> HIDE DEF h
<1>4. ctx' \in Ctx
  BY <1>1, <1>2 DEF Ctx
<1>5. Carries(ctx', e)
  BY <1>1, <1>2 DEF Carries, Ctx
<1>6. Tells(ctx', reports)
  BY <1>1, <1>2 DEF Tells, Ctx
<1>7. client' \in Client
  BY <1>3, ShownFacts, CloseFacts DEF TypeOK
<1> QED
  BY <1>4, <1>5, <1>6, <1>7

LEMMA RelayAnthropicFacts ==
  ASSUME TypeOK, NEW e \in Events, NEW reports \in BOOLEAN,
         kind = "AnthropicPass", RelayAnthropic(e, reports)
  PROVE  /\ ctx' \in Ctx
         /\ client' \in Client
         /\ Carries(ctx', e)
         /\ Tells(ctx', reports)
<1>1. ctx' \in Ctx /\ Carries(ctx', e) /\ Tells(ctx', reports)
  BY HeardFacts DEF Carries, Tells, Held, RelayAnthropic
<1>2. client' \in {client, Close(client), Shown(e)}
  BY DEF RelayAnthropic
<1> QED
  BY <1>1, <1>2, ShownFacts, CloseFacts DEF TypeOK

\* The translator's copy of the usage and StreamCtx's agree after every event.
LEMMA RelayToAnthropicFacts ==
  ASSUME TypeOK, NEW e \in Events, NEW reports \in BOOLEAN,
         kind = "ToAnthropic", RelayToAnthropic(e, reports)
  PROVE  /\ ctx' \in Ctx
         /\ client' \in Client
         /\ Carries(ctx', e)
         /\ Tells(ctx', reports)
<1> DEFINE h == Heard(e, FALSE)
           n == IF reports THEN books.calls ELSE h.inner
           c == [h EXCEPT !.inner = n]
<1>1. h \in Ctx /\ Carries(h, e) /\ h.inner = ctx.inner
  BY HeardFacts DEF Carries
<1>2. \/ ctx' = [c EXCEPT !.tap = c.inner]
      \/ ctx' = [c EXCEPT !.tap = c.inner, !.started = FALSE, !.terminated = TRUE]
      \/ ctx' = [c EXCEPT !.tap = c.inner, !.started = TRUE]
  BY DEF RelayToAnthropic, Terminated, Events
<1>3. client' \in {client, Close(client), Shown(e)}
  BY DEF RelayToAnthropic, Terminated, Events
<1>4. n \in {0} \cup Calls /\ n = (IF reports THEN books.calls ELSE ctx.inner)
  BY <1>1 DEF TypeOK, Books, Ctx
<1> HIDE DEF h, n
<1>5. \/ ctx' = [h EXCEPT !.inner = n, !.tap = n]
      \/ ctx' = [h EXCEPT !.inner = n, !.tap = n, !.started = FALSE, !.terminated = TRUE]
      \/ ctx' = [h EXCEPT !.inner = n, !.tap = n, !.started = TRUE]
  BY <1>1, <1>2 DEF Ctx
<1> HIDE DEF c
<1>6. ctx' \in Ctx
  BY <1>1, <1>4, <1>5, ZenonT(60) DEF Ctx
<1>7. Carries(ctx', e)
  BY <1>1, <1>5, ZenonT(60) DEF Carries, Ctx
<1>8. ctx'.inner = n /\ ctx'.tap = n
  BY <1>1, <1>5 DEF Ctx
<1>9. client' \in Client
  BY <1>3, ShownFacts, CloseFacts DEF TypeOK
<1> QED
  BY <1>4, <1>6, <1>7, <1>8, <1>9 DEF Tells, Held

\* The four kinds taken together.
LEMMA RelayFacts ==
  ASSUME TypeOK, NEW e \in Events, NEW reports \in BOOLEAN, Relay(e, reports)
  PROVE  /\ ctx' \in Ctx
         /\ client' \in Client
         /\ ctx.terminated => UNCHANGED <<ctx, client>>
         /\ ~ctx.terminated => Carries(ctx', e) /\ Tells(ctx', reports)
<1>1. CASE ctx.terminated
  BY <1>1 DEF Relay, TypeOK
<1>2. CASE ~ctx.terminated
  <2>1. kind \in Kind
    BY StreamAssumption DEF TypeOK, kind
  <2>2. \/ kind = "OpenaiPass" /\ RelayOpenai(e, reports)
        \/ kind = "ToAnthropic" /\ RelayToAnthropic(e, reports)
        \/ kind = "ToOpenai" /\ RelayToOpenai(e, reports)
        \/ kind = "AnthropicPass" /\ RelayAnthropic(e, reports)
    BY <1>2, <2>1 DEF Relay, Kind
  <2> QED
    BY <1>2, <2>2, RelayOpenaiFacts, RelayToAnthropicFacts, RelayToOpenaiFacts,
       RelayAnthropicFacts
<1> QED
  BY <1>1, <1>2

-----------------------------------------------------------------------------
(* What an end does. *)

\* The fields of a context that no end touches.
SameBudget(c, d) ==
  /\ c.search = d.search
  /\ c.usesLeft = d.usesLeft
  /\ c.left = d.left
  /\ c.ours = d.ours
  /\ c.produced = d.produced

\* The books after an end that banked the usage of call n, 0 for none.
Settled(b, n) ==
  /\ b \in Books
  /\ b.calls = books.calls
  /\ b.seen = books.seen
  /\ b.ran = books.ran
  /\ b.written
  /\ \E o \in Outcomes : b.rows = (IF books.written THEN books.rows ELSE Append(books.rows, o))
  /\ \A m \in Calls : b.banked[m] >= books.banked[m]
  /\ n # 0 => b.banked[n] > 0

LEMMA UsageType ==
  ASSUME TypeOK
  PROVE  ctx.tap \in {0} \cup Calls /\ ctx.inner \in {0} \cup Calls /\ Held \in {0} \cup Calls
BY DEF TypeOK, Ctx, Held

LEMMA SettledFacts ==
  ASSUME TypeOK, NEW n \in {0} \cup Calls, NEW o \in Outcomes
  PROVE  Settled(WriteRow(Bank(books, n), o), n)
BY EndFacts DEF Settled, TypeOK

LEMMA FinishFacts ==
  ASSUME TypeOK, Finish
  PROVE  /\ phase' = "ended"
         /\ ctx' \in Ctx
         /\ client' \in Client
         /\ SameBudget(ctx', ctx)
         /\ Settled(books', Held)
<1>1. phase' = "ended"
  BY DEF Finish
<1> DEFINE done == ctx.clientDone \/ OpenaiClient
           b == WriteRow(Bank(books, Held), Verdict)
<1>2. done \in BOOLEAN /\ ctx \in Ctx
  BY DEF TypeOK, Ctx
<1>3. ctx' = [ctx EXCEPT !.started = FALSE, !.clientDone = done,
                         !.tap = IF kind = "ToAnthropic" THEN ctx.inner ELSE ctx.tap]
  BY DEF Finish
<1>4. (IF kind = "ToAnthropic" THEN ctx.inner ELSE ctx.tap) \in {0} \cup Calls
  BY UsageType
<1>5. b = WriteRow(Bank(books, Held), Verdict)
  OBVIOUS
<1>6. books' = b \/ books' = [b EXCEPT !.faults = b.faults + 1]
  BY DEF Finish, Held
<1> HIDE DEF done, b
<1>7. ctx' \in Ctx
  BY <1>2, <1>3, <1>4, ZenonT(60) DEF Ctx
<1>8. SameBudget(ctx', ctx)
  BY <1>2, <1>3 DEF Ctx, SameBudget
<1>9. client' \in Client
  BY CloseFacts DEF Finish, TypeOK
<1>10. Settled(b, Held)
  BY <1>5, SettledFacts, UsageType DEF Verdict, Outcomes
<1>11. Settled(books', Held)
  <2>1. CASE books' = b
    BY <2>1, <1>10
  <2>2. CASE books' = [b EXCEPT !.faults = b.faults + 1]
    <3>1. b \in Books
      BY <1>10 DEF Settled
    <3>2. books' \in Books
      <4>1. b.faults + 1 \in Nat
        BY <3>1 DEF Books
      <4> QED
        BY <2>2, <3>1, <4>1 DEF Books
    <3>3. /\ books'.calls = b.calls
          /\ books'.seen = b.seen
          /\ books'.ran = b.ran
          /\ books'.written = b.written
          /\ books'.rows = b.rows
          /\ books'.banked = b.banked
      BY <2>2, <3>1 DEF Books
    <3>4. /\ books'.calls = books.calls
          /\ books'.seen = books.seen
          /\ books'.ran = books.ran
          /\ books'.written
      BY <3>3, <1>10 DEF Settled
    <3>5. \E o \in Outcomes :
            books'.rows = (IF books.written THEN books.rows ELSE Append(books.rows, o))
      BY <3>3, <1>10 DEF Settled
    <3>6. /\ \A m \in Calls : books'.banked[m] >= books.banked[m]
          /\ Held # 0 => books'.banked[Held] > 0
      BY <3>3, <1>10 DEF Settled
    <3> QED
      BY <3>2, <3>4, <3>5, <3>6 DEF Settled
  <2> QED
    BY <1>6, <2>1, <2>2
<1> QED
  BY <1>1, <1>7, <1>8, <1>9, <1>11

-----------------------------------------------------------------------------
(* The budget of calls. *)

\* An upstream call the turn has paid for and not made yet.
Booked == IF phase \in {"resending", "continuing"} THEN 1 ELSE 0

CallInv ==
  /\ books.calls + ctx.usesLeft + ctx.left + Booked <= 1 + Uses + MaxRetries
  /\ books.ran + ctx.usesLeft <= Uses
  /\ ctx.ours > 0 => ctx.usesLeft > 0 /\ ctx.produced /\ ctx.search
  /\ phase = "serving" => ctx.ours > 0
  /\ Booked = 1 => ctx.ours = 0

\* The three kinds of end: the relay's own, one before the commit, a drop.
LEMMA EndKeepsCalls ==
  ASSUME TypeOK, CallInv, setup' = setup, up' \in Upstream, ctx' \in Ctx, client' \in Client,
         SameBudget(ctx', ctx), phase' \in Final, NEW n, Settled(books', n)
  PROVE  TypeOK' /\ CallInv'
<1>1. TypeOK'
  BY DEF TypeOK, Settled, Final, Phases
<1>2. Booked' = 0 /\ Booked \in {0, 1}
  BY DEF Booked, Final
<1>3. /\ ctx.usesLeft \in Nat
      /\ ctx.left \in Nat
      /\ books.calls \in Nat
      /\ Uses \in Nat
      /\ MaxRetries \in Nat
  BY StreamAssumption DEF TypeOK, Ctx, Books, Calls
<1>4. CallInv'
  BY <1>2, <1>3 DEF CallInv, SameBudget, Settled, Final
<1> QED
  BY <1>1, <1>4

LEMMA SaidType ==
  ASSUME TypeOK, NEW e \in Events, MaySay(e)
  PROVE  Said(e) \in Upstream
<1>1. up \in Upstream /\ up.said + 1 \in 0..MaxEvents
  BY StreamAssumption DEF TypeOK, Upstream, MaySay
<1> QED
  BY <1>1 DEF Said, Upstream

LEMMA RelayKeepsCalls ==
  ASSUME TypeOK, CallInv, NEW e \in Events, NEW reports \in BOOLEAN,
         phase \in {"hold", "open"}, MaySay(e), up' = Said(e), setup' = setup,
         Relay(e, reports), phase' \in {"hold", "open", "carried"},
         books' \in Books, books'.calls = books.calls, books'.ran = books.ran
  PROVE  TypeOK' /\ CallInv'
<1>1. ctx' \in Ctx /\ client' \in Client
  BY RelayFacts
<1>2. TypeOK'
  BY <1>1, SaidType DEF TypeOK, Phases
<1>3. ctx'.usesLeft = ctx.usesLeft /\ ctx'.left = ctx.left
  BY RelayFacts DEF Carries
<1>4. e = "call" => (ctx.search /\ ctx.usesLeft > 0) \/ up.stage # "open"
  BY DEF MaySay
<1>5. e = "call" => up.stage = "open"
  BY DEF MaySay, TypeOK, Upstream
<1>6. ctx'.ours > 0 => ctx'.usesLeft > 0 /\ ctx'.produced /\ ctx'.search
  <2>1. CASE ctx.terminated
    BY <2>1, RelayFacts DEF CallInv
  <2>2. CASE ~ctx.terminated
    <3>1. Carries(ctx', e)
      BY <2>2, RelayFacts
    <3>2. CASE ctx.search /\ e = "call"
      BY <3>1, <3>2, <1>4, <1>5 DEF Carries, Output
    <3>3. CASE ~(ctx.search /\ e = "call")
      BY <3>1, <3>3 DEF Carries, CallInv
    <3> QED
      BY <3>2, <3>3
  <2> QED
    BY <2>1, <2>2
<1>7. Booked' = 0 /\ Booked = 0
  BY DEF Booked
<1> QED
  BY <1>2, <1>3, <1>6, <1>7 DEF CallInv

LEMMA HoldKeepsCalls ==
  ASSUME TypeOK, CallInv, NEW e \in Events, NEW reports \in BOOLEAN, Hold(e, reports)
  PROVE  TypeOK' /\ CallInv'
<1> DEFINE b == See(books, reports)
<1>1. b \in Books /\ b.calls = books.calls /\ b.ran = books.ran
  BY SeeFacts DEF TypeOK
<1>2. /\ WriteRow(b, "refused") \in Books
      /\ WriteRow(b, "refused").calls = b.calls
      /\ WriteRow(b, "refused").ran = b.ran
  BY <1>1, WriteRowFacts DEF Outcomes
<1> HIDE DEF b
<1>3. CASE e \notin {"error", "done"} /\ Relay(e, reports)
  <2>1. phase = "hold" /\ MaySay(e) /\ up' = Said(e) /\ setup' = setup
    BY DEF Hold
  <2>2. \/ phase' = "carried" /\ books' = WriteRow(b, "refused")
        \/ phase' \in {"open", "hold"} /\ books' = b
    BY <1>3 DEF Hold, b
  <2> QED
    BY <1>1, <1>2, <1>3, <2>1, <2>2, RelayKeepsCalls
<1>4. CASE e \in {"error", "done"}
  <2>1. /\ phase' = "failed" /\ client' = Unsent /\ ctx' = ctx /\ setup' = setup
        /\ books' = Dropped(books, "failed") /\ MaySay(e) /\ up' = Said(e)
    BY <1>4 DEF Hold
  <2>2. Settled(books', ctx.tap)
    BY <2>1, SettledFacts, UsageType DEF Dropped, Outcomes
  <2>3. Unsent \in Client /\ SameBudget(ctx', ctx) /\ ctx' \in Ctx
    BY <2>1 DEF Unsent, Client, SameBudget, TypeOK
  <2> QED
    BY <2>1, <2>2, <2>3, SaidType, EndKeepsCalls DEF Final
<1> QED
  BY <1>3, <1>4 DEF Hold

LEMMA ChunkKeepsCalls ==
  ASSUME TypeOK, CallInv, NEW e \in Events, NEW reports \in BOOLEAN, Chunk(e, reports)
  PROVE  TypeOK' /\ CallInv'
<1>1. /\ books' \in Books
      /\ books'.calls = books.calls
      /\ books'.ran = books.ran
  BY SeeFacts DEF TypeOK, Chunk
<1> QED
  BY <1>1, RelayKeepsCalls DEF Chunk

LEMMA FinishKeepsCalls ==
  ASSUME TypeOK, CallInv, setup' = setup, up' \in Upstream, Finish
  PROVE  TypeOK' /\ CallInv'
BY FinishFacts, EndKeepsCalls DEF Final

LEMMA ResendFacts ==
  ASSUME TypeOK, MayResend, Resend
  PROVE  /\ phase' = "resending"
         /\ client' = client
         /\ ctx' \in Ctx
         /\ ctx'.left = ctx.left - 1
         /\ ctx'.search = ctx.search
         /\ ctx'.usesLeft = ctx.usesLeft
         /\ ctx'.ours = ctx.ours
         /\ ctx'.sawOther = ctx.sawOther
         /\ ctx'.produced = ctx.produced
         /\ ctx'.tap = ctx.tap
         /\ ctx'.inner = ctx.inner
         /\ ctx'.clientDone = ctx.clientDone
         /\ ctx'.terminated = ctx.terminated
         /\ ctx'.started = ctx.started
         /\ books' \in Books
         /\ books'.calls = books.calls
         /\ books'.rows = books.rows
         /\ books'.written = books.written
         /\ books'.seen = books.seen
         /\ books'.banked = books.banked
         /\ books'.ran = books.ran
         /\ books'.faults = books.faults + 1
<1>1. ctx \in Ctx /\ books \in Books /\ books.faults + 1 \in Nat
  BY DEF TypeOK, Books
<1>2. ctx.left - 1 \in 0..MaxRetries
  BY StreamAssumption, <1>1 DEF MayResend, Ctx
<1>3. ctx' = [ctx EXCEPT !.left = ctx.left - 1] /\ books' = [books EXCEPT !.faults = books.faults + 1]
  BY DEF Resend
<1>4. ctx' \in Ctx
  BY <1>1, <1>2, <1>3 DEF Ctx
<1>5. books' \in Books
  BY <1>1, <1>3 DEF Books
<1>6. /\ ctx'.left = ctx.left - 1
      /\ ctx'.search = ctx.search
      /\ ctx'.usesLeft = ctx.usesLeft
      /\ ctx'.ours = ctx.ours
      /\ ctx'.sawOther = ctx.sawOther
      /\ ctx'.produced = ctx.produced
  BY <1>1, <1>3 DEF Ctx
<1>7. /\ ctx'.tap = ctx.tap
      /\ ctx'.inner = ctx.inner
      /\ ctx'.clientDone = ctx.clientDone
      /\ ctx'.terminated = ctx.terminated
      /\ ctx'.started = ctx.started
  BY <1>1, <1>3 DEF Ctx
<1>8. /\ books'.calls = books.calls
      /\ books'.rows = books.rows
      /\ books'.written = books.written
      /\ books'.seen = books.seen
      /\ books'.banked = books.banked
      /\ books'.ran = books.ran
      /\ books'.faults = books.faults + 1
  BY <1>1, <1>3 DEF Books
<1> QED
  BY <1>4, <1>5, <1>6, <1>7, <1>8 DEF Resend

LEMMA ResendKeepsCalls ==
  ASSUME TypeOK, CallInv, phase = "open", MayResend, Resend, setup' = setup, up' \in Upstream
  PROVE  TypeOK' /\ CallInv'
<1>1. TypeOK'
  BY ResendFacts DEF TypeOK, Phases
<1>2. ctx.ours = 0
  BY DEF CallInv, MayResend, TypeOK, Ctx
<1>3. Booked = 0 /\ Booked' = 1
  BY ResendFacts DEF Booked
<1>4. ctx.usesLeft \in Nat /\ ctx.left \in Nat /\ books.calls \in Nat
  BY StreamAssumption DEF TypeOK, Ctx, Books, Calls
<1> QED
  BY <1>1, <1>2, <1>3, <1>4, ResendFacts DEF CallInv

\* The next call of the turn is one the budget allows.
LEMMA NextCallFits ==
  ASSUME TypeOK, CallInv, Booked = 1
  PROVE  books.calls + 1 \in Calls
<1>1. ctx.usesLeft \in Nat /\ ctx.left \in Nat
  BY StreamAssumption DEF TypeOK, Ctx
<1>2. books.calls \in 1..(1 + Uses + MaxRetries) /\ Uses \in Nat /\ MaxRetries \in Nat
  BY StreamAssumption DEF TypeOK, Books, Calls
<1> QED
  BY <1>1, <1>2 DEF CallInv, Calls

LEMMA FreshType == Fresh \in Upstream
BY StreamAssumption DEF Fresh, Upstream

LEMMA ResentFacts ==
  ASSUME TypeOK, CallInv, Resent
  PROVE  /\ books' \in Books
         /\ books'.calls = books.calls + 1
         /\ books'.banked = books.banked
         /\ books'.seen = books.seen
         /\ books'.ran = books.ran
         /\ books'.faults = books.faults
         /\ ~books'.written
         /\ books'.rows = (IF books.written THEN books.rows ELSE Append(books.rows, "dead"))
<1>1. books.calls + 1 \in Calls
  BY NextCallFits DEF Booked, Resent
<1> QED
  BY <1>1, NextCallFacts DEF Resent, Outcomes, TypeOK

LEMMA ResentKeepsCalls ==
  ASSUME TypeOK, CallInv, Resent
  PROVE  TypeOK' /\ CallInv'
<1>1. TypeOK'
  BY ResentFacts, FreshType DEF TypeOK, Phases, Resent
<1>2. Booked = 1 /\ Booked' = 0
  BY DEF Booked, Resent
<1>3. ctx.usesLeft \in Nat /\ ctx.left \in Nat /\ books.calls \in Nat
  BY StreamAssumption DEF TypeOK, Ctx, Books, Calls
<1> QED
  BY <1>1, <1>2, <1>3, ResentFacts DEF CallInv, Resent

LEMMA ServedFacts ==
  ASSUME TypeOK, CallInv, Served
  PROVE  /\ ctx' \in Ctx
         /\ ctx'.usesLeft = ctx.usesLeft - Fits(ctx)
         /\ ctx'.ours = 0
         /\ ctx'.left = ctx.left
         /\ ctx'.search = ctx.search
         /\ ctx'.tap = ctx.tap
         /\ ctx'.inner = ctx.inner
         /\ ctx'.clientDone = ctx.clientDone
         /\ ctx'.terminated = ctx.terminated
         /\ ctx'.started = ctx.started
         /\ books' \in Books
         /\ books'.calls = books.calls
         /\ books'.rows = books.rows
         /\ books'.written = books.written
         /\ books'.seen = books.seen
         /\ books'.banked = books.banked
         /\ books'.ran = books.ran + Fits(ctx)
         /\ books'.faults = books.faults
         /\ ctx'.produced = ctx.produced
         /\ Fits(ctx) \in 1..ctx.usesLeft
<1>1. ctx \in Ctx /\ books \in Books
  BY DEF TypeOK
<1>2. ctx.ours > 0 /\ ctx.usesLeft > 0
  BY DEF CallInv, Served
<1>3. Fits(ctx) \in 1..ctx.usesLeft
  BY <1>1, <1>2, StreamAssumption DEF Fits, Ctx
<1>4. ctx' = [ctx EXCEPT !.usesLeft = Charged(ctx), !.ours = 0, !.sawOther = FALSE]
  BY DEF Served
<1>5. Charged(ctx) = ctx.usesLeft - Fits(ctx) /\ Charged(ctx) \in 0..Uses
  BY <1>1, <1>3, StreamAssumption DEF Charged, Ctx
<1>6. ctx' \in Ctx
  BY <1>1, <1>4, <1>5 DEF Ctx
<1>7. /\ ctx'.usesLeft = Charged(ctx)
      /\ ctx'.ours = 0
      /\ ctx'.left = ctx.left
      /\ ctx'.search = ctx.search
      /\ ctx'.tap = ctx.tap
      /\ ctx'.inner = ctx.inner
      /\ ctx'.clientDone = ctx.clientDone
      /\ ctx'.terminated = ctx.terminated
      /\ ctx'.started = ctx.started
  BY <1>1, <1>4 DEF Ctx
<1>8. books.ran + Fits(ctx) \in Nat
  BY <1>1, <1>3, StreamAssumption DEF Books, Ctx
<1>9. books' = [books EXCEPT !.ran = books.ran + Fits(ctx)]
  BY DEF Served
<1>10. books' \in Books
  BY <1>1, <1>8, <1>9 DEF Books
<1>11. /\ books'.calls = books.calls
       /\ books'.rows = books.rows
       /\ books'.written = books.written
       /\ books'.seen = books.seen
       /\ books'.banked = books.banked
       /\ books'.ran = books.ran + Fits(ctx)
       /\ books'.faults = books.faults
  BY <1>1, <1>9 DEF Books
<1>12. ctx'.produced = ctx.produced
  BY <1>1, <1>4 DEF Ctx
<1> QED
  BY <1>3, <1>5, <1>6, <1>7, <1>10, <1>11, <1>12

LEMMA ServedKeepsCalls ==
  ASSUME TypeOK, CallInv, Served
  PROVE  TypeOK' /\ CallInv'
<1>1. TypeOK'
  BY ServedFacts DEF TypeOK, Phases, Served
<1>2. Booked = 0 /\ Booked' = 1
  BY DEF Booked, Served
<1>3. ctx.usesLeft \in Nat /\ ctx.left \in Nat /\ books.calls \in Nat /\ books.ran \in Nat
  BY StreamAssumption DEF TypeOK, Ctx, Books, Calls
<1>4. phase' = "continuing"
  BY DEF Served
<1> QED
  BY <1>1, <1>2, <1>3, <1>4, ServedFacts, StreamAssumption DEF CallInv

\* The answer's stream: whose usage is banked, whose row is written.
LEMMA ContinuedFacts ==
  ASSUME TypeOK, CallInv, Continued
  PROVE  /\ ctx' \in Ctx
         /\ SameBudget(ctx', ctx)
         /\ ctx'.clientDone = ctx.clientDone
         /\ ctx'.terminated = ctx.terminated
         /\ ctx'.started = ctx.started
         /\ client' = IF kind = "ToAnthropic" THEN Show(client) ELSE client
         /\ books' \in Books
         /\ books'.calls = books.calls + 1
         /\ books'.seen = books.seen
         /\ books'.ran = books.ran
         /\ books'.faults = books.faults
         /\ ~books'.written
         /\ books'.rows = (IF books.written THEN books.rows ELSE Append(books.rows, "ok"))
         /\ \A m \in Calls : books'.banked[m] >= books.banked[m]
         /\ Held # 0 => books'.banked[Held] > 0
<1>1. ctx \in Ctx /\ books \in Books /\ Held \in {0} \cup Calls
  BY UsageType DEF TypeOK
<1>2. ctx' = [ctx EXCEPT !.inner = 0] \/ ctx' = [ctx EXCEPT !.tap = 0]
  BY DEF Continued
<1>3. ctx' \in Ctx
  BY <1>1, <1>2 DEF Ctx
<1>4. /\ SameBudget(ctx', ctx)
      /\ ctx'.clientDone = ctx.clientDone
      /\ ctx'.terminated = ctx.terminated
      /\ ctx'.started = ctx.started
  BY <1>1, <1>2 DEF Ctx, SameBudget
<1> DEFINE b == Bank(books, Held)
<1>5. books' = NextCall(b, "ok")
  BY DEF Continued, Held
<1>6. /\ b \in Books
      /\ b.calls = books.calls
      /\ b.rows = books.rows
      /\ b.written = books.written
      /\ b.seen = books.seen
      /\ b.ran = books.ran
      /\ b.faults = books.faults
      /\ \A m \in Calls : b.banked[m] >= books.banked[m]
      /\ Held # 0 => b.banked[Held] > 0
  BY <1>1, BankFacts
<1>7. books.calls + 1 \in Calls
  BY NextCallFits DEF Booked, Continued
<1> HIDE DEF b
<1>8. /\ books' \in Books
      /\ books'.calls = b.calls + 1
      /\ books'.banked = b.banked
      /\ books'.seen = b.seen
      /\ books'.ran = b.ran
      /\ books'.faults = b.faults
      /\ ~books'.written
      /\ books'.rows = (IF b.written THEN b.rows ELSE Append(b.rows, "ok"))
  BY <1>5, <1>6, <1>7, NextCallFacts DEF Outcomes
<1>9. client' = IF kind = "ToAnthropic" THEN Show(client) ELSE client
  BY DEF Continued
<1> QED
  BY <1>3, <1>4, <1>6, <1>8, <1>9

LEMMA ContinuedKeepsCalls ==
  ASSUME TypeOK, CallInv, Continued
  PROVE  TypeOK' /\ CallInv'
<1>1. TypeOK'
  BY ContinuedFacts, FreshType, ShowFacts DEF TypeOK, Phases, Continued
<1>2. Booked = 1 /\ Booked' = 0 /\ phase' = "open"
  BY DEF Booked, Continued
<1>3. ctx.usesLeft \in Nat /\ ctx.left \in Nat /\ books.calls \in Nat
  BY StreamAssumption DEF TypeOK, Ctx, Books, Calls
<1> QED
  BY <1>1, <1>2, <1>3, ContinuedFacts DEF CallInv, SameBudget

LEMMA ContinuationFailsFacts ==
  ASSUME TypeOK, ContinuationFails
  PROVE  /\ ctx' \in Ctx
         /\ ~ctx'.search
         /\ ctx'.usesLeft = ctx.usesLeft
         /\ ctx'.left = ctx.left
         /\ ctx'.ours = ctx.ours
         /\ ctx'.tap = ctx.tap
         /\ ctx'.inner = ctx.inner
         /\ ctx'.clientDone = ctx.clientDone
         /\ ctx'.terminated = ctx.terminated
         /\ ctx'.started = ctx.started
         /\ ctx'.produced = ctx.produced
         /\ client' \in Client
<1>1. ctx \in Ctx
  BY DEF TypeOK
<1>2. ctx' = [ctx EXCEPT !.search = FALSE] /\ client' = Show(client)
  BY DEF ContinuationFails
<1>3. ctx' \in Ctx /\ ~ctx'.search
  BY <1>1, <1>2 DEF Ctx
<1>4. /\ ctx'.usesLeft = ctx.usesLeft
      /\ ctx'.left = ctx.left
      /\ ctx'.ours = ctx.ours
      /\ ctx'.tap = ctx.tap
      /\ ctx'.inner = ctx.inner
      /\ ctx'.clientDone = ctx.clientDone
      /\ ctx'.terminated = ctx.terminated
      /\ ctx'.started = ctx.started
      /\ ctx'.produced = ctx.produced
  BY <1>1, <1>2 DEF Ctx
<1> QED
  BY <1>2, <1>3, <1>4, ShowFacts DEF TypeOK

LEMMA ContinuationFailsKeepsCalls ==
  ASSUME TypeOK, CallInv, ContinuationFails
  PROVE  TypeOK' /\ CallInv'
<1>1. TypeOK'
  BY ContinuationFailsFacts DEF TypeOK, Phases, ContinuationFails
<1>2. Booked = 1 /\ Booked' = 0 /\ phase' = "open" /\ books' = books
  BY DEF Booked, ContinuationFails
<1>3. ctx.usesLeft \in Nat /\ ctx.left \in Nat /\ books.calls \in Nat
  BY StreamAssumption DEF TypeOK, Ctx, Books, Calls
<1>4. ctx'.ours = 0
  BY <1>2, ContinuationFailsFacts DEF CallInv
<1> QED
  BY <1>1, <1>2, <1>3, <1>4, ContinuationFailsFacts, StreamAssumption DEF CallInv

\* What is left once the step is none of the above: the phase alone moves.
LEMMA MoveKeepsCalls ==
  ASSUME TypeOK, CallInv, UNCHANGED <<setup, ctx, client, books>>, up' \in Upstream,
         \/ phase \in {"hold", "carried"} /\ phase' = "open"
         \/ phase = "open" /\ phase' = "serving" /\ HasReplay(ctx)
         \/ phase' = phase
  PROVE  TypeOK' /\ CallInv'
<1>1. TypeOK'
  BY DEF TypeOK, Phases
<1>2. Booked' = Booked
  BY DEF Booked
<1> QED
  BY <1>1, <1>2 DEF CallInv, HasReplay

LEMMA EndedType ==
  ASSUME TypeOK
  PROVE  [up EXCEPT !.stage = "ended"] \in Upstream
BY DEF TypeOK, Upstream

LEMMA DropKeepsCalls ==
  ASSUME TypeOK, CallInv, setup' = setup, ctx' = ctx, up' = up,
         client' = client \/ client' = Unsent,
         phase' \in Final, NEW o \in Outcomes, books' = Dropped(books, o)
  PROVE  TypeOK' /\ CallInv'
<1>1. Settled(books', ctx.tap)
  BY SettledFacts, UsageType DEF Dropped
<1> Unsent \in Client
  BY DEF Unsent, Client
<1>2. client' \in Client /\ up' \in Upstream /\ ctx' \in Ctx
  BY DEF TypeOK
<1>3. SameBudget(ctx', ctx) /\ setup' = setup
  BY DEF SameBudget
<1> QED
  BY <1>1, <1>2, <1>3, EndKeepsCalls

\* Every step keeps the types and the budget of calls.
LEMMA CallStep ==
  ASSUME TypeOK, CallInv, [Next]_vars
  PROVE  TypeOK' /\ CallInv'
<1>1. ASSUME NEW e \in Events, NEW reports \in BOOLEAN, Hold(e, reports) \/ Chunk(e, reports)
      PROVE  TypeOK' /\ CallInv'
  BY <1>1, HoldKeepsCalls, ChunkKeepsCalls
<1>2. CASE Deadline
  BY <1>2, MoveKeepsCalls DEF Deadline, TypeOK
<1>3. CASE HoldEnds
  BY <1>3, DropKeepsCalls DEF HoldEnds, Outcomes, Final
<1>4. CASE HandOver
  BY <1>4, MoveKeepsCalls DEF HandOver, TypeOK
<1>5. CASE Looping
  BY <1>5, FinishKeepsCalls, SaidType DEF Looping, Events
<1>6. CASE Stall
  BY <1>6, FinishKeepsCalls DEF Stall, TypeOK
<1>7. CASE Broken
  BY <1>7, FinishKeepsCalls, ResendKeepsCalls DEF Broken, Reading, TypeOK
<1>8. CASE BodyEnds
  <2>1. phase = "open" /\ up' \in Upstream /\ setup' = setup
    BY <1>8, EndedType DEF BodyEnds
  <2>2. CASE HasReplay(ctx) /\ phase' = "serving" /\ UNCHANGED <<ctx, client, books>>
    BY <2>1, <2>2, MoveKeepsCalls
  <2>3. CASE MayResend /\ Resend
    BY <2>1, <2>3, ResendKeepsCalls
  <2>4. CASE Finish
    BY <2>1, <2>4, FinishKeepsCalls
  <2> QED
    BY <1>8, <2>2, <2>3, <2>4 DEF BodyEnds
<1>9. CASE Resent
  BY <1>9, ResentKeepsCalls
<1>10. CASE ResendFails
  BY <1>10, FinishKeepsCalls DEF ResendFails, TypeOK
<1>11. CASE Served
  BY <1>11, ServedKeepsCalls
<1>12. CASE Continued
  BY <1>12, ContinuedKeepsCalls
<1>13. CASE ContinuationFails
  BY <1>13, ContinuationFailsKeepsCalls
<1>14. CASE Disconnect
  BY <1>14, DropKeepsCalls DEF Disconnect, Outcomes, Final
<1>15. CASE UNCHANGED vars
  BY <1>15, MoveKeepsCalls DEF vars, TypeOK
<1> QED
  BY <1>1, <1>2, <1>3, <1>4, <1>5, <1>6, <1>7, <1>8, <1>9, <1>10, <1>11, <1>12,
     <1>13, <1>14, <1>15 DEF Next, Step

LEMMA CallInit == Init => TypeOK /\ CallInv
<1> SUFFICES ASSUME Init PROVE TypeOK /\ CallInv
  OBVIOUS
<1>1. Uses \in Nat /\ MaxRetries \in Nat /\ MaxEvents \in Nat
  BY StreamAssumption
<1>2. setup \in Setups /\ phase \in Phases /\ up \in Upstream
  BY FreshType DEF Init, Phases
<1>3. setup[2] \in BOOLEAN
  BY <1>2, StreamAssumption
<1>4. ctx \in Ctx
  BY <1>1, <1>3 DEF Init, Ctx
<1>5. client \in Client
  BY DEF Init, Unsent, Client
<1>6. books \in Books
  <2>1. 1 \in Calls /\ [n \in Calls |-> 0] \in [Calls -> Nat] /\ <<>> \in Seq(Outcomes)
    BY <1>1 DEF Calls
  <2> QED
    BY <2>1 DEF Init, Books
<1>7. CallInv
  BY <1>1 DEF Init, CallInv, Booked
<1> QED
  BY <1>2, <1>4, <1>5, <1>6, <1>7 DEF TypeOK

\* The types hold throughout; in particular a turn never makes more upstream
\* calls than one, one per tool call of the budget and one per re-send.
THEOREM TypeCorrect == Spec => []TypeOK
<1>1. Init => TypeOK /\ CallInv
  BY CallInit
<1>2. TypeOK /\ CallInv /\ [Next]_vars => (TypeOK /\ CallInv)'
  BY CallStep
<1> QED
  BY <1>1, <1>2, PTL DEF Spec

LEMMA CallsInvariant == Spec => [](TypeOK /\ CallInv)
<1>1. Init => TypeOK /\ CallInv
  BY CallInit
<1>2. TypeOK /\ CallInv /\ [Next]_vars => (TypeOK /\ CallInv)'
  BY CallStep
<1> QED
  BY <1>1, <1>2, PTL DEF Spec

\* Parallel calls and rounds together run no more tools than the turn may, for
\* any budget and any number of calls in a batch.
THEOREM BudgetIsKept == Spec => []BudgetKept
<1>1. ASSUME TypeOK, CallInv
      PROVE  BudgetKept
  <2>1. ctx.usesLeft \in Nat /\ books.ran \in Nat /\ Uses \in Nat
    BY <1>1, StreamAssumption DEF TypeOK, Ctx, Books
  <2> QED
    BY <1>1, <2>1 DEF CallInv, BudgetKept
<1> QED
  BY <1>1, CallsInvariant, PTL

-----------------------------------------------------------------------------
(* Rows and tokens. *)

\* A leg is open or has its row, and a row written ahead of its turn's end
\* says that the model refused.
RowInv ==
  /\ Len(books.rows) = books.calls - (IF books.written THEN 0 ELSE 1)
  /\ phase \in Final => books.written
  /\ phase \notin Final /\ books.written => books.rows[books.calls] = "refused"

\* A report that was read is banked, belongs to an attempt that was sent
\* again, or is the one the translator and StreamCtx hold while the turn runs.
UsageInv ==
  \A n \in books.seen :
    \/ books.banked[n] > 0
    \/ n < books.calls /\ books.rows[n] # "ok"
    \/ phase \notin Final /\ n = books.calls /\ ctx.tap = n /\ Held = n

BooksInv == RowInv /\ UsageInv

LEMMA RowsType ==
  ASSUME TypeOK
  PROVE  /\ books.rows \in Seq(Outcomes)
         /\ books.calls \in Nat \ {0}
         /\ books.written \in BOOLEAN
         /\ books.seen \in SUBSET Calls
         /\ books.banked \in [Calls -> Nat]
         /\ Calls \in SUBSET (Nat \ {0})
BY StreamAssumption DEF TypeOK, Books, Calls

\* The rows grow at the end only.
LEMMA RowsGrow ==
  ASSUME TypeOK, RowInv, NEW rows, NEW o \in Outcomes,
         rows = (IF books.written THEN books.rows ELSE Append(books.rows, o))
  PROVE  /\ Len(rows) = books.calls
         /\ \A n \in Calls : n < books.calls => rows[n] = books.rows[n]
         /\ ~books.written => rows[books.calls] = o
         /\ books.written => rows = books.rows
<1>1. CASE books.written
  BY <1>1, RowsType DEF RowInv
<1>2. CASE ~books.written
  <2>1. Len(books.rows) = books.calls - 1 /\ rows = Append(books.rows, o)
    BY <1>2 DEF RowInv
  <2>2. Len(rows) = books.calls /\ rows[books.calls] = o
    BY <2>1, RowsType
  <2>3. \A n \in Calls : n < books.calls => n \in 1..Len(books.rows)
    BY <2>1, RowsType
  <2> QED
    BY <1>2, <2>1, <2>2, <2>3, RowsType
<1> QED
  BY <1>1, <1>2

LEMMA SettleKeepsBooks ==
  ASSUME TypeOK, BooksInv, phase' \in Final, NEW n \in {Held, ctx.tap}, Settled(books', n)
  PROVE  BooksInv'
<1>1. PICK o \in Outcomes : books'.rows = (IF books.written THEN books.rows ELSE Append(books.rows, o))
  BY DEF Settled
<1>2. /\ Len(books'.rows) = books.calls
      /\ \A m \in Calls : m < books.calls => books'.rows[m] = books.rows[m]
  BY <1>1, RowsGrow DEF BooksInv
<1>3. RowInv'
  BY <1>2, RowsType DEF RowInv, Settled
<1>4. ASSUME NEW m \in books.seen
      PROVE  books'.banked[m] > 0 \/ (m < books.calls /\ books'.rows[m] # "ok")
  <2>1. m \in Calls /\ books.banked[m] \in Nat /\ m # 0
    BY RowsType
  <2>2. CASE books.banked[m] > 0
    <3>1. books'.banked[m] \in Nat /\ books'.banked[m] >= books.banked[m]
      BY <2>1 DEF Settled, Books
    <3> QED
      BY <2>1, <2>2, <3>1
  <2>3. CASE m < books.calls /\ books.rows[m] # "ok"
    BY <1>2, <2>1, <2>3
  <2>4. CASE m = books.calls /\ ctx.tap = m /\ Held = m
    BY <2>1, <2>4 DEF Settled
  <2> QED
    BY <2>2, <2>3, <2>4 DEF BooksInv, UsageInv
<1>5. UsageInv'
  BY <1>4 DEF UsageInv, Settled
<1> QED
  BY <1>3, <1>5 DEF BooksInv

LEMMA FinishKeepsBooks ==
  ASSUME TypeOK, BooksInv, Finish
  PROVE  BooksInv'
BY FinishFacts, SettleKeepsBooks DEF Final

LEMMA DropKeepsBooks ==
  ASSUME TypeOK, BooksInv, phase' \in Final, NEW o \in Outcomes, books' = Dropped(books, o)
  PROVE  BooksInv'
BY SettledFacts, UsageType, SettleKeepsBooks DEF Dropped

\* A report is held as soon as it is read.
LEMMA RelayKeepsUsage ==
  ASSUME TypeOK, BooksInv, NEW e \in Events, NEW reports \in BOOLEAN,
         Relay(e, reports), setup' = setup, phase' \notin Final,
         books'.calls = books.calls, books'.banked = books.banked,
         \A n \in Calls : n < books.calls => books'.rows[n] = books.rows[n],
         books'.seen = books.seen \cup (IF reports /\ ~ctx.terminated THEN {books.calls} ELSE {})
  PROVE  UsageInv'
<1>1. kind' = kind
  BY DEF kind
<1>2. CASE ctx.terminated
  <2>1. books'.seen = books.seen /\ ctx' = ctx /\ Held' = Held
    BY <1>1, <1>2, RelayFacts DEF Held
  <2> QED
    BY <2>1, RowsType DEF UsageInv, BooksInv
<1>3. CASE ~ctx.terminated
  <2>1. ctx'.tap = (IF reports THEN books.calls ELSE Held) /\ Held' = ctx'.tap
    BY <1>1, <1>3, RelayFacts DEF Tells, Held
  <2>2. CASE reports
    <3>1. ctx'.tap = books.calls /\ Held' = books.calls
      BY <2>1, <2>2
    <3> QED
      BY <2>2, <3>1, RowsType DEF UsageInv, BooksInv
  <2>3. CASE ~reports
    <3>1. ctx'.tap = Held /\ Held' = Held /\ books'.seen = books.seen
      BY <2>1, <2>3
    <3> QED
      BY <3>1, RowsType DEF UsageInv, BooksInv
  <2> QED
    BY <2>2, <2>3
<1> QED
  BY <1>2, <1>3

LEMMA ChunkKeepsBooks ==
  ASSUME TypeOK, BooksInv, NEW e \in Events, NEW reports \in BOOLEAN, setup' = setup,
         phase \notin Final, phase' \notin Final,
         Relay(e, reports), books' = See(books, reports)
  PROVE  BooksInv'
<1>1. /\ books'.calls = books.calls
      /\ books'.banked = books.banked
      /\ books'.rows = books.rows
      /\ books'.written = books.written
      /\ books'.seen = books.seen \cup (IF reports /\ ~ctx.terminated THEN {books.calls} ELSE {})
  BY SeeFacts DEF TypeOK
<1>2. UsageInv'
  BY <1>1, RelayKeepsUsage
<1>3. RowInv'
  BY <1>1 DEF RowInv, BooksInv
<1> QED
  BY <1>2, <1>3 DEF BooksInv

LEMMA RefusalKeepsBooks ==
  ASSUME TypeOK, BooksInv, NEW e \in Events, NEW reports \in BOOLEAN, setup' = setup,
         phase \notin Final, phase' \notin Final,
         Relay(e, reports), books' = WriteRow(See(books, reports), "refused")
  PROVE  BooksInv'
<1> DEFINE b == See(books, reports)
<1>1. /\ b \in Books
      /\ b.calls = books.calls
      /\ b.banked = books.banked
      /\ b.rows = books.rows
      /\ b.written = books.written
      /\ b.seen = books.seen \cup (IF reports /\ ~ctx.terminated THEN {books.calls} ELSE {})
  BY SeeFacts DEF TypeOK
<1> HIDE DEF b
<1>2. /\ books'.calls = books.calls
      /\ books'.banked = books.banked
      /\ books'.seen = books.seen \cup (IF reports /\ ~ctx.terminated THEN {books.calls} ELSE {})
      /\ books'.written
      /\ books'.rows = (IF books.written THEN books.rows ELSE Append(books.rows, "refused"))
  BY <1>1, WriteRowFacts DEF b, Outcomes
<1>3. /\ Len(books'.rows) = books.calls
      /\ \A n \in Calls : n < books.calls => books'.rows[n] = books.rows[n]
      /\ ~books.written => books'.rows[books.calls] = "refused"
      /\ books.written => books'.rows = books.rows
  BY <1>2, RowsGrow, ZenonT(60) DEF BooksInv, Outcomes
<1>4. UsageInv'
  BY <1>2, <1>3, RelayKeepsUsage
<1>5. RowInv'
  BY <1>2, <1>3, RowsType DEF RowInv, BooksInv
<1> QED
  BY <1>4, <1>5 DEF BooksInv

\* Nothing that the invariant speaks of changes.
LEMMA MoveKeepsBooks ==
  ASSUME BooksInv, setup' = setup, ctx'.tap = ctx.tap, ctx'.inner = ctx.inner,
         books'.calls = books.calls, books'.rows = books.rows,
         books'.written = books.written, books'.seen = books.seen,
         books'.banked = books.banked, phase' \in Final <=> phase \in Final
  PROVE  BooksInv'
<1>1. Held' = Held
  BY DEF Held, kind
<1> QED
  BY <1>1 DEF BooksInv, RowInv, UsageInv

LEMMA ResentKeepsBooks ==
  ASSUME TypeOK, CallInv, BooksInv, Resent
  PROVE  BooksInv'
<1>1. /\ books'.calls = books.calls + 1
      /\ books'.banked = books.banked
      /\ books'.seen = books.seen
      /\ ~books'.written
      /\ books'.rows = (IF books.written THEN books.rows ELSE Append(books.rows, "dead"))
  BY ResentFacts
<1>2. /\ Len(books'.rows) = books.calls
      /\ \A n \in Calls : n < books.calls => books'.rows[n] = books.rows[n]
      /\ ~books.written => books'.rows[books.calls] = "dead"
      /\ books.written => books'.rows = books.rows
  BY <1>1, RowsGrow DEF BooksInv, Outcomes
<1>3. books'.rows[books.calls] # "ok"
  BY <1>2 DEF BooksInv, RowInv, Final, Resent
<1>4. RowInv'
  BY <1>1, <1>2, RowsType DEF RowInv, Final, Resent
<1>5. ASSUME NEW n \in books.seen
      PROVE  books.banked[n] > 0 \/ (n < books.calls + 1 /\ books'.rows[n] # "ok")
  BY <1>2, <1>3, RowsType DEF BooksInv, UsageInv
<1>6. UsageInv'
  BY <1>1, <1>5 DEF UsageInv
<1> QED
  BY <1>4, <1>6 DEF BooksInv

LEMMA ContinuedKeepsBooks ==
  ASSUME TypeOK, CallInv, BooksInv, Continued
  PROVE  BooksInv'
<1>1. /\ books' \in Books
      /\ books'.calls = books.calls + 1
      /\ \A m \in Calls : books'.banked[m] >= books.banked[m]
      /\ Held # 0 => books'.banked[Held] > 0
      /\ books'.seen = books.seen
      /\ ~books'.written
      /\ books'.rows = (IF books.written THEN books.rows ELSE Append(books.rows, "ok"))
  BY ContinuedFacts
<1>2. /\ Len(books'.rows) = books.calls
      /\ \A n \in Calls : n < books.calls => books'.rows[n] = books.rows[n]
  BY <1>1, RowsGrow DEF BooksInv, Outcomes
<1>3. RowInv'
  BY <1>1, <1>2, RowsType DEF RowInv, Final, Continued
<1>4. ASSUME NEW n \in books.seen
      PROVE  books'.banked[n] > 0 \/ (n < books.calls + 1 /\ books'.rows[n] # "ok")
  <2>1. n \in Calls /\ n \in Nat \ {0} /\ books.banked[n] \in Nat /\ books'.banked[n] \in Nat
    BY <1>1, RowsType DEF Books
  <2>2. CASE books.banked[n] > 0
    BY <1>1, <2>1, <2>2
  <2>3. CASE n < books.calls /\ books.rows[n] # "ok"
    BY <1>2, <2>1, <2>3, RowsType
  <2>4. CASE n = books.calls /\ ctx.tap = n /\ Held = n
    BY <1>1, <2>1, <2>4
  <2> QED
    BY <2>2, <2>3, <2>4 DEF BooksInv, UsageInv
<1>5. UsageInv'
  BY <1>1, <1>4 DEF UsageInv
<1> QED
  BY <1>3, <1>5 DEF BooksInv

\* Every step keeps rows and tokens in order.
LEMMA BooksStep ==
  ASSUME TypeOK, CallInv, BooksInv, [Next]_vars
  PROVE  BooksInv'
<1>1. ASSUME NEW e \in Events, NEW reports \in BOOLEAN, Hold(e, reports)
      PROVE  BooksInv'
  <2>1. phase \notin Final /\ setup' = setup
    BY <1>1 DEF Hold, Final
  <2>2. CASE Relay(e, reports) /\ phase' = "carried"
             /\ books' = WriteRow(See(books, reports), "refused")
    BY <2>1, <2>2, RefusalKeepsBooks DEF Final
  <2>3. CASE Relay(e, reports) /\ phase' \in {"open", "hold"} /\ books' = See(books, reports)
    BY <2>1, <2>3, ChunkKeepsBooks DEF Final
  <2>4. CASE phase' = "failed" /\ books' = Dropped(books, "failed")
    BY <2>4, DropKeepsBooks DEF Final, Outcomes
  <2> QED
    BY <1>1, <2>2, <2>3, <2>4 DEF Hold
<1>2. ASSUME NEW e \in Events, NEW reports \in BOOLEAN, Chunk(e, reports)
      PROVE  BooksInv'
  BY <1>2, ChunkKeepsBooks DEF Chunk, Final
<1>3. CASE Deadline
  BY <1>3, MoveKeepsBooks DEF Deadline, Final
<1>4. CASE HoldEnds
  BY <1>4, DropKeepsBooks DEF HoldEnds, Outcomes, Final
<1>5. CASE HandOver
  BY <1>5, MoveKeepsBooks DEF HandOver, Final
<1>6. CASE Looping
  BY <1>6, FinishKeepsBooks DEF Looping
<1>7. CASE Stall
  BY <1>7, FinishKeepsBooks DEF Stall
<1>8. ASSUME MayResend, Resend, phase = "open", setup' = setup
      PROVE  BooksInv'
  BY <1>8, ResendFacts, MoveKeepsBooks DEF Final
<1>9. CASE Broken
  BY <1>8, <1>9, FinishKeepsBooks DEF Broken, Reading
<1>10. CASE BodyEnds
  <2>1. phase = "open" /\ setup' = setup
    BY <1>10 DEF BodyEnds
  <2>2. CASE phase' = "serving" /\ UNCHANGED <<ctx, client, books>>
    BY <2>1, <2>2, MoveKeepsBooks DEF Final
  <2> QED
    BY <1>8, <1>10, <2>1, <2>2, FinishKeepsBooks DEF BodyEnds
<1>11. CASE Resent
  BY <1>11, ResentKeepsBooks
<1>12. CASE ResendFails
  BY <1>12, FinishKeepsBooks DEF ResendFails
<1>13. CASE Served
  BY <1>13, ServedFacts, MoveKeepsBooks DEF Served, Final
<1>14. CASE Continued
  BY <1>14, ContinuedKeepsBooks
<1>15. CASE ContinuationFails
  BY <1>15, ContinuationFailsFacts, MoveKeepsBooks DEF ContinuationFails, Final
<1>16. CASE Disconnect
  BY <1>16, DropKeepsBooks DEF Disconnect, Outcomes, Final
<1>17. CASE UNCHANGED vars
  BY <1>17, MoveKeepsBooks DEF vars
<1> QED
  BY <1>1, <1>2, <1>3, <1>4, <1>5, <1>6, <1>7, <1>9, <1>10, <1>11, <1>12,
     <1>13, <1>14, <1>15, <1>16, <1>17 DEF Next, Step

LEMMA BooksInvariant == Spec => [](TypeOK /\ BooksInv)
<1>1. Init => TypeOK /\ CallInv
  BY CallInit
<1>2. Init => BooksInv
  BY DEF Init, BooksInv, RowInv, UsageInv, Final
<1>3. TypeOK /\ CallInv /\ BooksInv /\ [Next]_vars => (TypeOK /\ CallInv /\ BooksInv)'
  BY CallStep, BooksStep
<1> QED
  BY <1>1, <1>2, <1>3, PTL DEF Spec

\* Every upstream call is one row, written when the next call takes its place
\* or the turn is over: for any number of calls, wherever the turn breaks off.
THEOREM RowsAreOnePerCall == Spec => []OneRowPerCall
<1>1. TypeOK /\ BooksInv => OneRowPerCall
  BY RowsType DEF BooksInv, RowInv, OneRowPerCall
<1> QED
  BY <1>1, BooksInvariant, PTL

\* At the end of a turn every report that was read is banked, attempts that
\* were sent again excepted: whatever way the turn ended.
THEOREM UsageIsNeverLost == Spec => []UsageNeverLost
<1>1. ASSUME TypeOK, BooksInv
      PROVE  UsageNeverLost
  BY <1>1 DEF UsageNeverLost, BooksInv, UsageInv
<1> QED
  BY <1>1, BooksInvariant, PTL

-----------------------------------------------------------------------------
(* The close of the client's turn. *)

\* What the close of an OpenAI client's turn goes with while the turn runs.
OpenaiClose ==
  /\ client.closes = (IF ctx.clientDone THEN 1 ELSE 0)
  /\ ctx.clientDone =>
       /\ phase \notin {"serving", "continuing", "resending"}
       /\ up.stage # "open"
       /\ ~HasReplay(ctx)
       /\ up.stage = "closed" => ctx.terminated \/ kind = "ToOpenai"

\* A translated Anthropic turn is closed by the last [DONE], which marks it.
AnthropicClose ==
  /\ client.closes <= 1
  /\ client.closes > 0 => ctx.terminated
  /\ ctx.terminated => ~ctx.started /\ ~HasReplay(ctx) /\ phase \notin {"serving", "continuing"}

Running ==
  /\ ctx.search => kind \in {"OpenaiPass", "ToAnthropic"}
  /\ ctx.ours > 0 => up.called
  /\ OpenaiClient => OpenaiClose
  /\ kind = "ToAnthropic" => AnthropicClose

CloseInv ==
  /\ client.closes <= 1
  /\ ~client.late
  /\ phase \notin Final => Running

\* What the stage of the upstream lets it say.
LEMMA SayFacts ==
  ASSUME TypeOK, NEW e \in Events, MaySay(e)
  PROVE  /\ \/ up.stage = "open"
            \/ up.stage = "stopped" /\ e = "done"
            \/ up.stage = "closed" /\ e = "start" /\ ~AnthropicUpstream
         /\ up.stage = "open" /\ e \in {"stop", "refusal"} /\ up.called => "stop" \in CallCloses
BY DEF MaySay, TypeOK, Upstream

LEMMA SaidFacts ==
  ASSUME TypeOK, NEW e \in Events
  PROVE  /\ Said(e).stage = (IF e = "done" THEN "closed"
                             ELSE IF e \in Closing THEN "stopped" ELSE up.stage)
         /\ Said(e).called <=> (up.called \/ e = "call")
BY DEF Said, TypeOK, Upstream

\* Capturing is the only thing that makes a replay.
LEMMA ReplayFacts ==
  ASSUME TypeOK, NEW e \in Events, Carries(ctx', e)
  PROVE  /\ HasReplay(ctx)' => ctx.search /\ ~ctx.sawOther
         /\ e \notin {"call", "tool"} => (HasReplay(ctx)' <=> HasReplay(ctx))
         /\ ctx'.ours > 0 => ctx.ours > 0 \/ e = "call"
BY DEF Carries, HasReplay, TypeOK, Ctx

LEMMA OpenaiPassCases ==
  ASSUME TypeOK, NEW e \in Events, NEW reports \in BOOLEAN,
         kind = "OpenaiPass", RelayOpenai(e, reports)
  PROVE  \/ /\ e \in {"done", "call", "calls"}
            /\ e # "call" => HasReplay(ctx)'
            /\ client' = client
            /\ ctx'.clientDone = ctx.clientDone
            /\ ctx'.terminated = ctx.terminated
         \/ /\ e = "done"
            /\ ~HasReplay(ctx)'
            /\ client' = IF ctx.clientDone THEN client ELSE Close(client)
            /\ ctx'.clientDone
            /\ ctx'.terminated
         \/ /\ e \in Closing
            /\ e = "calls" => ~HasReplay(ctx)'
            /\ client' = Close(client)
            /\ ctx'.clientDone
            /\ ctx'.terminated = ctx.terminated
         \/ /\ e \notin Closing \cup {"done", "call"}
            /\ client' = Shown(e)
            /\ ctx'.clientDone = ctx.clientDone
            /\ ctx'.terminated = ctx.terminated
<1> DEFINE h == Heard(e, reports)
<1>1. /\ h \in Ctx
      /\ Carries(h, e)
      /\ h.clientDone = ctx.clientDone
      /\ h.terminated = ctx.terminated
  BY HeardFacts DEF Carries
<1>2. HasReplay(h) <=> HasReplay(ctx)'
  <2>1. Carries(ctx', e)
    BY RelayOpenaiFacts
  <2> QED
    BY <1>1, <2>1 DEF Carries, HasReplay
<1>3. \/ e = "done" /\ HasReplay(h) /\ ctx' = h /\ client' = client
      \/ /\ e = "done" /\ ~HasReplay(h)
         /\ ctx' = [h EXCEPT !.clientDone = TRUE, !.terminated = TRUE]
         /\ client' = IF h.clientDone THEN client ELSE Close(client)
      \/ (e = "call" \/ (e = "calls" /\ HasReplay(h))) /\ ctx' = h /\ client' = client
      \/ /\ e \in Closing /\ ~(e = "calls" /\ HasReplay(h))
         /\ ctx' = [h EXCEPT !.clientDone = TRUE] /\ client' = Close(client)
      \/ e \notin Closing \cup {"done", "call"} /\ ctx' = h /\ client' = Shown(e)
  BY DEF RelayOpenai, Events, Closing
<1> HIDE DEF h
<1>4. CASE e = "done" /\ HasReplay(h) /\ ctx' = h /\ client' = client
  BY <1>1, <1>2, <1>4
<1>5. CASE /\ e = "done" /\ ~HasReplay(h)
           /\ ctx' = [h EXCEPT !.clientDone = TRUE, !.terminated = TRUE]
           /\ client' = IF h.clientDone THEN client ELSE Close(client)
  <2>1. ctx'.clientDone /\ ctx'.terminated
    BY <1>1, <1>5 DEF Ctx
  <2> QED
    BY <1>1, <1>2, <1>5, <2>1
<1>6. CASE (e = "call" \/ (e = "calls" /\ HasReplay(h))) /\ ctx' = h /\ client' = client
  BY <1>1, <1>2, <1>6
<1>7. CASE /\ e \in Closing /\ ~(e = "calls" /\ HasReplay(h))
           /\ ctx' = [h EXCEPT !.clientDone = TRUE] /\ client' = Close(client)
  <2>1. ctx'.clientDone /\ ctx'.terminated = ctx.terminated
    BY <1>1, <1>7 DEF Ctx
  <2> QED
    BY <1>2, <1>7, <2>1
<1>8. CASE e \notin Closing \cup {"done", "call"} /\ ctx' = h /\ client' = Shown(e)
  BY <1>1, <1>8
<1> QED
  BY <1>3, <1>4, <1>5, <1>6, <1>7, <1>8

\* Relaying one event to an OpenAI client of an OpenAI upstream.
LEMMA OpenaiPassKeepsClose ==
  ASSUME TypeOK, "stop" \notin CallCloses, NEW e \in Events, NEW reports \in BOOLEAN,
         kind = "OpenaiPass", phase \in {"hold", "open"}, CloseInv, MaySay(e),
         up' = Said(e), setup' = setup, phase' \in {"hold", "open", "carried"},
         ~ctx.terminated, RelayOpenai(e, reports)
  PROVE  CloseInv'
<1>1. Running /\ OpenaiClose /\ kind' = kind
  BY DEF CloseInv, Running, OpenaiClient, Final, kind
<1>2. Carries(ctx', e) /\ ctx' \in Ctx /\ ctx \in Ctx
  BY RelayOpenaiFacts DEF TypeOK
<1>3. /\ up'.stage = (IF e = "done" THEN "closed"
                     ELSE IF e \in Closing THEN "stopped" ELSE up.stage)
      /\ up'.called <=> (up.called \/ e = "call")
  BY SaidFacts
<1>4. ctx'.ours > 0 => up'.called
  BY <1>1, <1>2, <1>3, ReplayFacts DEF Running
<1>5. ctx.clientDone => e = "done" /\ ~HasReplay(ctx)'
  BY <1>1, <1>2, SayFacts, ReplayFacts DEF OpenaiClose
<1>6. e \in {"stop", "refusal"} => ~HasReplay(ctx)'
  <2>1. SUFFICES ASSUME e \in {"stop", "refusal"} PROVE ctx'.ours = 0
    BY <1>2 DEF HasReplay, Ctx
  <2>2. ~up.called
    BY <2>1, SayFacts
  <2>3. ctx.ours = 0
    BY <1>1, <1>2, <2>2 DEF Running, Ctx
  <2> QED
    BY <1>2, <2>1, <2>3 DEF Carries
<1>7. ~client.late /\ client \in Client
  BY DEF CloseInv, TypeOK
<1>8. /\ client'.closes = (IF ctx'.clientDone THEN 1 ELSE 0)
      /\ ctx'.clientDone => /\ up'.stage # "open"
                            /\ ~HasReplay(ctx)'
                            /\ up'.stage = "closed" => ctx'.terminated
      /\ ~client'.late
  <2>1. CASE /\ e \in {"done", "call", "calls"}
             /\ e # "call" => HasReplay(ctx)'
             /\ client' = client
             /\ ctx'.clientDone = ctx.clientDone
             /\ ctx'.terminated = ctx.terminated
    BY <1>1, <1>5, <1>7, <2>1 DEF OpenaiClose
  <2>2. CASE /\ e = "done"
             /\ ~HasReplay(ctx)'
             /\ client' = IF ctx.clientDone THEN client ELSE Close(client)
             /\ ctx'.clientDone
             /\ ctx'.terminated
    BY <1>1, <1>3, <1>7, <2>2, CloseFacts DEF OpenaiClose
  <2>3. CASE /\ e \in Closing
             /\ e = "calls" => ~HasReplay(ctx)'
             /\ client' = Close(client)
             /\ ctx'.clientDone
             /\ ctx'.terminated = ctx.terminated
    BY <1>1, <1>3, <1>5, <1>6, <1>7, <2>3, CloseFacts DEF OpenaiClose, Closing
  <2>4. CASE /\ e \notin Closing \cup {"done", "call"}
             /\ client' = Shown(e)
             /\ ctx'.clientDone = ctx.clientDone
             /\ ctx'.terminated = ctx.terminated
    BY <1>1, <1>5, <1>7, <2>4, ShownFacts DEF OpenaiClose
  <2> QED
    BY <2>1, <2>2, <2>3, <2>4, OpenaiPassCases
<1>9. OpenaiClose'
  BY <1>8 DEF OpenaiClose
<1> QED
  BY <1>1, <1>4, <1>8, <1>9 DEF CloseInv, Running, OpenaiClient

\* Relaying one event to an OpenAI client of an Anthropic upstream.
LEMMA ToOpenaiKeepsClose ==
  ASSUME TypeOK, NEW e \in Events, NEW reports \in BOOLEAN,
         kind = "ToOpenai", phase \in {"hold", "open"}, CloseInv, MaySay(e),
         up' = Said(e), setup' = setup, phase' \in {"hold", "open", "carried"},
         ~ctx.terminated, RelayToOpenai(e, reports)
  PROVE  CloseInv'
<1>1. Running /\ OpenaiClose /\ kind' = kind
  BY DEF CloseInv, Running, OpenaiClient, Final, kind
<1>2. Carries(ctx', e) /\ ctx' \in Ctx /\ ctx \in Ctx
  BY RelayToOpenaiFacts DEF TypeOK
<1>3. ~ctx.search /\ ~ctx'.search
  BY <1>1, <1>2 DEF Running, Carries
<1>4. up'.stage = (IF e = "done" THEN "closed"
                   ELSE IF e \in Closing THEN "stopped" ELSE up.stage)
  BY SaidFacts
<1>5. ctx'.ours > 0 => up'.called
  BY <1>1, <1>2, <1>3, SaidFacts DEF Running, Carries
<1>6. ctx.clientDone => e = "done"
  BY <1>1, SayFacts DEF OpenaiClose, AnthropicUpstream
<1>7. ~client.late /\ client \in Client
  BY DEF CloseInv, TypeOK
<1> DEFINE h == Heard(e, reports)
<1>8. h \in Ctx /\ h.clientDone = ctx.clientDone
  BY HeardFacts
<1>9. /\ ctx' = IF e = "done" \/ e \in Closing THEN [h EXCEPT !.clientDone = TRUE] ELSE h
      /\ e \in Closing => client' = Close(client)
      /\ e = "done" => client' = IF h.clientDone THEN client ELSE Close(client)
      /\ e \notin Closing \cup {"done"} => client' = Shown(e)
  BY DEF RelayToOpenai, Events, Closing
<1> HIDE DEF h
<1>10. ctx'.clientDone <=> (ctx.clientDone \/ e = "done" \/ e \in Closing)
  BY <1>8, <1>9 DEF Ctx
<1>11. /\ client'.closes = (IF ctx'.clientDone THEN 1 ELSE 0)
       /\ ~client'.late
  <2>1. CASE e \in Closing
    BY <1>1, <1>6, <1>7, <1>9, <1>10, <2>1, CloseFacts DEF OpenaiClose, Closing
  <2>2. CASE e = "done"
    BY <1>1, <1>7, <1>8, <1>9, <1>10, <2>2, CloseFacts DEF OpenaiClose
  <2>3. CASE e \notin Closing \cup {"done"}
    BY <1>1, <1>6, <1>7, <1>9, <1>10, <2>3, ShownFacts DEF OpenaiClose
  <2> QED
    BY <2>1, <2>2, <2>3
<1>12. ctx'.clientDone => up'.stage # "open"
  BY <1>1, <1>4, <1>6, <1>10 DEF OpenaiClose
<1>13. OpenaiClose'
  BY <1>1, <1>3, <1>11, <1>12 DEF OpenaiClose, HasReplay
<1> QED
  BY <1>1, <1>3, <1>5, <1>11, <1>13 DEF CloseInv, Running, OpenaiClient

\* Relaying one event to an Anthropic client of an OpenAI upstream.
LEMMA ToAnthropicKeepsClose ==
  ASSUME TypeOK, NEW e \in Events, NEW reports \in BOOLEAN,
         kind = "ToAnthropic", phase \in {"hold", "open"}, CloseInv,
         up' = Said(e), setup' = setup, phase' \in {"hold", "open", "carried"},
         ~ctx.terminated, RelayToAnthropic(e, reports)
  PROVE  CloseInv'
<1>1. Running /\ AnthropicClose /\ kind' = kind
  BY DEF CloseInv, Running, Final, kind
<1>2. Carries(ctx', e) /\ ctx' \in Ctx /\ ctx \in Ctx
  BY RelayToAnthropicFacts DEF TypeOK
<1>3. ctx'.ours > 0 => up'.called
  BY <1>1, <1>2, SaidFacts, ReplayFacts DEF Running
<1>4. client.closes = 0 /\ ~client.late /\ client \in Client
  BY <1>1 DEF CloseInv, TypeOK, AnthropicClose, Client
<1> DEFINE h == Heard(e, FALSE)
           n == IF reports THEN books.calls ELSE h.inner
           c == [h EXCEPT !.inner = n]
<1>5. h \in Ctx /\ Carries(h, e) /\ h.terminated = ctx.terminated
  BY HeardFacts DEF Carries
<1>6. n \in {0} \cup Calls
  BY <1>5 DEF TypeOK, Books, Ctx
<1>7. \/ ctx' = [c EXCEPT !.tap = c.inner] /\ client' = client
      \/ /\ e = "done" /\ ~HasReplay(c)
         /\ ctx' = [c EXCEPT !.tap = c.inner, !.started = FALSE, !.terminated = TRUE]
         /\ client' = IF c.started THEN Close(client) ELSE client
      \/ /\ ctx' = [c EXCEPT !.tap = c.inner, !.started = TRUE]
         /\ client' \in {client, Shown(e)}
  BY DEF RelayToAnthropic, Terminated, Events
<1> HIDE DEF n, h
<1>8. /\ c \in Ctx
      /\ c.terminated = ctx.terminated
      /\ c.search = h.search
      /\ c.ours = h.ours
      /\ c.sawOther = h.sawOther
  BY <1>5, <1>6 DEF Ctx
<1>9. HasReplay(c) <=> HasReplay(ctx)'
  BY <1>2, <1>5, <1>8 DEF HasReplay, Carries
<1> HIDE DEF c
<1>10. /\ client'.closes <= 1
       /\ ~client'.late
       /\ client'.closes > 0 => ctx'.terminated
       /\ ctx'.terminated => ~ctx'.started /\ ~HasReplay(ctx)'
  <2>1. CASE ctx' = [c EXCEPT !.tap = c.inner] /\ client' = client
    <3>1. ctx'.terminated = ctx.terminated
      BY <1>8, <2>1 DEF Ctx
    <3> QED
      BY <1>4, <2>1, <3>1
  <2>2. CASE /\ e = "done" /\ ~HasReplay(c)
             /\ ctx' = [c EXCEPT !.tap = c.inner, !.started = FALSE, !.terminated = TRUE]
             /\ client' = IF c.started THEN Close(client) ELSE client
    <3>1. ctx'.terminated /\ ~ctx'.started
      BY <1>8, <2>2 DEF Ctx
    <3> QED
      BY <1>4, <1>9, <2>2, <3>1, CloseFacts
  <2>3. CASE /\ ctx' = [c EXCEPT !.tap = c.inner, !.started = TRUE]
             /\ client' \in {client, Shown(e)}
    <3>1. ctx'.terminated = ctx.terminated
      BY <1>8, <2>3 DEF Ctx
    <3> QED
      BY <1>4, <2>3, <3>1, ShownFacts
  <2> QED
    BY <1>7, <2>1, <2>2, <2>3
<1>11. AnthropicClose'
  BY <1>10 DEF AnthropicClose
<1> QED
  BY <1>1, <1>3, <1>10, <1>11 DEF CloseInv, Running, OpenaiClient

\* The three translated kinds taken together.
LEMMA RelayKeepsClose ==
  ASSUME TypeOK, "stop" \notin CallCloses, NEW e \in Events, NEW reports \in BOOLEAN,
         kind # "AnthropicPass", phase \in {"hold", "open"}, CloseInv, MaySay(e),
         up' = Said(e), setup' = setup, phase' \in {"hold", "open", "carried"},
         Relay(e, reports)
  PROVE  CloseInv'
<1>1. CASE ctx.terminated
  <2>1. ctx' = ctx /\ client' = client /\ kind' = kind
    BY <1>1 DEF Relay, kind
  <2>2. Running
    BY DEF CloseInv, Final
  <2>3. up'.stage = (IF e = "done" THEN "closed"
                     ELSE IF e \in Closing THEN "stopped" ELSE up.stage)
        /\ (up'.called <=> (up.called \/ e = "call"))
    BY SaidFacts
  <2>4. OpenaiClient => OpenaiClose'
    BY <1>1, <2>1, <2>2, <2>3 DEF Running, OpenaiClose, HasReplay
  <2>5. kind = "ToAnthropic" => AnthropicClose'
    BY <2>1, <2>2 DEF Running, AnthropicClose, HasReplay
  <2> QED
    BY <2>1, <2>2, <2>3, <2>4, <2>5 DEF CloseInv, Running, OpenaiClient
<1>2. CASE ~ctx.terminated
  <2>1. kind \in Kind
    BY StreamAssumption DEF TypeOK, kind
  <2>2. \/ kind = "OpenaiPass" /\ RelayOpenai(e, reports)
        \/ kind = "ToAnthropic" /\ RelayToAnthropic(e, reports)
        \/ kind = "ToOpenai" /\ RelayToOpenai(e, reports)
    BY <1>2, <2>1 DEF Relay, Kind
  <2> QED
    BY <1>2, <2>2, OpenaiPassKeepsClose, ToAnthropicKeepsClose, ToOpenaiKeepsClose
<1> QED
  BY <1>1, <1>2

\* pxy's own terminator is sent only to a client whose turn is open.
LEMMA FinishKeepsClose ==
  ASSUME TypeOK, kind # "AnthropicPass", phase \notin Final, CloseInv, Finish
  PROVE  CloseInv'
<1>1. Running /\ client \in Client /\ client.closes \in Nat
  BY DEF CloseInv, TypeOK, Client
<1>2. client' = IF LeftOpen THEN Close(client) ELSE client
  BY DEF Finish
<1>3. LeftOpen => client.closes = 0
  BY <1>1 DEF LeftOpen, Running, OpenaiClose, AnthropicClose, OpenaiClient
<1>4. client'.closes <= 1 /\ ~client'.late
  BY <1>1, <1>2, <1>3, CloseFacts DEF CloseInv
<1>5. phase' \in Final
  BY DEF Finish, Final
<1> QED
  BY <1>4, <1>5 DEF CloseInv

LEMMA ResendKeepsClose ==
  ASSUME TypeOK, kind # "AnthropicPass", phase = "open", CloseInv, MayResend, Resend,
         setup' = setup, up'.called = up.called
  PROVE  CloseInv'
<1>1. Running /\ ~ctx.clientDone
  BY DEF CloseInv, Final, MayResend
<1>2. kind' = kind
  BY DEF kind
<1>3. OpenaiClient => OpenaiClose'
  BY <1>1, ResendFacts DEF Running, OpenaiClose
<1>4. kind = "ToAnthropic" => AnthropicClose'
  BY <1>1, ResendFacts DEF Running, AnthropicClose, HasReplay
<1> QED
  BY <1>1, <1>2, <1>3, <1>4, ResendFacts DEF CloseInv, Running, OpenaiClient

\* A new upstream call takes the place of one that left the turn open.
LEMMA FreshKeepsClose ==
  ASSUME TypeOK, CallInv, kind # "AnthropicPass", phase \in {"resending", "continuing"}, CloseInv,
         setup' = setup, up' = Fresh, phase' = "open", ctx' \in Ctx,
         ctx'.search = ctx.search, ctx'.ours = ctx.ours, ctx'.clientDone = ctx.clientDone,
         ctx'.terminated = ctx.terminated, ctx'.started = ctx.started,
         \/ client' = client
         \/ phase = "continuing" /\ kind = "ToAnthropic" /\ client' = Show(client)
  PROVE  CloseInv'
<1>1. Running /\ client \in Client /\ kind' = kind
  BY DEF CloseInv, Final, TypeOK, kind
<1>2. ctx.ours = 0
  BY DEF CallInv, Booked
<1>3. ~HasReplay(ctx)'
  BY <1>2 DEF HasReplay
<1>4. client'.closes = client.closes /\ ~client'.late
  BY <1>1, ShowFacts DEF CloseInv, Running, AnthropicClose, Client
<1>5. OpenaiClient => OpenaiClose'
  BY <1>1, <1>4 DEF Running, OpenaiClose
<1>6. kind = "ToAnthropic" => AnthropicClose'
  BY <1>1, <1>3, <1>4 DEF Running, AnthropicClose
<1> QED
  BY <1>1, <1>2, <1>4, <1>5, <1>6 DEF CloseInv, Running, OpenaiClient

LEMMA ServedKeepsClose ==
  ASSUME TypeOK, CallInv, kind # "AnthropicPass", CloseInv, Served
  PROVE  CloseInv'
<1>1. Running /\ kind' = kind /\ client' = client /\ phase = "serving"
  BY DEF CloseInv, Final, kind, Served
<1>2. ~HasReplay(ctx)' /\ ctx'.ours = 0
  BY ServedFacts DEF HasReplay
<1>3. OpenaiClient => OpenaiClose'
  BY <1>1, ServedFacts DEF Running, OpenaiClose
<1>4. kind = "ToAnthropic" => AnthropicClose'
  BY <1>1, ServedFacts DEF Running, AnthropicClose
<1> QED
  BY <1>1, <1>2, <1>3, <1>4, ServedFacts DEF CloseInv, Running, OpenaiClient

LEMMA ContinuationFailsKeepsClose ==
  ASSUME TypeOK, CallInv, kind # "AnthropicPass", CloseInv, ContinuationFails
  PROVE  CloseInv'
<1>1. Running /\ kind' = kind /\ client' = Show(client) /\ phase = "continuing" /\ up' = up
  BY DEF CloseInv, Final, kind, ContinuationFails
<1>2. kind \in Kind
  BY StreamAssumption DEF TypeOK, kind
<1>3. client.closes = 0 /\ client \in Client
  BY <1>1, <1>2 DEF Running, OpenaiClient, OpenaiClose, AnthropicClose, Kind, TypeOK, Client
<1>4. client'.closes = 0 /\ ~client'.late
  BY <1>1, <1>3, ShowFacts DEF CloseInv
<1>5. ~HasReplay(ctx)' /\ ctx'.ours = 0 /\ ~ctx'.search
  BY <1>1, ContinuationFailsFacts DEF HasReplay, CallInv, Booked
<1>6. OpenaiClient => OpenaiClose'
  BY <1>1, <1>3, <1>4, ContinuationFailsFacts DEF Running, OpenaiClose
<1>7. kind = "ToAnthropic" => AnthropicClose'
  BY <1>1, <1>4, <1>5, ContinuationFailsFacts DEF Running, AnthropicClose
<1> QED
  BY <1>1, <1>4, <1>5, <1>6, <1>7 DEF CloseInv, Running, OpenaiClient

\* The turn moves on with what it has.
LEMMA MoveKeepsClose ==
  ASSUME TypeOK, CloseInv, UNCHANGED <<setup, ctx, client>>,
         up' = up \/ up' = [up EXCEPT !.stage = "ended"],
         \/ phase \in {"hold", "carried"} /\ phase' = "open"
         \/ phase = "open" /\ phase' = "serving" /\ HasReplay(ctx)
         \/ phase' = phase
  PROVE  CloseInv'
<1>1. kind' = kind /\ (phase' \notin Final => phase \notin Final)
  BY DEF kind, Final
<1>2. up'.called = up.called /\ (up'.stage = up.stage \/ up'.stage = "ended")
  BY DEF TypeOK, Upstream
<1>3. ASSUME phase' \notin Final
      PROVE  Running'
  <2>1. Running
    BY <1>1, <1>3 DEF CloseInv
  <2>2. OpenaiClient => OpenaiClose'
    BY <1>1, <1>2, <2>1 DEF Running, OpenaiClose, HasReplay
  <2>3. kind = "ToAnthropic" => AnthropicClose'
    BY <2>1 DEF Running, AnthropicClose, HasReplay
  <2> QED
    BY <1>1, <1>2, <2>1, <2>2, <2>3 DEF Running, OpenaiClient
<1> QED
  BY <1>3 DEF CloseInv

\* Every step of a translated turn keeps the close in order.
LEMMA CloseStep ==
  ASSUME TypeOK, CallInv, kind # "AnthropicPass", CloseInv, "stop" \notin CallCloses, [Next]_vars
  PROVE  CloseInv'
<1>1. ASSUME NEW e \in Events, NEW reports \in BOOLEAN, Hold(e, reports)
      PROVE  CloseInv'
  <2>1. phase = "hold" /\ MaySay(e) /\ up' = Said(e) /\ setup' = setup
    BY <1>1 DEF Hold
  <2>2. CASE Relay(e, reports) /\ phase' \in {"carried", "open", "hold"}
    BY <2>1, <2>2, RelayKeepsClose
  <2>3. CASE phase' = "failed" /\ client' = Unsent
    BY <2>3 DEF CloseInv, Final, Unsent
  <2> QED
    BY <1>1, <2>2, <2>3 DEF Hold
<1>2. ASSUME NEW e \in Events, NEW reports \in BOOLEAN, Chunk(e, reports)
      PROVE  CloseInv'
  BY <1>2, RelayKeepsClose DEF Chunk
<1>3. CASE Deadline
  BY <1>3, MoveKeepsClose DEF Deadline
<1>4. CASE HoldEnds
  BY <1>4 DEF HoldEnds, CloseInv, Final, Unsent
<1>5. CASE HandOver
  BY <1>5, MoveKeepsClose DEF HandOver
<1>6. CASE Looping
  BY <1>6, FinishKeepsClose DEF Looping, Final
<1>7. CASE Stall
  BY <1>7, FinishKeepsClose DEF Stall, Reading, Final
<1>8. CASE Broken
  BY <1>8, FinishKeepsClose, ResendKeepsClose DEF Broken, Reading, Final
<1>9. CASE BodyEnds
  <2>1. /\ phase = "open" /\ setup' = setup
        /\ up' = [up EXCEPT !.stage = "ended"] /\ up'.called = up.called
    BY <1>9 DEF BodyEnds, TypeOK, Upstream
  <2>2. CASE HasReplay(ctx) /\ phase' = "serving" /\ UNCHANGED <<ctx, client, books>>
    BY <2>1, <2>2, MoveKeepsClose
  <2>3. CASE MayResend /\ Resend
    BY <2>1, <2>3, ResendKeepsClose
  <2>4. CASE Finish
    BY <2>1, <2>4, FinishKeepsClose DEF Final
  <2> QED
    BY <1>9, <2>2, <2>3, <2>4 DEF BodyEnds
<1>10. CASE Resent
  BY <1>10, FreshKeepsClose DEF Resent, TypeOK
<1>11. CASE ResendFails
  BY <1>11, FinishKeepsClose DEF ResendFails, Final
<1>12. CASE Served
  BY <1>12, ServedKeepsClose
<1>13. CASE Continued
  BY <1>13, ContinuedFacts, FreshKeepsClose DEF Continued, SameBudget
<1>14. CASE ContinuationFails
  BY <1>14, ContinuationFailsKeepsClose
<1>15. CASE Disconnect
  BY <1>15 DEF Disconnect, CloseInv, Final
<1>16. CASE UNCHANGED vars
  BY <1>16, MoveKeepsClose DEF vars
<1> QED
  BY <1>1, <1>2, <1>3, <1>4, <1>5, <1>6, <1>7, <1>8, <1>9, <1>10, <1>11, <1>12,
     <1>13, <1>14, <1>15, <1>16 DEF Next, Step

\* The kind of a turn is fixed.
LEMMA SetupStep == [Next]_vars => setup' = setup
<1> SUFFICES ASSUME [Next]_vars PROVE setup' = setup
  OBVIOUS
<1>1. CASE Step
  BY <1>1 DEF Step, Hold, Chunk, Deadline, HoldEnds, HandOver, Looping, Stall, Broken,
     BodyEnds, Resent, ResendFails, Served, Continued, ContinuationFails
<1> QED
  BY <1>1 DEF Next, Disconnect, vars

\* A turn that pxy translates is closed at most once and nothing follows the
\* close, for any budget, any number of re-sends and any length of a call,
\* provided a call that made reserved calls finishes with tool_calls.
THEOREM ClosesOnce ==
  ASSUME "stop" \notin CallCloses
  PROVE  Spec => []ClosedOnce
<1> DEFINE I == kind # "AnthropicPass" => CloseInv
<1>1. Init => TypeOK /\ CallInv
  BY CallInit
<1>2. Init => I
  <2>1. SUFFICES ASSUME Init, kind # "AnthropicPass" PROVE CloseInv
    OBVIOUS
  <2>2. setup[2] => kind \in {"OpenaiPass", "ToAnthropic"}
    BY <2>1, StreamAssumption DEF Init, kind
  <2> QED
    BY <2>1, <2>2 DEF Init, CloseInv, Running, OpenaiClose, AnthropicClose, Unsent, Fresh, HasReplay
<1>3. TypeOK /\ CallInv /\ I /\ [Next]_vars => (TypeOK /\ CallInv /\ I)'
  BY CallStep, CloseStep, SetupStep DEF kind
<1>4. I => ClosedOnce
  BY DEF ClosedOnce, CloseInv
<1> QED
  BY <1>1, <1>2, <1>3, <1>4, PTL DEF Spec

-----------------------------------------------------------------------------
(* What a step does to the rows, to the failures counted and to the answer. *)

Adds(o) == books'.rows = IF books.written THEN books.rows ELSE Append(books.rows, o)

\* The ways in which rows and failures move together.
Quiet ==
  /\ books'.rows = books.rows
  /\ books'.faults = books.faults
  /\ phase' # "resending"

Notes ==
  /\ \E o \in Outcomes \ {"dead"} : Adds(o)
  /\ books'.faults = books.faults
  /\ phase' # "resending"

Ends ==
  /\ Adds(Verdict)
  /\ books'.faults = books.faults + (IF OpenaiClient /\ Verdict = "dead" THEN 1 ELSE 0)
  /\ phase' = "ended"

Buries ==
  /\ phase = "resending" /\ phase' = "open"
  /\ Adds("dead")
  /\ books'.faults = books.faults

Retries ==
  /\ phase' = "resending"
  /\ ~ctx'.produced
  /\ books'.rows = books.rows
  /\ books'.faults = books.faults + 1

LEMMA FinishRows ==
  ASSUME TypeOK, Finish
  PROVE  /\ Ends
         /\ client'.answers = client.answers
         /\ ctx'.produced = ctx.produced
<1> DEFINE b == WriteRow(Bank(books, Held), Verdict)
           dead == OpenaiClient /\ Verdict = "dead"
<1>1. books' = IF dead THEN [b EXCEPT !.faults = b.faults + 1] ELSE b
  BY DEF Finish, Held
<1>2. /\ b \in Books
      /\ b.rows = (IF books.written THEN books.rows ELSE Append(books.rows, Verdict))
      /\ b.faults = books.faults
  <2>1. Verdict \in Outcomes /\ books \in Books /\ Held \in {0} \cup Calls
    BY UsageType DEF TypeOK, Verdict, Outcomes
  <2> QED
    BY <2>1, EndFacts
<1> HIDE DEF b
<1>3. books'.rows = b.rows /\ books'.faults = b.faults + (IF dead THEN 1 ELSE 0)
  <2>1. CASE dead
    BY <1>1, <1>2, <2>1 DEF Books
  <2>2. CASE ~dead
    BY <1>1, <1>2, <2>2 DEF Books
  <2> QED
    BY <2>1, <2>2
<1>4. client'.answers = client.answers
  BY CloseFacts DEF Finish, TypeOK
<1>5. ctx'.produced = ctx.produced
  BY FinishFacts DEF SameBudget
<1> QED
  BY <1>2, <1>3, <1>4, <1>5 DEF Ends, Adds, Finish

LEMMA DroppedRows ==
  ASSUME TypeOK, NEW o \in Outcomes, o # "dead", books' = Dropped(books, o), phase' \in Final
  PROVE  Notes
<1> DEFINE n == ctx.tap
           b == WriteRow(Bank(books, n), o)
<1>0. books \in Books /\ n \in {0} \cup Calls
  BY UsageType DEF TypeOK
<1> HIDE DEF n
<1>1. /\ b.rows = (IF books.written THEN books.rows ELSE Append(books.rows, o))
      /\ b.faults = books.faults
  BY <1>0, EndFacts
<1>2. books' = b
  BY DEF Dropped, n
<1> HIDE DEF b
<1>3. Adds(o) /\ books'.faults = books.faults
  BY <1>1, <1>2 DEF Adds
<1>4. phase' # "resending"
  BY DEF Final
<1> QED
  BY <1>3, <1>4 DEF Notes

\* A relayed event adds the current call to the answers, and only one that
\* makes the turn produced does.
LEMMA RelayAnswers ==
  ASSUME TypeOK, NEW e \in Events, NEW reports \in BOOLEAN, Relay(e, reports)
  PROVE  /\ ctx.produced => ctx'.produced
         /\ \/ client'.answers = client.answers
            \/ ctx'.produced /\ client'.answers = client.answers \cup {books.calls}
<1>1. CASE ctx.terminated
  BY <1>1 DEF Relay
<1>2. CASE ~ctx.terminated
  <2>1. client' \in {client, Close(client), Shown(e)}
    <3>1. kind \in Kind
      BY StreamAssumption DEF TypeOK, kind
    <3>2. CASE kind = "OpenaiPass"
      BY <1>2, <3>2 DEF Relay, RelayOpenai, Events, Closing
    <3>3. CASE kind = "ToAnthropic"
      BY <1>2, <3>3 DEF Relay, RelayToAnthropic, Events
    <3>4. CASE kind = "ToOpenai"
      BY <1>2, <3>4 DEF Relay, RelayToOpenai, Events, Closing
    <3>5. CASE kind = "AnthropicPass"
      BY <1>2, <3>5 DEF Relay, RelayAnthropic
    <3> QED
      BY <3>1, <3>2, <3>3, <3>4, <3>5 DEF Kind
  <2>2. ctx'.produced <=> (ctx.produced \/ e \in Output)
    BY <1>2, RelayFacts DEF Carries
  <2>3. e \in {"text", "tool"} => ctx'.produced
    BY <2>2 DEF Output
  <2> QED
    BY <2>1, <2>2, <2>3, CloseFacts, ShownFacts DEF TypeOK
<1> QED
  BY <1>1, <1>2

\* The answer grows in a relaying step only.
AnswerMoves ==
  /\ ctx.produced => ctx'.produced
  /\ \/ client'.answers \subseteq client.answers
     \/ /\ phase \in {"hold", "open"} /\ phase' \in {"hold", "open", "carried"}
        /\ ctx'.produced
        /\ client'.answers = client.answers \cup {books.calls}

LEMMA HoldRows ==
  ASSUME TypeOK, NEW e \in Events, NEW reports \in BOOLEAN, Hold(e, reports)
  PROVE  (Quiet \/ Notes) /\ AnswerMoves
<1>1. phase = "hold" /\ books \in Books
  BY DEF Hold, TypeOK
<1>2. CASE Relay(e, reports) /\ phase' = "carried"
           /\ books' = WriteRow(See(books, reports), "refused")
  <2>1. /\ See(books, reports) \in Books
        /\ See(books, reports).rows = books.rows
        /\ See(books, reports).written = books.written
        /\ See(books, reports).faults = books.faults
    BY <1>1, SeeFacts
  <2>2. Adds("refused") /\ books'.faults = books.faults
    BY <1>2, <2>1, WriteRowFacts DEF Adds, Outcomes
  <2> QED
    BY <1>1, <1>2, <2>2, RelayAnswers DEF Notes, AnswerMoves, Outcomes
<1>3. CASE Relay(e, reports) /\ phase' \in {"open", "hold"} /\ books' = See(books, reports)
  BY <1>1, <1>3, SeeFacts, RelayAnswers DEF Quiet, AnswerMoves
<1>4. CASE phase' = "failed" /\ books' = Dropped(books, "failed")
           /\ client' = Unsent /\ UNCHANGED ctx
  BY <1>4, DroppedRows DEF Outcomes, Final, AnswerMoves, Unsent
<1> QED
  BY <1>2, <1>3, <1>4 DEF Hold

LEMMA RowsStep ==
  ASSUME TypeOK, CallInv, [Next]_vars
  PROVE  /\ Quiet \/ Notes \/ Ends \/ Buries \/ Retries \/ UNCHANGED vars
         /\ AnswerMoves
         /\ phase \in Final => UNCHANGED vars
<1>1. ASSUME NEW e \in Events, NEW reports \in BOOLEAN, Hold(e, reports)
      PROVE  (Quiet \/ Notes) /\ AnswerMoves /\ phase \notin Final
  BY <1>1, HoldRows DEF Hold, Final
<1>2. ASSUME NEW e \in Events, NEW reports \in BOOLEAN, Chunk(e, reports)
      PROVE  Quiet /\ AnswerMoves /\ phase \notin Final
  BY <1>2, SeeFacts, RelayAnswers DEF Chunk, Quiet, AnswerMoves, TypeOK, Final
<1>3. CASE Deadline \/ HandOver
  BY <1>3 DEF Deadline, HandOver, Quiet, AnswerMoves, Final
<1>4. CASE HoldEnds
  BY <1>4, DroppedRows DEF HoldEnds, Outcomes, Final, AnswerMoves, Unsent
<1>5. CASE Looping \/ Stall \/ ResendFails
  BY <1>5, FinishRows DEF Looping, Stall, ResendFails, Reading, AnswerMoves, Final
<1>6. ASSUME MayResend, Resend
      PROVE  Retries /\ AnswerMoves
  BY <1>6, ResendFacts DEF MayResend, Retries, AnswerMoves
<1>7. CASE Broken
  BY <1>6, <1>7, FinishRows DEF Broken, Reading, AnswerMoves, Final
<1>8. CASE BodyEnds
  <2>1. phase = "open"
    BY <1>8 DEF BodyEnds
  <2>2. CASE phase' = "serving" /\ UNCHANGED <<ctx, client, books>>
    BY <2>1, <2>2 DEF Quiet, AnswerMoves, Final
  <2>3. CASE MayResend /\ Resend
    BY <2>1, <2>3, <1>6 DEF Final
  <2>4. CASE Finish
    BY <2>1, <2>4, FinishRows DEF AnswerMoves, Final
  <2> QED
    BY <1>8, <2>2, <2>3, <2>4 DEF BodyEnds
<1>9. CASE Resent
  BY <1>9, ResentFacts DEF Resent, Buries, Adds, AnswerMoves, Final
<1>10. CASE Served
  BY <1>10, ServedFacts DEF Served, Quiet, AnswerMoves, Final
<1>11. CASE Continued
  <2>1. phase = "continuing" /\ phase' = "open"
    BY <1>11 DEF Continued
  <2>2. ctx'.produced = ctx.produced /\ client'.answers = client.answers
    BY <1>11, ContinuedFacts, ShowFacts DEF SameBudget, TypeOK
  <2>3. Adds("ok") /\ books'.faults = books.faults
    BY <1>11, ContinuedFacts DEF Adds
  <2> QED
    BY <2>1, <2>2, <2>3 DEF Notes, AnswerMoves, Final, Outcomes
<1>12. CASE ContinuationFails
  BY <1>12, ContinuationFailsFacts, ShowFacts DEF ContinuationFails, Quiet, AnswerMoves, Final, TypeOK
<1>13. CASE Disconnect
  BY <1>13, DroppedRows DEF Disconnect, Outcomes, Final, AnswerMoves
<1>14. CASE UNCHANGED vars
  BY <1>14 DEF vars, AnswerMoves
<1> QED
  BY <1>1, <1>2, <1>3, <1>4, <1>5, <1>7, <1>8, <1>9, <1>10, <1>11, <1>12, <1>13, <1>14
     DEF Next, Step

-----------------------------------------------------------------------------
(* The answer, and the attempts that died. *)

\* An attempt is sent again while nothing was produced, and whatever answered
\* was produced.
AnswerInv ==
  /\ client.answers # {} => ctx.produced
  /\ phase = "resending" => ~ctx.produced
  /\ \A n \in DOMAIN books.rows : books.rows[n] = "dead" => n \notin client.answers

\* An outcome other than dead is written, or the row had been.
LEMMA NotesKeepsAnswer ==
  ASSUME TypeOK, RowInv, AnswerInv, AnswerMoves, phase \notin Final,
         NEW o \in Outcomes \ {"dead"}, Adds(o)
  PROVE  \A n \in DOMAIN books'.rows : books'.rows[n] = "dead" => n \notin client'.answers
<1>1. /\ Len(books'.rows) = books.calls
      /\ \A n \in Calls : n < books.calls => books'.rows[n] = books.rows[n]
      /\ ~books.written => books'.rows[books.calls] = o
      /\ books.written => books'.rows = books.rows
  BY RowsGrow DEF Adds
<1>2. books'.rows[books.calls] # "dead"
  BY <1>1 DEF RowInv
<1> SUFFICES ASSUME NEW n \in DOMAIN books'.rows, books'.rows[n] = "dead"
             PROVE  n \notin client'.answers
  OBVIOUS
<1>3. books'.rows \in Seq(Outcomes)
  BY RowsType DEF Adds
<1>4. n \in 1..books.calls /\ n # books.calls
  BY <1>1, <1>2, <1>3
<1>5. books.calls \in Calls /\ n \in Calls /\ n < books.calls
  <2>1. books.calls \in 1..(1 + Uses + MaxRetries) /\ Uses \in Nat /\ MaxRetries \in Nat
    BY StreamAssumption DEF TypeOK, Books, Calls
  <2> QED
    BY <1>4, <2>1 DEF Calls
<1>6. books.rows[n] = "dead"
  BY <1>1, <1>5
<1>7. n \in DOMAIN books.rows
  BY <1>5, RowsType DEF RowInv
<1>8. n \notin client.answers
  BY <1>6, <1>7 DEF AnswerInv
<1>9. n # books.calls
  BY <1>4
<1> QED
  BY <1>8, <1>9 DEF AnswerMoves

LEMMA AnswerStep ==
  ASSUME TypeOK, CallInv, RowInv, AnswerInv, [Next]_vars
  PROVE  AnswerInv'
<1>1. AnswerMoves
  BY RowsStep
<1>2. CASE UNCHANGED vars
  BY <1>2 DEF vars, AnswerInv
<1>3. CASE phase \notin Final
  <2>1. client'.answers # {} => ctx'.produced
    BY <1>1 DEF AnswerMoves, AnswerInv
  <2>2. CASE Quiet
    <3>1. ASSUME NEW n \in DOMAIN books.rows, books.rows[n] = "dead"
          PROVE  n \notin client'.answers
      <4>1. n # books.calls
        BY <1>3, <3>1, RowsType DEF RowInv
      <4> QED
        BY <1>1, <3>1, <4>1 DEF AnswerMoves, AnswerInv
    <3> QED
      BY <2>1, <2>2, <3>1 DEF Quiet, AnswerInv
  <2>3. CASE Notes
    BY <1>1, <1>3, <2>1, <2>3, NotesKeepsAnswer DEF Notes, AnswerInv
  <2>4. ASSUME ~ctx.produced, phase' \in {"ended", "open"}, phase \in {"hold", "open"} => phase' = "ended"
        PROVE  AnswerInv'
    <3>1. client.answers = {}
      BY <2>4 DEF AnswerInv
    <3>2. client'.answers = {}
      BY <1>1, <2>4, <3>1 DEF AnswerMoves
    <3> QED
      BY <2>4, <3>2 DEF AnswerInv
  <2>5. CASE Ends
    <3>1. CASE Verdict = "dead"
      BY <2>4, <2>5, <3>1 DEF Ends, Verdict
    <3>2. CASE Verdict # "dead"
      <4>1. Verdict \in Outcomes \ {"dead"} /\ Adds(Verdict)
        BY <2>5, <3>2 DEF Ends, Verdict, Outcomes
      <4>2. \A n \in DOMAIN books'.rows : books'.rows[n] = "dead" => n \notin client'.answers
        BY <1>1, <1>3, <4>1, NotesKeepsAnswer
      <4> QED
        BY <2>1, <2>5, <4>2 DEF Ends, AnswerInv
    <3> QED
      BY <3>1, <3>2
  <2>6. CASE Buries
    BY <2>4, <2>6 DEF Buries, AnswerInv
  <2>7. CASE Retries
    <3>1. ctx'.produced = FALSE /\ client'.answers \subseteq client.answers
      BY <1>1, <2>7 DEF Retries, AnswerMoves, TypeOK
    <3> QED
      BY <2>1, <2>7, <3>1 DEF Retries, AnswerInv
  <2> QED
    BY <1>2, <2>2, <2>3, <2>5, <2>6, <2>7, RowsStep
<1> QED
  BY <1>2, <1>3, RowsStep

\* Once a turn produced something it is not sent again, whatever the order of
\* chunks, breaks and re-sends: an attempt whose row says dead gave the client
\* neither answer text nor a tool call.
THEOREM AnswersAreNotRedone == Spec => []NoAnswerRedone
<1>1. Init => TypeOK /\ CallInv
  BY CallInit
<1>2. Init => BooksInv /\ AnswerInv
  BY DEF Init, BooksInv, RowInv, UsageInv, AnswerInv, Unsent, Final
<1>3. TypeOK /\ CallInv /\ BooksInv /\ AnswerInv /\ [Next]_vars
        => (TypeOK /\ CallInv /\ BooksInv /\ AnswerInv)'
  BY CallStep, BooksStep, AnswerStep DEF BooksInv
<1>4. AnswerInv => NoAnswerRedone
  BY DEF AnswerInv, NoAnswerRedone
<1> QED
  BY <1>1, <1>2, <1>3, <1>4, PTL DEF Spec

-----------------------------------------------------------------------------
(* Dead calls and the failures of the model. *)

DeadRows(rows) == {n \in DOMAIN rows : rows[n] = "dead"}

\* A failure that is counted and has no row yet.
Owed == IF phase = "resending" THEN 1 ELSE 0

FaultInv == OpenaiClient => Cardinality(DeadRows(books.rows)) + Owed <= books.faults

LEMMA DeadRowsSize ==
  ASSUME NEW rows \in Seq(Outcomes)
  PROVE  IsFiniteSet(DeadRows(rows)) /\ Cardinality(DeadRows(rows)) \in Nat
<1>1. DeadRows(rows) \subseteq 1..Len(rows) /\ Len(rows) \in Nat
  BY DEF DeadRows
<1>2. IsFiniteSet(1..Len(rows))
  BY <1>1, FS_Interval
<1> QED
  BY <1>1, <1>2, FS_Subset, FS_CardinalityType

\* A row that is added counts when it is dead.
LEMMA DeadRowsAppend ==
  ASSUME NEW rows \in Seq(Outcomes), NEW o \in Outcomes
  PROVE  Cardinality(DeadRows(Append(rows, o))) =
           Cardinality(DeadRows(rows)) + (IF o = "dead" THEN 1 ELSE 0)
<1> DEFINE last == Len(rows) + 1
<1>1. last \notin DeadRows(rows)
  BY DEF DeadRows
<1>2. CASE o = "dead"
  <2>1. DeadRows(Append(rows, o)) = DeadRows(rows) \cup {last}
    BY <1>2 DEF DeadRows
  <2> QED
    BY <1>1, <1>2, <2>1, DeadRowsSize, FS_AddElement
<1>3. CASE o # "dead"
  <2>1. DeadRows(Append(rows, o)) = DeadRows(rows)
    BY <1>3 DEF DeadRows
  <2> QED
    BY <1>3, <2>1, DeadRowsSize
<1> QED
  BY <1>2, <1>3

LEMMA FaultStep ==
  ASSUME TypeOK, CallInv, FaultInv, [Next]_vars
  PROVE  FaultInv'
<1> DEFINE dead == Cardinality(DeadRows(books.rows))
<1>1. /\ dead \in Nat /\ books.faults \in Nat
      /\ OpenaiClient' = OpenaiClient
  BY DeadRowsSize, SetupStep DEF TypeOK, Books, OpenaiClient, kind
<1>2. ASSUME NEW o \in Outcomes, Adds(o)
      PROVE  dead' \in {dead, dead + (IF o = "dead" THEN 1 ELSE 0)}
  <2>1. books.rows \in Seq(Outcomes)
    BY DEF TypeOK, Books
  <2>2. books'.rows \in {books.rows, Append(books.rows, o)}
    BY <1>2 DEF Adds
  <2> QED
    BY <2>1, <2>2, DeadRowsAppend
<1> HIDE DEF dead
<1>3. CASE Quiet \/ UNCHANGED vars
  <2>1. dead' = dead
    BY <1>3 DEF Quiet, vars, dead
  <2> QED
    BY <1>1, <1>3, <2>1 DEF Quiet, vars, FaultInv, Owed, dead
<1>4. CASE Notes
  <2>1. dead' = dead
    BY <1>1, <1>2, <1>4 DEF Notes
  <2> QED
    BY <1>1, <1>4, <2>1 DEF Notes, FaultInv, Owed, dead
<1>5. CASE Ends
  <2>1. Verdict \in Outcomes
    BY DEF Verdict, Outcomes
  <2>2. dead' \in {dead, dead + (IF Verdict = "dead" THEN 1 ELSE 0)}
    BY <1>2, <1>5, <2>1 DEF Ends
  <2>3. Owed' = 0 /\ Owed \in Nat
    BY <1>5 DEF Ends, Owed
  <2> QED
    BY <1>1, <1>5, <2>2, <2>3 DEF Ends, FaultInv, dead
<1>6. CASE Buries
  <2>1. dead' \in {dead, dead + 1}
    BY <1>2, <1>6 DEF Buries, Outcomes
  <2> QED
    BY <1>1, <1>6, <2>1 DEF Buries, FaultInv, Owed, dead
<1>7. CASE Retries
  <2>1. dead' = dead
    BY <1>7 DEF Retries, dead
  <2> QED
    BY <1>1, <1>7, <2>1 DEF Retries, FaultInv, Owed, dead
<1> QED
  BY <1>3, <1>4, <1>5, <1>6, <1>7, RowsStep

\* For any number of re-sends and rounds, the calls an OpenAI client's turn
\* recorded as dead are no more than the failures counted against the model.
THEOREM DeadCallsAreCounted == Spec => []DeadCallsAreFaults
<1>1. Init => TypeOK /\ CallInv
  BY CallInit
<1>2. Init => FaultInv
  <2>1. ASSUME Init
        PROVE  DeadRows(books.rows) = {} /\ Owed = 0 /\ books.faults = 0
    BY <2>1 DEF Init, DeadRows, Owed
  <2> QED
    BY <2>1, FS_EmptySet DEF FaultInv
<1>3. TypeOK /\ CallInv /\ FaultInv /\ [Next]_vars => (TypeOK /\ CallInv /\ FaultInv)'
  BY CallStep, FaultStep
<1>4. ASSUME TypeOK, FaultInv
      PROVE  DeadCallsAreFaults
  <2>1. Cardinality(DeadRows(books.rows)) \in Nat /\ books.faults \in Nat /\ Owed \in Nat
    BY <1>4, DeadRowsSize DEF TypeOK, Books, Owed
  <2> QED
    BY <1>4, <2>1 DEF FaultInv, DeadCallsAreFaults, DeadRows
<1> QED
  BY <1>1, <1>2, <1>3, <1>4, PTL DEF Spec

-----------------------------------------------------------------------------
(* A turn that ran out is closed. *)

\* A client whose turn is marked done has had its close; a translated message
\* that was opened is marked open until then, and stays so while reserved
\* calls wait to be served.
Marked ==
  /\ OpenaiClient /\ ctx.clientDone => client.closes > 0
  /\ kind = "ToAnthropic" =>
       /\ client.opened /\ ~ctx.started => client.closes > 0
       /\ HasReplay(ctx) \/ phase \in {"serving", "continuing"} => ctx.started

MarkInv ==
  /\ TurnClosed
  /\ phase \notin Final => Marked

LEMMA RelayKeepsMarks ==
  ASSUME TypeOK, Marked, NEW e \in Events, NEW reports \in BOOLEAN, setup' = setup,
         phase \in {"hold", "open"}, phase' \in {"hold", "open", "carried"}, Relay(e, reports)
  PROVE  Marked'
<1>1. kind' = kind /\ OpenaiClient' = OpenaiClient /\ kind \in Kind
  BY StreamAssumption DEF kind, OpenaiClient, TypeOK
<1>2. client \in Client /\ client.closes \in Nat /\ ctx \in Ctx
  BY DEF TypeOK, Client
<1>3. CASE ctx.terminated
  BY <1>1, <1>3 DEF Relay, Marked, HasReplay
<1>4. CASE ~ctx.terminated /\ kind = "AnthropicPass"
  BY <1>1, <1>4 DEF Marked, OpenaiClient
<1>5. CASE ~ctx.terminated /\ OpenaiClient
  <2> DEFINE h == Heard(e, reports)
  <2>1. h \in Ctx /\ h.clientDone = ctx.clientDone
    BY HeardFacts
  <2>2. \/ ctx' = h /\ client' \in {client, Shown(e)}
        \/ client' = Close(client)
        \/ h.clientDone /\ client' = client
    <3>1. CASE kind = "OpenaiPass"
      BY <1>4, <1>5, <3>1 DEF Relay, RelayOpenai, Events, Closing
    <3>2. CASE kind = "ToOpenai"
      BY <1>5, <3>2 DEF Relay, RelayToOpenai, Events, Closing
    <3> QED
      BY <1>5, <3>1, <3>2 DEF OpenaiClient
  <2> HIDE DEF h
  <2>3. ctx'.clientDone => client'.closes > 0
    BY <1>2, <1>5, <2>1, <2>2, CloseFacts, ShownFacts DEF Marked
  <2> QED
    BY <1>1, <1>5, <2>3 DEF Marked, OpenaiClient
<1>6. CASE ~ctx.terminated /\ kind = "ToAnthropic"
  <2> DEFINE h == Heard(e, FALSE)
             n == IF reports THEN books.calls ELSE h.inner
             c == [h EXCEPT !.inner = n]
  <2>1. h \in Ctx /\ Carries(h, e) /\ h.started = ctx.started
    BY HeardFacts DEF Carries
  <2>2. RelayToAnthropic(e, reports) /\ Carries(ctx', e) /\ ctx' \in Ctx
    BY <1>6, RelayFacts DEF Relay
  <2>3. \/ e = "done" /\ HasReplay(c) /\ ctx' = [c EXCEPT !.tap = c.inner] /\ client' = client
        \/ /\ e = "done" /\ ~HasReplay(c)
           /\ ctx' = [c EXCEPT !.tap = c.inner, !.started = FALSE, !.terminated = TRUE]
           /\ client' = IF c.started THEN Close(client) ELSE client
        \/ ctx' = [c EXCEPT !.tap = c.inner, !.started = TRUE]
    BY <2>2 DEF RelayToAnthropic, Terminated, Events
  <2> HIDE DEF n, h
  <2>4. c \in Ctx /\ c.started = ctx.started /\ (HasReplay(c) <=> HasReplay(h))
    BY <2>1, UsageType DEF n, TypeOK, Books, Ctx, HasReplay
  <2>5. HasReplay(h) <=> HasReplay(ctx')
    BY <2>1, <2>2 DEF Carries, HasReplay
  <2> HIDE DEF c
  <2>6. CASE e = "done" /\ HasReplay(c) /\ ctx' = [c EXCEPT !.tap = c.inner] /\ client' = client
    <3>1. ctx'.started = ctx.started
      BY <2>4, <2>6 DEF Ctx
    <3>2. HasReplay(ctx)
      BY <2>1, <2>4, <2>6 DEF Carries, HasReplay
    <3> QED
      BY <1>1, <1>6, <2>6, <3>1, <3>2 DEF Marked, OpenaiClient
  <2>7. CASE /\ e = "done" /\ ~HasReplay(c)
             /\ ctx' = [c EXCEPT !.tap = c.inner, !.started = FALSE, !.terminated = TRUE]
             /\ client' = IF c.started THEN Close(client) ELSE client
    <3>1. ~HasReplay(ctx')
      BY <2>4, <2>5, <2>7
    <3>2. client'.opened => client'.closes > 0
      BY <1>2, <1>6, <2>4, <2>7, CloseFacts DEF Marked
    <3> QED
      BY <1>1, <1>6, <3>1, <3>2 DEF Marked, OpenaiClient
  <2>8. CASE ctx' = [c EXCEPT !.tap = c.inner, !.started = TRUE]
    <3>1. ctx'.started
      BY <2>4, <2>8 DEF Ctx
    <3> QED
      BY <1>1, <1>6, <3>1 DEF Marked, OpenaiClient
  <2> QED
    BY <2>3, <2>6, <2>7, <2>8
<1> QED
  BY <1>1, <1>3, <1>4, <1>5, <1>6 DEF Kind, OpenaiClient

LEMMA FinishKeepsMarks ==
  ASSUME TypeOK, Marked, Finish, setup' = setup
  PROVE  MarkInv'
<1>1. client' = IF LeftOpen THEN Close(client) ELSE client
  BY DEF Finish
<1>2. client \in Client /\ client.closes \in Nat
  BY DEF TypeOK, Client
<1>3. CASE LeftOpen
  <2>1. client'.closes >= 1
    BY <1>1, <1>2, <1>3, CloseFacts
  <2> QED
    BY <2>1 DEF MarkInv, TurnClosed, Finish, Final
<1>4. CASE ~LeftOpen
  <2>1. OpenaiClient => client.closes >= 1
    BY <1>2, <1>4 DEF LeftOpen, Marked
  <2>2. kind = "ToAnthropic" /\ client.opened => client.closes >= 1
    BY <1>2, <1>4 DEF LeftOpen, Marked
  <2>3. kind' = kind /\ client' = client
    BY <1>1, <1>4 DEF kind
  <2> QED
    BY <2>1, <2>2, <2>3 DEF MarkInv, TurnClosed, OpenaiClient, Finish, Final
<1> QED
  BY <1>3, <1>4

\* The turn goes on and the marks are where they were.
LEMMA MoveKeepsMarks ==
  ASSUME Marked, setup' = setup, phase' # "ended",
         ctx'.clientDone = ctx.clientDone, ctx'.started = ctx.started,
         HasReplay(ctx') => HasReplay(ctx),
         phase' \in {"serving", "continuing"} =>
           phase \in {"serving", "continuing"} \/ HasReplay(ctx),
         \/ client' = client
         \/ client'.closes = client.closes /\ (phase = "continuing" \/ kind # "ToAnthropic")
  PROVE  MarkInv'
<1>1. kind' = kind /\ OpenaiClient' = OpenaiClient
  BY DEF kind, OpenaiClient
<1>2. Marked'
  BY <1>1 DEF Marked
<1> QED
  BY <1>2 DEF MarkInv, TurnClosed

LEMMA MarkStep ==
  ASSUME TypeOK, CallInv, MarkInv, [Next]_vars
  PROVE  MarkInv'
<1>1. setup' = setup
  BY SetupStep
<1>2. ASSUME NEW e \in Events, NEW reports \in BOOLEAN, Hold(e, reports)
      PROVE  MarkInv'
  <2>1. Marked /\ phase = "hold"
    BY <1>2 DEF Hold, MarkInv, Final
  <2>2. CASE Relay(e, reports) /\ phase' \in {"carried", "open", "hold"}
    BY <1>1, <2>1, <2>2, RelayKeepsMarks DEF MarkInv, TurnClosed
  <2>3. CASE phase' = "failed"
    BY <2>3 DEF MarkInv, TurnClosed, Final
  <2> QED
    BY <1>2, <2>2, <2>3 DEF Hold
<1>3. ASSUME NEW e \in Events, NEW reports \in BOOLEAN, Chunk(e, reports)
      PROVE  MarkInv'
  <2>1. Marked /\ phase = "open" /\ phase' = "open" /\ Relay(e, reports)
    BY <1>3 DEF Chunk, MarkInv, Final
  <2> QED
    BY <1>1, <2>1, RelayKeepsMarks DEF MarkInv, TurnClosed
<1>4. CASE Deadline \/ HandOver
  BY <1>4, MoveKeepsMarks DEF Deadline, HandOver, MarkInv, Final
<1>5. CASE HoldEnds \/ Disconnect
  BY <1>5 DEF HoldEnds, Disconnect, MarkInv, TurnClosed, Final
<1>6. ASSUME Finish, phase \notin Final
      PROVE  MarkInv'
  BY <1>1, <1>6, FinishKeepsMarks DEF MarkInv
<1>7. CASE Looping \/ Stall \/ ResendFails
  BY <1>6, <1>7 DEF Looping, Stall, ResendFails, Reading, Final
<1>8. ASSUME MayResend, Resend, phase = "open"
      PROVE  MarkInv'
  <2>1. HasReplay(ctx') => HasReplay(ctx)
    BY <1>8, ResendFacts DEF HasReplay
  <2> QED
    BY <1>1, <1>8, <2>1, ResendFacts, MoveKeepsMarks DEF MarkInv, Final
<1>9. CASE Broken
  BY <1>6, <1>8, <1>9 DEF Broken, Reading, Final
<1>10. CASE BodyEnds
  <2>1. phase = "open"
    BY <1>10 DEF BodyEnds
  <2>2. CASE HasReplay(ctx) /\ phase' = "serving" /\ UNCHANGED <<ctx, client, books>>
    BY <1>1, <2>1, <2>2, MoveKeepsMarks DEF MarkInv, Final
  <2> QED
    BY <1>6, <1>8, <1>10, <2>1, <2>2 DEF BodyEnds, Final
<1>11. CASE Resent
  BY <1>1, <1>11, MoveKeepsMarks DEF Resent, MarkInv, Final
<1>12. CASE Served
  <2>1. ~HasReplay(ctx')
    BY <1>12, ServedFacts DEF HasReplay
  <2> QED
    BY <1>1, <1>12, <2>1, ServedFacts, MoveKeepsMarks DEF Served, MarkInv, Final
<1>13. CASE Continued
  <2>1. HasReplay(ctx') => HasReplay(ctx)
    BY <1>13 DEF Continued, HasReplay, TypeOK, Ctx
  <2>2. phase = "continuing" /\ phase' = "open"
    BY <1>13 DEF Continued
  <2>3. client'.closes = client.closes
    BY <1>13, ContinuedFacts, ShowFacts DEF TypeOK
  <2> QED
    BY <1>1, <1>13, <2>1, <2>2, <2>3, ContinuedFacts, MoveKeepsMarks DEF MarkInv, Final
<1>14. CASE ContinuationFails
  <2>1. ~HasReplay(ctx')
    BY <1>14, ContinuationFailsFacts DEF HasReplay
  <2>2. phase = "continuing" /\ phase' = "open" /\ client'.closes = client.closes
    BY <1>14, ShowFacts DEF ContinuationFails, TypeOK
  <2> QED
    BY <1>1, <1>14, <2>1, <2>2, ContinuationFailsFacts, MoveKeepsMarks DEF MarkInv, Final
<1>15. CASE UNCHANGED vars
  BY <1>15 DEF vars, MarkInv, Marked, TurnClosed, OpenaiClient, kind
<1> QED
  BY <1>2, <1>3, <1>4, <1>5, <1>7, <1>9, <1>10, <1>11, <1>12, <1>13, <1>14, <1>15 DEF Next, Step

\* Wherever an upstream breaks off, stalls or runs out, and however many rounds
\* of tools or re-sends went before, a turn that ran out has been closed: an
\* OpenAI client has its finish reason, an opened Anthropic message its stop.
THEOREM TurnsAreClosed == Spec => []TurnClosed
<1>1. Init => TypeOK /\ CallInv
  BY CallInit
<1>2. Init => MarkInv
  BY DEF Init, MarkInv, Marked, TurnClosed, Unsent, HasReplay, Final
<1>3. TypeOK /\ CallInv /\ MarkInv /\ [Next]_vars => (TypeOK /\ CallInv /\ MarkInv)'
  BY CallStep, MarkStep
<1>4. MarkInv => TurnClosed
  BY DEF MarkInv
<1> QED
  BY <1>1, <1>2, <1>3, <1>4, PTL DEF Spec

-----------------------------------------------------------------------------
(* A turn of numbered items, whatever their numbers and whether closed ones    *)
(* may be added to.                                                            *)

\* Items are closed once they are begun; an ended turn was found with all of them closed.
TurnInv ==
  /\ stage \in {"before", "open", "ended"}
  /\ NothingLeftOpen

LEMMA InitNothingOpen == TurnInit => TurnInv
  BY DEF TurnInit, TurnInv, NothingLeftOpen

LEMMA StepNothingOpen == TurnInv /\ [TurnNext]_turnVars => TurnInv'
<1> SUFFICES ASSUME TurnInv, [TurnNext]_turnVars PROVE TurnInv'
  OBVIOUS
<1> USE DEF TurnInv, NothingLeftOpen
<1>1. CASE Begin
  BY <1>1 DEF Begin
<1>2. ASSUME NEW i \in DOMAIN body', OpenItem(i) PROVE TurnInv'
  BY <1>2 DEF OpenItem, With
<1>3. ASSUME NEW i \in DOMAIN body', FillItem(i) PROVE TurnInv'
  BY <1>3 DEF FillItem, Grows
<1>4. ASSUME NEW i \in DOMAIN body', CloseItem(i) PROVE TurnInv'
  BY <1>4 DEF CloseItem
<1>5. ASSUME NEW i \in DOMAIN body', Late(i) PROVE TurnInv'
  BY <1>5 DEF Late, Grows
<1>6. ASSUME NEW i \in DOMAIN body', Unheard(i) PROVE TurnInv'
  BY <1>6 DEF Unheard, With
<1>7. CASE End
  BY <1>7 DEF End
<1>8. CASE UNCHANGED turnVars
  BY <1>8 DEF turnVars
<1>9. QED
  BY <1>1, <1>2, <1>3, <1>4, <1>5, <1>6, <1>7, <1>8 DEF TurnNext

\* A step keeps what is closed closed, and what is begun begun; it takes nothing from a closed
\* item where none may be added to, and there is no step after the end.
LEMMA StepFinal ==
  ASSUME TurnInv, [TurnNext]_turnVars
  PROVE  /\ closed \subseteq closed'
         /\ DOMAIN body \subseteq DOMAIN body'
         /\ ~Strays => \A i \in closed : body'[i] = body[i]
         /\ stage = "ended" => UNCHANGED turnVars
<1> DEFINE ClosedStay == /\ closed \subseteq closed'
                         /\ DOMAIN body \subseteq DOMAIN body'
                         /\ ~Strays => \A i \in closed : body'[i] = body[i]
                         /\ stage = "ended" => UNCHANGED turnVars
<1> USE DEF TurnInv, NothingLeftOpen
<1>1. CASE Begin
  BY <1>1 DEF Begin
<1>2. ASSUME NEW i \in DOMAIN body', OpenItem(i) PROVE ClosedStay
  BY <1>2 DEF OpenItem, With
<1>3. ASSUME NEW i \in DOMAIN body', FillItem(i) PROVE ClosedStay
  BY <1>3 DEF FillItem, Grows
<1>4. ASSUME NEW i \in DOMAIN body', CloseItem(i) PROVE ClosedStay
  BY <1>4 DEF CloseItem
<1>5. ASSUME NEW i \in DOMAIN body', Late(i) PROVE ClosedStay
  BY <1>5 DEF Late, Grows
<1>6. ASSUME NEW i \in DOMAIN body', Unheard(i) PROVE ClosedStay
  BY <1>6 DEF Unheard, With
<1>7. CASE End
  BY <1>7 DEF End
<1>8. CASE UNCHANGED turnVars
  BY <1>8 DEF turnVars
<1>9. QED
  BY <1>1, <1>2, <1>3, <1>4, <1>5, <1>6, <1>7, <1>8 DEF TurnNext

\* A turn that ends leaves no item open, and closes none it did not begin: what AnthropicBlocks
\* and ResponsesItems give a client of the translators.
THEOREM NothingStaysOpen == TurnSpec => []NothingLeftOpen
<1>1. TurnInv => NothingLeftOpen
  BY DEF TurnInv
<1>2. QED
  BY InitNothingOpen, StepNothingOpen, <1>1, PTL DEF TurnSpec

\* Closed items stay closed and an ended turn is over.
THEOREM ClosedStays == TurnSpec => ClosedIsFinal
<1>1. TurnInv /\ [TurnNext]_turnVars =>
        [/\ closed \subseteq closed'
         /\ DOMAIN body \subseteq DOMAIN body'
         /\ ~Strays => \A i \in closed : body'[i] = body[i]
         /\ stage = "ended" => UNCHANGED turnVars]_turnVars
  BY StepFinal
<1>2. QED
  BY InitNothingOpen, StepNothingOpen, <1>1, PTL DEF TurnSpec, ClosedIsFinal
=============================================================================
