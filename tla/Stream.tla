------------------------------- MODULE Stream -------------------------------
(***************************************************************************)
(* One streamed turn at the candidate that answered 200 (router.rs,        *)
(* stream_outcome and StreamCtx): the hold before the stream is committed, *)
(* the relay of chunks to the client, the re-send of an upstream call that *)
(* died with no answer, the continuation after server-tool calls, the end  *)
(* of the turn, and the client that may leave at any await.                *)
(*                                                                         *)
(* A turn is served by a series of upstream calls, numbered from 1.  An    *)
(* upstream's chunk is one event of its dialect; texts are left out.       *)
(***************************************************************************)
EXTENDS Integers, Sequences, FiniteSets

CONSTANTS
  Setups,       \* pairs <<kind, server tools served>>
  Uses,         \* turn_budget: tool calls a turn may run
  MaxRetries,   \* MAX_RETRIES: re-sends of a turn
  CallCloses,   \* how an upstream may finish a call that made reserved calls:
                \* "calls" is tool_calls, "stop" any other reason, length say
  MaxEvents     \* bound of the model: events of one upstream call

Kind == {"OpenaiPass", "AnthropicPass", "ToAnthropic", "ToOpenai"}

ASSUME StreamAssumption ==
  /\ Setups \subseteq Kind \X BOOLEAN
  \* a served tool needs an OpenAI upstream
  /\ \A s \in Setups : s[2] => s[1] \in {"OpenaiPass", "ToAnthropic"}
  /\ {Uses, MaxRetries, MaxEvents} \subseteq Nat
  /\ CallCloses \subseteq {"stop", "calls"}

\* What an upstream may say: start is message_start or a role-only delta,
\* call a call of a reserved function, tool one of the client's, name the
\* block that announces a call before its arguments (of an OpenAI upstream the
\* two are one event), stop a finish reason, calls the reason tool_calls, done
\* [DONE] or message_stop.
Events == {"start", "think", "text", "call", "name", "tool", "stop", "calls",
           "refusal", "done", "error"}

Closing == {"stop", "calls", "refusal"}

\* More calls than these the budgets do not allow.
Calls == 1..(1 + Uses + MaxRetries)

VARIABLES
  setup,    \* the kind of the stream and whether tools are served: fixed
  phase,    \* where the turn is
  up,       \* the current upstream call
  ctx,      \* StreamCtx
  client,   \* what the client was sent, or will be once the hold ends
  books     \* what reached State: requests, tokens, stats rows, model results

vars == <<setup, phase, up, ctx, client, books>>

kind == setup[1]

Phases == {"hold", "carried", "open", "serving", "continuing", "resending",
           "ended", "failed", "dropped"}

Final == {"ended", "failed", "dropped"}

Upstream ==
  [stage : {"open", "stopped", "closed", "ended"}, said : 0..MaxEvents,
   called : BOOLEAN, named : BOOLEAN]

Ctx ==
  [search : BOOLEAN,            \* search is Some
   ours : Nat,                  \* captured calls (ServerCallFilter.ours)
   sawOther : BOOLEAN,
   usesLeft : 0..Uses,
   left : 0..MaxRetries,        \* resend.left
   clientDone : BOOLEAN, terminated : BOOLEAN, produced : BOOLEAN,
   started : BOOLEAN,           \* ToAnthropic's StreamState.started
   inner : {0} \cup Calls,      \* the call whose usage the translator holds
   tap : {0} \cup Calls]        \* the call whose usage StreamCtx holds

\* answers: the calls that gave the client answer text or a part of a tool call.
\* named: the calls that announced a tool call to the client.
Client ==
  [opened : BOOLEAN, closes : Nat, late : BOOLEAN, answers : SUBSET Calls, named : SUBSET Calls]

Outcomes == {"ok", "truncated", "dead", "refused", "disconnect", "failed"}

\* seen: the calls whose usage report was read.  ran: tool calls executed.
Books ==
  [calls : Calls, rows : Seq(Outcomes), written : BOOLEAN,
   seen : SUBSET Calls, banked : [Calls -> Nat], faults : Nat, ran : Nat]

TypeOK ==
  /\ setup \in Setups
  /\ phase \in Phases
  /\ up \in Upstream
  /\ ctx \in Ctx
  /\ client \in Client
  /\ books \in Books

Fresh == [stage |-> "open", said |-> 0, called |-> FALSE, named |-> FALSE]

Unsent == [opened |-> FALSE, closes |-> 0, late |-> FALSE, answers |-> {}, named |-> {}]

Init ==
  /\ setup \in Setups
  /\ phase = "hold"
  /\ up = Fresh
  /\ ctx = [search |-> setup[2], ours |-> 0, sawOther |-> FALSE, usesLeft |-> Uses,
            left |-> MaxRetries, clientDone |-> FALSE, terminated |-> FALSE,
            produced |-> FALSE, started |-> FALSE, inner |-> 0, tap |-> 0]
  /\ client = Unsent
  /\ books = [calls |-> 1, rows |-> <<>>, written |-> FALSE, seen |-> {},
              banked |-> [n \in Calls |-> 0], faults |-> 0, ran |-> 0]

-----------------------------------------------------------------------------
(* The upstream. *)

AnthropicUpstream == kind \in {"AnthropicPass", "ToOpenai"}

\* It closes once.  One OpenAI upstream sends a chunk more after its [DONE].
\* It calls only functions that its request declares, and an Anthropic one
\* announces a call before its arguments.
MaySay(e) ==
  /\ up.said < MaxEvents
  /\ CASE up.stage = "open" ->
            /\ e = "call" => ctx.search /\ ctx.usesLeft > 0
            /\ e = "name" => AnthropicUpstream
            /\ e = "tool" /\ AnthropicUpstream => up.named
            /\ e = "calls" => up.called /\ "calls" \in CallCloses
            /\ e \in {"stop", "refusal"} /\ up.called => "stop" \in CallCloses
       [] up.stage = "stopped" -> e = "done"
       [] up.stage = "closed" -> e = "start" /\ ~AnthropicUpstream
       [] up.stage = "ended" -> FALSE

Said(e) ==
  [stage |-> IF e = "done" THEN "closed"
             ELSE IF e \in Closing THEN "stopped" ELSE up.stage,
   said |-> up.said + 1,
   called |-> up.called \/ e = "call",
   named |-> up.named \/ e = "name"]

\* Anthropic reports input up front; either dialect may report at the close.
MayReport(e) == e \in Closing \/ (e = "start" /\ AnthropicUpstream)

-----------------------------------------------------------------------------
(* Relay of one event (StreamCtx.process). *)

HasReplay(c) == c.search /\ c.ours > 0 /\ ~c.sawOther

\* Mutant: a call of the client's tool is not an answer.
Output_TextOnly == {"text", "call"}

\* stream_event_output: of an Anthropic upstream deltas alone, so that a call
\* which was only announced is no output.
Output == {"text", "call", "tool"}

Show(c) == [c EXCEPT !.opened = TRUE, !.late = @ \/ c.closes > 0]

ShowAnswer(c) == [Show(c) EXCEPT !.answers = @ \cup {books.calls}]

Close(c) == [c EXCEPT !.opened = TRUE, !.closes = @ + 1]

ShowName(c) == [Show(c) EXCEPT !.named = @ \cup {books.calls}]

Shown(e) ==
  CASE e \in {"text", "tool"} -> ShowAnswer(client)
    [] e = "name" -> ShowName(client)
    [] OTHER -> Show(client)

\* The reserved calls are taken out of the chunk.
Capture(c, e) ==
  [c EXCEPT !.ours = IF c.search /\ e = "call" THEN @ + 1 ELSE @,
            !.sawOther = @ \/ (c.search /\ e = "tool")]

\* The part that is the same for every kind.
Heard(e, reports) ==
  [Capture(ctx, e) EXCEPT !.produced = @ \/ e \in Output,
                          !.tap = IF reports THEN books.calls ELSE @]

RelayOpenai(e, reports) ==
  LET c == Heard(e, reports) IN
  CASE e = "done" /\ HasReplay(c) ->
         ctx' = c /\ UNCHANGED client
    [] e = "done" /\ ~HasReplay(c) ->
         /\ ctx' = [c EXCEPT !.clientDone = TRUE, !.terminated = TRUE]
         /\ client' = IF c.clientDone THEN client ELSE Close(client)
    [] e = "call" \/ (e = "calls" /\ HasReplay(c)) ->
         ctx' = c /\ UNCHANGED client
    [] e \in Closing /\ ~(e = "calls" /\ HasReplay(c)) ->
         ctx' = [c EXCEPT !.clientDone = TRUE] /\ client' = Close(client)
    [] OTHER ->
         ctx' = c /\ client' = Shown(e)

\* Mutant: the closed turn is not marked.
Terminated_Unmarked(c) == [c EXCEPT !.tap = c.inner, !.started = FALSE]

\* [DONE] closes the message and the turn.
Terminated(c) == [c EXCEPT !.tap = c.inner, !.started = FALSE, !.terminated = TRUE]

\* The translator opens the message at the first chunk it is given and closes
\* it at most once per opening.
RelayToAnthropic(e, reports) ==
  LET h == Heard(e, FALSE)
      c == [h EXCEPT !.inner = IF reports THEN books.calls ELSE @]
  IN
  CASE e = "done" /\ HasReplay(c) ->
         ctx' = [c EXCEPT !.tap = c.inner] /\ UNCHANGED client
    [] e = "done" /\ ~HasReplay(c) ->
         /\ ctx' = Terminated(c)
         /\ client' = IF c.started THEN Close(client) ELSE client
    [] OTHER ->
         /\ ctx' = [c EXCEPT !.tap = c.inner, !.started = TRUE]
         /\ client' = IF e \in {"think", "text", "tool"} \/ ~c.started
                      THEN Shown(e) ELSE client

RelayToOpenai(e, reports) ==
  LET c == Heard(e, reports)
      ends == e = "done" \/ e \in Closing
  IN  /\ ctx' = IF ends THEN [c EXCEPT !.clientDone = TRUE] ELSE c
      /\ client' = CASE e \in Closing -> Close(client)
                     [] e = "done" -> IF c.clientDone THEN client ELSE Close(client)
                     [] OTHER -> Shown(e)

\* Bytes pass verbatim; message_stop is what closes the client's turn.
RelayAnthropic(e, reports) ==
  /\ ctx' = Heard(e, reports)
  /\ client' = IF e = "done" THEN Close(client) ELSE Shown(e)

Relay(e, reports) ==
  IF ctx.terminated
  THEN UNCHANGED <<ctx, client>>
  ELSE CASE kind = "OpenaiPass" -> RelayOpenai(e, reports)
         [] kind = "ToAnthropic" -> RelayToAnthropic(e, reports)
         [] kind = "ToOpenai" -> RelayToOpenai(e, reports)
         [] kind = "AnthropicPass" -> RelayAnthropic(e, reports)

-----------------------------------------------------------------------------
(* What reaches State. *)

\* record_tokens of the usage of call n; 0 is no usage.
Bank(b, n) == IF n = 0 THEN b ELSE [b EXCEPT !.banked[n] = @ + 1]

\* Leg.finish: the first outcome wins.
WriteRow(b, outcome) ==
  IF b.written THEN b
  ELSE [b EXCEPT !.rows = Append(@, outcome), !.written = TRUE]

\* record_request and Leg.next.
NextCall(b, outcome) ==
  [WriteRow(b, outcome) EXCEPT !.calls = @ + 1, !.written = FALSE]

See(b, reports) ==
  IF reports /\ ~ctx.terminated THEN [b EXCEPT !.seen = @ \cup {b.calls}] ELSE b

\* StreamCtx dropped with done unset, and the leg with it or by its owner.
Dropped(b, outcome) == WriteRow(Bank(b, ctx.tap), outcome)

Verdict == IF ctx.clientDone THEN "ok" ELSE IF ctx.produced THEN "truncated" ELSE "dead"

OpenaiClient == kind \in {"OpenaiPass", "ToOpenai"}

\* Mutant: only the passthrough gets a terminator.
LeftOpen_PassOnly ==
  \/ kind = "OpenaiPass" /\ ~ctx.clientDone
  \/ kind = "ToAnthropic" /\ ctx.started

LeftOpen ==
  \/ OpenaiClient /\ ~ctx.clientDone
  \/ kind = "ToAnthropic" /\ ctx.started

\* StreamCtx.finish: an OpenAI client that got no finish reason is given one,
\* an open Anthropic message is stopped, a verbatim stream is left as it is.
Finish ==
  /\ phase' = "ended"
  /\ LET usage == IF kind = "ToAnthropic" THEN ctx.inner ELSE ctx.tap
         b == WriteRow(Bank(books, usage), Verdict)
     IN  books' = IF OpenaiClient /\ Verdict = "dead" THEN [b EXCEPT !.faults = @ + 1] ELSE b
  /\ client' = IF LeftOpen THEN Close(client) ELSE client
  /\ ctx' = [ctx EXCEPT !.started = FALSE,
                        !.clientDone = @ \/ OpenaiClient,
                        !.tap = IF kind = "ToAnthropic" THEN ctx.inner ELSE @]

-----------------------------------------------------------------------------
(* The hold before the commit. *)

\* stream_event_commits
Commits(e) == e \in {"think"} \cup Output \cup Closing

Hold(e, reports) ==
  /\ phase = "hold"
  /\ MaySay(e)
  /\ reports => MayReport(e)
  /\ up' = Said(e)
  /\ UNCHANGED setup
  /\ \/ /\ e \notin {"error", "done"}
        /\ Relay(e, reports)
        /\ LET b == See(books, reports) IN
           IF e = "refusal"
           THEN phase' = "carried" /\ books' = WriteRow(b, "refused")
           ELSE phase' = (IF Commits(e) THEN "open" ELSE "hold") /\ books' = b
     \* the 200 was no answer: the walk goes on with what this leaves behind
     \/ /\ e \in {"error", "done"}
        /\ phase' = "failed"
        /\ books' = Dropped(books, "failed")
        /\ client' = Unsent
        /\ UNCHANGED ctx

\* FIRST_EVENT_DEADLINE: silence is no proof of death.
Deadline ==
  /\ phase = "hold"
  /\ phase' = "open"
  /\ UNCHANGED <<setup, up, ctx, client, books>>

\* The body ends, or the connection breaks.
HoldEnds ==
  /\ phase = "hold"
  /\ phase' = "failed"
  /\ books' = Dropped(books, "failed")
  /\ client' = Unsent
  /\ UNCHANGED <<setup, up, ctx>>

\* A refusal the walk ends up handing to the client.
HandOver ==
  /\ phase = "carried"
  /\ phase' = "open"
  /\ UNCHANGED <<setup, up, ctx, client, books>>

-----------------------------------------------------------------------------
(* The committed stream. *)

Chunk(e, reports) ==
  /\ phase = "open"
  /\ MaySay(e)
  /\ reports => MayReport(e)
  /\ up' = Said(e)
  /\ Relay(e, reports)
  /\ books' = See(books, reports)
  /\ UNCHANGED <<setup, phase>>

\* The repeat guard's limit falls on a text delta: the chunk is not relayed.
Looping ==
  /\ phase = "open"
  /\ ~ctx.terminated
  /\ ctx.produced
  /\ MaySay("text")
  /\ up' = Said("text")
  /\ Finish
  /\ UNCHANGED setup

\* The body has not been read to its end.
Reading == phase = "open" /\ up.stage # "ended"

Stall ==
  /\ Reading
  /\ Finish
  /\ UNCHANGED <<setup, up>>

MayResend == ~ctx.clientDone /\ ~ctx.produced /\ ctx.left > 0

\* Mutant: the dead attempt is no failure of the model.
Resend_Silently ==
  /\ phase' = "resending"
  /\ ctx' = [ctx EXCEPT !.left = @ - 1]
  /\ UNCHANGED <<client, books>>

Resend ==
  /\ phase' = "resending"
  /\ ctx' = [ctx EXCEPT !.left = @ - 1]
  /\ books' = [books EXCEPT !.faults = @ + 1]
  /\ UNCHANGED client

\* The connection breaks in mid-body.
Broken ==
  /\ Reading
  /\ IF MayResend THEN Resend ELSE Finish
  /\ UNCHANGED <<setup, up>>

\* The body ends, or is found ended again: captured calls are served first.
BodyEnds ==
  /\ phase = "open"
  /\ up' = [up EXCEPT !.stage = "ended"]
  /\ \/ /\ HasReplay(ctx)
        /\ phase' = "serving"
        /\ UNCHANGED <<ctx, client, books>>
     \/ ~HasReplay(ctx) /\ MayResend /\ Resend
     \/ ~HasReplay(ctx) /\ ~MayResend /\ Finish
  /\ UNCHANGED setup

\* Mutant: the attempt that died keeps its row open.
Resent_SameRow ==
  /\ phase = "resending"
  /\ phase' = "open"
  /\ up' = Fresh
  /\ books' = [books EXCEPT !.calls = @ + 1]
  /\ UNCHANGED <<setup, ctx, client>>

Resent ==
  /\ phase = "resending"
  /\ phase' = "open"
  /\ up' = Fresh
  /\ books' = NextCall(books, "dead")
  /\ UNCHANGED <<setup, ctx, client>>

ResendFails ==
  /\ phase = "resending"
  /\ Finish
  /\ UNCHANGED <<setup, up>>

-----------------------------------------------------------------------------
(* Server tools. *)

\* Mutant: every call of a batch sees the whole budget.
Fits_Unshared(c) == IF c.usesLeft > 0 THEN c.ours ELSE 0

\* split_calls: the calls the budget lets run.
Fits(c) == IF c.ours < c.usesLeft THEN c.ours ELSE c.usesLeft

\* Mutant: over-budget calls are charged below zero.
Charged_Unsaturated(c) == c.usesLeft - c.ours

\* commit charges every call of the batch, the ones over budget too.
Charged(c) == c.usesLeft - Fits(c)

\* The tools ran, the calls over budget got an error result, and the
\* request for the answer goes out.
Served ==
  /\ phase = "serving"
  /\ phase' = "continuing"
  /\ ctx' = [ctx EXCEPT !.usesLeft = Charged(ctx), !.ours = 0, !.sawOther = FALSE]
  /\ books' = [books EXCEPT !.ran = @ + Fits(ctx)]
  /\ UNCHANGED <<setup, up, client>>

\* Mutant: what the first call spent is not banked.
Continued_Unbanked ==
  /\ phase = "continuing"
  /\ phase' = "open"
  /\ up' = Fresh
  /\ books' = NextCall(books, "ok")
  /\ ctx' = IF kind = "ToAnthropic" THEN [ctx EXCEPT !.inner = 0] ELSE [ctx EXCEPT !.tap = 0]
  /\ client' = IF kind = "ToAnthropic" THEN Show(client) ELSE client
  /\ UNCHANGED setup

\* The answer's stream takes the place of the one that ended.  take_usage
\* empties the translator's usage, and StreamCtx keeps its copy of it.
Continued ==
  /\ phase = "continuing"
  /\ phase' = "open"
  /\ up' = Fresh
  /\ books' = NextCall(Bank(books, IF kind = "ToAnthropic" THEN ctx.inner ELSE ctx.tap), "ok")
  /\ ctx' = IF kind = "ToAnthropic" THEN [ctx EXCEPT !.inner = 0] ELSE [ctx EXCEPT !.tap = 0]
  /\ client' = IF kind = "ToAnthropic" THEN Show(client) ELSE client
  /\ UNCHANGED setup

\* Mutant: a failed round queues its calls anew.
ContinuationFails_Again ==
  /\ phase = "continuing"
  /\ phase' = "open"
  /\ ctx' = [ctx EXCEPT !.ours = 1]
  /\ client' = Show(client)
  /\ UNCHANGED <<setup, up, books>>

\* The client is told in a text delta; the ended body is read once more.
ContinuationFails ==
  /\ phase = "continuing"
  /\ phase' = "open"
  /\ ctx' = [ctx EXCEPT !.search = FALSE]
  /\ client' = Show(client)
  /\ UNCHANGED <<setup, up, books>>

-----------------------------------------------------------------------------

\* The client leaves, or the walk drops a refusal it carried.
Disconnect ==
  /\ phase \notin Final
  /\ phase' = "dropped"
  /\ books' = Dropped(books, "disconnect")
  /\ UNCHANGED <<setup, up, ctx, client>>

Step ==
  \/ \E e \in Events, reports \in BOOLEAN : Hold(e, reports) \/ Chunk(e, reports)
  \/ Deadline
  \/ HoldEnds
  \/ HandOver
  \/ Looping
  \/ Stall
  \/ Broken
  \/ BodyEnds
  \/ Resent
  \/ ResendFails
  \/ Served
  \/ Continued
  \/ ContinuationFails

Next == Step \/ Disconnect

\* The relay is polled as long as the client reads, and every await in it has
\* a deadline: upstream silence is a stall, a send that hangs times out.
Spec == Init /\ [][Next]_vars /\ WF_vars(Step)
-----------------------------------------------------------------------------
(* Properties. *)

\* A turn that pxy translates is closed once and nothing follows the close:
\* "Nothing follows a closed turn" (StreamCtx.terminated), "exactly one
\* terminator" (router.rs:7328).
ClosedOnce ==
  kind # "AnthropicPass" => client.closes <= 1 /\ ~client.late

\* A turn that ran out is closed: an OpenAI client has had a finish reason, an
\* Anthropic message that pxy opened is stopped, however the upstream ended.
TurnClosed ==
  phase = "ended" =>
    /\ OpenaiClient => client.closes >= 1
    /\ kind = "ToAnthropic" /\ client.opened => client.closes >= 1

\* An attempt is sent again only if no text of its answer and no argument of a
\* call reached the client, nor a call that an OpenAI upstream began: resend's "when
\* the stream died having produced no answer".  The bare announcement of an Anthropic
\* upstream's call is no answer to the code (NothingToldTwice).
NoAnswerRedone ==
  \A n \in client.answers : n \in DOMAIN books.rows => books.rows[n] # "dead"

\* Tokens a report told of reach the counters by the time the turn is over,
\* whether it ended, failed before the commit or lost its client, those of an
\* attempt that was sent again excepted.
UsageNeverLost ==
  phase \in Final =>
    \A n \in books.seen :
      \/ books.banked[n] > 0
      \/ n < books.calls /\ books.rows[n] # "ok"

\* Every upstream call is one row, written when the next call takes its place
\* or the turn is over, and never before.
OneRowPerCall ==
  /\ phase \in Final => Len(books.rows) = books.calls
  /\ phase \notin Final => Len(books.rows) = books.calls - (IF books.written THEN 0 ELSE 1)

\* Parallel calls and rounds together run no more tools than the turn may.
BudgetKept == books.ran <= Uses

\* Every call an OpenAI client's turn recorded as dead was also counted as a
\* failure of the model, "or a leg that truncates half the time would look
\* healthy every time pxy covered for it".
DeadCallsAreFaults ==
  OpenaiClient =>
    Cardinality({n \in DOMAIN books.rows : books.rows[n] = "dead"}) <= books.faults

\* A turn is over at last: re-sends and continuations come to an end.
TurnEnds == (phase \notin Final) ~> (phase \in Final)

\* What stream_event_output says it tells, "the turn's ANSWER: text, or a tool call"
\* (router.rs:4255), would keep an attempt that announced a call from being sent again.
NothingToldTwice ==
  \A n \in client.answers \cup client.named :
    n < books.calls => books.rows[n] # "dead"

\* "The client's turn has been closed ([DONE] forwarded, or the Anthropic
\* message stopped) ... Nothing follows a closed turn" (router.rs:2784-2789).
NothingFollowsClose == ~client.late
=============================================================================
