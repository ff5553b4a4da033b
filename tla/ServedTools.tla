----------------------------- MODULE ServedTools -----------------------------
(***************************************************************************)
(* The loop that serves tools inside a turn: the router intercepts the     *)
(* upstream's calls of reserved functions, runs them, and sends the        *)
(* request again with the results, until the model answers or calls a      *)
(* function of the client's.  ToolOffer says what an upstream is offered   *)
(* and ToolRuns what a call may come to.  A turn at depth 1 is the request *)
(* of a tool that asks a model.                                            *)
(*                                                                         *)
(* The upstream calls functions it is offered, one it is forced to call,   *)
(* or a reserved name it was never offered.  What it streams beside its    *)
(* calls is Stream's and Dialects'.                                        *)
(***************************************************************************)
EXTENDS ToolRuns

CONSTANTS
  Clients,     \* dialects of clients
  Candidates,  \* [wire, calls, vision]: what an attempt may be sent to
  Payloads,    \* what a client first asks with
  Arguments,   \* tool -> arguments a model may call it with
  Depths,      \* 0, or 1 for the request of a leg
  Outer,       \* the model the client asked for
  Strange,     \* reserved names a model may call though never offered them
  MaxCalls,    \* bound of the model: parallel calls
  MaxTurns     \* bound of the model: turns of one conversation

VARIABLES
  client, cand, depth,  \* fixed in a conversation
  payload,   \* what the client sends this turn
  turns,     \* turns so far
  pc,        \* "door", "upstream", "serve", "over" or "refused"
  body,      \* [tools, choice] of the request as last sent
  deferred,  \* functions of the client's held out of it
  left,      \* calls left in the turn
  per,       \* calls left for each served tool
  hits,      \* search hits of finished rounds (results_served)
  captured,  \* reserved calls of the round, lowest index first
  renders,   \* what came of those of them that were run, by their places
  batch,     \* search hits of the round so far (batch_hits)
  ending,    \* how the turn ended
  rounds,    \* history: continuations of this turn
  ran,       \* history: calls that reached their executor, in order
  shown,     \* history: search hits the model was shown this turn
  open       \* history: calls of finished rounds with no result

loop == <<deferred, left, per, hits>>
round == <<captured, renders, batch>>
history == <<rounds, ran, shown, open>>
vars == <<client, cand, depth, payload, turns, pc, body, ending, loop, round, history>>

\* What a client may ask with.
Requests == [tools : Seq(Declarations), choice : Seq(STRING), budget : Numbers,
             used : SUBSET STRING, found : SUBSET STRING]

ASSUME ServedToolsAssumption ==
  /\ Clients \subseteq {"anthropic", "chat", "responses"}
  /\ Candidates \subseteq [wire : {"openai", "anthropic"}, calls : BOOLEAN, vision : BOOLEAN]
  /\ Payloads \subseteq Requests
  /\ Arguments \in [Enabled -> SUBSET CallArguments]
  /\ Depths \subseteq {0, 1}
  /\ Outer \in STRING
  /\ Strange \subseteq STRING /\ Strange \cap Enabled = {}
  \* Tool::is_meta.
  /\ {"advisor", "subagent", "fusion", "describe_image"} \subseteq Meta
  /\ MaxCalls \in Nat \ {0} /\ MaxTurns \in Nat \ {0}

\* A client declares a function once and forces one it declares, as an API asks of it.
WellAsked(request) ==
  LET own == Names("own", request.tools)
      choice == request.choice
  IN  /\ \A m, n \in DOMAIN request.tools :
           /\ request.tools[m].kind = "own" /\ request.tools[n].kind = "own"
           /\ request.tools[m].name = request.tools[n].name
           => m = n
      /\ choice # <<>> /\ choice[1] = "fn" =>
           /\ Len(choice) = 3
           /\ \/ choice[2] = "own" /\ choice[3] \in own
              \/ choice[2] = "bare" /\ choice[3] \in Names("served", request.tools)

ASSUME ClientAssumption == \A request \in Payloads : WellAsked(request)

TypeOK ==
  /\ client \in Clients /\ cand \in Candidates /\ depth \in Depths /\ payload \in Requests
  /\ pc \in {"door", "upstream", "serve", "over", "refused"}
  /\ body.tools \in Seq(Tools) /\ deferred \in Seq(Tools)
  /\ left \in Nat /\ per \in [DOMAIN per -> Nat]
  /\ {turns, hits, batch, rounds, shown} \subseteq Nat
  /\ captured \in Seq([kind : {"own", "reserved"}, name : STRING, args : CallArguments])
  /\ renders \in [DOMAIN renders -> Outcomes] /\ DOMAIN renders \subseteq DOMAIN captured
  /\ ending \in {"none", "own", "text", "empty", "told"}
  /\ ran \in Seq([name : STRING, out : Outcomes])

\* The payload with the defaults of the configuration: what the router reads.
Asked == WithDefaults(payload, depth)

Serves == Offer(client, Asked, cand, depth).serves
Images == IF ~cand.vision /\ depth = 0 /\ cand.wire = "openai" THEN <<1, 2>> ELSE <<>>

Init ==
  /\ client \in Clients /\ cand \in Candidates /\ depth \in Depths /\ payload \in Payloads
  /\ turns = 1
  /\ pc = "door"
  /\ body = [tools |-> <<>>, choice |-> <<>>]
  /\ deferred = <<>> /\ left = 0 /\ per = <<>> /\ hits = 0
  /\ captured = <<>> /\ renders = <<>> /\ batch = 0 /\ ending = "none"
  /\ rounds = 0 /\ ran = <<>> /\ shown = 0 /\ open = {}

\* An OpenAI upstream is not asked for a hosted tool pxy cannot serve.
Refuse ==
  /\ pc = "door"
  /\ cand.wire = "openai" /\ Unservable(payload) # {}
  /\ pc' = "refused"
  /\ UNCHANGED <<client, cand, depth, payload, turns, body, ending, loop, round, history>>

\* The attempt is built and sent.
Send ==
  /\ pc = "door"
  /\ cand.wire = "openai" => Unservable(payload) = {}
  /\ LET offer == Offer(client, Asked, cand, depth)
     IN  /\ body' = [tools |-> offer.tools, choice |-> offer.choice]
         /\ deferred' = offer.deferred
         /\ per' = [t \in offer.serves |-> MaxUses(Asked, t)]
  /\ left' = TurnBudget(payload)
  /\ hits' = 0
  /\ pc' = "upstream"
  /\ rounds' = 0 /\ ran' = <<>> /\ shown' = 0 /\ open' = {}
  /\ ending' = "none"
  /\ UNCHANGED <<client, cand, depth, payload, turns, round>>

-----------------------------------------------------------------------------

Functions == {t \in ToSet(body.tools) : t.kind \in {"own", "reserved"}}

NoArguments == [given |-> FALSE, model |-> "absent", image |-> 0, limit |-> Absent]

\* The calls a model may make: of functions on offer, and of reserved names that never were.
Made(t) ==
  {[kind |-> t.kind, name |-> t.name, args |-> a] :
     a \in IF t.kind = "reserved" THEN Arguments[t.name] ELSE {NoArguments}}
Odd ==
  {[kind |-> "reserved", name |-> t, args |-> NoArguments] :
     t \in {u \in Strange : Serves # {}}}
Callable == (UNION {Made(t) : t \in Functions}) \cup Odd

\* The calls of a round, numbered by their place: a forced call is made.
Calls ==
  {c \in UNION {[1 .. n -> Callable] : n \in 0 .. MaxCalls} :
         /\ body.choice = <<"required">> => c # <<>>
         /\ body.choice = <<"none">> => c = <<>>
         /\ body.choice # <<>> /\ body.choice[1] = "fn" =>
              c # <<>> /\ \A n \in DOMAIN c : /\ c[n].kind = body.choice[2]
                                              /\ c[n].name = body.choice[3]}

\* The upstream answers, with calls or without: what it calls of the client's is the client's
\* to run, and reserved calls beside such a one are left for another turn.
Answer ==
  /\ pc = "upstream"
  /\ \E calls \in Calls :
       LET own == {c.name : c \in {d \in ToSet(calls) : d.kind = "own"}}
           saw_other == own # {}
       IN  IF calls # <<>> /\ ~saw_other
           THEN /\ captured' = calls
                /\ pc' = "serve"
                /\ UNCHANGED <<ending, payload>>
           ELSE /\ ending' = IF saw_other THEN "own" ELSE "text"
                /\ pc' = "over"
                /\ payload' = [payload EXCEPT !.used = @ \cup own]
                /\ UNCHANGED captured
  /\ renders' = <<>> /\ batch' = 0
  /\ UNCHANGED <<client, cand, depth, turns, body, loop, history>>

\* Captured calls, by their places, of functions on offer this turn; the calls of a tool its
\* own cap lets run, counting those before; and of these the calls the budget lets run.
Offered == {n \in DOMAIN captured : captured[n].name \in DOMAIN per}
Allowed ==
  {n \in Offered : Cardinality({k \in 1 .. n - 1 : captured[k].name = captured[n].name})
                     < per[captured[n].name]}
Fits == {n \in Allowed : Cardinality({k \in Allowed : k < n}) < left}

\* Other calls of what was offered get an error result, calls of what was not get none.
Over == Offered \ Fits

\* The next call that fits is run: each waits for the one before it, and parallel searches
\* share one total.
Served_Dropped == hits
Served == hits + batch
RunCall ==
  /\ pc = "serve"
  /\ Fits \ DOMAIN renders # {}
  /\ LET n == Min(Fits \ DOMAIN renders)
         call == captured[n]
         turn == [hits |-> Served, deferred |-> deferred, images |-> Images, outer |-> Outer]
     IN  \E out \in Run(call.name, Params(Asked, call.name), call.args, turn) :
           /\ renders' = [k \in DOMAIN renders \cup {n} |-> IF k = n THEN out ELSE renders[k]]
           /\ batch' = batch + out.hits
           /\ shown' = shown + out.hits
           /\ ran' = IF out.marked THEN Append(ran, [name |-> call.name, out |-> out]) ELSE ran
  /\ UNCHANGED <<client, cand, depth, payload, turns, pc, body, captured, ending, loop, rounds, open>>

\* The calls with a result.  Each is charged, to the turn and to its tool.
Answered == DOMAIN renders \cup Over

Costs_RunsOnly == {n \in DOMAIN renders : renders[n].marked}
Costs == Answered
Charged ==
  /\ left' = Max({0, left - Cardinality(Costs)})
  /\ per' = [t \in DOMAIN per |->
               Max({0, per[t] - Cardinality({n \in Costs : captured[n].name = t})})]

\* The functions a search found join the body.
Found == UNION {ToSet(renders[n].found) : n \in {k \in DOMAIN renders : captured[k].name = "tool_search"}}
Revealing == {n \in DOMAIN deferred : deferred[n].name \in Found}

\* Nothing to answer: the turn closes with what the client has.
Close ==
  /\ pc = "serve"
  /\ Offered = {}
  /\ ending' = "empty"
  /\ pc' = "over"
  /\ UNCHANGED <<client, cand, depth, payload, turns, body, loop, round, history>>

\* All calls are answered: the request is sent again with the results.  If it fails the client
\* is told, in text, and has seen nothing of this round.
Continue ==
  /\ pc = "serve"
  /\ Fits \subseteq DOMAIN renders /\ Answered # {}
  /\ Charged
  /\ hits' = hits + batch
  /\ deferred' = Picked(deferred, DOMAIN deferred \ Revealing)
  /\ LET again == [tools |-> body.tools \o Picked(deferred, Revealing), choice |-> Released(body.choice)]
     IN  body' = IF left' = 0 THEN Stripped(again) ELSE again
  /\ open' = open \cup (Offered \ Answered)
  /\ rounds' = rounds + 1
  /\ captured' = <<>> /\ renders' = <<>> /\ batch' = 0
  /\ \/ /\ pc' = "upstream"
        /\ payload' = [payload EXCEPT !.found = @ \cup Found]
        /\ UNCHANGED ending
     \/ /\ pc' = "over"
        /\ ending' = "told"
        /\ UNCHANGED payload
  /\ UNCHANGED <<client, cand, depth, turns, ran, shown>>

\* The client asks again, with all that its history now shows.
NextTurn ==
  /\ pc = "over"
  /\ turns < MaxTurns
  /\ turns' = turns + 1
  /\ pc' = "door"
  /\ captured' = <<>> /\ renders' = <<>> /\ batch' = 0
  /\ UNCHANGED <<client, cand, depth, payload, body, ending, loop, history>>

Next == Refuse \/ Send \/ Answer \/ RunCall \/ Close \/ Continue \/ NextTurn

Spec == Init /\ [][Next]_vars

-----------------------------------------------------------------------------

\* No turn runs more calls than its budget, nor a tool more than its own cap, in parallel or
\* over rounds; and the searches of a turn show no more hits than max_total_results
\* (split_calls and commit, router.rs:2927-2985; batch_hits, router.rs:3078-3080).
CapsHold ==
  pc \in {"upstream", "serve", "over"} =>
    /\ Len(ran) <= TurnBudget(payload)
    /\ \A t \in DOMAIN per :
         /\ Cardinality({n \in DOMAIN ran : ran[n].name = t}) <= MaxUses(Asked, t)
         /\ t = "web_search" /\ Params(Asked, t).total # Absent => shown <= Params(Asked, t).total

\* A model that goes on calling tools is stopped: each continuation costs budget, an answer to
\* a call over a tool's own cap too, and a turn without budget offers no reserved function.
\* Every call of an offered function gets a result, and no turn that made one ends with nothing
\* for the client (serve_calls, router.rs:3046-3052).
TurnAnswered ==
  /\ rounds <= Max({TurnBudget(payload), 1})
  /\ open = {}
  /\ pc = "over" /\ ending = "empty" => Offered = {}

\* No function of the client's is lost or offered twice: one that is not in the body is held
\* back where the model can still search for it, unless the budget is spent; one the history
\* has used or been told of is there if it is still declared; a choice names a function on offer, its own if it
\* forced one, and a continuation forces no served call again (defer_loading_tools, reveal_found, settle_tool_choice).
NothingStranded ==
  pc \in {"upstream", "serve"} /\ cand.wire = "openai" =>
    LET own == Names("own", body.tools)
        none == client = "anthropic" /\ payload.choice = <<"none">>
    IN  /\ ~none => own \cup Names("own", deferred) = Names("own", payload.tools)
        /\ IsInjective([n \in DOMAIN body.tools |-> <<body.tools[n].kind, body.tools[n].name>>])
        /\ deferred # <<>> => left = 0 \/ "tool_search" \in Names("reserved", body.tools)
        /\ ~none => Names("own", payload.tools) \cap Revealed(client, payload) \subseteq own
        /\ own \cap Names("own", deferred) = {}
        /\ body.choice # <<>> /\ body.choice[1] = "fn" => Declares(body.tools, body.choice)
        /\ LET forced == payload.choice # <<>> /\ payload.choice[1] = "fn"
           IN  rounds = 0 /\ forced /\ payload.choice[2] = "own" => body.choice = payload.choice
        /\ rounds > 0 => Released(body.choice) = body.choice

\* A tool that asks models asks those the declaration, the configuration or the client named,
\* and the calling model's choice only of an advisor whose declaration leaves it open; an image
\* goes to no model but the one declared for it; and a leg starts no legs of its own
\* (Tool::is_meta, server_tools.rs:78-80; run_describe_image, server_tools.rs:1768-1769).
LegsAsDeclared ==
  \A n \in DOMAIN ran :
    LET params == Params(Asked, ran[n].name)
        Configured == {params.model, Outer, FusionAnalyst} \cup ToSet(params.panel)
                        \cup ToSet(FusionPanel)
        Open == ran[n].name = "advisor" /\ params.model = "absent"
    IN  /\ depth = 1 => ran[n].out.legs = <<>>
        /\ \A leg \in ToSet(ran[n].out.legs) :
             /\ Named(leg.model) \/ leg.model \in {FusionAnalyst} \cup ToSet(FusionPanel)
             /\ ~Open => leg.model \in Configured
             /\ leg.image # NoImage =>
                  leg.model = params.model /\ leg.image \in {0} \cup ToSet(Images)
=============================================================================
