------------------------------ MODULE ToolOffer ------------------------------
(***************************************************************************)
(* Which tools of a request an upstream is offered: the client's own       *)
(* functions, and for each tool pxy serves itself one reserved function    *)
(* that the router intercepts.  Tools of the client's marked deferred are  *)
(* held back while a search that can find them again is offered.           *)
(*                                                                         *)
(* A declaration is a function of the client's ("own"), a tool pxy serves  *)
(* ("served", spelled pxy:* or not), or another hosted tool ("hosted"); in *)
(* a body a served tool has become "reserved".  A choice is <<>>,          *)
(* <<"auto">>, <<"required">>, <<"none">>, or <<"fn", kind, name>>, of     *)
(* kind "bare" when it forces a served tool by its own name.               *)
(***************************************************************************)
EXTENDS Integers, FiniteSetsExt, SequencesExt

CONSTANTS
  Enabled,      \* served tools in [server_tools] enabled
  Able,         \* those whose executor is configured
  Meta,         \* tools whose executor asks a model
  Defaults,     \* declarations of [server_tools.defaults]
  MaxToolCalls  \* [server_tools] max_tool_calls

Absent == -1
Numbers == Nat \cup {Absent}

\* What a declaration may say of how its tool is to run.
Parameters == [cap : Numbers, model : STRING, results : Numbers, total : Numbers,
               panel : Seq(STRING), forward : BOOLEAN, engine : STRING]
Tools == [kind : {"own", "served", "hosted", "reserved"}, name : STRING, deferred : BOOLEAN,
          pxy : BOOLEAN, params : Parameters]
Declarations == {t \in Tools : t.kind # "reserved"}

ASSUME ToolOfferAssumption ==
  /\ Able \subseteq Enabled /\ Enabled \subseteq STRING
  /\ MaxToolCalls \in Nat
  /\ Defaults \in Seq(Declarations)
  /\ \A n \in DOMAIN Defaults : Defaults[n].kind = "served" /\ Defaults[n].name \in Enabled

Or(given, otherwise) == IF given = Absent THEN otherwise ELSE given
Clamp(n, low, high) == Max({low, Min({n, high})})

\* The entries of a sequence at some places, in their order.
Picked(seq, places) ==
  LET picked[n \in 0 .. Len(seq)] ==
        IF n = 0 THEN <<>>
        ELSE IF n \in places THEN Append(picked[n - 1], seq[n]) ELSE picked[n - 1]
  IN  picked[Len(seq)]

Of(kinds, tools) == Picked(tools, {n \in DOMAIN tools : tools[n].kind \in kinds})
Names(kind, tools) == {t.name : t \in {u \in ToSet(tools) : u.kind = kind}}
Declares(tools, choice) ==
  \E t \in ToSet(tools) : t.kind = choice[2] /\ t.name = choice[3]

\* Hosted tools an OpenAI upstream cannot be asked for.
Unservable(payload) == Names("hosted", payload.tools) \cup (Names("served", payload.tools) \ Enabled)

\* The defaults of the configuration, where the client declared none and pxy can serve them.
Wanted(tools) ==
  {n \in DOMAIN Defaults : /\ Defaults[n].name \notin Names("served", tools)
                           /\ Defaults[n].name \in Able}
WithDefaults(payload, depth) ==
  IF depth > 0 THEN payload
  ELSE [payload EXCEPT !.tools = @ \o Picked(Defaults, Wanted(@))]

\* The declaration of tool t that counts, its own cap, and the budget of the turn.
Declaration(payload, t) ==
  payload.tools[Min({n \in DOMAIN payload.tools : /\ payload.tools[n].kind = "served"
                                                  /\ payload.tools[n].name = t})]
Params(payload, t) == Declaration(payload, t).params
MaxUses(payload, t) == Clamp(Or(Params(payload, t).cap, 5), 1, 20)
TurnBudget(payload) == Or(payload.budget, MaxToolCalls)

\* One entry for each served tool, however many spellings declared it.
Again(tools) ==
  {n \in DOMAIN tools : /\ tools[n].kind = "served"
                        /\ \E k \in 1 .. n - 1 : /\ tools[k].kind = "served"
                                                 /\ tools[k].name = tools[n].name}
Once(tools) == Picked(tools, DOMAIN tools \ Again(tools))

Reserve(t) == IF t.kind = "served" THEN [t EXCEPT !.kind = "reserved"] ELSE t
Swapped(tools) == LET once == Once(tools) IN [n \in DOMAIN once |-> Reserve(once[n])]

\* The tools and the choice of a chat body, as each dialect's translator writes them.
AnthropicToChat(payload) ==
  LET none == payload.choice = <<"none">>
  IN  [tools |-> IF none THEN <<>>
                 ELSE Swapped(Of({"served"}, payload.tools)) \o Of({"own"}, payload.tools),
       choice |-> IF none THEN <<>> ELSE payload.choice]
\* convert_tool: the declarations a chat body has a form for.
Convertible == {"own", "served"}
ResponsesToChat(payload) ==
  [tools |-> Once(Of(Convertible, payload.tools)), choice |-> payload.choice]
FromClient(client, payload) ==
  CASE client = "anthropic" -> AnthropicToChat(payload)
    [] client = "responses" -> ResponsesToChat(payload)
    [] client = "chat" -> [tools |-> payload.tools, choice |-> payload.choice]

\* The body for an Anthropic upstream: it serves hosted tools itself, but for pxy's spelling.
Unhosted(payload) ==
  LET pxys == {n \in DOMAIN payload.tools : payload.tools[n].kind = "served" /\ payload.tools[n].pxy}
      kept == Picked(payload.tools, DOMAIN payload.tools \ pxys)
  IN  [tools |-> kept,
       choice |-> IF kept = <<>> /\ payload.tools # <<>> THEN <<>> ELSE payload.choice]
ChatToAnthropic(payload) ==
  LET none == payload.choice = <<"none">>
  IN  [tools |-> IF none THEN <<>> ELSE Of({"own"}, payload.tools),
       choice |-> IF none THEN <<>> ELSE payload.choice]
ToAnthropicBody(client, payload) ==
  IF client = "anthropic" THEN Unhosted(payload) ELSE ChatToAnthropic(payload)

\* Tools of the client's that its history has used, or has been told of in a search's result.
Revealed(client, payload) ==
  payload.used \cup IF client = "anthropic" THEN payload.found ELSE {}

\* A body whose choice names a function it offers, or none.
Settled(body) ==
  LET served == <<"fn", "reserved", body.choice[3]>>
  IN  IF body.choice = <<>> \/ body.choice[1] # "fn"
      THEN IF body.tools = <<>> THEN [body EXCEPT !.choice = <<>>] ELSE body
      ELSE IF Declares(body.tools, body.choice) THEN body
      ELSE IF Declares(body.tools, served) THEN [body EXCEPT !.choice = served]
      ELSE [body EXCEPT !.choice = <<>>]

\* The functions taken out of the body, by their places: deferred, not yet revealed, not forced.
HeldBack_Again(body, revealed) ==
  {n \in DOMAIN body.tools :
     LET t == body.tools[n]
     IN  t.kind = "own" /\ t.deferred /\ body.choice # <<"fn", "own", t.name>>}
HeldBack(body, revealed) ==
  {n \in DOMAIN body.tools :
     LET t == body.tools[n]
     IN  /\ t.kind = "own" /\ t.deferred
         /\ t.name \notin revealed
         /\ body.choice # <<"fn", "own", t.name>>}

\* The reserved functions nobody would run.
Unrun(body, serves) ==
  {n \in DOMAIN body.tools : body.tools[n].kind = "reserved" /\ body.tools[n].name \notin serves}

\* A leg serves no tool that starts legs; a model that cannot call tools is offered none.
CanServe_AnyDepth(t, cand, depth) == t \in Able /\ cand.calls
CanServe(t, cand, depth) == t \in Able /\ ~(depth >= 1 /\ t \in Meta) /\ cand.calls

\* What an attempt at candidate cand [wire, calls: it can call tools] sends, the tools held
\* back, and the tools pxy will serve.
OfferAnthropic(client, payload) ==
  LET body == ToAnthropicBody(client, payload)
  IN  [tools |-> body.tools, choice |-> body.choice, deferred |-> <<>>, serves |-> {}]
OfferChat(client, payload, cand, depth) ==
  LET chat == FromClient(client, payload)
      body == [chat EXCEPT !.tools = Swapped(@)]
      injected == Names("reserved", body.tools)
      serves == {t \in injected : CanServe(t, cand, depth)}
      held == IF "tool_search" \in serves THEN HeldBack(body, Revealed(client, payload)) ELSE {}
      kept == DOMAIN body.tools \ (held \cup Unrun(body, serves))
      left == [body EXCEPT !.tools = Picked(@, kept)]
      sent == IF injected = {} THEN left ELSE Settled(left)
  IN  [tools |-> sent.tools, choice |-> sent.choice, deferred |-> Picked(body.tools, held),
       serves |-> serves]
Offer(client, payload, cand, depth) ==
  IF cand.wire = "anthropic" THEN OfferAnthropic(client, payload)
  ELSE OfferChat(client, payload, cand, depth)

\* A body whose budget is spent: the model is to answer, not to call.
Stripped(body) ==
  LET tools == Picked(body.tools, {n \in DOMAIN body.tools : body.tools[n].kind # "reserved"})
      reserved == body.choice # <<>> /\ body.choice[1] = "fn" /\ body.choice[2] = "reserved"
  IN  [body EXCEPT !.tools = tools, !.choice = IF tools = <<>> \/ reserved THEN <<>> ELSE @]

\* A choice that forced a served call, once it was made.
Released(choice) ==
  IF choice = <<"required">> \/ (choice # <<>> /\ choice[1] = "fn" /\ choice[2] = "reserved")
  THEN <<"auto">> ELSE choice
=============================================================================
