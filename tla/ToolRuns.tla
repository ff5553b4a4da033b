------------------------------- MODULE ToolRuns -------------------------------
(***************************************************************************)
(* What running one call of a served tool may come to: how many hits of a  *)
(* search the model is shown, which held-back tools a search names, which  *)
(* models are asked (legs) and about which image.  The arguments of a call *)
(* are [given: what the tool requires is there and parses, model, image,   *)
(* limit]; the turn gives [hits, deferred, images, outer].                 *)
(***************************************************************************)
EXTENDS ToolOffer

CONSTANTS
  Rerank,       \* [server_tools.jev] rerank_web_search
  FusionPanel,  \* [server_tools] fusion_panel
  FusionAnalyst \* [server_tools] fusion_analyst, or "absent"

ASSUME ToolRunsAssumption ==
  /\ Rerank \in BOOLEAN
  /\ FusionPanel \in Seq(STRING) /\ FusionAnalyst \in STRING

\* The empty string is a model's name too.
Named(model) == model \notin {"absent", ""}

\* What a model may call a tool with.
CallArguments == [given : BOOLEAN, model : STRING \cup {"absent"}, image : Nat, limit : Numbers]

\* The text the model is shown is left out.  A run is marked for the client unless pxy wrote
\* the answer itself; only a marked run counts as served.
Outcomes == [marked : BOOLEAN, hits : Nat, found : Seq(STRING),
             legs : Seq([model : STRING, image : Int])]
Unserved == [marked |-> FALSE, hits |-> 0, found |-> <<>>, legs |-> <<>>]
Marked == [Unserved EXCEPT !.marked = TRUE]
Hits(n) == [Marked EXCEPT !.hits = n]
Leg(model, image) == [model |-> model, image |-> image]
NoImage == -1

\* The hits kept of those the provider sent: scored and cut, or cut only if scoring fails.
\* Scores and domains drop any of them.
Kept(sent, n) == 0 .. IF Rerank THEN Min({sent, n}) ELSE sent

\* A provider sends no more than it is asked for.
WebSearch(params, args, turn) ==
  LET most == Clamp(Or(params.results, 5), 1, 25)
      n == IF params.total = -1 THEN most ELSE Min({most, params.total - turn.hits})
      asked == IF Rerank THEN Min({Max({n * 3, 10}), 25}) ELSE n
  IN  IF ~args.given \/ params.engine = "unknown" \/ (params.total # -1 /\ turn.hits >= params.total)
      THEN {Unserved}
      ELSE {Hits(h) : h \in UNION {Kept(sent, n) : sent \in 0 .. asked}}

\* The names a pattern matches, in the order of declaration; one that is no pattern finds none.
ToolSearch(params, args, turn) ==
  LET most == Clamp(Or(params.results, 5), 1, 50)
      limit == Clamp(Or(args.limit, most), 1, most)
      Found(matches) == LET in == Picked(turn.deferred, matches)
                        IN  [n \in 1 .. Min({limit, Len(in)}) |-> in[n].name]
  IN  IF ~args.given THEN {Unserved}
      ELSE {[Marked EXCEPT !.found = Found(matches)] : matches \in SUBSET DOMAIN turn.deferred}

\* The declaration's model, else the call's own, else the client's: an empty declaration hides
\* the call's.
Advisor(params, args, turn) ==
  LET first == IF params.model # "absent" THEN params.model ELSE args.model
      model == IF Named(first) THEN first ELSE turn.outer
  IN  IF (~args.given /\ ~params.forward) \/ ~Named(model) THEN {Unserved}
      ELSE {[Marked EXCEPT !.legs = <<Leg(model, NoImage)>>]}

\* The delegating model does not choose the worker.
Subagent(params, args, turn) ==
  LET model == IF Named(params.model) THEN params.model ELSE turn.outer
  IN  IF ~args.given \/ ~Named(model) THEN {Unserved}
      ELSE {[Marked EXCEPT !.legs = <<Leg(model, NoImage)>>]}

\* The whole panel at once, then the analyst unless no member answered; one that refuses
\* temperature 0 is asked once more.
Fusion(params, args, turn) ==
  LET declared == Picked(params.panel, {n \in DOMAIN params.panel : Named(params.panel[n])})
      all == IF declared = <<>> THEN FusionPanel ELSE declared
      panel == SubSeq(all, 1, Min({8, Len(all)}))
      analyst == CASE Named(params.model) -> params.model
                   [] ~Named(params.model) /\ FusionAnalyst # "absent" -> FusionAnalyst
                   [] ~Named(params.model) /\ FusionAnalyst = "absent" ->
                        IF Named(turn.outer) THEN turn.outer ELSE panel[1]
      members == [n \in DOMAIN panel |-> Leg(panel[n], NoImage)]
      asked == <<Leg(analyst, NoImage)>>
  IN  IF ~args.given \/ panel = <<>> THEN {Unserved}
      ELSE {[Marked EXCEPT !.legs = members \o more] : more \in {<<>>, asked, asked \o asked}}

\* The image of a placeholder or of a URL (0 here), by the declaration's model alone.
DescribeImage(params, args, turn) ==
  LET known == args.image = 0 \/ args.image \in DOMAIN turn.images
      image == IF args.image = 0 THEN 0 ELSE turn.images[args.image]
  IN  IF ~args.given \/ ~known \/ ~Named(params.model) THEN {Unserved}
      ELSE {[Marked EXCEPT !.legs = <<Leg(params.model, image)>>]}

\* The time, and the models of the catalog: whatever the call says, a zone nobody knows too.
Informs == {Marked}

\* A page, a document, a picture, a verdict, a command of the memory's: what came of it, if only
\* that it failed.
Other(args) == IF args.given THEN {Marked} ELSE {Unserved}

Run(tool, params, args, turn) ==
  CASE tool = "web_search" -> WebSearch(params, args, turn)
    [] tool = "tool_search" -> ToolSearch(params, args, turn)
    [] tool = "advisor" -> Advisor(params, args, turn)
    [] tool = "subagent" -> Subagent(params, args, turn)
    [] tool = "fusion" -> Fusion(params, args, turn)
    [] tool = "describe_image" -> DescribeImage(params, args, turn)
    [] tool \in {"datetime", "search_models"} -> Informs
    [] OTHER -> Other(args)
=============================================================================
