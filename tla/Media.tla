-------------------------------- MODULE Media --------------------------------
(***************************************************************************)
(* Requests for pictures, speech, transcripts, rankings, verdicts, videos, *)
(* searches and pages (src/media): each walks a chain of candidates; what  *)
(* a candidate says is read in its dialect.  Some are in flight at a time  *)
(* and share the cooldowns and the counts of `provider#media`.             *)
(*                                                                         *)
(* What an upstream says is told by what can be got out of it: "data" of a *)
(* sound or picture, raw or in base64, a "text", a "url", a "foreign" url, *)
(* a "job", "none" of these, or it cannot be read and is a "failure".      *)
(***************************************************************************)
EXTENDS Integers, Sequences

CONSTANTS
  Slots,      \* requests, numbered in the order they come
  Asks,       \* what is asked, of which chain of candidates
  Cap,        \* daily_requests of a provider
  MaxPolls    \* MAX_POLLS

Providers == DOMAIN Cap
Models == UNION {{a.chain[n].model : n \in DOMAIN a.chain} : a \in Asks}

Capabilities == {"image", "speech", "transcription", "rerank", "systemone", "video", "search", "fetch"}

\* kind: the dialect of the provider. want: a url is wanted.
Ask == [cap : Capabilities, want : BOOLEAN,
        chain : Seq([provider : Providers, model : STRING, kind : STRING])]

ASSUME MediaAssumption ==
  /\ \A p \in Providers : Cap[p] \in Nat
  /\ MaxPolls \in Nat /\ Slots \subseteq Nat
  /\ Asks \subseteq Ask /\ Asks # {}
  /\ \A a \in Asks : a.want => a.cap = "image"

VARIABLES
  req,    \* [slot -> where a request is]
  cool,   \* blocks: of a provider, <<p, "all">>, or a model of it
  used    \* requests counted of a provider

vars == <<req, cool, used>>

NoJob == [cand |-> 0, state |-> "none"]

\* answer: what the client was told. seen: history: what each leg said. jobs: history: the jobs
\* upstreams have begun for the request, known to pxy or not.
Free == [step |-> "free", ask |-> CHOOSE a \in Asks : TRUE, at |-> 1, last |-> "none", empty |-> FALSE,
         polls |-> 0, job |-> NoJob, answer |-> "none", seen |-> {}, jobs |-> <<>>]

Chain(q) == req[q].ask.chain
Here(q) == Chain(q)[req[q].at]
Service(q) == req[q].ask.cap \in {"search", "fetch"}

Set(q, r) == req' = [req EXCEPT ![q] = r]

-----------------------------------------------------------------------------
(* What may be said, and what each capability makes of it. *)

Says(cap, kind) ==
  {"failure"} \cup
  CASE cap = "image" -> (IF kind = "dashscope" THEN {"url", "none"} ELSE {"data", "url", "none"})
    [] cap = "speech" -> (CASE kind = "cloudflare" -> {"data", "none"}
                            [] kind = "dashscope" -> {"url", "foreign", "none"}
                            [] OTHER -> {"data"})
    [] cap = "video" -> {"job", "none"}
    [] cap = "search" -> {"hits", "none"}
    [] OTHER -> {"text", "none"}

\* Mutant: a picture of any form is taken.
Pictures_AnyForm(kind, want, said) == said # "failure" /\ (kind = "dashscope" => said = "url")

\* images.rs, attempt: a body without a picture is passed on as it is, unless a url is wanted or
\* the dialect is DashScope's.
Pictures(kind, want, said) ==
  /\ said # "failure"
  /\ kind = "dashscope" => said = "url"
  /\ want => said = "url"

\* audio.rs, attempt_transcription: other dialects are unwrapped.
Transcribes(kind, said) ==
  said # "failure" /\ (kind \in {"cloudflare", "dashscope", "meta"} => said = "text")

\* audio.rs, attempt_speech: bytes are passed on, a JSON body is unwrapped.
Speaks(kind, said) ==
  CASE kind = "dashscope" -> FALSE
    [] kind # "dashscope" /\ said = "none" -> FALSE
    [] OTHER -> said = "data"

\* rerank.rs, attempt.
Ranks(said) == said # "failure"

\* systemone.rs, attempt: the envelope of one dialect decides.
Judges(kind, said) == said # "failure" /\ (kind = "cloudflare" => said = "text")

Fits(ask, kind, said) ==
  CASE ask.cap = "image" -> Pictures(kind, ask.want, said)
    [] ask.cap = "transcription" -> Transcribes(kind, said)
    [] ask.cap = "speech" -> Speaks(kind, said)
    [] ask.cap = "rerank" -> Ranks(said)
    [] ask.cap = "systemone" -> Judges(kind, said)
    [] OTHER -> FALSE

-----------------------------------------------------------------------------
(* The walk. *)

Init ==
  /\ req = [q \in Slots |-> Free]
  /\ cool = {}
  /\ used = [p \in Providers |-> 0]

\* A request that is malformed gets no further; a chain may be empty.
Begin(q) ==
  /\ req[q].step = "free" /\ \A p \in Slots : p < q => req[p].step # "free"
  /\ \E a \in Asks :
       Set(q, [Free EXCEPT !.ask = a, !.step = IF a.chain = <<>> THEN "over" ELSE "gate",
                           !.answer = IF a.chain = <<>> THEN "404 none" ELSE "none"])
  /\ UNCHANGED <<cool, used>>

Blocked(c) == <<c.provider, "all">> \in cool \/ <<c.provider, c.model>> \in cool

Answered(r, answer) == [r EXCEPT !.step = "over", !.answer = answer]

\* After the last candidate: the last failure; of a service that none of its providers had
\* anything, or what went wrong.
Ended(r) ==
  CASE r.ask.cap \in {"search", "fetch"} /\ r.empty -> Answered(r, "empty")
    [] r.ask.cap \in {"search", "fetch"} /\ ~r.empty -> Answered(r, "failure")
    [] OTHER -> Answered(r, r.last)

\* The next candidate, or the end.
Further(r, last) ==
  LET r1 == [r EXCEPT !.last = last, !.at = @ + 1, !.step = "gate", !.polls = 0, !.job = NoJob]
  IN  IF r.at = Len(r.ask.chain) THEN Ended(r1) ELSE r1

\* preflight, service_ready: what passes is counted, in a step of its own, before it is called.
Gate(q) ==
  /\ req[q].step = "gate"
  /\ IF Blocked(Here(q)) \/ used[Here(q).provider] >= Cap[Here(q).provider]
     THEN Set(q, Further(req[q], "429"))
     ELSE Set(q, [req[q] EXCEPT !.step = "count"])
  /\ UNCHANGED <<cool, used>>

Counts(q) ==
  /\ req[q].step = "count"
  /\ Set(q, [req[q] EXCEPT !.step = "call"])
  /\ used' = [used EXCEPT ![Here(q).provider] = @ + 1]
  /\ UNCHANGED cool

\* cool_on_failure, network_failure: what a failure blocks, by its cause.
Blocks(c, cause) ==
  CASE cause \in {"credit", "network"} -> {<<c.provider, "all">>}
    [] cause = "busy" -> {<<c.provider, c.model>>}
    [] OTHER -> {}

Clears(c) == cool \ {<<c.provider, "all">>, <<c.provider, c.model>>}

Leg(q, said) == [req[q] EXCEPT !.seen = @ \cup {[cand |-> req[q].at, said |-> said]}]

\* run_chain: a failure of the provider's goes on, one of the caller's does not, but for a
\* model that is gone when there are others.
Fails(q, r, status, fatal, blocks) ==
  /\ IF fatal /\ ~(status = "404" /\ Len(r.ask.chain) > 1)
     THEN Set(q, Answered(r, status)) /\ cool' = blocks
     ELSE /\ Set(q, Further(r, status))
          /\ cool' = IF status = "404" THEN blocks \cup {<<Here(q).provider, Here(q).model>>} ELSE blocks
  /\ UNCHANGED used

Succeeds(q, r) ==
  /\ Set(q, Answered(r, "ok"))
  /\ cool' = Clears(Here(q))
  /\ UNCHANGED used

\* No key, no connection, or a status: failed_attempt.
Refused(q) ==
  /\ req[q].step = "call" /\ ~Service(q)
  /\ \/ \E cause \in {"no key", "network", "credit", "busy"} :
          Fails(q, Leg(q, "failure"), "failure", FALSE, cool \cup Blocks(Here(q), cause))
     \/ \E status \in {"400", "404"} : Fails(q, Leg(q, status), status, TRUE, cool)

\* An answer is read. A provider of speech is taken to be well before the body is looked at.
Reads(q) ==
  /\ req[q].step = "call" /\ req[q].ask.cap \notin {"video", "search", "fetch"}
  /\ \E said \in Says(req[q].ask.cap, Here(q).kind) :
       LET c == Here(q)
           speech == req[q].ask.cap = "speech"
           ok == Fits(req[q].ask, c.kind, said)
       IN  CASE speech /\ c.kind = "dashscope" /\ said = "url" ->
                     /\ Set(q, [Leg(q, said) EXCEPT !.step = "fetch"])
                     /\ cool' = Clears(c)
                     /\ UNCHANGED used
                [] ok -> Succeeds(q, Leg(q, said))
                [] OTHER -> Fails(q, Leg(q, said), "failure", FALSE, IF speech THEN Clears(c) ELSE cool)

\* The sound is got from where the answer says it is.
Fetches(q) ==
  /\ req[q].step = "fetch"
  /\ \/ Set(q, Answered(req[q], "ok")) /\ UNCHANGED <<cool, used>>
     \/ Fails(q, Leg(q, "failure"), "failure", FALSE, cool)

-----------------------------------------------------------------------------
(* video.rs: a job is begun and asked for until it ends. *)

Began(q, state) ==
  [Leg(q, "job") EXCEPT !.jobs = Append(@, [cand |-> req[q].at, state |-> state])]

Submits(q) ==
  /\ req[q].step = "call" /\ req[q].ask.cap = "video"
  /\ \/ /\ Set(q, [Began(q, "running") EXCEPT !.step = "poll",
                                            !.job = [cand |-> req[q].at, state |-> "known"]])
        /\ UNCHANGED <<cool, used>>
     \/ Fails(q, Leg(q, "none"), "failure", FALSE, cool)
     \/ Fails(q, Began(q, "lost"), "failure", FALSE, cool)

\* A job ends, at the upstream.
JobEnds(q) ==
  /\ \E n \in DOMAIN req[q].jobs, state \in {"completed", "empty", "failed"} :
       /\ req[q].jobs[n].state = "running"
       /\ Set(q, [req[q] EXCEPT !.jobs[n].state = state])
  /\ UNCHANGED <<cool, used>>

\* Mutant: a poll that did not get through does not count.
Poll_Uncounted(q) == [req[q] EXCEPT !.polls = IF @ + 1 = MaxPolls THEN @ ELSE @ + 1]

\* A poll that did not get through counts like one of a job that is not done.
Poll(q) == [req[q] EXCEPT !.polls = @ + 1]

\* Mutant: a job that takes too long is another provider's to do.
TooLong_Retryable(q) == Fails(q, req[q], "failure", FALSE, cool)

TooLong(q) == Fails(q, req[q], "failure", TRUE, cool)

Polls(q) ==
  /\ req[q].step = "poll"
  /\ LET state == req[q].jobs[Len(req[q].jobs)].state
     IN  IF req[q].polls = MaxPolls THEN TooLong(q)
         ELSE \/ Set(q, Poll(q)) /\ UNCHANGED <<cool, used>>
              \/ state = "completed" /\ Succeeds(q, Leg(q, "url"))
              \/ state = "empty" /\ Fails(q, req[q], "failure", FALSE, Clears(Here(q)))
              \/ state = "failed" /\ Fails(q, req[q], "failure", FALSE, cool \cup Blocks(Here(q), "busy"))

-----------------------------------------------------------------------------
(* search.rs: a provider that has nothing is not blamed, another may have something. *)

Found(q, said) ==
  /\ cool' = Clears(Here(q))
  /\ CASE said = "none" -> Set(q, Further([Leg(q, said) EXCEPT !.empty = TRUE], "none"))
       [] OTHER -> Set(q, Answered(Leg(q, said), "ok"))
  /\ UNCHANGED used

\* An error of any sort, a page without its text among them.
NotFound(q) ==
  /\ cool' = cool \cup {<<Here(q).provider, "all">>}
  /\ Set(q, Further(Leg(q, "failure"), "failure"))
  /\ UNCHANGED used

Searches(q) ==
  /\ req[q].step = "call" /\ req[q].ask.cap = "search"
  /\ NotFound(q) \/ Found(q, "hits") \/ Found(q, "none")

FetchesPage(q) ==
  /\ req[q].step = "call" /\ req[q].ask.cap = "fetch"
  /\ NotFound(q) \/ Found(q, "text")

-----------------------------------------------------------------------------

\* A block runs out.
Expires ==
  /\ \E b \in cool : cool' = cool \ {b}
  /\ UNCHANGED <<req, used>>

\* The client hangs up: nothing of the leg in flight is recorded.
Leaves(q) ==
  /\ req[q].step \in {"call", "fetch", "poll"}
  /\ Set(q, Answered(req[q], "left"))
  /\ UNCHANGED <<cool, used>>

Step(q) ==
  \/ Gate(q) \/ Counts(q) \/ Refused(q)
  \/ Reads(q) \/ Fetches(q) \/ Submits(q) \/ Polls(q) \/ Searches(q) \/ FetchesPage(q)

Next == (\E q \in Slots : Begin(q) \/ Step(q) \/ JobEnds(q) \/ Leaves(q)) \/ Expires

\* Every call of pxy's ends in its time.
Fairness == \A q \in Slots : WF_vars(Step(q))

Spec == Init /\ [][Next]_vars /\ Fairness

-----------------------------------------------------------------------------
(* Properties. *)

Steps == {"free", "gate", "count", "call", "fetch", "poll", "over"}

Answers == {"none", "ok", "empty", "failure", "400", "404", "429", "404 none", "left"}

Sayings == {"data", "url", "foreign", "text", "hits", "job", "none", "failure", "400", "404"}

Request ==
  [step : Steps, ask : Asks, at : Nat, last : Answers, empty : BOOLEAN, polls : 0..MaxPolls,
   job : [cand : Nat, state : {"none", "known"}], answer : Answers,
   seen : SUBSET [cand : Nat, said : Sayings],
   jobs : Seq([cand : Nat, state : {"running", "completed", "empty", "failed", "lost"}])]

TypeOK ==
  /\ req \in [Slots -> Request]
  /\ cool \subseteq Providers \X ({"all"} \cup Models)
  /\ used \in [Providers -> Nat]

\* What the client can use, of what a candidate may say.
Useful(ask, said) ==
  CASE ask.cap = "image" -> said = "url" \/ (~ask.want /\ said = "data")
    [] ask.cap = "speech" -> said = "data"
    [] ask.cap = "video" -> said = "url"
    [] ask.cap = "search" -> said = "hits"
    [] OTHER -> said = "text"

\* A readable body pxy does not look into: the client's own to read.
PassedOn(ask, kind) ==
  CASE ask.cap = "image" -> kind # "dashscope" /\ ~ask.want
    [] ask.cap = "transcription" -> kind \notin {"cloudflare", "dashscope", "meta"}
    [] ask.cap = "systemone" -> kind # "cloudflare"
    [] OTHER -> ask.cap = "rerank"

\* media/mod.rs, run_chain, and the attempts of each capability; search.rs: the client is told
\* "ok" when a candidate said what it can use, and only then; that there is nothing when some
\* provider looked and none found anything; an upstream's own refusal when that was the last
\* word, and of a model that is gone only when there was no other to ask.
AnswerStands ==
  \A q \in Slots :
    LET r == req[q]
        useful == \E s \in r.seen : Useful(r.ask, s.said)
        sound == \E s \in r.seen : s.said = "url" /\ r.ask.cap = "speech"
    IN  r.step = "over" /\ r.answer # "left" =>
          /\ r.answer = "ok" =>
               useful \/ sound \/ \E s \in r.seen : s.said = "none" /\ PassedOn(r.ask, r.ask.chain[s.cand].kind)
          /\ useful => r.answer = "ok"
          /\ r.answer = "empty" <=>
               Service(q) /\ ~useful /\ \E s \in r.seen : s.said = "none"
          /\ r.answer \in {"400", "404"} => \E s \in r.seen : s.said = r.answer
          /\ r.answer = "429" => \A s \in r.seen : s.said # "400"

\* video.rs: no job is begun while one of the same request is known to run.
NoSecondJob ==
  \A q \in Slots : \A m, n \in DOMAIN req[q].jobs :
    m < n => req[q].jobs[m].state # "running"

\* Every request is answered or left, however its upstreams fare: polls are counted, candidates
\* are not asked twice.
MediaEnds == \A q \in Slots : (req[q].step \notin {"free", "over"}) ~> (req[q].step \in {"free", "over"})
=============================================================================
