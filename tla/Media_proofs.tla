---------------------------- MODULE Media_proofs ----------------------------
(***************************************************************************)
(* Proofs about Media, for any asks, chains, caps and requests in flight:  *)
(* what a client is told agrees with what the candidates of its chain      *)
(* said, and of the jobs begun for a request only the last may run.        *)
(***************************************************************************)
EXTENDS Media, TLAPS

IsService(ask) == ask.cap \in {"search", "fetch"}

Heard(r, word) == \E s \in r.seen : s.said = word

\* What AnswerStands says of one request: its ask, what its legs said, its answer.
Stands(ask, seen, answer) ==
  LET useful == \E s \in seen : Useful(ask, s.said)
      sound == \E s \in seen : s.said = "url" /\ ask.cap = "speech"
  IN  answer # "left" =>
        /\ answer = "ok" =>
             useful \/ sound \/ \E s \in seen : s.said = "none" /\ PassedOn(ask, ask.chain[s.cand].kind)
        /\ useful => answer = "ok"
        /\ answer = "empty" <=> IsService(ask) /\ ~useful /\ \E s \in seen : s.said = "none"
        /\ answer \in {"400", "404"} => \E s \in seen : s.said = answer
        /\ answer = "429" => \A s \in seen : s.said # "400"

\* No job runs, and no job runs but the last one.
Quiet(r) == \A n \in DOMAIN r.jobs : r.jobs[n].state # "running"
OneJob(r) == \A n \in DOMAIN r.jobs : n < Len(r.jobs) => r.jobs[n].state # "running"

\* A request that still walks has heard nothing it could have answered with,
\* and remembers of what it heard what its answer depends on.
Open(r) ==
  /\ r.at \in DOMAIN r.ask.chain
  /\ \A s \in r.seen : ~Useful(r.ask, s.said) /\ s.said # "400"
  /\ r.last \in {"none", "failure", "404", "429"}
  /\ r.last = "404" => Heard(r, "404")
  /\ IsService(r.ask) => (r.empty <=> Heard(r, "none"))

Sane(r) ==
  /\ r \in Request
  /\ r.step \in {"gate", "count", "call", "fetch", "poll"} => Open(r)
  /\ r.step \in {"free", "gate", "count", "call", "fetch"} => Quiet(r)
  /\ r.step = "fetch" => r.ask.cap = "speech" /\ Heard(r, "url")
  /\ r.step = "poll" => r.ask.cap = "video" /\ r.jobs # <<>>
  /\ r.step = "over" => Stands(r.ask, r.seen, r.answer)
  /\ OneJob(r)

MediaInv ==
  /\ TypeOK
  /\ \A q \in Slots : Sane(req[q])

-----------------------------------------------------------------------------
(* What the operators of the walk make of a request. *)

\* A candidate names a provider and one of the models.
LEMMA CandidateType ==
  ASSUME NEW ask \in Asks, NEW n \in DOMAIN ask.chain
  PROVE  ask.chain[n].provider \in Providers /\ ask.chain[n].model \in Models
<1>1. ask \in Ask
  BY MediaAssumption
<1> DEFINE C == [provider : Providers, model : STRING, kind : STRING]
<1>2. ask.chain \in Seq(C)
  BY <1>1 DEF Ask
<1> HIDE DEF C
<1>3. ask.chain[n] \in C
  BY <1>2
<1>4. ask.chain[n].model \in {ask.chain[m].model : m \in DOMAIN ask.chain}
  OBVIOUS
<1> QED
  BY <1>3, <1>4 DEF C, Models

LEMMA AnsweredSane ==
  ASSUME NEW r \in Request, NEW a \in Answers, OneJob(r), Stands(r.ask, r.seen, a)
  PROVE  Sane(Answered(r, a))
<1> DEFINE r2 == Answered(r, a)
<1>1. r2 = [r EXCEPT !.step = "over", !.answer = a]
  BY DEF Answered
<1>2. "over" \in Steps
  BY DEF Steps
<1>3. /\ r2 \in Request
      /\ r2.step = "over" /\ r2.answer = a
      /\ r2.ask = r.ask /\ r2.seen = r.seen /\ r2.jobs = r.jobs
  BY <1>1, <1>2 DEF Request
<1> HIDE DEF r2
<1>4. Sane(r2)
  BY <1>3 DEF Sane, OneJob
<1> QED
  BY <1>4 DEF r2

\* What a request has heard while it walks lets it fail.
LEMMA WalkMayFail ==
  ASSUME NEW r \in Request, Open(r), NEW a \in {"none", "failure", "404", "429"},
         a = "404" => Heard(r, "404"), a # "429" \/ ~IsService(r.ask),
         ~IsService(r.ask) \/ ~r.empty
  PROVE  Stands(r.ask, r.seen, a)
BY DEF Open, Heard, Stands

LEMMA EndedSane ==
  ASSUME NEW r \in Request, OneJob(r),
         \A s \in r.seen : ~Useful(r.ask, s.said) /\ s.said # "400",
         r.last \in {"none", "failure", "404", "429"},
         r.last = "404" => Heard(r, "404"),
         IsService(r.ask) => (r.empty <=> Heard(r, "none"))
  PROVE  Sane(Ended(r))
<1>1. {"none", "failure", "404", "429", "empty"} \subseteq Answers
  BY DEF Answers
<1>2. CASE IsService(r.ask) /\ r.empty
  <2>1. Ended(r) = Answered(r, "empty")
    BY <1>2 DEF Ended, IsService
  <2>2. Stands(r.ask, r.seen, "empty")
    BY <1>2 DEF Stands, Heard
  <2> QED
    BY <1>1, <2>1, <2>2, AnsweredSane
<1>3. CASE IsService(r.ask) /\ ~r.empty
  <2>1. Ended(r) = Answered(r, "failure")
    BY <1>3 DEF Ended, IsService
  <2>2. Stands(r.ask, r.seen, "failure")
    BY <1>3 DEF Stands, Heard
  <2> QED
    BY <1>1, <2>1, <2>2, AnsweredSane
<1>4. CASE ~IsService(r.ask)
  <2>1. Ended(r) = Answered(r, r.last)
    BY <1>4 DEF Ended, IsService
  <2>2. Stands(r.ask, r.seen, r.last)
    BY <1>4 DEF Stands, Heard
  <2> QED
    BY <1>1, <2>1, <2>2, AnsweredSane
<1> QED
  BY <1>2, <1>3, <1>4

LEMMA FurtherSane ==
  ASSUME NEW r \in Request, Open(r), Quiet(r),
         NEW last \in {"none", "failure", "404", "429"}, last = "404" => Heard(r, "404")
  PROVE  Sane(Further(r, last))
<1> DEFINE at == r.at + 1
           r1 == [r EXCEPT !.last = last, !.at = at, !.step = "gate", !.polls = 0, !.job = NoJob]
<1>1. /\ at \in Nat /\ "gate" \in Steps /\ last \in Answers /\ 0 \in 0..MaxPolls
      /\ NoJob \in [cand : Nat, state : {"none", "known"}]
  <2>1. at \in Nat
    BY DEF Request
  <2>2. 0 \in 0..MaxPolls
    BY MediaAssumption
  <2>3. NoJob \in [cand : Nat, state : {"none", "known"}]
    BY DEF NoJob
  <2> QED
    BY <2>1, <2>2, <2>3 DEF Steps, Answers
<1>2. Further(r, last) = IF r.at = Len(r.ask.chain) THEN Ended(r1) ELSE r1
  BY DEF Further
<1>3. r.ask.chain \in Seq([provider : Providers, model : STRING, kind : STRING])
  BY MediaAssumption DEF Request, Ask
<1>4. r.at \in 1..Len(r.ask.chain) /\ Len(r.ask.chain) \in Nat
  BY <1>3 DEF Open
<1>5. r.at # Len(r.ask.chain) => at \in DOMAIN r.ask.chain
  BY <1>3, <1>4
<1> HIDE DEF at
<1>6. /\ r1 \in Request
      /\ r1.last = last /\ r1.at = at /\ r1.step = "gate" /\ r1.ask = r.ask
      /\ r1.seen = r.seen /\ r1.jobs = r.jobs /\ (r1.empty <=> r.empty)
  BY <1>1 DEF Request
<1> HIDE DEF r1
<1>7. OneJob(r1) /\ Quiet(r1)
  BY <1>6 DEF OneJob, Quiet
<1>8. Sane(Ended(r1))
  BY <1>6, <1>7, EndedSane DEF Open, Heard
<1>9. r.at # Len(r.ask.chain) => Sane(r1)
  BY <1>5, <1>6, <1>7 DEF Sane, Open, Heard
<1> QED
  BY <1>2, <1>8, <1>9

LEMMA LegFacts ==
  ASSUME NEW q \in Slots, req[q] \in Request, NEW said \in Sayings
  PROVE  /\ Leg(q, said) \in Request
         /\ Leg(q, said).step = req[q].step
         /\ Leg(q, said).ask = req[q].ask
         /\ Leg(q, said).at = req[q].at
         /\ Leg(q, said).last = req[q].last
         /\ Leg(q, said).empty <=> req[q].empty
         /\ Leg(q, said).jobs = req[q].jobs
         /\ Leg(q, said).seen = req[q].seen \cup {[cand |-> req[q].at, said |-> said]}
         /\ Heard(Leg(q, said), said)
<1> DEFINE seen == req[q].seen \cup {[cand |-> req[q].at, said |-> said]}
           r == [req[q] EXCEPT !.seen = seen]
<1>1. Leg(q, said) = r
  BY DEF Leg
<1>2. seen \in SUBSET [cand : Nat, said : Sayings]
  BY DEF Request
<1>3. \E s \in seen : s.said = said
  <2> WITNESS [cand |-> req[q].at, said |-> said] \in seen
  <2> QED
    OBVIOUS
<1> HIDE DEF seen
<1>4. /\ r \in Request
      /\ r.step = req[q].step /\ r.ask = req[q].ask /\ r.at = req[q].at
      /\ r.last = req[q].last /\ (r.empty <=> req[q].empty)
      /\ r.jobs = req[q].jobs /\ r.seen = seen
  BY <1>2 DEF Request
<1> QED
  BY <1>1, <1>3, <1>4 DEF seen, Heard

\* A word of no use to the client leaves the request as open as it was.
LEMMA LegOpen ==
  ASSUME NEW q \in Slots, req[q] \in Request, Open(req[q]), NEW said \in Sayings,
         ~Useful(req[q].ask, said), said # "400", IsService(req[q].ask) => said # "none"
  PROVE  Open(Leg(q, said))
BY LegFacts DEF Open, Heard

\* What becomes of a request whose leg failed.
LEMMA FailsSane ==
  ASSUME NEW q \in Slots, NEW r \in Request, Open(r), OneJob(r), ~IsService(r.ask),
         NEW status \in {"failure", "404"}, status = "404" => Heard(r, "404"),
         NEW fatal \in BOOLEAN, Quiet(r) \/ (fatal /\ status = "failure"),
         NEW blocks, Fails(q, r, status, fatal, blocks)
  PROVE  /\ \E r2 : Sane(r2) /\ Set(q, r2)
         /\ cool' \in {blocks, blocks \cup {<<Here(q).provider, Here(q).model>>}}
         /\ used' = used
<1>1. Stands(r.ask, r.seen, status)
  BY WalkMayFail
<1>2. Sane(Answered(r, status))
  BY <1>1, AnsweredSane DEF Answers
<1>3. Quiet(r) => Sane(Further(r, status))
  BY FurtherSane
<1> QED
  BY <1>2, <1>3 DEF Fails

-----------------------------------------------------------------------------
(* The steps of a request. *)

CoolTyped == cool \subseteq Providers \X ({"all"} \cup Models)

\* A request that walks faces a candidate of its chain.
LEMMA HereType ==
  ASSUME NEW q \in Slots, Sane(req[q]), Open(req[q])
  PROVE  /\ {<<Here(q).provider, "all">>, <<Here(q).provider, Here(q).model>>}
              \subseteq Providers \X ({"all"} \cup Models)
         /\ Here(q).provider \in Providers
<1>1. req[q].ask \in Asks /\ req[q].at \in DOMAIN req[q].ask.chain
  BY DEF Sane, Open, Request
<1>2. Here(q).provider \in Providers /\ Here(q).model \in Models
  BY <1>1, CandidateType DEF Here, Chain
<1> QED
  BY <1>2

\* One request moves, the others stay.
LEMMA OneMoves ==
  ASSUME MediaInv, NEW q \in Slots, NEW r, Sane(r), Set(q, r)
  PROVE  req' \in [Slots -> Request] /\ \A p \in Slots : Sane(req'[p])
BY DEF MediaInv, TypeOK, Sane, Set

LEMMA FreeType ==
  /\ Free \in Request
  /\ Free.step = "free" /\ Free.at = 1 /\ Free.last = "none" /\ ~Free.empty /\ Free.seen = {}
  /\ Free.jobs = <<>>
<1>1. (CHOOSE a \in Asks : TRUE) \in Asks
  BY MediaAssumption
<1>2. "free" \in Steps /\ "none" \in Answers
  BY DEF Steps, Answers
<1>3. 0 \in 0..MaxPolls /\ 1 \in Nat
  BY MediaAssumption
<1>4. NoJob \in [cand : Nat, state : {"none", "known"}]
  BY DEF NoJob
<1>5. <<>> \in Seq([cand : Nat, state : {"running", "completed", "empty", "failed", "lost"}])
  OBVIOUS
<1>6. {} \in SUBSET [cand : Nat, said : Sayings]
  OBVIOUS
<1> QED
  BY <1>1, <1>2, <1>3, <1>4, <1>5, <1>6 DEF Free, Request

LEMMA BeginKeeps ==
  ASSUME MediaInv, NEW q \in Slots, Begin(q)
  PROVE  MediaInv'
<1>1. PICK a \in Asks :
        Set(q, [Free EXCEPT !.ask = a, !.step = IF a.chain = <<>> THEN "over" ELSE "gate",
                            !.answer = IF a.chain = <<>> THEN "404 none" ELSE "none"])
  BY DEF Begin
<1> DEFINE step == IF a.chain = <<>> THEN "over" ELSE "gate"
           answer == IF a.chain = <<>> THEN "404 none" ELSE "none"
           r == [Free EXCEPT !.ask = a, !.step = step, !.answer = answer]
<1>3. step \in {"over", "gate"} /\ answer \in {"404 none", "none"}
      /\ (step = "over" => answer = "404 none")
      /\ (step = "gate" => a.chain # <<>>)
  OBVIOUS
<1> HIDE DEF step, answer
<1>4. Free \in Request /\ Free.at = 1 /\ Free.last = "none" /\ ~Free.empty /\ Free.seen = {}
      /\ Free.jobs = <<>>
  BY FreeType
<1>5. step \in Steps /\ answer \in Answers
  BY <1>3 DEF Steps, Answers
<1>6. /\ r \in Request
      /\ r.step = step /\ r.ask = a /\ r.at = 1 /\ r.last = "none" /\ ~r.empty
      /\ r.answer = answer /\ r.seen = {} /\ r.jobs = <<>>
  BY <1>4, <1>5 DEF Request
<1> HIDE DEF r
<1>7. Quiet(r) /\ OneJob(r)
  BY <1>6 DEF Quiet, OneJob
<1>8. step = "gate" => Open(r)
  <2>1. a.chain \in Seq([provider : Providers, model : STRING, kind : STRING])
    BY MediaAssumption DEF Ask
  <2>2. a.chain # <<>> => 1 \in DOMAIN a.chain
    BY <2>1
  <2> QED
    BY <1>3, <1>6, <2>2 DEF Open, Heard
<1>9. step = "over" => Stands(r.ask, r.seen, r.answer)
  BY <1>3, <1>6 DEF Stands
<1>10. Sane(r)
  BY <1>3, <1>6, <1>7, <1>8, <1>9 DEF Sane
<1>11. Set(q, r)
  BY <1>1 DEF r, step, answer
<1>12. req' \in [Slots -> Request] /\ \A p \in Slots : Sane(req'[p])
  BY <1>10, <1>11, OneMoves
<1> QED
  BY <1>12 DEF MediaInv, TypeOK, Begin

\* A gate passed, or a request counted.
LEMMA OnwardSane ==
  ASSUME NEW r, Sane(r), Open(r), Quiet(r), NEW step \in {"count", "call"}
  PROVE  Sane([r EXCEPT !.step = step])
<1> DEFINE r2 == [r EXCEPT !.step = step]
<1>1. /\ r2 \in Request
      /\ r2.step = step /\ r2.ask = r.ask /\ r2.at = r.at /\ r2.last = r.last
      /\ (r2.empty <=> r.empty) /\ r2.seen = r.seen /\ r2.jobs = r.jobs
  BY DEF Sane, Request, Steps
<1> HIDE DEF r2
<1>2. Sane(r2)
  BY <1>1 DEF Sane, Open, Heard, Quiet, OneJob
<1> QED
  BY <1>2 DEF r2

LEMMA GateKeeps ==
  ASSUME MediaInv, NEW q \in Slots, Gate(q)
  PROVE  MediaInv'
<1>1. Sane(req[q]) /\ Open(req[q]) /\ Quiet(req[q]) /\ req[q] \in Request
  BY DEF MediaInv, Gate, Sane
<1>2. Sane(Further(req[q], "429"))
  BY <1>1, FurtherSane
<1>3. Sane([req[q] EXCEPT !.step = "count"])
  BY <1>1, OnwardSane
<1>4. \E r : Sane(r) /\ Set(q, r)
  BY <1>2, <1>3 DEF Gate
<1>5. req' \in [Slots -> Request] /\ \A p \in Slots : Sane(req'[p])
  BY <1>4, OneMoves
<1> QED
  BY <1>5 DEF MediaInv, TypeOK, Gate

LEMMA CountsKeeps ==
  ASSUME MediaInv, NEW q \in Slots, Counts(q)
  PROVE  MediaInv'
<1>1. Sane(req[q]) /\ Open(req[q]) /\ Quiet(req[q])
  BY DEF MediaInv, Counts, Sane
<1>2. Sane([req[q] EXCEPT !.step = "call"])
  BY <1>1, OnwardSane
<1>3. req' \in [Slots -> Request] /\ \A p \in Slots : Sane(req'[p])
  BY <1>2, OneMoves DEF Counts
<1> DEFINE p == Here(q).provider
<1>4. p \in Providers
  BY <1>1, HereType
<1>5. used' = [used EXCEPT ![p] = @ + 1]
  BY DEF Counts
<1> HIDE DEF p
<1>6. used' \in [Providers -> Nat]
  BY <1>4, <1>5 DEF MediaInv, TypeOK
<1> QED
  BY <1>3, <1>6 DEF MediaInv, TypeOK, Counts

\* A step of one request that touches the blocks of its candidate alone.
LEMMA WalkKeeps ==
  ASSUME MediaInv, NEW q \in Slots, NEW r, Sane(r), Set(q, r), CoolTyped', used' = used
  PROVE  MediaInv'
<1>1. req' \in [Slots -> Request] /\ \A p \in Slots : Sane(req'[p])
  BY OneMoves
<1> QED
  BY <1>1 DEF MediaInv, TypeOK, CoolTyped

LEMMA BlocksTyped ==
  ASSUME NEW q \in Slots, Sane(req[q]), Open(req[q]), CoolTyped, NEW cause
  PROVE  /\ (cool \cup Blocks(Here(q), cause)) \subseteq Providers \X ({"all"} \cup Models)
         /\ Clears(Here(q)) \subseteq Providers \X ({"all"} \cup Models)
BY HereType DEF CoolTyped, Blocks, Clears

\* A leg that failed, with whatever it blocks.
LEMMA FailsKeeps ==
  ASSUME MediaInv, NEW q \in Slots, Open(req[q]),
         NEW r \in Request, Open(r), OneJob(r), ~IsService(r.ask),
         NEW status \in {"failure", "404"}, status = "404" => Heard(r, "404"),
         NEW fatal \in BOOLEAN, Quiet(r) \/ (fatal /\ status = "failure"),
         NEW blocks, blocks \subseteq Providers \X ({"all"} \cup Models),
         Fails(q, r, status, fatal, blocks)
  PROVE  MediaInv'
<1>1. /\ \E r2 : Sane(r2) /\ Set(q, r2)
      /\ cool' \in {blocks, blocks \cup {<<Here(q).provider, Here(q).model>>}}
      /\ used' = used
  BY FailsSane
<1>2. CoolTyped'
  BY <1>1, HereType DEF CoolTyped, MediaInv
<1> QED
  BY <1>1, <1>2, WalkKeeps

\* What fits an ask is what the client can use, or its own to read.
LEMMA FitsIsMeant ==
  ASSUME NEW ask \in Ask, ask.cap \notin {"video", "search", "fetch"}, NEW kind,
         NEW said \in Says(ask.cap, kind)
  PROVE  /\ said \in Sayings /\ said # "400"
         /\ Fits(ask, kind, said) => Useful(ask, said) \/ (said = "none" /\ PassedOn(ask, kind))
         /\ ~Fits(ask, kind, said) => ~Useful(ask, said)
         /\ ask.cap = "speech" /\ kind = "dashscope" => ~Useful(ask, said)
<1>1. ask.cap \in {"image", "speech", "transcription", "rerank", "systemone"}
  BY DEF Ask, Capabilities
<1>2. ask.want \in BOOLEAN
  BY DEF Ask
<1>3. CASE ask.cap = "image"
  <2>1. said \in {"failure", "url", "none", "data"} /\ (kind = "dashscope" => said # "data")
    BY <1>3 DEF Says
  <2>2. Fits(ask, kind, said) <=> Pictures(kind, ask.want, said)
    BY <1>3 DEF Fits
  <2>3. Useful(ask, said) <=> said = "url" \/ (~ask.want /\ said = "data")
    BY <1>3 DEF Useful
  <2>4. PassedOn(ask, kind) <=> kind # "dashscope" /\ ~ask.want
    BY <1>3 DEF PassedOn
  <2> QED
    BY <1>3, <2>1, <2>2, <2>3, <2>4 DEF Pictures, Sayings
<1>4. CASE ask.cap = "speech"
  <2>1. /\ said \in {"failure", "data", "none", "url", "foreign"}
        /\ kind = "dashscope" => said # "data"
    BY <1>4 DEF Says
  <2>2. Fits(ask, kind, said) <=> Speaks(kind, said)
    BY <1>4 DEF Fits
  <2>3. Useful(ask, said) <=> said = "data"
    BY <1>4 DEF Useful
  <2>4. Speaks(kind, said) <=> kind # "dashscope" /\ said = "data"
    BY DEF Speaks
  <2> QED
    BY <2>1, <2>2, <2>3, <2>4 DEF Sayings
<1>5. CASE ask.cap \in {"transcription", "rerank", "systemone"}
  <2>1. said \in {"failure", "text", "none"}
    BY <1>5 DEF Says
  <2>2. Useful(ask, said) <=> said = "text"
    BY <1>5 DEF Useful
  <2>3. CASE ask.cap = "transcription"
    BY <2>1, <2>2, <2>3 DEF Fits, Transcribes, PassedOn, Sayings
  <2>4. CASE ask.cap = "rerank"
    BY <2>1, <2>2, <2>4 DEF Fits, Ranks, PassedOn, Sayings
  <2>5. CASE ask.cap = "systemone"
    BY <2>1, <2>2, <2>5 DEF Fits, Judges, PassedOn, Sayings
  <2> QED
    BY <1>5, <2>3, <2>4, <2>5
<1> QED
  BY <1>1, <1>3, <1>4, <1>5

\* A request whose leg has said what makes an answer.
LEMMA SucceedsKeeps ==
  ASSUME MediaInv, NEW q \in Slots, Open(req[q]),
         NEW r \in Request, OneJob(r), Stands(r.ask, r.seen, "ok"), Succeeds(q, r)
  PROVE  MediaInv'
<1>1. Sane(Answered(r, "ok"))
  BY AnsweredSane DEF Answers
<1>2. CoolTyped'
  BY BlocksTyped DEF Succeeds, MediaInv, TypeOK, CoolTyped
<1> QED
  BY <1>1, <1>2, WalkKeeps DEF Succeeds

\* What a leg has said makes an answer when the client can use it or may read it itself.
LEMMA LegStands ==
  ASSUME NEW q \in Slots, req[q] \in Request, NEW said \in Sayings,
         \/ Useful(req[q].ask, said)
         \/ said = "none" /\ PassedOn(req[q].ask, Here(q).kind) /\ ~IsService(req[q].ask)
  PROVE  Stands(Leg(q, said).ask, Leg(q, said).seen, "ok")
<1> DEFINE s == [cand |-> req[q].at, said |-> said]
<1>1. Leg(q, said).seen = req[q].seen \cup {s} /\ Leg(q, said).ask = req[q].ask
  BY LegFacts
<1>2. s.said = said /\ s.cand = req[q].at
  OBVIOUS
<1>3. Here(q).kind = req[q].ask.chain[s.cand].kind
  BY <1>2 DEF Here, Chain
<1> HIDE DEF s
<1> QED
  BY <1>1, <1>2, <1>3 DEF Stands

LEMMA RefusedKeeps ==
  ASSUME MediaInv, NEW q \in Slots, Refused(q)
  PROVE  MediaInv'
<1>1. /\ Sane(req[q]) /\ Open(req[q]) /\ Quiet(req[q]) /\ OneJob(req[q]) /\ req[q] \in Request
      /\ ~IsService(req[q].ask)
  BY DEF MediaInv, Refused, Sane, Service, IsService
<1>2. \A word \in {"failure", "400", "404"} : word \in Sayings /\ ~Useful(req[q].ask, word)
  BY DEF Sayings, Useful
<1>3. \A word \in Sayings :
        LET r == Leg(q, word)
        IN  r \in Request /\ Quiet(r) /\ OneJob(r) /\ ~IsService(r.ask) /\ Heard(r, word)
            /\ r.ask = req[q].ask
  BY <1>1, LegFacts DEF Quiet, OneJob, IsService
<1>4. \A word \in {"failure", "404"} : Open(Leg(q, word))
  BY <1>1, <1>2, LegOpen
<1>5. ASSUME NEW cause \in {"no key", "network", "credit", "busy"},
             Fails(q, Leg(q, "failure"), "failure", FALSE, cool \cup Blocks(Here(q), cause))
      PROVE  MediaInv'
  <2> DEFINE no == FALSE
             r == Leg(q, "failure")
             blocks == cool \cup Blocks(Here(q), cause)
  <2>1. blocks \subseteq Providers \X ({"all"} \cup Models)
    BY <1>1, BlocksTyped DEF MediaInv, TypeOK, CoolTyped
  <2>2. no \in BOOLEAN /\ Fails(q, r, "failure", no, blocks)
    BY <1>5
  <2>3. r \in Request /\ Quiet(r) /\ OneJob(r) /\ ~IsService(r.ask) /\ Open(r)
    BY <1>2, <1>3, <1>4
  <2> HIDE DEF no, r, blocks
  <2> QED
    BY <1>1, <2>1, <2>2, <2>3, FailsKeeps
<1>6. ASSUME Fails(q, Leg(q, "404"), "404", TRUE, cool)
      PROVE  MediaInv'
  <2> DEFINE yes == TRUE
             r == Leg(q, "404")
  <2>1. cool \subseteq Providers \X ({"all"} \cup Models)
    BY DEF MediaInv, TypeOK
  <2>2. yes \in BOOLEAN /\ Fails(q, r, "404", yes, cool)
    BY <1>6
  <2>3. r \in Request /\ Quiet(r) /\ OneJob(r) /\ ~IsService(r.ask) /\ Heard(r, "404") /\ Open(r)
    BY <1>2, <1>3, <1>4
  <2> HIDE DEF yes, r
  <2> QED
    BY <1>1, <2>1, <2>2, <2>3, FailsKeeps
<1>7. ASSUME Fails(q, Leg(q, "400"), "400", TRUE, cool)
      PROVE  MediaInv'
  <2> DEFINE r == Leg(q, "400")
  <2>1. Set(q, Answered(r, "400")) /\ cool' = cool /\ used' = used
    BY <1>7 DEF Fails
  <2>2. /\ r \in Request /\ OneJob(r) /\ ~IsService(r.ask) /\ Heard(r, "400") /\ r.ask = req[q].ask
        /\ r.seen = req[q].seen \cup {[cand |-> req[q].at, said |-> "400"]}
    BY <1>1, <1>2, <1>3, LegFacts
  <2> HIDE DEF r
  <2>3. Stands(r.ask, r.seen, "400")
    <3>1. \A s \in r.seen : ~Useful(r.ask, s.said)
      BY <1>1, <1>2, <2>2 DEF Open
    <3> QED
      BY <2>2, <3>1 DEF Stands, Heard
  <2>4. Sane(Answered(r, "400"))
    BY <2>2, <2>3, AnsweredSane DEF Answers
  <2>5. CoolTyped'
    BY <2>1 DEF MediaInv, TypeOK, CoolTyped
  <2> QED
    BY <2>1, <2>4, <2>5, WalkKeeps
<1> QED
  BY <1>5, <1>6, <1>7 DEF Refused

\* A sound is on its way: what the client hears of it is still open.
LEMMA FetchingSane ==
  ASSUME NEW r \in Request, Open(r), Quiet(r), OneJob(r), r.ask.cap = "speech", Heard(r, "url")
  PROVE  Sane([r EXCEPT !.step = "fetch"])
<1> DEFINE r2 == [r EXCEPT !.step = "fetch"]
<1>1. /\ r2 \in Request
      /\ r2.step = "fetch" /\ r2.ask = r.ask /\ r2.at = r.at /\ r2.last = r.last
      /\ (r2.empty <=> r.empty) /\ r2.seen = r.seen /\ r2.jobs = r.jobs
  BY DEF Request, Steps
<1> HIDE DEF r2
<1>2. Sane(r2)
  BY <1>1 DEF Sane, Open, Heard, Quiet, OneJob
<1> QED
  BY <1>2 DEF r2

LEMMA ReadsKeeps ==
  ASSUME MediaInv, NEW q \in Slots, Reads(q)
  PROVE  MediaInv'
<1> DEFINE ask == req[q].ask
           c == Here(q)
           speech == ask.cap = "speech"
<1>1. /\ Sane(req[q]) /\ Open(req[q]) /\ Quiet(req[q]) /\ OneJob(req[q]) /\ req[q] \in Request
      /\ ~IsService(ask) /\ ask \in Ask /\ ask.cap \notin {"video", "search", "fetch"}
  BY MediaAssumption DEF MediaInv, Reads, Sane, IsService, Request
<1> DEFINE fetched(said) == [Leg(q, said) EXCEPT !.step = "fetch"]
           sound(said) == speech /\ c.kind = "dashscope" /\ said = "url"
           fits(said) == Fits(ask, c.kind, said)
           fetches(said) == Set(q, fetched(said)) /\ cool' = Clears(c) /\ used' = used
           fails(said) == Fails(q, Leg(q, said), "failure", FALSE, IF speech THEN Clears(c) ELSE cool)
<1>cases. \E said \in Says(ask.cap, c.kind) :
        CASE sound(said) -> fetches(said)
          [] fits(said) -> Succeeds(q, Leg(q, said))
          [] OTHER -> fails(said)
  BY DEF Reads
<1> HIDE DEF fetches, fails, sound, fits
<1>2. PICK said \in Says(ask.cap, c.kind) :
        /\ sound(said) /\ ~fits(said) => fetches(said)
        /\ fits(said) /\ ~sound(said) => Succeeds(q, Leg(q, said))
        /\ ~sound(said) /\ ~fits(said) => fails(said)
  BY <1>cases
<1> USE DEF fetches, fails, sound, fits
<1>3. /\ said \in Sayings /\ said # "400"
      /\ Fits(ask, c.kind, said) => Useful(ask, said) \/ (said = "none" /\ PassedOn(ask, c.kind))
      /\ ~Fits(ask, c.kind, said) => ~Useful(ask, said)
      /\ speech /\ c.kind = "dashscope" => ~Useful(ask, said)
  BY <1>1, FitsIsMeant
<1> DEFINE r == Leg(q, said)
<1>4. r \in Request /\ Quiet(r) /\ OneJob(r) /\ ~IsService(r.ask) /\ Heard(r, said) /\ r.ask = ask
  BY <1>1, <1>3, LegFacts DEF Quiet, OneJob, IsService
<1>5. ~Useful(ask, said) => Open(r)
  BY <1>1, <1>3, LegOpen
<1>apart. sound(said) => ~fits(said)
  BY DEF Fits, Speaks
<1>6. CASE speech /\ c.kind = "dashscope" /\ said = "url"
  <2>1. Set(q, [r EXCEPT !.step = "fetch"]) /\ cool' = Clears(c) /\ used' = used
    BY <1>2, <1>6, <1>apart
  <2>2. Heard(r, "url") /\ r.ask.cap = "speech" /\ Open(r)
    BY <1>3, <1>4, <1>5, <1>6
  <2>3. CoolTyped'
    BY <1>1, <2>1, BlocksTyped DEF MediaInv, TypeOK, CoolTyped
  <2> HIDE DEF r
  <2>4. Sane([r EXCEPT !.step = "fetch"])
    BY <1>4, <2>2, FetchingSane
  <2> QED
    BY <2>1, <2>3, <2>4, WalkKeeps
<1>7. CASE ~(speech /\ c.kind = "dashscope" /\ said = "url") /\ Fits(ask, c.kind, said)
  <2>1. Succeeds(q, r)
    BY <1>2, <1>7
  <2>2. Stands(r.ask, r.seen, "ok")
    BY <1>1, <1>3, <1>7, LegStands
  <2> HIDE DEF r
  <2> QED
    BY <1>1, <1>4, <2>1, <2>2, SucceedsKeeps
<1>8. CASE ~(speech /\ c.kind = "dashscope" /\ said = "url") /\ ~Fits(ask, c.kind, said)
  <2> DEFINE no == FALSE
             blocks == IF speech THEN Clears(c) ELSE cool
  <2>1. Fails(q, r, "failure", no, blocks) /\ no \in BOOLEAN
    BY <1>2, <1>8
  <2>2. Open(r)
    BY <1>3, <1>5, <1>8
  <2>3. blocks \subseteq Providers \X ({"all"} \cup Models)
    BY <1>1, BlocksTyped DEF MediaInv, TypeOK, CoolTyped
  <2> HIDE DEF r, no, blocks
  <2> QED
    BY <1>1, <1>4, <2>1, <2>2, <2>3, FailsKeeps
<1> QED
  BY <1>6, <1>7, <1>8

LEMMA FetchesKeeps ==
  ASSUME MediaInv, NEW q \in Slots, Fetches(q)
  PROVE  MediaInv'
<1>1. /\ Sane(req[q]) /\ Open(req[q]) /\ Quiet(req[q]) /\ OneJob(req[q]) /\ req[q] \in Request
      /\ req[q].ask.cap = "speech" /\ Heard(req[q], "url")
  BY DEF MediaInv, Fetches, Sane
<1>2. ASSUME Set(q, Answered(req[q], "ok")), UNCHANGED <<cool, used>>
      PROVE  MediaInv'
  <2>1. Stands(req[q].ask, req[q].seen, "ok")
    BY <1>1 DEF Stands, Heard, IsService
  <2>2. Sane(Answered(req[q], "ok"))
    BY <1>1, <2>1, AnsweredSane DEF Answers
  <2> QED
    BY <1>2, <2>2, WalkKeeps DEF MediaInv, TypeOK, CoolTyped
<1>3. ASSUME Fails(q, Leg(q, "failure"), "failure", FALSE, cool)
      PROVE  MediaInv'
  <2> DEFINE no == FALSE
             r == Leg(q, "failure")
  <2>1. "failure" \in Sayings /\ ~Useful(req[q].ask, "failure")
    BY DEF Sayings, Useful
  <2>2. r \in Request /\ Quiet(r) /\ OneJob(r) /\ ~IsService(r.ask)
    BY <1>1, <2>1, LegFacts DEF Quiet, OneJob, IsService
  <2>3. Open(r)
    BY <1>1, <2>1, LegOpen
  <2>4. Fails(q, r, "failure", no, cool) /\ no \in BOOLEAN
    BY <1>3
  <2>5. cool \subseteq Providers \X ({"all"} \cup Models)
    BY DEF MediaInv, TypeOK
  <2> HIDE DEF r, no
  <2> QED
    BY <1>1, <2>2, <2>3, <2>4, <2>5, FailsKeeps
<1> QED
  BY <1>2, <1>3 DEF Fetches

JobStates == {"running", "completed", "empty", "failed", "lost"}

\* A job is begun: the others of the request do not run.
LEMMA BeganFacts ==
  ASSUME NEW q \in Slots, req[q] \in Request, Open(req[q]), Quiet(req[q]),
         req[q].ask.cap = "video", NEW state \in JobStates
  PROVE  /\ Began(q, state) \in Request
         /\ Open(Began(q, state)) /\ OneJob(Began(q, state))
         /\ Began(q, state).ask = req[q].ask
         /\ Began(q, state).jobs # <<>>
         /\ state # "running" => Quiet(Began(q, state))
<1> DEFINE leg == Leg(q, "job")
           J == [cand : Nat, state : JobStates]
           job == [cand |-> req[q].at, state |-> state]
           jobs == Append(leg.jobs, job)
           r == [leg EXCEPT !.jobs = jobs]
<1>1. Began(q, state) = r
  BY DEF Began
<1>2. "job" \in Sayings /\ ~Useful(req[q].ask, "job")
  BY DEF Sayings, Useful
<1>3. leg \in Request /\ Quiet(leg) /\ leg.ask = req[q].ask /\ Open(leg)
  BY <1>2, LegFacts, LegOpen DEF Quiet
<1> HIDE DEF leg
<1>4. leg.jobs \in Seq(J)
  BY <1>3 DEF Request, JobStates
<1>5. job \in J /\ job.state = state
  BY DEF Request
<1> HIDE DEF job, J
<1>6. /\ jobs \in Seq(J) /\ Len(jobs) = Len(leg.jobs) + 1 /\ jobs # <<>>
      /\ jobs[Len(jobs)] = job
      /\ \A n \in DOMAIN jobs : n < Len(jobs) => n \in DOMAIN leg.jobs /\ jobs[n] = leg.jobs[n]
      /\ \A n \in DOMAIN jobs : n = Len(jobs) \/ n < Len(jobs)
  BY <1>4, <1>5
<1> HIDE DEF jobs
<1>7. /\ r \in Request
      /\ r.ask = leg.ask /\ r.at = leg.at /\ r.last = leg.last /\ (r.empty <=> leg.empty)
      /\ r.seen = leg.seen /\ r.jobs = jobs
  BY <1>3, <1>6 DEF Request, J, JobStates
<1> HIDE DEF r
<1>8. OneJob(r) /\ (state # "running" => Quiet(r))
  BY <1>3, <1>5, <1>6, <1>7 DEF OneJob, Quiet
<1>9. Open(r)
  BY <1>3, <1>7 DEF Open, Heard
<1> QED
  BY <1>1, <1>3, <1>6, <1>7, <1>8, <1>9

LEMMA SubmitsKeeps ==
  ASSUME MediaInv, NEW q \in Slots, Submits(q)
  PROVE  MediaInv'
<1>1. /\ Sane(req[q]) /\ Open(req[q]) /\ Quiet(req[q]) /\ OneJob(req[q]) /\ req[q] \in Request
      /\ req[q].ask.cap = "video"
  BY DEF MediaInv, Submits, Sane
<1>2. cool \subseteq Providers \X ({"all"} \cup Models)
  BY DEF MediaInv, TypeOK
<1>3. ASSUME Set(q, [Began(q, "running") EXCEPT !.step = "poll",
                       !.job = [cand |-> req[q].at, state |-> "known"]]),
             UNCHANGED <<cool, used>>
      PROVE  MediaInv'
  <2> DEFINE r == Began(q, "running")
             job == [cand |-> req[q].at, state |-> "known"]
             r2 == [r EXCEPT !.step = "poll", !.job = job]
  <2>1. r \in Request /\ Open(r) /\ OneJob(r) /\ r.ask = req[q].ask /\ r.jobs # <<>>
    BY <1>1, BeganFacts DEF JobStates
  <2>2. job \in [cand : Nat, state : {"none", "known"}] /\ "poll" \in Steps
    BY <1>1 DEF Request, Steps
  <2> HIDE DEF r, job
  <2>3. /\ r2 \in Request
        /\ r2.step = "poll" /\ r2.ask = r.ask /\ r2.at = r.at /\ r2.last = r.last
        /\ (r2.empty <=> r.empty) /\ r2.seen = r.seen /\ r2.jobs = r.jobs
    BY <2>1, <2>2 DEF Request
  <2>4. Set(q, r2)
    BY <1>3 DEF r, job
  <2> HIDE DEF r2
  <2>5. Sane(r2)
    BY <1>1, <2>1, <2>3 DEF Sane, Open, Heard, OneJob
  <2> QED
    BY <1>2, <1>3, <2>4, <2>5, WalkKeeps DEF CoolTyped
<1>4. ASSUME Fails(q, Leg(q, "none"), "failure", FALSE, cool)
      PROVE  MediaInv'
  <2> DEFINE no == FALSE
             r == Leg(q, "none")
  <2>1. "none" \in Sayings /\ ~Useful(req[q].ask, "none") /\ ~IsService(req[q].ask)
    BY <1>1 DEF Sayings, Useful, IsService
  <2>2. r \in Request /\ Quiet(r) /\ OneJob(r) /\ ~IsService(r.ask)
    BY <1>1, <2>1, LegFacts DEF Quiet, OneJob
  <2>3. Open(r)
    BY <1>1, <2>1, LegOpen
  <2>4. Fails(q, r, "failure", no, cool) /\ no \in BOOLEAN
    BY <1>4
  <2> HIDE DEF r, no
  <2> QED
    BY <1>1, <1>2, <2>2, <2>3, <2>4, FailsKeeps
<1>5. ASSUME Fails(q, Began(q, "lost"), "failure", FALSE, cool)
      PROVE  MediaInv'
  <2> DEFINE no == FALSE
             r == Began(q, "lost")
  <2>1. r \in Request /\ Quiet(r) /\ OneJob(r) /\ Open(r) /\ ~IsService(r.ask)
    BY <1>1, BeganFacts DEF JobStates, IsService
  <2>2. Fails(q, r, "failure", no, cool) /\ no \in BOOLEAN
    BY <1>5
  <2> HIDE DEF r, no
  <2> QED
    BY <1>1, <1>2, <2>1, <2>2, FailsKeeps
<1> QED
  BY <1>3, <1>4, <1>5 DEF Submits

LEMMA JobEndsKeeps ==
  ASSUME MediaInv, NEW q \in Slots, JobEnds(q)
  PROVE  MediaInv'
<1>1. PICK n \in DOMAIN req[q].jobs, state \in {"completed", "empty", "failed"} :
        /\ req[q].jobs[n].state = "running"
        /\ Set(q, [req[q] EXCEPT !.jobs[n].state = state])
        /\ UNCHANGED <<cool, used>>
  BY DEF JobEnds
<1> DEFINE J == [cand : Nat, state : JobStates]
           old == req[q].jobs
           job == [old[n] EXCEPT !.state = state]
           jobs == [old EXCEPT ![n] = job]
           r == [req[q] EXCEPT !.jobs = jobs]
<1>2. Sane(req[q]) /\ req[q] \in Request /\ OneJob(req[q])
  BY DEF MediaInv, Sane
<1>3. old \in Seq(J)
  BY <1>2 DEF Request, JobStates
<1> HIDE DEF J
<1>4. old[n] \in J
  BY <1>3
<1>5. job \in J /\ job.state = state
  BY <1>4 DEF J, JobStates
<1>6. Set(q, r)
  BY <1>1
<1> HIDE DEF job
<1>7. /\ jobs \in Seq(J) /\ Len(jobs) = Len(old) /\ DOMAIN jobs = DOMAIN old
      /\ \A m \in DOMAIN old : jobs[m] = IF m = n THEN job ELSE old[m]
      /\ (old # <<>> => jobs # <<>>)
  BY <1>3, <1>5
<1> HIDE DEF jobs
<1>8. /\ r \in Request /\ r.jobs = jobs
      /\ r.step = req[q].step /\ r.ask = req[q].ask /\ r.at = req[q].at
      /\ r.last = req[q].last /\ (r.empty <=> req[q].empty) /\ r.seen = req[q].seen
      /\ r.answer = req[q].answer
  BY <1>2, <1>7 DEF Request, J, JobStates
<1>9. (Quiet(req[q]) => Quiet(r)) /\ OneJob(r)
  <2>1. \A m \in DOMAIN jobs : jobs[m].state = "running" => old[m].state = "running"
    BY <1>1, <1>5, <1>7
  <2>2. r.jobs = jobs
    BY <1>8
  <2> HIDE DEF r
  <2> QED
    BY <1>2, <1>7, <2>1, <2>2 DEF Quiet, OneJob
<1> HIDE DEF r
<1>10. Sane(r)
  BY <1>2, <1>7, <1>8, <1>9 DEF Sane, Open, Heard
<1> QED
  BY <1>1, <1>6, <1>10, WalkKeeps DEF MediaInv, TypeOK, CoolTyped

LEMMA PollsKeeps ==
  ASSUME MediaInv, NEW q \in Slots, Polls(q)
  PROVE  MediaInv'
<1> DEFINE r == req[q]
<1>1. /\ Sane(r) /\ Open(r) /\ OneJob(r) /\ r \in Request
      /\ r.ask.cap = "video" /\ r.jobs # <<>> /\ ~IsService(r.ask) /\ r.step = "poll"
  BY DEF MediaInv, Polls, Sane, IsService
<1>2. cool \subseteq Providers \X ({"all"} \cup Models)
  BY DEF MediaInv, TypeOK
<1> DEFINE no == FALSE
           yes == TRUE
           state == r.jobs[Len(r.jobs)].state
<1>3. no \in BOOLEAN /\ yes \in BOOLEAN /\ yes
  OBVIOUS
<1>4. \/ r.polls = MaxPolls /\ Fails(q, r, "failure", yes, cool)
      \/ r.polls # MaxPolls /\ Set(q, Poll(q)) /\ UNCHANGED <<cool, used>>
      \/ state = "completed" /\ Succeeds(q, Leg(q, "url"))
      \/ state = "empty" /\ Fails(q, r, "failure", no, Clears(Here(q)))
      \/ state = "failed" /\ Fails(q, r, "failure", no, cool \cup Blocks(Here(q), "busy"))
  BY DEF Polls, TooLong
<1>5. state # "running" => Quiet(r)
  <2>1. r.jobs \in Seq([cand : Nat, state : JobStates])
    BY <1>1 DEF Request, JobStates
  <2>2. \A n \in DOMAIN r.jobs : n = Len(r.jobs) \/ n < Len(r.jobs)
    BY <2>1
  <2> QED
    BY <1>1, <2>2 DEF OneJob, Quiet
<1> HIDE DEF no, yes
<1>6. CASE r.polls = MaxPolls /\ Fails(q, r, "failure", yes, cool)
  BY <1>1, <1>2, <1>3, <1>6, FailsKeeps
<1>7. CASE r.polls # MaxPolls /\ Set(q, Poll(q)) /\ UNCHANGED <<cool, used>>
  <2> DEFINE n == r.polls + 1
             r2 == [r EXCEPT !.polls = n]
  <2>1. n \in 0..MaxPolls
    BY <1>1, <1>7, MediaAssumption DEF Request
  <2>2. Set(q, r2)
    BY <1>7 DEF Poll
  <2> HIDE DEF n
  <2>3. /\ r2 \in Request
        /\ r2.step = r.step /\ r2.ask = r.ask /\ r2.at = r.at /\ r2.last = r.last
        /\ (r2.empty <=> r.empty) /\ r2.seen = r.seen /\ r2.jobs = r.jobs
    BY <1>1, <2>1 DEF Request
  <2> HIDE DEF r2
  <2>4. Sane(r2)
    BY <1>1, <2>3 DEF Sane, Open, Heard, OneJob
  <2> QED
    BY <1>2, <1>7, <2>2, <2>4, WalkKeeps DEF CoolTyped
<1>8. CASE state = "completed" /\ Succeeds(q, Leg(q, "url"))
  <2> DEFINE leg == Leg(q, "url")
  <2>1. "url" \in Sayings /\ Useful(r.ask, "url")
    BY <1>1 DEF Sayings, Useful
  <2>2. leg \in Request /\ OneJob(leg)
    BY <1>1, <2>1, LegFacts DEF OneJob
  <2>3. Stands(leg.ask, leg.seen, "ok")
    BY <1>1, <2>1, LegStands
  <2> HIDE DEF leg
  <2> QED
    BY <1>1, <1>8, <2>2, <2>3, SucceedsKeeps DEF leg
<1>9. CASE state = "empty" /\ Fails(q, r, "failure", no, Clears(Here(q)))
  <2>1. Clears(Here(q)) \subseteq Providers \X ({"all"} \cup Models)
    BY <1>1, <1>2, BlocksTyped DEF CoolTyped
  <2> QED
    BY <1>1, <1>3, <1>5, <1>9, <2>1, FailsKeeps
<1>10. CASE state = "failed" /\ Fails(q, r, "failure", no, cool \cup Blocks(Here(q), "busy"))
  <2>1. cool \cup Blocks(Here(q), "busy") \subseteq Providers \X ({"all"} \cup Models)
    BY <1>1, <1>2, BlocksTyped DEF CoolTyped
  <2> QED
    BY <1>1, <1>3, <1>5, <1>10, <2>1, FailsKeeps
<1> QED
  BY <1>4, <1>6, <1>7, <1>8, <1>9, <1>10

\* A service's provider failed: the next one is asked, or the failure is told.
LEMMA NotFoundKeeps ==
  ASSUME MediaInv, NEW q \in Slots, Open(req[q]), Quiet(req[q]), NotFound(q)
  PROVE  MediaInv'
<1>1. Sane(req[q]) /\ req[q] \in Request
  BY DEF MediaInv, Sane
<1> DEFINE r == Leg(q, "failure")
<1>2. "failure" \in Sayings /\ ~Useful(req[q].ask, "failure")
  BY DEF Sayings, Useful
<1>3. r \in Request /\ Quiet(r) /\ Open(r)
  BY <1>1, <1>2, LegFacts, LegOpen DEF Quiet
<1>4. Set(q, Further(r, "failure"))
  BY DEF NotFound
<1> HIDE DEF r
<1>5. Sane(Further(r, "failure"))
  BY <1>3, FurtherSane
<1>6. CoolTyped'
  BY <1>1, HereType DEF NotFound, MediaInv, TypeOK, CoolTyped
<1> QED
  BY <1>4, <1>5, <1>6, WalkKeeps DEF NotFound

\* A service's provider answered, with something or with nothing.
LEMMA FoundKeeps ==
  ASSUME MediaInv, NEW q \in Slots, Open(req[q]), Quiet(req[q]), IsService(req[q].ask),
         NEW said \in {"hits", "text", "none"}, said # "none" => Useful(req[q].ask, said),
         Found(q, said)
  PROVE  MediaInv'
<1>1. Sane(req[q]) /\ req[q] \in Request /\ OneJob(req[q])
  BY DEF MediaInv, Sane
<1>2. said \in Sayings /\ ~Useful(req[q].ask, "none")
  BY DEF Sayings, Useful
<1>3. CoolTyped'
  BY <1>1, BlocksTyped DEF Found, MediaInv, TypeOK, CoolTyped
<1> DEFINE r == Leg(q, said)
<1>4. /\ r \in Request /\ Quiet(r) /\ OneJob(r) /\ r.ask = req[q].ask /\ r.at = req[q].at
      /\ r.last = req[q].last /\ Heard(r, said)
      /\ r.seen = req[q].seen \cup {[cand |-> req[q].at, said |-> said]}
  BY <1>1, <1>2, LegFacts DEF Quiet, OneJob
<1>5. CASE said = "none"
  <2> DEFINE yes == TRUE
             r2 == [r EXCEPT !.empty = yes]
  <2>1. Set(q, Further(r2, "none"))
    BY <1>5 DEF Found
  <2>2. yes \in BOOLEAN /\ yes
    OBVIOUS
  <2> HIDE DEF r, yes
  <2>3. /\ r2 \in Request /\ r2.ask = r.ask /\ r2.at = r.at /\ r2.last = r.last
        /\ r2.empty /\ r2.seen = r.seen /\ r2.jobs = r.jobs
    BY <1>4, <2>2 DEF Request
  <2> HIDE DEF r2
  <2>4. Quiet(r2) /\ Open(r2)
    <3>1. \A s \in r2.seen : ~Useful(r2.ask, s.said) /\ s.said # "400"
      BY <1>2, <1>4, <1>5, <2>3 DEF Open
    <3>2. Heard(r2, "none") /\ (r2.last = "404" => Heard(r2, "404"))
      BY <1>4, <1>5, <2>3 DEF Open, Heard
    <3> QED
      BY <1>4, <2>3, <3>1, <3>2 DEF Quiet, Open
  <2>5. Sane(Further(r2, "none"))
    BY <2>3, <2>4, FurtherSane
  <2> QED
    BY <1>3, <2>1, <2>5, WalkKeeps DEF Found
<1>6. CASE said # "none"
  <2>1. Set(q, Answered(r, "ok"))
    BY <1>6 DEF Found
  <2>2. Stands(r.ask, r.seen, "ok")
    BY <1>1, <1>2, <1>6, LegStands
  <2> HIDE DEF r
  <2>3. Sane(Answered(r, "ok"))
    BY <1>4, <2>2, AnsweredSane DEF Answers
  <2> QED
    BY <1>3, <2>1, <2>3, WalkKeeps DEF Found
<1> QED
  BY <1>5, <1>6

LEMMA ServiceKeeps ==
  ASSUME MediaInv, NEW q \in Slots, Searches(q) \/ FetchesPage(q)
  PROVE  MediaInv'
<1>1. Open(req[q]) /\ Quiet(req[q]) /\ IsService(req[q].ask)
  BY DEF MediaInv, Sane, Searches, FetchesPage, IsService
<1>2. CASE NotFound(q)
  BY <1>1, <1>2, NotFoundKeeps
<1>3. CASE Found(q, "hits") /\ req[q].ask.cap = "search"
  BY <1>1, <1>3, FoundKeeps DEF Useful
<1>4. CASE Found(q, "text") /\ req[q].ask.cap = "fetch"
  BY <1>1, <1>4, FoundKeeps DEF Useful
<1>5. CASE Found(q, "none")
  BY <1>1, <1>5, FoundKeeps
<1> QED
  BY <1>2, <1>3, <1>4, <1>5 DEF Searches, FetchesPage

LEMMA LeavesKeeps ==
  ASSUME MediaInv, NEW q \in Slots, Leaves(q)
  PROVE  MediaInv'
<1>1. Sane(req[q]) /\ req[q] \in Request /\ OneJob(req[q])
  BY DEF MediaInv, Sane
<1>2. Sane(Answered(req[q], "left"))
  BY <1>1, AnsweredSane DEF Answers, Stands
<1> QED
  BY <1>2, WalkKeeps DEF Leaves, MediaInv, TypeOK, CoolTyped

LEMMA InitInv == Init => MediaInv
<1> SUFFICES ASSUME Init PROVE MediaInv
  OBVIOUS
<1>1. Free \in Request /\ Free.step = "free" /\ Free.jobs = <<>>
  BY FreeType
<1>2. Sane(Free)
  BY <1>1 DEF Sane, Quiet, OneJob
<1> QED
  BY <1>1, <1>2 DEF Init, MediaInv, TypeOK

LEMMA NextInv == MediaInv /\ [Next]_vars => MediaInv'
<1> SUFFICES ASSUME MediaInv, [Next]_vars PROVE MediaInv'
  OBVIOUS
<1>1. ASSUME NEW q \in Slots, Begin(q) \/ Step(q) \/ JobEnds(q) \/ Leaves(q)
      PROVE  MediaInv'
  BY <1>1, BeginKeeps, GateKeeps, CountsKeeps, RefusedKeeps, ReadsKeeps, FetchesKeeps,
     SubmitsKeeps, PollsKeeps, ServiceKeeps, JobEndsKeeps, LeavesKeeps DEF Step
<1>2. CASE Expires
  BY <1>2 DEF Expires, MediaInv, TypeOK
<1>3. CASE UNCHANGED vars
  BY <1>3 DEF vars, MediaInv, TypeOK
<1> QED
  BY <1>1, <1>2, <1>3 DEF Next

LEMMA Invariance == Spec => []MediaInv
BY InitInv, NextInv, PTL DEF Spec

-----------------------------------------------------------------------------
(* What follows for every set of asks, chains, caps and slots. *)

\* Every request, block and count is of its type.
THEOREM MediaTyped == Spec => []TypeOK
<1>1. MediaInv => TypeOK
  BY DEF MediaInv
<1> QED
  BY <1>1, Invariance, PTL

\* media/mod.rs, run_chain, and search.rs: whatever the upstreams say, the client
\* is told "ok" when a candidate said what it can use and only then, that there
\* is nothing only when some service found nothing and none found anything, and
\* an upstream's own refusal only when one refused.
THEOREM AnswersStand == Spec => []AnswerStands
<1>1. MediaInv => AnswerStands
  BY DEF MediaInv, Sane, Stands, IsService, AnswerStands, Service
<1> QED
  BY <1>1, Invariance, PTL

\* video.rs: of the jobs of one request only the last one begun may still be known to run.
THEOREM NoJobIsDoubled == Spec => []NoSecondJob
<1>1. ASSUME MediaInv, NEW q \in Slots, NEW m \in DOMAIN req[q].jobs, NEW n \in DOMAIN req[q].jobs,
             m < n
      PROVE  req[q].jobs[m].state # "running"
  <2>1. req[q].jobs \in Seq([cand : Nat, state : JobStates])
    BY <1>1 DEF MediaInv, Sane, Request, JobStates
  <2>2. m < Len(req[q].jobs)
    BY <1>1, <2>1
  <2> QED
    BY <1>1, <2>2 DEF MediaInv, Sane, OneJob
<1>2. MediaInv => NoSecondJob
  BY <1>1 DEF NoSecondJob
<1> QED
  BY <1>2, Invariance, PTL

=============================================================================
