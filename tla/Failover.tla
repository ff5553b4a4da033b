------------------------------ MODULE Failover ------------------------------
(***************************************************************************)
(* The walk of a chat request along its chain of candidates (router.rs,    *)
(* handle_chat_inner): gates, attempts, what a failed attempt does to the  *)
(* shared cooldowns and to the request's own bookkeeping, the sleep before *)
(* a further walk, and the answer when every walk came up empty.  Several  *)
(* requests walk at once over one cooldown table; the half of the table    *)
(* kept on disk is Cooldowns' subject.                                     *)
(*                                                                         *)
(* What an upstream answers is a choice.  So is what the sliding windows   *)
(* say at a gate (rate, allowance, failure rate).                          *)
(***************************************************************************)
EXTENDS CooldownTable, Sequences

CONSTANTS
  Requests,       \* slots for requests in flight
  Cands,          \* candidates: a model at a provider
  KeyOf,          \* state_provider: the provider, or the provider's account
  BareOf,         \* the provider as the config names it
  ModelOf,        \* the candidate's model id
  WindowOf,       \* its context length
  Free,           \* candidates marked free
  Native,         \* candidates that speak the Anthropic protocol
  Disabled,       \* candidates of a disabled provider
  Toolless,       \* candidates known not to call tools
  Earlier,        \* blocks earlier requests may have left: <<key, entry, cause>>
  Routes,         \* candidate sequences a request may resolve to
  Sizes,          \* token estimates of requests
  Needs,          \* what requests declare: sets of "tools", "server tools"
  Gates,          \* window gates that may be shut
  Replies,        \* the failures upstreams produce
  RetryAfters,    \* Retry-After spans they send
  Reports,        \* what the headers of a success may report as spent
  QuotaSpans,     \* the blocks check_quota_exhaustion sets for a window used up
  MinuteSpan,     \* the one for a rate used up that names no reset
  HourSpan,       \* its longest, and that of an allowance that names no reset
  QuotaSpan,      \* span of a quota window or credits block
  HeadersSpan,    \* HEADERS_COOLDOWN
  RpmWait,        \* retry_wait's hint when a rate gate was shut
  MaxRetryWait,   \* MAX_RETRY_WAIT
  MaxRetries      \* MAX_RETRIES

\* A reason text is recognised as quota, is quota in words that are not
\* recognised (quota_window_cooldown's own "usage limit reported reached"
\* among them), or is about something else.
Causes == {"quota", "unread quota", "other"}

\* quota: the first window, or the rate, that is used up, reset: when that rate resets, 0
\* if it is not said; free, plan: the same of an allowance of TokenHarbor's, or NotSpent.
NotSpent == -1
Report == [quota : {"none", "5h", "week", "month", "rate"}, reset : Nat,
           free : Nat \cup {NotSpent}, plan : Nat \cup {NotSpent}]

ASSUME WalkAssumption ==
  /\ KeyOf \in [Cands -> Providers]
  /\ BareOf \in [Cands -> Providers]
  /\ ModelOf \in [Cands -> Models]
  /\ WindowOf \in [Cands -> Nat \ {0}]
  /\ Routes \subseteq Seq(Cands) \ {<<>>}
  /\ Earlier \subseteq Keys \X Entry \X Causes
  /\ Sizes \subseteq Nat
  /\ Needs \subseteq SUBSET {"tools", "server tools"}
  /\ RetryAfters \subseteq Nat \ {0}
  /\ Reports \subseteq Report
  /\ QuotaSpans \in [{"5h", "week", "month"} -> Nat]
  /\ {MinuteSpan, HourSpan, QuotaSpan, HeadersSpan, RpmWait, MaxRetryWait, MaxRetries} \subseteq Nat

VARIABLES
  cool,   \* State.cooldowns
  why,    \* how the reason text of an entry reads to is_quota_failure
  req     \* the locals of each request's handler

vars == <<cool, why, req>>

\* Skip reasons, as the request's history keeps them.
Kinds == {"passing", "context", "server tools", "held", "refused"}

Answers == {"none", "done", "fatal", "context 400", "server tools 400",
            "refusal", "upstream error", "overloaded"}

Phases == {"idle", "walking", "trying", "reading", "sleeping", "answered"}

Handler ==
  [pc : Phases, route : Routes \cup {<<>>}, size : Nat, needs : Needs \cup {{}},
   guarded : BOOLEAN,                 \* fallback_only_on_quota_exhaustion
   walk : 0..MaxRetries, at : Nat, timer : Nat,
   sawRpm : BOOLEAN, tooSmall : Nat, other : BOOLEAN, toolSkip : BOOLEAN,
   quotaOnly : BOOLEAN, lastRaw : BOOLEAN, refusals : Nat,
   answer : Answers,
   seen : SUBSET Kinds,               \* history: why candidates were passed over
   turn : SUBSET Kinds,               \* history: the same, in this walk
   unspent : BOOLEAN,                 \* history: some obstacle was not quota
   dead : SUBSET Cands]               \* history: answered that waiting is no use

Blank ==
  [pc |-> "idle", route |-> <<>>, size |-> 0, needs |-> {}, guarded |-> FALSE,
   walk |-> 0, at |-> 1, timer |-> 0,
   sawRpm |-> FALSE, tooSmall |-> 0, other |-> FALSE, toolSkip |-> FALSE,
   quotaOnly |-> TRUE, lastRaw |-> FALSE, refusals |-> 0, answer |-> "none",
   seen |-> {}, turn |-> {}, unspent |-> FALSE, dead |-> {}]

TypeOK ==
  /\ cool \in [Keys -> Slot]
  /\ why \in [Keys -> Causes]
  /\ req \in [Requests -> Handler]

Init ==
  /\ \E some \in {{}} \cup {{b} : b \in Earlier} :
       /\ cool = [k \in Keys |->
                    IF \E b \in some : b[1] = k THEN (CHOOSE b \in some : b[1] = k)[2]
                    ELSE NoEntry]
       /\ why = [k \in Keys |->
                   IF \E b \in some : b[1] = k THEN (CHOOSE b \in some : b[1] = k)[3]
                   ELSE "other"]
  /\ req = [r \in Requests |-> Blank]

Multi(q) == Len(q.route) > 1
Cand(q) == q.route[q.at]
OnRoute(q) == {q.route[i] : i \in DOMAIN q.route}
PairBlocked(c) == Blocked(cool, KeyOf[c], ModelOf[c])

-----------------------------------------------------------------------------
(* Arrival. *)

\* One candidate that would drop the declared server tools: an honest 400.
Unservable(route, needs) ==
  Len(route) = 1 /\ "server tools" \in needs /\ route[1] \notin Native

Arrive(r) ==
  /\ req[r].pc = "idle"
  /\ \E route \in Routes, size \in Sizes, needs \in Needs,
        guarded \in BOOLEAN :
       req' = [req EXCEPT ![r] =
                 [Blank EXCEPT
                    !.pc = IF Unservable(route, needs) THEN "answered" ELSE "walking",
                    !.answer = IF Unservable(route, needs) THEN "server tools 400"
                               ELSE "none",
                    !.seen = IF Unservable(route, needs) THEN {"server tools"} ELSE {},
                    !.route = route, !.size = size, !.needs = needs,
                    !.guarded = guarded]]
  /\ UNCHANGED <<cool, why>>

-----------------------------------------------------------------------------
(* The gates in front of an attempt. *)

\* Mutant: a refusal is not booked as an obstacle.
PassOver_RefusalForgotten(q, kind, isQuota, readsAsQuota) ==
  [q EXCEPT !.pc = "walking",
            !.at = @ + 1,
            !.other = @ \/ kind = "passing",
            !.quotaOnly = @ /\ readsAsQuota,
            !.seen = @ \cup {kind},
            !.turn = @ \cup {kind},
            !.unspent = @ \/ ~isQuota]

\* A candidate is passed over: the request's bookkeeping of the obstacle.
PassOver(q, kind, isQuota, readsAsQuota) ==
  [q EXCEPT !.pc = "walking",
            !.at = @ + 1,
            !.other = @ \/ kind \in {"passing", "refused"},
            !.quotaOnly = @ /\ readsAsQuota,
            !.seen = @ \cup {kind},
            !.turn = @ \cup {kind},
            !.unspent = @ \/ ~isQuota]

\* fallback_only_on_quota_exhaustion keeps the paid step back.
Held(q) == q.guarded /\ Cand(q) \notin Free /\ ~q.quotaOnly

TooSmall(q) == q.tooSmall > 0 /\ WindowOf[Cand(q)] <= q.tooSmall

\* Neither of the two touches other_failures or quota_only.
Overlook(r) ==
  LET q == req[r] IN
  /\ q.pc = "walking"
  /\ q.at <= Len(q.route)
  /\ \/ Held(q) /\ req' = [req EXCEPT ![r] = PassOver(q, "held", TRUE, TRUE)]
     \/ ~Held(q) /\ TooSmall(q)
        /\ req' = [req EXCEPT ![r] = PassOver(q, "context", TRUE, TRUE)]
  /\ UNCHANGED <<cool, why>>

\* The verdicts check_candidate may return, in its order of precedence.
Verdicts(q) ==
  LET c == Cand(q) IN
  IF c \in Disabled THEN {"disabled"}
  ELSE IF Multi(q) /\ "tools" \in q.needs /\ c \in Toolless THEN {"cannot tool-call"}
  ELSE IF Multi(q) /\ "server tools" \in q.needs /\ c \notin Native THEN {"server tools"}
  ELSE IF Multi(q) /\ PairBlocked(c) THEN {"cooldown"}
  ELSE (IF Multi(q) THEN Gates \cap {"failure rate"} ELSE {})
         \cup (IF q.size > WindowOf[c] THEN {"context"}
               ELSE {"open"} \cup (Gates \ {"failure rate"}))

\* cooldown() looks at the provider's entry first.
BlockCause(c) ==
  IF Active(cool[<<KeyOf[c], AnyModel>>]) THEN why[<<KeyOf[c], AnyModel>>]
  ELSE why[<<KeyOf[c], ModelOf[c]>>]

KindOf(v) == IF v \in {"context", "server tools"} THEN v ELSE "passing"

IsQuota(v, c) ==
  \/ v \in {"period limit", "total budget"}
  \/ v = "cooldown" /\ BlockCause(c) # "other"

\* Mutant: every cooldown reads as quota.
ReadsAsQuota_AnyCooldown(v, c) == v \in {"period limit", "cooldown"}

\* is_quota_failure(None, reason) finds a window word in "daily request limit"
\* but none in "total request budget exhausted".
ReadsAsQuota(v, c) ==
  \/ v = "period limit"
  \/ v = "cooldown" /\ BlockCause(c) = "quota"

Check(r) ==
  LET q == req[r] IN
  /\ q.pc = "walking"
  /\ q.at <= Len(q.route)
  /\ ~Held(q)
  /\ ~TooSmall(q)
  /\ \E v \in Verdicts(q) :
       IF v = "open"
       THEN req' = [req EXCEPT ![r].pc = "trying"]
       ELSE LET p == PassOver(q, KindOf(v), IsQuota(v, Cand(q)), ReadsAsQuota(v, Cand(q)))
            IN  req' = [req EXCEPT ![r] =
                          [p EXCEPT !.sawRpm = @ \/ v = "rate",
                                    !.toolSkip = @ \/ v = "server tools"]]
  /\ UNCHANGED <<cool, why>>

-----------------------------------------------------------------------------
(* What a failed attempt does. *)

NoHint == 0   \* no Retry-After; the header's own 0 is discarded

\* scope: which entry is written, if any.  span: its span without a hint,
\* NoHint for the ladder.  result: the variant of AttemptResult.
Fault == [
  local   |-> [scope |-> "none", span |-> NoHint, retryable |-> TRUE, cause |-> "other", result |-> "local"],
  network |-> [scope |-> "provider", span |-> NoHint, retryable |-> TRUE, cause |-> "other", result |-> "skip"],
  silent  |-> [scope |-> "provider", span |-> HeadersSpan, retryable |-> TRUE, cause |-> "other", result |-> "skip"],
  died    |-> [scope |-> "model", span |-> NoHint, retryable |-> TRUE, cause |-> "other", result |-> "skip"],
  rate    |-> [scope |-> "model", span |-> NoHint, retryable |-> TRUE, cause |-> "other", result |-> "raw"],
  window  |-> [scope |-> "provider", span |-> QuotaSpan, retryable |-> FALSE, cause |-> "quota", result |-> "raw"],
  credits |-> [scope |-> "provider", span |-> QuotaSpan, retryable |-> FALSE, cause |-> "unread quota", result |-> "raw"],
  payment |-> [scope |-> "provider", span |-> QuotaSpan, retryable |-> FALSE, cause |-> "quota", result |-> "raw"],
  auth    |-> [scope |-> "provider", span |-> NoHint, retryable |-> FALSE, cause |-> "other", result |-> "raw"],
  missing |-> [scope |-> "model", span |-> NoHint, retryable |-> FALSE, cause |-> "other", result |-> "raw"],
  context |-> [scope |-> "none", span |-> NoHint, retryable |-> TRUE, cause |-> "other", result |-> "context"],
  ruleSkip |-> [scope |-> "none", span |-> NoHint, retryable |-> TRUE, cause |-> "other", result |-> "skip"],
  ruleQuota |-> [scope |-> "none", span |-> NoHint, retryable |-> TRUE, cause |-> "quota", result |-> "skip"],
  ruleCool |-> [scope |-> "rule", span |-> NoHint, retryable |-> TRUE, cause |-> "other", result |-> "skip"],
  rulePass |-> [scope |-> "rule", span |-> NoHint, retryable |-> TRUE, cause |-> "other", result |-> "fatal"],
  bad     |-> [scope |-> "none", span |-> NoHint, retryable |-> TRUE, cause |-> "other", result |-> "fatal"]]

\* The replies that are an HTTP status, which alone carry a Retry-After, and
\* the ones a stream's error event can be classified as.
Statuses == {"rate", "window", "credits", "payment", "auth", "missing", "context",
             "ruleSkip", "ruleQuota", "ruleCool", "rulePass", "bad"}

\* One candidate: a 404 and a context error are the answer, not a skip, and a
\* stream waits for its headers as long as the request may take.
Passthrough(q, f) == ~Multi(q) /\ f \in {"missing", "context"}

FaultKey(c, scope) ==
  CASE scope = "provider" -> <<KeyOf[c], AnyModel>>
    [] scope = "model" -> <<KeyOf[c], ModelOf[c]>>
    [] scope = "rule" -> <<BareOf[c], ModelOf[c]>>

\* Mutant: no default for a missing Retry-After.
FaultEntry_NoLadder(k, fault, hint) ==
  SpanEntry(IF hint # NoHint THEN hint ELSE fault.span, fault.retryable)

FaultEntry(k, fault, hint) ==
  LET span == IF hint # NoHint THEN hint ELSE fault.span
  IN  IF span = NoHint THEN LadderEntry(cool[k], fault.retryable)
      ELSE SpanEntry(span, fault.retryable)

\* set_cooldown, for the replies that cool something.
CoolFor(c, fault, hint) ==
  IF fault.scope = "none"
  THEN UNCHANGED <<cool, why>>
  ELSE LET k == FaultKey(c, fault.scope)
       IN  /\ cool' = [cool EXCEPT ![k] = FaultEntry(k, fault, hint)]
           /\ why' = [why EXCEPT ![k] = fault.cause]

\* The match on AttemptResult after try_candidate.
AfterFault(q, f) ==
  LET fault == Fault[f]
      quota == fault.cause # "other"
      p == CASE fault.result \in {"skip", "local"} -> PassOver(q, "passing", quota, quota)
             [] fault.result = "raw" -> [PassOver(q, "passing", quota, quota) EXCEPT !.lastRaw = TRUE]
             [] fault.result = "context" ->
                  [PassOver(q, "context", FALSE, FALSE) EXCEPT
                     !.tooSmall = Larger(@, WindowOf[Cand(q)])]
             [] fault.result = "fatal" -> [q EXCEPT !.pc = "answered", !.answer = "fatal"]
  IN  IF ~fault.retryable THEN [p EXCEPT !.dead = @ \cup {Cand(q)}] ELSE p

Fail(r, f, hint) ==
  IF Passthrough(req[r], f)
  THEN /\ req' = [req EXCEPT ![r].pc = "answered", ![r].answer = "fatal"]
       /\ UNCHANGED <<cool, why>>
  ELSE /\ CoolFor(Cand(req[r]), Fault[f], hint)
       /\ req' = [req EXCEPT ![r] = AfterFault(req[r], f)]

\* No success status: prepare, send or the upstream's status failed.
AttemptFails(r) ==
  /\ req[r].pc = "trying"
  /\ \E f \in Replies \cap (DOMAIN Fault \ {"died"}), hint \in RetryAfters \cup {NoHint} :
       /\ f \notin Statuses => hint = NoHint
       /\ f = "silent" => Multi(req[r])
       /\ Fail(r, f, hint)

QuotaReport(h) ==
  CASE h.quota = "none" -> NotSpent
    [] h.quota = "rate" ->
         LET wait == IF h.reset = NoHint THEN MinuteSpan ELSE h.reset
         IN  IF wait <= HourSpan THEN wait ELSE HourSpan
    [] h.quota \in {"5h", "week", "month"} -> QuotaSpans[h.quota]

AllowanceReport(resets) == IF resets = NoHint THEN HourSpan ELSE resets

\* Each spent allowance sets the provider's block anew: the last one stands.
Reported(h) ==
  IF h.plan # NotSpent THEN AllowanceReport(h.plan)
  ELSE IF h.free # NotSpent THEN AllowanceReport(h.free)
  ELSE QuotaReport(h)

\* A success status clears both scopes before the body is read; headers that
\* report something spent cool the provider again after the clear.
Headers(r) ==
  LET c == Cand(req[r])
      whole == <<KeyOf[c], AnyModel>>
  IN
  /\ req[r].pc = "trying"
  /\ \E h \in Reports :
       LET spent == Reported(h) # NotSpent
       IN  /\ cool' = [k \in Keys |->
                         IF spent /\ k = whole THEN SpanEntry(Reported(h), FALSE)
                         ELSE IF k \in Scopes(KeyOf[c], ModelOf[c]) THEN NoEntry ELSE cool[k]]
           /\ why' = [why EXCEPT ![whole] = IF spent THEN "unread quota" ELSE "other",
                                 ![<<KeyOf[c], ModelOf[c]>>] = "other"]
  /\ req' = [req EXCEPT ![r].pc = "reading"]

Done(r) ==
  /\ req[r].pc = "reading"
  /\ req' = [req EXCEPT ![r].pc = "answered", ![r].answer = "done"]
  /\ UNCHANGED <<cool, why>>

\* A refusal is skipped by a walk and is the answer of a single candidate.
Refuse(r) ==
  LET q == req[r] IN
  /\ q.pc = "reading"
  /\ req' = [req EXCEPT ![r] =
               IF Multi(q)
               THEN [PassOver(q, "refused", FALSE, FALSE) EXCEPT !.refusals = @ + 1]
               ELSE [q EXCEPT !.pc = "answered", !.answer = "done"]]
  /\ UNCHANGED <<cool, why>>

\* The body breaks off, or its first event is an error.
BodyFails(r) ==
  /\ req[r].pc = "reading"
  /\ \E f \in Replies \cap (Statuses \cup {"died"}) : Fail(r, f, NoHint)

-----------------------------------------------------------------------------
(* The end of a walk. *)

\* soonest_recovery over the candidates, and the rate gate's own hint.
Waits(q) ==
  {Remaining(cool, KeyOf[c], ModelOf[c]) :
     c \in {d \in OnRoute(q) : Waitable(cool, KeyOf[d], ModelOf[d])}}
  \cup (IF q.sawRpm THEN {RpmWait} ELSE {})

Soonest(S) == CHOOSE w \in S : \A v \in S : w <= v

\* Mutant: the walks are not counted.
MayRetry_Uncounted(q) ==
  /\ Waits(q) # {}
  /\ Soonest(Waits(q)) <= MaxRetryWait

MayRetry(q) ==
  /\ q.walk < MaxRetries
  /\ Waits(q) # {}
  /\ Soonest(Waits(q)) <= MaxRetryWait

WalkEmpty(q) == q.pc = "walking" /\ q.at > Len(q.route)

Sleep(r) ==
  LET q == req[r] IN
  /\ WalkEmpty(q)
  /\ MayRetry(q)
  /\ req' = [req EXCEPT ![r].pc = "sleeping", ![r].timer = Soonest(Waits(q))]
  /\ UNCHANGED <<cool, why>>

\* Mutants: refusals add up over walks; no epsilon on the wait; a walk that
\* does not count as a retry.
Wake_KeepsRefusals(r) ==
  /\ req[r].pc = "sleeping"
  /\ req[r].timer = 0
  /\ req' = [req EXCEPT ![r] = [req[r] EXCEPT !.pc = "walking", !.at = 1, !.walk = @ + 1,
                                              !.sawRpm = FALSE, !.turn = {}]]
  /\ UNCHANGED <<cool, why>>

Wake_Early(r) ==
  /\ req[r].pc = "sleeping"
  /\ req[r].timer <= 1
  /\ req' = [req EXCEPT ![r] = [req[r] EXCEPT !.pc = "walking", !.at = 1, !.walk = @ + 1,
                                              !.refusals = 0, !.sawRpm = FALSE, !.turn = {}]]
  /\ UNCHANGED <<cool, why>>

Wake_Free(r) ==
  /\ req[r].pc = "sleeping"
  /\ req[r].timer = 0
  /\ req' = [req EXCEPT ![r] = [req[r] EXCEPT !.pc = "walking", !.at = 1,
                                              !.refusals = 0, !.sawRpm = FALSE, !.turn = {}]]
  /\ UNCHANGED <<cool, why>>

Wake(r) ==
  /\ req[r].pc = "sleeping"
  /\ req[r].timer = 0
  /\ req' = [req EXCEPT ![r] = [req[r] EXCEPT !.pc = "walking", !.at = 1, !.walk = @ + 1,
                                              !.refusals = 0, !.sawRpm = FALSE, !.turn = {}]]
  /\ UNCHANGED <<cool, why>>

\* The terminal ladder.
Terminal(q) ==
  IF q.tooSmall > 0 /\ ~q.other THEN "context 400"
  ELSE IF q.toolSkip /\ ~q.other THEN "server tools 400"
  ELSE IF q.refusals = Len(q.route) THEN "refusal"
  ELSE IF ~Multi(q) /\ q.lastRaw THEN "upstream error"
  ELSE "overloaded"

GiveUp(r) ==
  LET q == req[r] IN
  /\ WalkEmpty(q)
  /\ ~MayRetry(q)
  /\ req' = [req EXCEPT ![r].pc = "answered", ![r].answer = Terminal(q)]
  /\ UNCHANGED <<cool, why>>

-----------------------------------------------------------------------------

\* Gates are passed in no time: the clock counts while a request awaits an
\* upstream or sleeps.
Tick ==
  /\ \E r \in Requests : req[r].pc \in {"trying", "reading", "sleeping"}
  /\ \A r \in Requests : req[r].pc # "walking"
  /\ cool' = [k \in Keys |-> Aged(cool[k])]
  /\ req' = [r \in Requests |-> [req[r] EXCEPT !.timer = Larger(@ - 1, 0)]]
  /\ UNCHANGED why

Step(r) ==
  \/ Overlook(r)
  \/ Check(r)
  \/ AttemptFails(r)
  \/ Headers(r)
  \/ Done(r)
  \/ Refuse(r)
  \/ BodyFails(r)
  \/ Sleep(r)
  \/ Wake(r)
  \/ GiveUp(r)

Next ==
  \/ \E r \in Requests : Arrive(r) \/ Step(r)
  \/ Tick

\* A handler runs on; an upstream answers or times out; the clock goes on.
Fairness ==
  /\ \A r \in Requests : WF_vars(Step(r))
  /\ WF_vars(Tick)

Spec == Init /\ [][Next]_vars /\ Fairness

-----------------------------------------------------------------------------
(* Properties. *)

\* A 400 that tells the client not to retry is given only when no candidate,
\* in any walk, was passed over for something a retry might clear: "ANY
\* non-deterministic obstacle means the terminal error must stay retryable".
HonestBadRequest ==
  \A r \in Requests :
    req[r].answer \in {"context 400", "server tools 400"}
      => req[r].seen \cap {"passing", "refused"} = {}

\* A refusal is handed out only when every candidate of the last walk refused.
RefusalIsUnanimous ==
  \A r \in Requests : req[r].answer = "refusal" => req[r].turn = {"refused"}

\* A chain that falls back on quota exhaustion only never calls a paid
\* candidate after an obstacle of any other kind, in this walk or before.
PaidReserveKept ==
  \A r \in Requests :
    LET q == req[r] IN
    q.pc \in {"trying", "reading"} /\ q.guarded /\ Cand(q) \notin Free => ~q.unspent

\* A request never sleeps for nothing: when it wakes and no rate gate was
\* shut, some candidate of its route is not blocked.  (One request in flight:
\* another one may cool the candidate again meanwhile.)
RewalkNotFutile ==
  [][\A r \in Requests :
       Wake(r) /\ ~req[r].sawRpm => \E c \in OnRoute(req[r]) : ~PairBlocked(c)]_vars

\* Every request is answered, whatever the upstreams and the gates do.
Answered == \A r \in Requests : req[r].pc = "walking" ~> req[r].pc = "answered"

\* "Auth/credit failures and delisted models don't heal in seconds, so the
\* retry loop must not wait on them (or re-fire a dead key)" (router.rs:2352).
DeadKeyNotRefired ==
  \A r \in Requests : req[r].pc = "trying" => Cand(req[r]) \notin req[r].dead

\* "At 100% used the provider is cooled until the window actually rolls":
\* a provider-wide block no waiting fixes is neither lifted nor shortened.
QuotaBlockHolds ==
  [][\A p \in Providers :
       LET k == <<p, AnyModel>> IN
       Active(cool[k]) /\ ~cool[k].retryable => Left(cool'[k]) >= Left(cool[k]) - 1]_vars

\* "Only when context size or unservable server tools were the sole problem is
\* a 400 the honest answer": a 429 is given for an obstacle of another kind.
OverloadedIsRetryable ==
  \A r \in Requests :
    req[r].answer = "overloaded" => req[r].seen \cap {"passing", "refused"} # {}
=============================================================================
