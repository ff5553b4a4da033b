------------------------------ MODULE Counters ------------------------------
(***************************************************************************)
(* Who writes and who obeys the counters of UsageBooks:                    *)
(*  - a chat turn is let through by check_candidate and counted call by    *)
(*    call once an upstream has answered (router.rs);                      *)
(*  - a media request (media/mod.rs, run_chain) and a search or fetch      *)
(*    (media/search.rs) walk a chain of providers, each counted before its *)
(*    call goes out;                                                       *)
(*  - an embedding is counted and asks no limit (server.rs).               *)
(*                                                                         *)
(* Each reads a counter in one step and writes it in a later one, and any  *)
(* other request may come in between.  The cooldowns of the walks are a    *)
(* set of blocked scopes that may expire at any time: their spans are      *)
(* CooldownTable's subject.                                                *)
(***************************************************************************)
EXTENDS UsageBooks, FiniteSets, Sequences

CONSTANTS
  Requests,      \* slots for requests in flight
  Chat,          \* the state key of a chat provider
  MediaChain, ServiceChain,  \* state keys in the order they are walked
  Watched,       \* the walked provider whose limit WalkLimited speaks of
  DayCap, MonthCap, TotalCap, TokenCap,  \* limits; one that is not set is never met
  Legs,          \* upstream calls a turn may make beyond its first
  Reports,       \* token counts an upstream may report for a call
  MaxCalls,      \* bound of the model: requests let through
  MaxCuts        \* bound of the model: recordings that break off

Walked == {MediaChain[i] : i \in DOMAIN MediaChain}
          \cup {ServiceChain[i] : i \in DOMAIN ServiceChain}
StateKeys == {Chat} \cup Walked

ASSUME CountersAssumption ==
  /\ IsFiniteSet(Requests) /\ Requests # {}
  /\ MediaChain \in Seq(Walked) /\ ServiceChain \in Seq(Walked)
  /\ Chat \notin Walked /\ Watched \in Walked
  /\ DayCap \in [StateKeys -> Nat] /\ MonthCap \in [StateKeys -> Nat]
  /\ TotalCap \in Nat /\ TokenCap \in Nat
  /\ Legs \in Nat /\ MaxCalls \in Nat /\ MaxCuts \in Nat
  /\ Reports \subseteq Nat \ {0}

VARIABLES
  now,     \* the wall clock
  rows,    \* table usage
  stats,   \* table model_usage, all its rows together
  blocked, \* the cooldown pool of the walks: <<state key, scope>>
  req,     \* the requests in flight
  calls,   \* requests let through so far
  billed,  \* history: calls an upstream may have billed, by state key
  embeds,  \* history: embeddings in the row of the open day
  cut      \* history: recordings that wrote some of their rows only

vars == <<now, rows, stats, blocked, req, calls, billed, embeds, cut>>

Idle == [pc |-> "idle", chain |-> <<>>, at |-> 0, legs |-> 0]

Chains == {MediaChain, ServiceChain}

Phases == {"idle", "admitted", "streaming", "walking", "checked", "counted", "calling"}

TypeOK ==
  /\ now \in Instants
  /\ \A k \in DOMAIN rows : /\ k \in StateKeys \X Periods \X Int
                            /\ rows[k] \in Row
  /\ stats \in Row
  /\ blocked \subseteq Walked \X {"pool", "model"}
  /\ req \in [Requests -> [pc : Phases, chain : Chains \cup {<<>>}, at : Nat, legs : 0 .. Legs]]
  /\ \A r \in Requests :
       req[r].pc \in {"walking", "checked", "counted", "calling"}
         => req[r].at \in 1 .. Len(req[r].chain)
  /\ calls \in 0 .. MaxCalls
  /\ billed \in [StateKeys -> Nat]
  /\ embeds \in Nat
  /\ cut \in 0 .. MaxCuts

Init ==
  /\ now = Earliest
  /\ rows = NoRows
  /\ stats = Blank
  /\ blocked = {}
  /\ req = [r \in Requests |-> Idle]
  /\ calls = 0
  /\ billed = [k \in StateKeys |-> 0]
  /\ embeds = 0
  /\ cut = 0

\* One recording; breaking off after n < 3 rows stands for an error of the
\* database and for the end of the process alike.
Record(key, requests, tokens) ==
  \E n \in 0 .. 3 :
    /\ rows' = Recorded(rows, key, now, requests, tokens, n)
    /\ cut' = IF n < 3 THEN cut + 1 ELSE cut
    /\ cut' <= MaxCuts

Unwritten == UNCHANGED <<rows, cut>>

\* record_model_usage, which a failed recording of the windows does not stop.
Tally(requests, tokens) ==
  stats' = [requests |-> stats.requests + requests, tokens |-> stats.tokens + tokens]

-----------------------------------------------------------------------------
(* A chat turn. *)

\* Mutant: a limit is met once it is passed.
Spent_Passed(key) ==
  \/ Used(rows, key, "day", now).requests > DayCap[key]
  \/ Used(rows, key, "month", now).requests > MonthCap[key]
  \/ Used(rows, key, "day", now).tokens > TokenCap
  \/ Used(rows, key, "total", now).requests > TotalCap

\* The counters of check_candidate.
Spent(key) ==
  \/ Used(rows, key, "day", now).requests >= DayCap[key]
  \/ Used(rows, key, "month", now).requests >= MonthCap[key]
  \/ Used(rows, key, "day", now).tokens >= TokenCap
  \/ Used(rows, key, "total", now).requests >= TotalCap

Admit(r) ==
  /\ req[r].pc = "idle"
  /\ calls < MaxCalls
  /\ ~Spent(Chat)
  /\ req' = [req EXCEPT ![r].pc = "admitted", ![r].legs = Legs]
  /\ calls' = calls + 1
  /\ Unwritten
  /\ UNCHANGED <<now, stats, blocked, billed, embeds>>

\* record_request: a success status is counted, in the windows of this moment.
Answers(r) ==
  /\ req[r].pc = "admitted"
  /\ Record(Chat, 1, 0)
  /\ Tally(1, 0)
  /\ req' = [req EXCEPT ![r].pc = "streaming"]
  /\ UNCHANGED <<now, blocked, calls, billed, embeds>>

\* The attempt fails and is counted nowhere.
Fails(r) ==
  /\ req[r].pc = "admitted"
  /\ req' = [req EXCEPT ![r] = Idle]
  /\ Unwritten
  /\ UNCHANGED <<now, stats, blocked, calls, billed, embeds>>

\* A call of the turn after its first, a re-send or a continuation: it goes past
\* no gate and is counted as a request of its own.
MoreCalls(r) ==
  /\ req[r].pc = "streaming"
  /\ req[r].legs > 0
  /\ Record(Chat, 1, 0)
  /\ Tally(1, 0)
  /\ req' = [req EXCEPT ![r].legs = @ - 1]
  /\ UNCHANGED <<now, blocked, calls, billed, embeds>>

\* record_tokens at the end of the turn; nothing is written for no tokens.
Ends(r) ==
  /\ req[r].pc = "streaming"
  /\ \/ Unwritten /\ UNCHANGED stats
     \/ \E tokens \in Reports : Record(Chat, 0, tokens) /\ Tally(0, tokens)
  /\ req' = [req EXCEPT ![r] = Idle]
  /\ UNCHANGED <<now, blocked, calls, billed, embeds>>

\* record_embedding_usage: a request with its tokens, and no row of model_usage.
Embedding ==
  /\ calls < MaxCalls
  /\ calls' = calls + 1
  /\ \E tokens \in Reports \cup {0} : Record(Chat, 1, tokens)
  /\ embeds' = embeds + Used(rows', Chat, "day", now).requests
                     - Used(rows, Chat, "day", now).requests
  /\ UNCHANGED <<now, stats, blocked, req, billed>>

-----------------------------------------------------------------------------
(* A walk of media providers, or of search providers. *)

Here(r) == req[r].chain[req[r].at]

\* Mutant: the walk is over one candidate too late.
Onward_PastEnd(r) ==
  IF req[r].at <= Len(req[r].chain)
  THEN [req EXCEPT ![r].pc = "walking", ![r].at = @ + 1]
  ELSE [req EXCEPT ![r] = Idle]

\* The next candidate; behind the last one the walk answers.
Onward(r) ==
  IF req[r].at < Len(req[r].chain)
  THEN [req EXCEPT ![r].pc = "walking", ![r].at = @ + 1]
  ELSE [req EXCEPT ![r] = Idle]

Walk(r) ==
  /\ req[r].pc = "idle"
  /\ calls < MaxCalls
  /\ calls' = calls + 1
  /\ \E c \in Chains : /\ c # <<>>
                       /\ req' = [req EXCEPT ![r].pc = "walking", ![r].chain = c, ![r].at = 1]
  /\ Unwritten
  /\ UNCHANGED <<now, stats, blocked, billed, embeds>>

\* Mutant: a cap is met once it is passed.
Exhausted_Passed(r) == Used(rows, Here(r), "day", now).requests > DayCap[Here(r)]

\* A media chain reads the day's cap only, a service both.
Exhausted(r) ==
  \/ Used(rows, Here(r), "day", now).requests >= DayCap[Here(r)]
  \/ /\ req[r].chain = ServiceChain
     /\ Used(rows, Here(r), "month", now).requests >= MonthCap[Here(r)]

Gated(r) == (\E s \in {"pool", "model"} : <<Here(r), s>> \in blocked) \/ Exhausted(r)

\* preflight up to record, and service_ready.
Check(r) ==
  /\ req[r].pc = "walking"
  /\ req' = IF Gated(r) THEN Onward(r) ELSE [req EXCEPT ![r].pc = "checked"]
  /\ Unwritten
  /\ UNCHANGED <<now, stats, blocked, calls, billed, embeds>>

\* Mutant: the count is left to what a good answer says it cost.
Book_OnSuccess(r) ==
  /\ req[r].pc = "checked"
  /\ req' = [req EXCEPT ![r].pc = "counted"]
  /\ Unwritten
  /\ UNCHANGED <<now, stats, blocked, calls, billed, embeds>>

\* record, before the call goes out.
Book(r) ==
  /\ req[r].pc = "checked"
  /\ Record(Here(r), 1, 0)
  /\ req' = [req EXCEPT ![r].pc = "counted"]
  /\ UNCHANGED <<now, stats, blocked, calls, billed, embeds>>

\* No key or no address to call: the next candidate.  A service cools its provider
\* for that too.
CannotCall(r) ==
  /\ req[r].pc = "counted"
  /\ req' = Onward(r)
  /\ blocked' = IF req[r].chain = ServiceChain THEN blocked \cup {<<Here(r), "pool">>}
                ELSE blocked
  /\ Unwritten
  /\ UNCHANGED <<now, stats, calls, billed, embeds>>

Call(r) ==
  /\ req[r].pc = "counted"
  /\ req' = [req EXCEPT ![r].pc = "calling"]
  /\ billed' = [billed EXCEPT ![Here(r)] = @ + 1]
  /\ Unwritten
  /\ UNCHANGED <<now, stats, blocked, calls, embeds>>

\* A good answer lifts both scopes; add_units counts what it says it cost.  A body
\* that cannot be used after all, and a search with no hits, walk on.
Succeeds(r) ==
  /\ req[r].pc = "calling"
  /\ blocked' = blocked \ ({Here(r)} \X {"pool", "model"})
  /\ \/ Unwritten
     \/ /\ req[r].chain = MediaChain
        /\ \E units \in Reports : Record(Here(r), 0, units)
  /\ req' \in {Onward(r), [req EXCEPT ![r] = Idle]}
  /\ UNCHANGED <<now, stats, calls, billed, embeds>>

\* A failure of the provider: cool_on_failure and network_failure cool the pool or
\* the model, a service always the pool, a body that is no answer nothing.
FailsOver(r) ==
  /\ req[r].pc = "calling"
  /\ IF req[r].chain = ServiceChain THEN blocked' = blocked \cup {<<Here(r), "pool">>}
     ELSE blocked' \in {blocked \cup {<<Here(r), "pool">>},
                        blocked \cup {<<Here(r), "model">>}, blocked}
  /\ req' = Onward(r)
  /\ Unwritten
  /\ UNCHANGED <<now, stats, calls, billed, embeds>>

\* The caller's fault ends the walk, but for a 404 in a chain of several, which
\* cools the model and walks on.
Fatal(r) ==
  /\ req[r].pc = "calling"
  /\ req[r].chain = MediaChain
  /\ \/ UNCHANGED blocked /\ req' = [req EXCEPT ![r] = Idle]
     \/ /\ Len(MediaChain) > 1
        /\ blocked' = blocked \cup {<<Here(r), "model">>}
        /\ req' = Onward(r)
  /\ Unwritten
  /\ UNCHANGED <<now, stats, calls, billed, embeds>>

-----------------------------------------------------------------------------

Expire ==
  /\ \E b \in blocked : blocked' = blocked \ {b}
  /\ Unwritten
  /\ UNCHANGED <<now, stats, req, calls, billed, embeds>>

Tick ==
  /\ now < Latest
  /\ now' = now + 1
  /\ embeds' = IF DayStart(now') = DayStart(now) THEN embeds ELSE 0
  /\ Unwritten
  /\ UNCHANGED <<stats, blocked, req, calls, billed>>

\* The client leaves, or the process ends and starts again: rows and cooldowns stay.
Drops(r) ==
  /\ req[r].pc # "idle"
  /\ req' = [req EXCEPT ![r] = Idle]
  /\ Unwritten
  /\ UNCHANGED <<now, stats, blocked, calls, billed, embeds>>

Next ==
  \/ \E r \in Requests :
       \/ Admit(r)
       \/ Answers(r)
       \/ Fails(r)
       \/ MoreCalls(r)
       \/ Ends(r)
       \/ Walk(r)
       \/ Check(r)
       \/ Book(r)
       \/ CannotCall(r)
       \/ Call(r)
       \/ Succeeds(r)
       \/ FailsOver(r)
       \/ Fatal(r)
       \/ Drops(r)
  \/ Embedding
  \/ Expire
  \/ Tick

Spec == Init /\ [][Next]_vars

-----------------------------------------------------------------------------
(* Properties. *)

\* current_windows: the open windows are those of the last reset, and of the last
\* reset on a first of a month, at or before now (usage.rs).
WindowsAreCurrent ==
  /\ DayStart(now) \in {ResetAt[d] : d \in Days}
  /\ DayStart(now) <= now
  /\ \A d \in Days : ResetAt[d] <= now => ResetAt[d] <= DayStart(now)
  /\ MonthStart(now) \in {ResetAt[f] : f \in Firsts}
  /\ MonthStart(now) <= now
  /\ \A f \in Firsts : ResetAt[f] <= now => ResetAt[f] <= MonthStart(now)

\* A sum as a set: the units a count has in the rows of a key and a period.
Units(count, key, p) ==
  UNION {{k} \X (1 .. count[k]) : k \in {k \in DOMAIN count : k[1] = key /\ k[2] = p}}

RequestsIn(book) == [k \in DOMAIN book |-> book[k].requests]

TokensIn(book) == [k \in DOMAIN book |-> book[k].tokens]

Total(key, p) == Cardinality(Units(RequestsIn(rows), key, p))

TotalTokens(key, p) == Cardinality(Units(TokensIn(rows), key, p))

\* The three statements of a recording have no transaction: what breaks off leaves
\* the day counted and the total short, never the other way round, and only by as
\* much as broke off.
BooksNest ==
  \A key \in StateKeys :
    /\ Total(key, "total") <= Total(key, "month")
    /\ Total(key, "month") <= Total(key, "day")
    /\ Total(key, "day") <= Total(key, "total") + cut
    /\ TotalTokens(key, "total") <= TotalTokens(key, "month")
    /\ TotalTokens(key, "month") <= TotalTokens(key, "day")

\* "A billed-but-lost response must not escape the cap" (media/mod.rs:260-262): every
\* call that went out on a walk is in the books of its provider, whatever became of it.
BilledIsCounted ==
  \A key \in Walked : billed[key] <= Total(key, "day") + cut

\* The daily limit of a provider, as Limiter has it: the turns in flight owe a
\* request for each call they may still make, the walks one until it is counted.
Owes(r, key) ==
  IF key = Chat
  THEN (IF req[r].pc = "admitted" THEN 1 ELSE 0)
       + (IF req[r].pc \in {"admitted", "streaming"} THEN req[r].legs ELSE 0)
  ELSE IF req[r].pc = "checked" /\ Here(r) = key THEN 1 ELSE 0

Owed(key) == UNION {{r} \X (1 .. Owes(r, key)) : r \in Requests}

ChatDay == INSTANCE Limiter WITH
  Slots <- Requests, Most <- 1 + Legs, Cap <- DayCap[Chat],
  span <- DayStart(now), marks <- Used(rows, Chat, "day", now).requests,
  due <- Owed(Chat), waved <- embeds

\* The limit of chat turns is the limiter's, with all the calls of a turn behind one gate.
ChatLimited == ChatDay!LimiterSpec

WalkDay == INSTANCE Limiter WITH
  Slots <- Requests, Most <- 1, Cap <- DayCap[Watched],
  span <- DayStart(now), marks <- Used(rows, Watched, "day", now).requests,
  due <- Owed(Watched), waved <- 0

\* The cap of a walk is the limiter's with one call a request: the walks that read
\* the cap together pass it together (media/mod.rs:268), and nothing else does.
WalkLimited == WalkDay!LimiterSpec
=============================================================================
