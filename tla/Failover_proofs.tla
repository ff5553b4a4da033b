-------------------------- MODULE Failover_proofs --------------------------
(***************************************************************************)
(* Proofs about a walk: how it fares (Failover), for every number of       *)
(* requests, every chain and every setting of windows, waits and retries;  *)
(* and what it is made of (Affinity), for any configurations the file may  *)
(* come to hold and any pins and bindings.                                 *)
(***************************************************************************)
EXTENDS Failover, Affinity, TLAPS, WellFoundedInduction

-----------------------------------------------------------------------------
(* The invariant of one request. *)

\* The position is on the route, and a request that sleeps has a walk left.
Placed(q) ==
  /\ q.pc # "idle" => q.route \in Routes
  /\ q.pc = "walking" => q.at \in 1 .. Len(q.route) + 1
  /\ q.pc \in {"trying", "reading"} => q.at \in 1 .. Len(q.route)
  /\ q.pc = "sleeping" => q.walk < MaxRetries

\* An obstacle a retry might clear is remembered over all walks.
Remembers(q) ==
  /\ q.seen \cap {"passing", "refused"} # {} => q.other
  /\ q.answer \in {"context 400", "server tools 400"} => q.pc = "answered" /\ ~q.other

\* Refusals are counted in this walk, where every candidate before the
\* position was passed over for something.
Counts(q) ==
  /\ q.pc \in {"walking", "trying", "reading"} =>
       /\ q.refusals <= q.at - 1
       /\ q.refusals = q.at - 1 => q.turn \subseteq {"refused"}
       /\ q.at > 1 => q.turn # {}
  /\ q.answer = "refusal" => q.pc = "answered" /\ q.turn = {"refused"}

\* What the code takes for quota is quota, and a paid candidate is only called
\* while nothing else was met.
Reserves(q) ==
  /\ q.quotaOnly => ~q.unspent
  /\ q.pc \in {"trying", "reading"} /\ q.guarded /\ Cand(q) \notin Free => q.quotaOnly

Sane(q) == q \in Handler /\ Placed(q) /\ Remembers(q) /\ Counts(q) /\ Reserves(q)

RequestsInv == \A r \in Requests : Sane(req[r])
\* The fields Sane speaks of beyond the type.
Alike(p, q) ==
  /\ p.pc = q.pc
  /\ p.route = q.route
  /\ p.at = q.at
  /\ p.walk = q.walk
  /\ p.guarded = q.guarded
  /\ p.seen = q.seen
  /\ p.turn = q.turn
  /\ p.other = q.other
  /\ p.quotaOnly = q.quotaOnly
  /\ p.unspent = q.unspent
  /\ p.refusals = q.refusals
  /\ p.answer = q.answer

LEMMA AlikeIsSane ==
  ASSUME NEW q, NEW p, Sane(q), p \in Handler, Alike(p, q)
  PROVE  Sane(p)
<1>1. Placed(p)
  BY DEF Sane, Placed, Alike
<1>2. Remembers(p)
  BY DEF Sane, Remembers, Alike
<1>3. Counts(p)
  BY DEF Sane, Counts, Alike
<1>4. Reserves(p)
  BY DEF Sane, Reserves, Alike, Cand
<1> QED
  BY <1>1, <1>2, <1>3, <1>4 DEF Sane

\* A route is a sequence of one candidate or more.
LEMMA RouteFacts ==
  ASSUME NEW route \in Routes
  PROVE  /\ route \in Seq(Cands)
         /\ Len(route) \in Nat \ {0}
         /\ \A i \in 1 .. Len(route) : route[i] \in Cands
<1>1. route \in Seq(Cands) /\ route # <<>>
  BY WalkAssumption
<1> QED
  BY <1>1

\* Where an attempt or a gate is, there is a candidate.
LEMMA CandType ==
  ASSUME NEW q \in Handler, Placed(q),
         \/ q.pc \in {"trying", "reading"}
         \/ q.pc = "walking" /\ q.at <= Len(q.route)
  PROVE  /\ Cand(q) \in Cands
         /\ q.route \in Routes
         /\ q.at \in 1 .. Len(q.route)
<1>1. q.route \in Routes
  BY DEF Placed
<1>2. Len(q.route) \in Nat
  BY <1>1, RouteFacts
<1>3. q.at \in 1 .. Len(q.route)
  BY <1>2 DEF Placed
<1> QED
  BY <1>1, <1>3, RouteFacts DEF Cand

LEMMA PassOverFacts ==
  ASSUME NEW q \in Handler, NEW k \in Kinds, NEW isQuota \in BOOLEAN, NEW reads \in BOOLEAN
  PROVE  /\ PassOver(q, k, isQuota, reads) \in Handler
         /\ PassOver(q, k, isQuota, reads).pc = "walking"
         /\ PassOver(q, k, isQuota, reads).at = q.at + 1
         /\ PassOver(q, k, isQuota, reads).route = q.route
         /\ PassOver(q, k, isQuota, reads).walk = q.walk
         /\ PassOver(q, k, isQuota, reads).guarded = q.guarded
         /\ PassOver(q, k, isQuota, reads).refusals = q.refusals
         /\ PassOver(q, k, isQuota, reads).answer = q.answer
         /\ PassOver(q, k, isQuota, reads).seen = q.seen \cup {k}
         /\ PassOver(q, k, isQuota, reads).turn = q.turn \cup {k}
         /\ PassOver(q, k, isQuota, reads).other <=> (q.other \/ k \in {"passing", "refused"})
         /\ PassOver(q, k, isQuota, reads).quotaOnly <=> (q.quotaOnly /\ reads)
         /\ PassOver(q, k, isQuota, reads).unspent <=> (q.unspent \/ ~isQuota)
         /\ PassOver(q, k, isQuota, reads).tooSmall = q.tooSmall
         /\ PassOver(q, k, isQuota, reads).dead = q.dead
<1> DEFINE p == PassOver(q, k, isQuota, reads)
           other == q.other \/ k \in {"passing", "refused"}
           only == q.quotaOnly /\ reads
           unspent == q.unspent \/ ~isQuota
           seen == q.seen \cup {k}
           turn == q.turn \cup {k}
           at == q.at + 1
<1>1. p = [q EXCEPT !.pc = "walking", !.at = at, !.other = other, !.quotaOnly = only,
                    !.seen = seen, !.turn = turn, !.unspent = unspent]
  BY DEF PassOver
<1>2. /\ other \in BOOLEAN /\ only \in BOOLEAN /\ unspent \in BOOLEAN
      /\ seen \in SUBSET Kinds /\ turn \in SUBSET Kinds /\ at \in Nat
      /\ "walking" \in Phases
  BY DEF Handler, Phases
<1> HIDE DEF p, other, only, unspent, seen, turn, at
<1>3. p \in Handler
  <2> DEFINE a == [q EXCEPT !.pc = "walking", !.at = at, !.seen = seen, !.turn = turn]
             b == [a EXCEPT !.other = other]
             c == [b EXCEPT !.quotaOnly = only]
  <2>1. a \in Handler
    BY <1>2 DEF Handler
  <2>2. p = [c EXCEPT !.unspent = unspent]
    BY <1>1 DEF Handler
  <2> HIDE DEF a
  <2>3. b \in Handler
    BY <1>2, <2>1 DEF Handler
  <2> HIDE DEF b
  <2>4. c \in Handler
    BY <1>2, <2>3 DEF Handler
  <2> HIDE DEF c
  <2> QED
    BY <1>2, <2>2, <2>4 DEF Handler
<1>4. /\ p.pc = "walking"
      /\ p.at = at
      /\ p.route = q.route
      /\ p.walk = q.walk
      /\ p.guarded = q.guarded
  BY <1>1 DEF Handler
<1>5. /\ p.refusals = q.refusals
      /\ p.answer = q.answer
      /\ p.tooSmall = q.tooSmall
      /\ p.dead = q.dead
  BY <1>1 DEF Handler
<1>6. /\ p.seen = seen
      /\ p.turn = turn
  BY <1>1 DEF Handler
<1>7. /\ p.other = other
      /\ p.quotaOnly = only
      /\ p.unspent = unspent
  BY <1>1 DEF Handler
<1> QED
  BY <1>3, <1>4, <1>5, <1>6, <1>7 DEF p, other, only, unspent, seen, turn, at

\* A request that has a candidate before it.
Facing(q) ==
  \/ q.pc \in {"trying", "reading"}
  \/ q.pc = "walking" /\ q.at <= Len(q.route)

\* A candidate is passed over for anything but a refusal.
LEMMA PassOverIsSane ==
  ASSUME NEW q, Sane(q), Facing(q), NEW k \in Kinds \ {"refused"},
         NEW isQuota \in BOOLEAN, NEW reads \in BOOLEAN, reads => isQuota
  PROVE  Sane(PassOver(q, k, isQuota, reads))
<1> DEFINE p == PassOver(q, k, isQuota, reads)
<1>1. q \in Handler /\ q.at \in 1 .. Len(q.route) /\ q.route \in Routes /\ Len(q.route) \in Nat
  BY CandType, RouteFacts DEF Sane, Facing
<1>2. /\ p \in Handler
      /\ p.pc = "walking"
      /\ p.at = q.at + 1
      /\ p.route = q.route
      /\ p.walk = q.walk
      /\ p.guarded = q.guarded
      /\ p.refusals = q.refusals
      /\ p.answer = q.answer
      /\ p.seen = q.seen \cup {k}
      /\ p.turn = q.turn \cup {k}
      /\ p.other <=> (q.other \/ k \in {"passing", "refused"})
      /\ p.quotaOnly <=> (q.quotaOnly /\ reads)
      /\ p.unspent <=> (q.unspent \/ ~isQuota)
  BY <1>1, PassOverFacts
<1> HIDE DEF p
<1>3. Placed(p)
  BY <1>1, <1>2 DEF Placed
<1>4. Remembers(p)
  <2>1. p.seen \cap {"passing", "refused"} # {} => p.other
    BY <1>2 DEF Sane, Remembers
  <2>2. q.pc # "answered"
    BY DEF Facing
  <2> QED
    BY <1>2, <2>1, <2>2 DEF Sane, Remembers
<1>5. Counts(p)
  <2>1. q.refusals <= q.at - 1 /\ q.refusals \in Nat /\ q.at \in Nat
    BY <1>1 DEF Sane, Counts, Facing, Handler
  <2>2. q.answer # "refusal"
    BY DEF Sane, Counts, Facing
  <2> QED
    BY <1>2, <2>1, <2>2 DEF Counts
<1>6. Reserves(p)
  BY <1>2 DEF Sane, Reserves
<1> QED
  BY <1>2, <1>3, <1>4, <1>5, <1>6 DEF Sane, p

\* A refusal counts, and so do the ones before it in the walk.
LEMMA RefusalIsSane ==
  ASSUME NEW q, Sane(q), q.pc = "reading"
  PROVE  Sane([PassOver(q, "refused", FALSE, FALSE) EXCEPT !.refusals = @ + 1])
<1> DEFINE no == FALSE
           p == PassOver(q, "refused", no, no)
           r == [p EXCEPT !.refusals = @ + 1]
<1>1. q \in Handler /\ q.at \in 1 .. Len(q.route) /\ q.route \in Routes /\ Len(q.route) \in Nat
  BY CandType, RouteFacts DEF Sane
<1>2. "refused" \in Kinds /\ no \in BOOLEAN /\ ~no
  BY DEF Kinds
<1> HIDE DEF no
<1>3. /\ p \in Handler
      /\ p.pc = "walking"
      /\ p.at = q.at + 1
      /\ p.route = q.route
      /\ p.walk = q.walk
      /\ p.guarded = q.guarded
      /\ p.refusals = q.refusals
      /\ p.answer = q.answer
      /\ p.turn = q.turn \cup {"refused"}
      /\ p.other
      /\ ~p.quotaOnly
  BY <1>1, <1>2, PassOverFacts
<1> HIDE DEF p
<1>4. p.refusals + 1 \in Nat
  BY <1>3 DEF Handler
<1>5. r \in Handler
  BY <1>3, <1>4 DEF Handler
<1>6. /\ r.pc = p.pc
      /\ r.at = p.at
      /\ r.route = p.route
      /\ r.walk = p.walk
      /\ r.answer = p.answer
      /\ r.turn = p.turn
      /\ r.refusals = p.refusals + 1
  BY <1>3 DEF Handler
<1>7. r.other = p.other /\ r.quotaOnly = p.quotaOnly
  BY <1>3 DEF Handler
<1> HIDE DEF r
<1>8. Placed(r)
  BY <1>1, <1>3, <1>6 DEF Placed
<1>9. Remembers(r)
  BY <1>3, <1>6, <1>7 DEF Sane, Remembers
<1>10. Counts(r)
  <2>1. /\ q.refusals <= q.at - 1 /\ q.refusals \in Nat /\ q.at \in Nat
        /\ q.refusals = q.at - 1 => q.turn \subseteq {"refused"}
        /\ q.answer # "refusal"
    BY <1>1 DEF Sane, Counts, Handler
  <2> QED
    BY <1>3, <1>6, <2>1 DEF Counts
<1>11. Reserves(r)
  BY <1>3, <1>6, <1>7 DEF Reserves
<1> QED
  BY <1>5, <1>8, <1>9, <1>10, <1>11 DEF Sane, p, r, no

\* An answer is given for what the request has met.
LEMMA AnswerIsSane ==
  ASSUME NEW q, Sane(q), q.pc # "idle", NEW a \in Answers,
         a \in {"context 400", "server tools 400"} => ~q.other,
         a = "refusal" => q.turn = {"refused"}
  PROVE  Sane([q EXCEPT !.pc = "answered", !.answer = a])
<1> DEFINE p == [q EXCEPT !.pc = "answered", !.answer = a]
<1>1. q \in Handler /\ "answered" \in Phases
  BY DEF Sane, Phases
<1>2. p \in Handler
  BY <1>1 DEF Handler
<1>3. /\ p.pc = "answered"
      /\ p.answer = a
      /\ p.route = q.route
      /\ p.seen = q.seen
      /\ p.turn = q.turn
  BY <1>1 DEF Handler
<1>4. /\ p.other = q.other
      /\ p.quotaOnly = q.quotaOnly
      /\ p.unspent = q.unspent
  BY <1>1 DEF Handler
<1> HIDE DEF p
<1>5. Placed(p)
  BY <1>3 DEF Sane, Placed
<1>6. Remembers(p)
  BY <1>3, <1>4 DEF Sane, Remembers
<1>7. Counts(p)
  BY <1>3 DEF Counts
<1>8. Reserves(p)
  BY <1>3, <1>4 DEF Sane, Reserves
<1> QED
  BY <1>2, <1>5, <1>6, <1>7, <1>8 DEF Sane, p

\* The phase alone moves on.
LEMMA MoveIsSane ==
  ASSUME NEW q, Sane(q), NEW pc,
         \/ q.pc = "walking" /\ q.at <= Len(q.route) /\ ~Held(q) /\ pc = "trying"
         \/ q.pc = "trying" /\ pc = "reading"
  PROVE  Sane([q EXCEPT !.pc = pc])
<1> DEFINE p == [q EXCEPT !.pc = pc]
<1>1. q \in Handler /\ pc \in Phases /\ q.at \in 1 .. Len(q.route)
  BY CandType DEF Sane, Phases
<1>2. p \in Handler
  BY <1>1 DEF Handler
<1>3. /\ p.pc = pc
      /\ p.route = q.route
      /\ p.at = q.at
      /\ p.answer = q.answer
      /\ p.seen = q.seen
      /\ p.turn = q.turn
      /\ p.refusals = q.refusals
  BY <1>1 DEF Handler
<1>4. /\ p.other = q.other
      /\ p.quotaOnly = q.quotaOnly
      /\ p.unspent = q.unspent
      /\ p.guarded = q.guarded
  BY <1>1 DEF Handler
<1> HIDE DEF p
<1>5. Placed(p)
  BY <1>1, <1>3 DEF Sane, Placed
<1>6. Remembers(p)
  BY <1>3, <1>4 DEF Sane, Remembers
<1>7. Counts(p)
  BY <1>3 DEF Sane, Counts
<1>8. Reserves(p)
  BY <1>3, <1>4 DEF Sane, Reserves, Held, Cand
<1> QED
  BY <1>2, <1>5, <1>6, <1>7, <1>8 DEF Sane, p

\* A new request has met nothing.
LEMMA ArrivalIsSane ==
  ASSUME NEW route \in Routes, NEW size \in Sizes, NEW needs \in Needs,
         NEW guarded \in BOOLEAN
  PROVE  Sane([Blank EXCEPT
                 !.pc = IF Unservable(route, needs) THEN "answered" ELSE "walking",
                 !.answer = IF Unservable(route, needs) THEN "server tools 400"
                            ELSE "none",
                 !.seen = IF Unservable(route, needs) THEN {"server tools"} ELSE {},
                 !.route = route, !.size = size, !.needs = needs,
                 !.guarded = guarded])
<1> DEFINE pc == IF Unservable(route, needs) THEN "answered" ELSE "walking"
           answer == IF Unservable(route, needs) THEN "server tools 400" ELSE "none"
           seen == IF Unservable(route, needs) THEN {"server tools"} ELSE {}
           p == [Blank EXCEPT !.pc = pc, !.answer = answer, !.seen = seen, !.route = route,
                              !.size = size, !.needs = needs, !.guarded = guarded]
<1>1. \/ pc = "answered" /\ answer = "server tools 400" /\ seen = {"server tools"}
      \/ pc = "walking" /\ answer = "none" /\ seen = {}
  OBVIOUS
<1>2. /\ pc \in Phases
      /\ answer \in Answers
      /\ seen \in SUBSET Kinds
      /\ size \in Nat
      /\ MaxRetries \in Nat
  BY WalkAssumption DEF Phases, Answers, Kinds
<1> HIDE DEF pc, answer, seen
<1>3. Blank \in Handler
  <2>1. "idle" \in Phases /\ "none" \in Answers
    BY DEF Phases, Answers
  <2>2. 0 \in 0 .. MaxRetries
    BY <1>2
  <2> QED
    BY <2>1, <2>2 DEF Blank, Handler
<1>4. p \in Handler
  BY <1>2, <1>3 DEF Handler
<1>5. /\ p.pc = pc
      /\ p.answer = answer
      /\ p.seen = seen
      /\ p.route = route
      /\ p.at = 1
      /\ p.refusals = 0
      /\ p.turn = {}
  BY DEF Blank
<1>6. ~p.other /\ ~p.unspent
  BY DEF Blank
<1> HIDE DEF p
<1>7. Len(route) \in Nat \ {0}
  BY RouteFacts
<1>8. Placed(p)
  <2>1. 1 \in 1 .. Len(route) + 1
    BY <1>7
  <2>2. /\ p.route \in Routes
        /\ p.pc = "walking" => p.at \in 1 .. Len(p.route) + 1
        /\ p.pc \notin {"trying", "reading", "sleeping"}
    BY <1>1, <1>5, <2>1
  <2> QED
    BY <2>2 DEF Placed
<1>9. Remembers(p)
  BY <1>1, <1>5, <1>6 DEF Remembers
<1>10. Counts(p)
  <2>1. p.refusals <= p.at - 1 /\ ~(p.at > 1)
    BY <1>5
  <2>2. p.answer # "refusal" /\ p.turn \subseteq {"refused"}
    BY <1>1, <1>5
  <2> QED
    BY <2>1, <2>2 DEF Counts
<1>11. Reserves(p)
  BY <1>1, <1>5, <1>6 DEF Reserves
<1> QED
  BY <1>4, <1>8, <1>9, <1>10, <1>11 DEF Sane, p, pc, answer, seen

\* A walk ends asleep only while retries are left.
LEMMA SleepIsSane ==
  ASSUME NEW q, Sane(q), WalkEmpty(q), q.walk < MaxRetries, NEW t \in Nat
  PROVE  Sane([q EXCEPT !.pc = "sleeping", !.timer = t])
<1> DEFINE p == [q EXCEPT !.pc = "sleeping", !.timer = t]
<1>1. q \in Handler /\ q.pc = "walking" /\ "sleeping" \in Phases
  BY DEF Sane, WalkEmpty, Phases
<1>2. p \in Handler
  BY <1>1 DEF Handler
<1>3. /\ p.pc = "sleeping"
      /\ p.route = q.route
      /\ p.walk = q.walk
      /\ p.answer = q.answer
      /\ p.seen = q.seen
      /\ p.turn = q.turn
  BY <1>1 DEF Handler
<1>4. /\ p.other = q.other
      /\ p.quotaOnly = q.quotaOnly
      /\ p.unspent = q.unspent
  BY <1>1 DEF Handler
<1> HIDE DEF p
<1>5. Placed(p)
  BY <1>1, <1>3 DEF Sane, Placed
<1>6. Remembers(p)
  BY <1>1, <1>3, <1>4 DEF Sane, Remembers
<1>7. Counts(p)
  BY <1>1, <1>3 DEF Sane, Counts
<1>8. Reserves(p)
  BY <1>3, <1>4 DEF Sane, Reserves
<1> QED
  BY <1>2, <1>5, <1>6, <1>7, <1>8 DEF Sane, p

\* A new walk starts its counts over and keeps what the request remembers.
LEMMA WakeIsSane ==
  ASSUME NEW q, Sane(q), q.pc = "sleeping"
  PROVE  Sane([q EXCEPT !.pc = "walking", !.at = 1, !.walk = @ + 1,
                        !.refusals = 0, !.sawRpm = FALSE, !.turn = {}])
<1> DEFINE next == q.walk + 1
           p == [q EXCEPT !.pc = "walking", !.at = 1, !.walk = next,
                          !.refusals = 0, !.sawRpm = FALSE, !.turn = {}]
<1>1. q \in Handler /\ "walking" \in Phases
  BY DEF Sane, Phases
<1>2. next \in 0 .. MaxRetries
  <2>1. q.walk \in 0 .. MaxRetries /\ q.walk < MaxRetries /\ MaxRetries \in Nat
    BY <1>1, WalkAssumption DEF Sane, Placed, Handler
  <2> QED
    BY <2>1
<1> HIDE DEF next
<1>3. p \in Handler
  BY <1>1, <1>2 DEF Handler
<1>4. /\ p.pc = "walking"
      /\ p.route = q.route
      /\ p.at = 1
      /\ p.answer = q.answer
      /\ p.seen = q.seen
      /\ p.turn = {}
      /\ p.refusals = 0
  BY <1>1 DEF Handler
<1>5. /\ p.other = q.other
      /\ p.quotaOnly = q.quotaOnly
      /\ p.unspent = q.unspent
  BY <1>1 DEF Handler
<1> HIDE DEF p
<1>6. q.route \in Routes /\ Len(q.route) \in Nat \ {0}
  BY RouteFacts DEF Sane, Placed
<1>7. Placed(p)
  BY <1>4, <1>6 DEF Placed
<1>8. Remembers(p)
  BY <1>4, <1>5 DEF Sane, Remembers
<1>9. Counts(p)
  BY <1>4 DEF Sane, Counts
<1>10. Reserves(p)
  BY <1>4, <1>5 DEF Sane, Reserves
<1> QED
  BY <1>3, <1>7, <1>8, <1>9, <1>10 DEF Sane, p, next

\* The terminal ladder answers for what was met.
LEMMA TerminalFacts ==
  ASSUME NEW q, Sane(q), WalkEmpty(q)
  PROVE  /\ Terminal(q) \in Answers
         /\ Terminal(q) \in {"context 400", "server tools 400"} => ~q.other
         /\ Terminal(q) = "refusal" => q.turn = {"refused"}
<1>1. /\ q.pc = "walking"
      /\ q.route \in Routes
      /\ Len(q.route) \in Nat \ {0}
      /\ q.at = Len(q.route) + 1
  <2>1. q.pc = "walking" /\ q.route \in Routes
    BY DEF Sane, Placed, WalkEmpty
  <2>2. Len(q.route) \in Nat \ {0}
    BY <2>1, RouteFacts
  <2> QED
    BY <2>1, <2>2 DEF Sane, Placed, WalkEmpty
<1>2. q.refusals = Len(q.route) => q.turn = {"refused"}
  BY <1>1 DEF Sane, Counts
<1> DEFINE small == q.tooSmall > 0 /\ ~q.other
           tools == q.toolSkip /\ ~q.other
           alone == ~Multi(q) /\ q.lastRaw
<1>3. Terminal(q) = IF small THEN "context 400" ELSE IF tools THEN "server tools 400"
                    ELSE IF q.refusals = Len(q.route) THEN "refusal"
                    ELSE IF alone THEN "upstream error" ELSE "overloaded"
  BY DEF Terminal
<1>4. small \/ tools => ~q.other
  OBVIOUS
<1> HIDE DEF small, tools, alone
<1> QED
  BY <1>2, <1>3, <1>4 DEF Answers

-----------------------------------------------------------------------------
(* Failed attempts. *)

\* What the table of failures holds.
Faults ==
  [scope : {"none", "provider", "model", "rule"}, span : Nat, retryable : BOOLEAN,
   cause : Causes, result : {"local", "skip", "raw", "context", "fatal"}]

LEMMA FaultFacts ==
  ASSUME NEW f \in DOMAIN Fault
  PROVE  Fault[f] \in Faults
<1>1. f \in {"local", "network", "silent", "died", "rate", "window", "credits", "payment",
             "auth", "missing", "context", "ruleSkip", "ruleQuota", "ruleCool",
             "rulePass", "bad"}
  BY DEF Fault
<1>2. QuotaSpan \in Nat /\ HeadersSpan \in Nat /\ NoHint \in Nat
  BY WalkAssumption DEF NoHint
<1>3. /\ Fault["local"] \in Faults
      /\ Fault["network"] \in Faults
      /\ Fault["silent"] \in Faults
      /\ Fault["died"] \in Faults
      /\ Fault["rate"] \in Faults
      /\ Fault["window"] \in Faults
      /\ Fault["credits"] \in Faults
      /\ Fault["payment"] \in Faults
  BY <1>2 DEF Fault, Faults, Causes
<1>4. /\ Fault["auth"] \in Faults
      /\ Fault["missing"] \in Faults
      /\ Fault["context"] \in Faults
      /\ Fault["ruleSkip"] \in Faults
      /\ Fault["ruleQuota"] \in Faults
      /\ Fault["ruleCool"] \in Faults
      /\ Fault["rulePass"] \in Faults
      /\ Fault["bad"] \in Faults
  BY <1>2 DEF Fault, Faults, Causes
<1> QED
  BY <1>1, <1>3, <1>4

\* Fields the invariant does not speak of may take any value of their type.
LEMMA SideFieldsAreFree ==
  ASSUME NEW q, Sane(q)
  PROVE  /\ \A v \in BOOLEAN : Sane([q EXCEPT !.lastRaw = v])
         /\ \A v \in Nat : Sane([q EXCEPT !.tooSmall = v])
         /\ \A v \in SUBSET Cands : Sane([q EXCEPT !.dead = v])
         /\ \A v \in Nat : Sane([q EXCEPT !.timer = v])
         /\ \A u, v \in BOOLEAN : Sane([q EXCEPT !.sawRpm = u, !.toolSkip = v])
<1>1. q \in Handler
  BY DEF Sane
<1>2. ASSUME NEW v \in BOOLEAN
      PROVE  Sane([q EXCEPT !.lastRaw = v])
  <2> DEFINE p == [q EXCEPT !.lastRaw = v]
  <2>1. p \in Handler
    BY <1>1 DEF Handler
  <2>2. Alike(p, q)
    BY <1>1 DEF Handler, Alike
  <2> QED
    BY <2>1, <2>2, AlikeIsSane
<1>3. ASSUME NEW v \in Nat
      PROVE  Sane([q EXCEPT !.tooSmall = v])
  <2> DEFINE p == [q EXCEPT !.tooSmall = v]
  <2>1. p \in Handler
    BY <1>1 DEF Handler
  <2>2. Alike(p, q)
    BY <1>1 DEF Handler, Alike
  <2> QED
    BY <2>1, <2>2, AlikeIsSane
<1>4. ASSUME NEW v \in SUBSET Cands
      PROVE  Sane([q EXCEPT !.dead = v])
  <2> DEFINE p == [q EXCEPT !.dead = v]
  <2>1. p \in Handler
    BY <1>1 DEF Handler
  <2>2. Alike(p, q)
    BY <1>1 DEF Handler, Alike
  <2> QED
    BY <2>1, <2>2, AlikeIsSane
<1>5. ASSUME NEW v \in Nat
      PROVE  Sane([q EXCEPT !.timer = v])
  <2> DEFINE p == [q EXCEPT !.timer = v]
  <2>1. p \in Handler
    BY <1>1 DEF Handler
  <2>2. Alike(p, q)
    BY <1>1 DEF Handler, Alike
  <2> QED
    BY <2>1, <2>2, AlikeIsSane
<1>6. ASSUME NEW u \in BOOLEAN, NEW v \in BOOLEAN
      PROVE  Sane([q EXCEPT !.sawRpm = u, !.toolSkip = v])
  <2> DEFINE p == [q EXCEPT !.sawRpm = u, !.toolSkip = v]
  <2>1. p \in Handler
    BY <1>1 DEF Handler
  <2>2. Alike(p, q)
    BY <1>1 DEF Handler, Alike
  <2> QED
    BY <2>1, <2>2, AlikeIsSane
<1> QED
  BY <1>2, <1>3, <1>4, <1>5, <1>6

\* A failed attempt leaves the handler sane, whichever failure it is.
LEMMA AfterFaultIsSane ==
  ASSUME NEW q, Sane(q), q.pc \in {"trying", "reading"}, NEW f \in DOMAIN Fault
  PROVE  Sane(AfterFault(q, f))
<1> DEFINE fault == Fault[f]
           quota == fault.cause # "other"
           no == FALSE
           over == PassOver(q, "passing", quota, quota)
           small == PassOver(q, "context", no, no)
           room == Larger(small.tooSmall, WindowOf[Cand(q)])
           p == IF fault.result \in {"skip", "local"} THEN over
                ELSE IF fault.result = "raw" THEN [over EXCEPT !.lastRaw = TRUE]
                ELSE IF fault.result = "context" THEN [small EXCEPT !.tooSmall = room]
                ELSE [q EXCEPT !.pc = "answered", !.answer = "fatal"]
<1>1. /\ q \in Handler
      /\ Cand(q) \in Cands
      /\ fault.result \in {"local", "skip", "raw", "context", "fatal"}
      /\ WindowOf[Cand(q)] \in Nat
  BY FaultFacts, CandType, WalkAssumption DEF Sane, Faults
<1>2. quota \in BOOLEAN /\ no \in BOOLEAN /\ ~no
  OBVIOUS
<1>3. AfterFault(q, f) = IF ~fault.retryable THEN [p EXCEPT !.dead = @ \cup {Cand(q)}] ELSE p
  BY <1>1 DEF AfterFault
<1> HIDE DEF quota, no
<1>4. Facing(q) /\ "passing" \in Kinds \ {"refused"} /\ "context" \in Kinds \ {"refused"}
  BY DEF Facing, Kinds
<1>5. Sane(over) /\ Sane(small)
  BY <1>2, <1>4, PassOverIsSane
<1> HIDE DEF over, small
<1>6. Sane([over EXCEPT !.lastRaw = TRUE])
  BY <1>5, SideFieldsAreFree
<1>7. room \in Nat
  BY <1>1, <1>5 DEF Sane, Handler, Larger
<1> HIDE DEF room
<1>8. Sane([small EXCEPT !.tooSmall = room])
  BY <1>5, <1>7, SideFieldsAreFree
<1>9. Sane([q EXCEPT !.pc = "answered", !.answer = "fatal"])
  <2>1. "fatal" \in Answers
    BY DEF Answers
  <2> QED
    BY <2>1, AnswerIsSane
<1>10. Sane(p)
  BY <1>5, <1>6, <1>8, <1>9
<1> HIDE DEF p
<1>11. p.dead \cup {Cand(q)} \in SUBSET Cands
  BY <1>1, <1>10 DEF Sane, Handler
<1>12. Sane([p EXCEPT !.dead = p.dead \cup {Cand(q)}])
  BY <1>10, <1>11, SideFieldsAreFree
<1> QED
  BY <1>3, <1>10, <1>12

-----------------------------------------------------------------------------
(* The table of cooldowns. *)

TableTyped == cool \in [Keys -> Slot] /\ why \in [Keys -> Causes]

\* Every level waits a natural number of time units.
LEMMA LadderSpanType ==
  ASSUME NEW level \in Nat, level > 0
  PROVE  LadderSpan(level) \in Nat
<1>1. LadderBase \in Nat /\ LadderCap \in Nat
  BY TableAssumption
<1>2. Lesser(level, 6) \in 1..6
  BY DEF Lesser
<1>3. Multiple[Lesser(level, 6)] \in Nat
  BY <1>2 DEF Multiple
<1>4. LadderBase * Multiple[Lesser(level, 6)] \in Nat
  BY <1>1, <1>3
<1> QED
  BY <1>1, <1>4 DEF LadderSpan, Lesser

\* The three ways an entry comes about yield an entry.
LEMMA LadderEntryType ==
  ASSUME NEW e \in Slot, NEW r \in BOOLEAN
  PROVE  /\ LadderEntry(e, r) \in Entry
         /\ LadderEntry(e, r).level > 0
<1>1. LevelOf(e) \in Nat
  BY TableAssumption DEF LevelOf, Slot, Entry
<1>2. Lesser(LevelOf(e) + 1, LevelMax) \in 1..LevelMax
  BY <1>1, TableAssumption DEF Lesser
<1>3. LadderSpan(Lesser(LevelOf(e) + 1, LevelMax)) \in Nat
  BY <1>2, LadderSpanType
<1> QED
  BY <1>2, <1>3 DEF LadderEntry, Entry

LEMMA SpanEntryType ==
  ASSUME NEW span \in Nat, NEW r \in BOOLEAN
  PROVE  SpanEntry(span, r) \in Entry
BY TableAssumption DEF SpanEntry, Entry, Lesser

LEMMA AgedType ==
  ASSUME NEW e \in Slot
  PROVE  Aged(e) \in Slot
BY TableAssumption DEF Aged, Slot, Entry

\* What a failed attempt writes is an entry at a key of the table.
LEMMA CoolForType ==
  ASSUME TableTyped, NEW c \in Cands, NEW f \in DOMAIN Fault,
         NEW hint \in RetryAfters \cup {NoHint}, CoolFor(c, Fault[f], hint)
  PROVE  TableTyped'
<1> DEFINE fault == Fault[f]
           span == IF hint # NoHint THEN hint ELSE fault.span
<1>1. fault \in Faults
  BY FaultFacts
<1> HIDE DEF fault
<1>2. CASE fault.scope = "none"
  BY <1>2 DEF CoolFor, TableTyped, fault
<1>3. CASE fault.scope # "none"
  <2> DEFINE k == FaultKey(c, fault.scope)
  <2>1. fault.scope \in {"provider", "model", "rule"} /\ fault.span \in Nat
        /\ fault.retryable \in BOOLEAN /\ fault.cause \in Causes
    BY <1>1, <1>3 DEF Faults
  <2>2. k \in Keys
    <3>1. KeyOf[c] \in Providers /\ BareOf[c] \in Providers /\ ModelOf[c] \in Models
      BY WalkAssumption
    <3>2. CASE fault.scope = "provider"
      BY <3>1, <3>2 DEF FaultKey, Keys
    <3>3. CASE fault.scope = "model"
      BY <3>1, <3>3 DEF FaultKey, Keys
    <3>4. CASE fault.scope = "rule"
      BY <3>1, <3>4 DEF FaultKey, Keys
    <3> QED
      BY <2>1, <3>2, <3>3, <3>4
  <2> HIDE DEF k
  <2>3. span \in Nat
    BY <2>1, WalkAssumption DEF NoHint
  <2> HIDE DEF span
  <2>4. FaultEntry(k, fault, hint) \in Entry
    <3>1. cool[k] \in Slot
      BY <2>2 DEF TableTyped
    <3>2. LadderEntry(cool[k], fault.retryable) \in Entry
      BY <2>1, <3>1, LadderEntryType
    <3>3. SpanEntry(span, fault.retryable) \in Entry
      BY <2>1, <2>3, SpanEntryType
    <3> QED
      BY <3>2, <3>3 DEF FaultEntry, span
  <2>5. /\ cool' = [cool EXCEPT ![k] = FaultEntry(k, fault, hint)]
        /\ why' = [why EXCEPT ![k] = fault.cause]
    BY <1>3 DEF CoolFor, k, fault
  <2> QED
    BY <2>1, <2>4, <2>5 DEF TableTyped, Slot
<1> QED
  BY <1>2, <1>3

\* What the headers of a success block for is a span of time.
LEMMA ReportedType ==
  ASSUME NEW h \in Reports, Reported(h) # NotSpent
  PROVE  Reported(h) \in Nat
<1>1. /\ h.quota \in {"none", "5h", "week", "month", "rate"} /\ h.reset \in Nat
      /\ h.free \in Nat \cup {NotSpent} /\ h.plan \in Nat \cup {NotSpent}
  BY WalkAssumption DEF Report
<1>2. /\ MinuteSpan \in Nat /\ HourSpan \in Nat
      /\ QuotaSpans["5h"] \in Nat /\ QuotaSpans["week"] \in Nat /\ QuotaSpans["month"] \in Nat
  BY WalkAssumption
<1>3. AllowanceReport(h.plan) \in Nat \/ h.plan = NotSpent
  BY <1>1, <1>2 DEF AllowanceReport
<1>4. AllowanceReport(h.free) \in Nat \/ h.free = NotSpent
  BY <1>1, <1>2 DEF AllowanceReport
<1>5. QuotaReport(h) \in Nat \cup {NotSpent}
  <2>1. CASE h.quota = "rate"
    BY <1>1, <1>2, <2>1 DEF QuotaReport
  <2>2. CASE h.quota = "none"
    BY <2>2 DEF QuotaReport
  <2>3. CASE h.quota \in {"5h", "week", "month"}
    BY <1>2, <2>3 DEF QuotaReport
  <2> QED
    BY <1>1, <2>1, <2>2, <2>3
<1> QED
  BY <1>3, <1>4, <1>5 DEF Reported

LEMMA HeadersType ==
  ASSUME TableTyped, NEW r \in Requests, Cand(req[r]) \in Cands, Headers(r)
  PROVE  TableTyped'
<1> DEFINE c == Cand(req[r])
           whole == <<KeyOf[c], AnyModel>>
           one == <<KeyOf[c], ModelOf[c]>>
<1>1. PICK h \in Reports :
        /\ cool' = [k \in Keys |->
                      IF Reported(h) # NotSpent /\ k = whole THEN SpanEntry(Reported(h), FALSE)
                      ELSE IF k \in Scopes(KeyOf[c], ModelOf[c]) THEN NoEntry ELSE cool[k]]
        /\ why' = [why EXCEPT ![whole] = IF Reported(h) # NotSpent THEN "unread quota" ELSE "other",
                              ![one] = "other"]
  BY DEF Headers
<1>2. Reported(h) # NotSpent => SpanEntry(Reported(h), FALSE) \in Slot
  <2>1. Reported(h) # NotSpent => Reported(h) \in Nat
    BY ReportedType
  <2>2. FALSE \in BOOLEAN
    OBVIOUS
  <2> QED
    BY <2>1, <2>2, SpanEntryType DEF Slot
<1>3. \A k \in Keys : cool[k] \in Slot
  BY DEF TableTyped
<1>4. NoEntry \in Slot
  BY DEF Slot
<1>5. cool' \in [Keys -> Slot]
  BY <1>1, <1>2, <1>3, <1>4
<1>6. why' \in [Keys -> Causes]
  BY <1>1 DEF TableTyped, Causes
<1> QED
  BY <1>5, <1>6 DEF TableTyped

LEMMA AgedTable ==
  ASSUME TableTyped
  PROVE  [k \in Keys |-> Aged(cool[k])] \in [Keys -> Slot]
<1>1. \A k \in Keys : Aged(cool[k]) \in Slot
  BY AgedType DEF TableTyped
<1> QED
  BY <1>1

\* What is left of a block is a number of time units.
LEMMA WaitsType ==
  ASSUME TableTyped, NEW q, q \in Handler, q.route \in Routes
  PROVE  Waits(q) \in SUBSET Nat
<1>1. ASSUME NEW c \in OnRoute(q)
      PROVE  Remaining(cool, KeyOf[c], ModelOf[c]) \in Nat
  <2>1. c \in Cands
    <3>1. q.route \in Seq(Cands)
      BY RouteFacts
    <3> QED
      BY <3>1 DEF OnRoute
  <2>2. <<KeyOf[c], AnyModel>> \in Keys /\ <<KeyOf[c], ModelOf[c]>> \in Keys
    BY <2>1, WalkAssumption DEF Keys
  <2>3. \A k \in Keys : Left(cool[k]) \in Nat
    BY DEF TableTyped, Left, Slot, Entry
  <2> QED
    BY <2>2, <2>3 DEF Remaining, Larger
<1>2. RpmWait \in Nat
  BY WalkAssumption
<1> QED
  BY <1>1, <1>2 DEF Waits

LEMMA LeastExists ==
  ASSUME NEW S \in SUBSET Nat, S # {}
  PROVE  \E x \in S : \A y \in S : x <= y
<1>1. PICK x \in S : \A y \in S : ~(<<y, x>> \in OpToRel(<, Nat))
  BY WFMin, NatLessThanWellFounded
<1>2. \A y \in S : ~(y < x)
  BY <1>1 DEF OpToRel
<1> QED
  BY <1>2

LEMMA SoonestType ==
  ASSUME NEW S \in SUBSET Nat, S # {}
  PROVE  Soonest(S) \in Nat
<1>1. \E x \in S : \A y \in S : x <= y
  BY LeastExists
<1> QED
  BY <1>1 DEF Soonest

-----------------------------------------------------------------------------
(* The invariant of the whole system, kept by every action. *)

HandlersTyped == req \in [Requests -> Handler]

WalkInv == TableTyped /\ HandlersTyped /\ RequestsInv

LEMMA InitInv == Init => WalkInv
<1> SUFFICES ASSUME Init PROVE WalkInv
  OBVIOUS
<1>1. PICK some \in {{}} \cup {{b} : b \in Earlier} :
        /\ cool = [k \in Keys |->
                     IF \E b \in some : b[1] = k THEN (CHOOSE b \in some : b[1] = k)[2]
                     ELSE NoEntry]
        /\ why = [k \in Keys |->
                    IF \E b \in some : b[1] = k THEN (CHOOSE b \in some : b[1] = k)[3]
                    ELSE "other"]
  BY DEF Init
<1>2. \A b \in some : b[2] \in Entry /\ b[3] \in Causes
  BY WalkAssumption
<1>3. ASSUME NEW k \in Keys, \E b \in some : b[1] = k
      PROVE  (CHOOSE b \in some : b[1] = k) \in some
  BY <1>3
<1>4. TableTyped
  BY <1>1, <1>2, <1>3 DEF TableTyped, Slot, Causes
<1>5. Blank \in Handler
  <2>1. "idle" \in Phases /\ "none" \in Answers
    BY DEF Phases, Answers
  <2>2. MaxRetries \in Nat
    BY WalkAssumption
  <2>3. 0 \in 0 .. MaxRetries
    BY <2>2
  <2> QED
    BY <2>1, <2>3 DEF Blank, Handler
<1>6. /\ Blank.pc = "idle"
      /\ Blank.answer = "none"
      /\ Blank.seen = {}
  BY DEF Blank
<1>7. ~Blank.unspent
  BY DEF Blank
<1>8. Placed(Blank) /\ Remembers(Blank) /\ Counts(Blank) /\ Reserves(Blank)
  BY <1>6, <1>7 DEF Placed, Remembers, Counts, Reserves
<1>9. HandlersTyped /\ RequestsInv
  BY <1>5, <1>8 DEF Init, HandlersTyped, RequestsInv, Sane
<1> QED
  BY <1>4, <1>9 DEF WalkInv

\* One request moves, to a state that is sane by itself.
LEMMA OneMoves ==
  ASSUME HandlersTyped, RequestsInv, NEW r \in Requests, NEW p, Sane(p),
         req' = [req EXCEPT ![r] = p]
  PROVE  HandlersTyped' /\ RequestsInv'
<1>1. HandlersTyped'
  BY DEF HandlersTyped, Sane
<1>2. ASSUME NEW s \in Requests
      PROVE  Sane(req'[s])
  <2>1. CASE s = r
    BY <2>1 DEF HandlersTyped
  <2>2. CASE s # r
    BY <2>2 DEF HandlersTyped, RequestsInv
  <2> QED
    BY <2>1, <2>2
<1> QED
  BY <1>1, <1>2 DEF RequestsInv

LEMMA ArriveKeeps ==
  ASSUME WalkInv, NEW r \in Requests, Arrive(r)
  PROVE  WalkInv'
<1>1. PICK route \in Routes, size \in Sizes, needs \in Needs, guarded \in BOOLEAN :
        req' = [req EXCEPT ![r] =
                 [Blank EXCEPT
                    !.pc = IF Unservable(route, needs) THEN "answered" ELSE "walking",
                    !.answer = IF Unservable(route, needs) THEN "server tools 400"
                               ELSE "none",
                    !.seen = IF Unservable(route, needs) THEN {"server tools"} ELSE {},
                    !.route = route, !.size = size, !.needs = needs,
                    !.guarded = guarded]]
  BY DEF Arrive
<1>2. HandlersTyped' /\ RequestsInv'
  BY <1>1, ArrivalIsSane, OneMoves DEF WalkInv
<1> QED
  BY <1>2 DEF WalkInv, TableTyped, Arrive

LEMMA OverlookKeeps ==
  ASSUME WalkInv, NEW r \in Requests, Overlook(r)
  PROVE  WalkInv'
<1> DEFINE q == req[r]
           yes == TRUE
<1>1. Sane(q) /\ Facing(q)
  BY DEF WalkInv, RequestsInv, Overlook, Facing
<1>2. "held" \in Kinds \ {"refused"} /\ "context" \in Kinds \ {"refused"} /\ yes \in BOOLEAN
  BY DEF Kinds
<1>3. \E k \in {"held", "context"} : req' = [req EXCEPT ![r] = PassOver(q, k, yes, yes)]
  BY DEF Overlook
<1> HIDE DEF q, yes
<1>4. Sane(PassOver(q, "held", yes, yes)) /\ Sane(PassOver(q, "context", yes, yes))
  BY <1>1, <1>2, PassOverIsSane
<1>5. HandlersTyped' /\ RequestsInv'
  BY <1>3, <1>4, OneMoves DEF WalkInv
<1> QED
  BY <1>5 DEF WalkInv, TableTyped, Overlook

LEMMA CheckKeeps ==
  ASSUME WalkInv, NEW r \in Requests, Check(r)
  PROVE  WalkInv'
<1> DEFINE q == req[r]
<1>1. Sane(q) /\ Facing(q) /\ q.pc = "walking" /\ q.at <= Len(q.route) /\ ~Held(q)
  BY DEF WalkInv, RequestsInv, Check, Facing
<1>2. PICK v \in Verdicts(q) :
        IF v = "open"
        THEN req' = [req EXCEPT ![r].pc = "trying"]
        ELSE LET p == PassOver(q, KindOf(v), IsQuota(v, Cand(q)), ReadsAsQuota(v, Cand(q)))
             IN  req' = [req EXCEPT ![r] =
                           [p EXCEPT !.sawRpm = @ \/ v = "rate",
                                     !.toolSkip = @ \/ v = "server tools"]]
  BY DEF Check
<1>3. ASSUME v = "open"
      PROVE  HandlersTyped' /\ RequestsInv'
  <2>1. req' = [req EXCEPT ![r] = [q EXCEPT !.pc = "trying"]]
    BY <1>2, <1>3
  <2>2. Sane([q EXCEPT !.pc = "trying"])
    BY <1>1, MoveIsSane
  <2> QED
    BY <2>1, <2>2, OneMoves DEF WalkInv
<1>4. ASSUME v # "open"
      PROVE  HandlersTyped' /\ RequestsInv'
  <2> DEFINE isQuota == IsQuota(v, Cand(q))
             reads == ReadsAsQuota(v, Cand(q))
             p == PassOver(q, KindOf(v), isQuota, reads)
             rpm == p.sawRpm \/ v = "rate"
             skip == p.toolSkip \/ v = "server tools"
  <2>1. req' = [req EXCEPT ![r] = [p EXCEPT !.sawRpm = rpm, !.toolSkip = skip]]
    BY <1>2, <1>4
  <2>2. KindOf(v) \in Kinds \ {"refused"}
    BY DEF KindOf, Kinds
  <2>3. isQuota \in BOOLEAN /\ reads \in BOOLEAN
    BY DEF IsQuota, ReadsAsQuota
  <2>4. reads => isQuota
    BY DEF IsQuota, ReadsAsQuota
  <2>5. rpm \in BOOLEAN /\ skip \in BOOLEAN
    OBVIOUS
  <2> HIDE DEF isQuota, reads, q
  <2>6. Sane(p)
    BY <1>1, <2>2, <2>3, <2>4, PassOverIsSane
  <2> HIDE DEF p, rpm, skip
  <2>7. Sane([p EXCEPT !.sawRpm = rpm, !.toolSkip = skip])
    BY <2>5, <2>6, SideFieldsAreFree
  <2> QED
    BY <2>1, <2>7, OneMoves DEF WalkInv
<1>5. HandlersTyped' /\ RequestsInv'
  BY <1>3, <1>4
<1> QED
  BY <1>5 DEF WalkInv, TableTyped, Check

LEMMA FailKeeps ==
  ASSUME WalkInv, NEW r \in Requests, req[r].pc \in {"trying", "reading"},
         NEW f \in DOMAIN Fault, NEW hint \in RetryAfters \cup {NoHint}, Fail(r, f, hint)
  PROVE  WalkInv'
<1> DEFINE q == req[r]
<1>1. Sane(q) /\ q.pc \in {"trying", "reading"}
  BY DEF WalkInv, RequestsInv
<1>2. CASE Passthrough(q, f)
  <2>1. req' = [req EXCEPT ![r] = [q EXCEPT !.pc = "answered", !.answer = "fatal"]]
    BY <1>2 DEF Fail
  <2>2. Sane([q EXCEPT !.pc = "answered", !.answer = "fatal"])
    <3>1. "fatal" \in Answers
      BY DEF Answers
    <3> QED
      BY <1>1, <3>1, AnswerIsSane
  <2>3. HandlersTyped' /\ RequestsInv'
    BY <2>1, <2>2, OneMoves DEF WalkInv
  <2> QED
    BY <1>2, <2>3 DEF WalkInv, TableTyped, Fail
<1>3. CASE ~Passthrough(q, f)
  <2>1. req' = [req EXCEPT ![r] = AfterFault(q, f)] /\ CoolFor(Cand(q), Fault[f], hint)
    BY <1>3 DEF Fail
  <2>2. Cand(q) \in Cands
    BY <1>1, CandType DEF Sane
  <2>3. Sane(AfterFault(q, f))
    BY <1>1, AfterFaultIsSane
  <2>4. HandlersTyped' /\ RequestsInv'
    BY <2>1, <2>3, OneMoves DEF WalkInv
  <2>5. TableTyped'
    BY <2>1, <2>2, CoolForType DEF WalkInv
  <2> QED
    BY <2>4, <2>5 DEF WalkInv
<1> QED
  BY <1>2, <1>3

LEMMA HeadersKeep ==
  ASSUME WalkInv, NEW r \in Requests, Headers(r)
  PROVE  WalkInv'
<1> DEFINE q == req[r]
<1>1. Sane(q) /\ q.pc = "trying"
  BY DEF WalkInv, RequestsInv, Headers
<1>2. Cand(q) \in Cands
  BY <1>1, CandType DEF Sane
<1>3. TableTyped'
  BY <1>2, HeadersType DEF WalkInv
<1>4. req' = [req EXCEPT ![r] = [q EXCEPT !.pc = "reading"]]
  BY DEF Headers
<1>5. Sane([q EXCEPT !.pc = "reading"])
  BY <1>1, MoveIsSane
<1>6. HandlersTyped' /\ RequestsInv'
  BY <1>4, <1>5, OneMoves DEF WalkInv
<1> QED
  BY <1>3, <1>6 DEF WalkInv

LEMMA DoneKeeps ==
  ASSUME WalkInv, NEW r \in Requests, Done(r)
  PROVE  WalkInv'
<1> DEFINE q == req[r]
<1>1. Sane(q) /\ q.pc = "reading"
  BY DEF WalkInv, RequestsInv, Done
<1>2. req' = [req EXCEPT ![r] = [q EXCEPT !.pc = "answered", !.answer = "done"]]
  BY DEF Done
<1>3. "done" \in Answers
  BY DEF Answers
<1>4. Sane([q EXCEPT !.pc = "answered", !.answer = "done"])
  BY <1>1, <1>3, AnswerIsSane
<1>5. HandlersTyped' /\ RequestsInv'
  BY <1>2, <1>4, OneMoves DEF WalkInv
<1> QED
  BY <1>5 DEF WalkInv, TableTyped, Done

LEMMA RefuseKeeps ==
  ASSUME WalkInv, NEW r \in Requests, Refuse(r)
  PROVE  WalkInv'
<1> DEFINE q == req[r]
           p == [PassOver(q, "refused", FALSE, FALSE) EXCEPT !.refusals = @ + 1]
           a == [q EXCEPT !.pc = "answered", !.answer = "done"]
<1>1. Sane(q) /\ q.pc = "reading"
  BY DEF WalkInv, RequestsInv, Refuse
<1>2. "done" \in Answers
  BY DEF Answers
<1>3. Sane(p)
  BY <1>1, RefusalIsSane
<1>4. Sane(a)
  BY <1>1, <1>2, AnswerIsSane
<1>5. req' = [req EXCEPT ![r] = IF Multi(q) THEN p ELSE a]
  BY DEF Refuse
<1> HIDE DEF p, a
<1>6. HandlersTyped' /\ RequestsInv'
  BY <1>3, <1>4, <1>5, OneMoves DEF WalkInv
<1> QED
  BY <1>6 DEF WalkInv, TableTyped, Refuse

LEMMA SleepKeeps ==
  ASSUME WalkInv, NEW r \in Requests, Sleep(r)
  PROVE  WalkInv'
<1> DEFINE q == req[r]
           t == Soonest(Waits(q))
<1>1. Sane(q) /\ WalkEmpty(q) /\ q.walk < MaxRetries /\ Waits(q) # {}
  BY DEF WalkInv, RequestsInv, Sleep, MayRetry
<1>2. t \in Nat
  <2>1. q \in Handler /\ q.route \in Routes
    BY <1>1 DEF Sane, Placed, WalkEmpty
  <2>2. Waits(q) \in SUBSET Nat
    BY <2>1, WaitsType DEF WalkInv
  <2> QED
    BY <1>1, <2>2, SoonestType
<1>3. req' = [req EXCEPT ![r] = [q EXCEPT !.pc = "sleeping", !.timer = t]]
  BY DEF Sleep
<1> HIDE DEF t
<1>4. Sane([q EXCEPT !.pc = "sleeping", !.timer = t])
  BY <1>1, <1>2, SleepIsSane
<1>5. HandlersTyped' /\ RequestsInv'
  BY <1>3, <1>4, OneMoves DEF WalkInv
<1> QED
  BY <1>5 DEF WalkInv, TableTyped, Sleep

LEMMA WakeKeeps ==
  ASSUME WalkInv, NEW r \in Requests, Wake(r)
  PROVE  WalkInv'
<1> DEFINE q == req[r]
           p == [q EXCEPT !.pc = "walking", !.at = 1, !.walk = @ + 1,
                          !.refusals = 0, !.sawRpm = FALSE, !.turn = {}]
<1>1. Sane(q) /\ q.pc = "sleeping"
  BY DEF WalkInv, RequestsInv, Wake
<1>2. req' = [req EXCEPT ![r] = p]
  BY DEF Wake
<1>3. Sane(p)
  BY <1>1, WakeIsSane
<1> HIDE DEF p
<1>4. HandlersTyped' /\ RequestsInv'
  BY <1>2, <1>3, OneMoves DEF WalkInv
<1> QED
  BY <1>4 DEF WalkInv, TableTyped, Wake

LEMMA GiveUpKeeps ==
  ASSUME WalkInv, NEW r \in Requests, GiveUp(r)
  PROVE  WalkInv'
<1> DEFINE q == req[r]
           a == Terminal(q)
<1>1. Sane(q) /\ WalkEmpty(q) /\ q.pc # "idle"
  BY DEF WalkInv, RequestsInv, GiveUp, WalkEmpty
<1>2. /\ a \in Answers
      /\ a \in {"context 400", "server tools 400"} => ~q.other
      /\ a = "refusal" => q.turn = {"refused"}
  BY <1>1, TerminalFacts
<1>3. req' = [req EXCEPT ![r] = [q EXCEPT !.pc = "answered", !.answer = a]]
  BY DEF GiveUp
<1> HIDE DEF a
<1>4. Sane([q EXCEPT !.pc = "answered", !.answer = a])
  BY <1>1, <1>2, AnswerIsSane
<1>5. HandlersTyped' /\ RequestsInv'
  BY <1>3, <1>4, OneMoves DEF WalkInv
<1> QED
  BY <1>5 DEF WalkInv, TableTyped, GiveUp

LEMMA TickKeeps ==
  ASSUME WalkInv, Tick
  PROVE  WalkInv'
<1>1. TableTyped'
  BY AgedTable DEF WalkInv, TableTyped, Tick
<1>2. ASSUME NEW r \in Requests
      PROVE  Sane([req[r] EXCEPT !.timer = Larger(@ - 1, 0)])
  <2> DEFINE t == Larger(req[r].timer - 1, 0)
  <2>1. Sane(req[r]) /\ req[r].timer \in Nat
    BY DEF WalkInv, RequestsInv, Sane, Handler
  <2>2. t \in Nat
    BY <2>1 DEF Larger
  <2> HIDE DEF t
  <2>3. Sane([req[r] EXCEPT !.timer = t])
    BY <2>1, <2>2, SideFieldsAreFree
  <2> QED
    BY <2>3 DEF t
<1>3. req' = [r \in Requests |-> [req[r] EXCEPT !.timer = Larger(@ - 1, 0)]]
  BY DEF Tick
<1>4. RequestsInv'
  BY <1>2, <1>3 DEF RequestsInv
<1>5. HandlersTyped'
  BY <1>2, <1>3 DEF HandlersTyped, Sane
<1> QED
  BY <1>1, <1>4, <1>5 DEF WalkInv

LEMMA NextInv == WalkInv /\ [Next]_vars => WalkInv'
<1> SUFFICES ASSUME WalkInv, [Next]_vars PROVE WalkInv'
  OBVIOUS
<1>1. ASSUME NEW r \in Requests, Arrive(r)
      PROVE  WalkInv'
  BY <1>1, ArriveKeeps
<1>2. ASSUME NEW r \in Requests, Overlook(r)
      PROVE  WalkInv'
  BY <1>2, OverlookKeeps
<1>3. ASSUME NEW r \in Requests, Check(r)
      PROVE  WalkInv'
  BY <1>3, CheckKeeps
<1>4. ASSUME NEW r \in Requests, AttemptFails(r)
      PROVE  WalkInv'
  BY <1>4, FailKeeps DEF AttemptFails
<1>5. ASSUME NEW r \in Requests, Headers(r)
      PROVE  WalkInv'
  BY <1>5, HeadersKeep
<1>6. ASSUME NEW r \in Requests, Done(r)
      PROVE  WalkInv'
  BY <1>6, DoneKeeps
<1>7. ASSUME NEW r \in Requests, Refuse(r)
      PROVE  WalkInv'
  BY <1>7, RefuseKeeps
<1>8. ASSUME NEW r \in Requests, BodyFails(r)
      PROVE  WalkInv'
  <2>1. PICK f \in Replies \cap (Statuses \cup {"died"}) : Fail(r, f, NoHint)
    BY <1>8 DEF BodyFails
  <2>2. f \in DOMAIN Fault
    BY DEF Statuses, Fault
  <2>3. req[r].pc \in {"trying", "reading"}
    BY <1>8 DEF BodyFails
  <2> QED
    BY <2>1, <2>2, <2>3, FailKeeps
<1>9. ASSUME NEW r \in Requests, Sleep(r)
      PROVE  WalkInv'
  BY <1>9, SleepKeeps
<1>10. ASSUME NEW r \in Requests, Wake(r)
      PROVE  WalkInv'
  BY <1>10, WakeKeeps
<1>11. ASSUME NEW r \in Requests, GiveUp(r)
      PROVE  WalkInv'
  BY <1>11, GiveUpKeeps
<1>12. CASE Tick
  BY <1>12, TickKeeps
<1>13. CASE UNCHANGED vars
  BY <1>13 DEF vars, WalkInv, TableTyped, HandlersTyped, RequestsInv
<1> QED
  BY <1>1, <1>2, <1>3, <1>4, <1>5, <1>6, <1>7, <1>8, <1>9, <1>10, <1>11, <1>12, <1>13
     DEF Next, Step

LEMMA Invariance == Spec => []WalkInv
BY InitInv, NextInv, PTL DEF Spec

-----------------------------------------------------------------------------
(* A request by itself does not sleep for nothing. *)

\* While a request sleeps for a block, what is left of the block of some
\* candidate, in both scopes, is no more than what is left of the sleep.
Mends(q) ==
  \E c \in OnRoute(q) :
    \A k \in Scopes(KeyOf[c], ModelOf[c]) : Left(cool[k]) <= q.timer

MendInv ==
  \A r \in Requests : req[r].pc = "sleeping" /\ ~req[r].sawRpm => Mends(req[r])

\* The lookups a candidate of a route makes are in the table.
LEMMA RouteScopes ==
  ASSUME NEW route \in Routes, NEW i \in DOMAIN route
  PROVE  Scopes(KeyOf[route[i]], ModelOf[route[i]]) \in SUBSET Keys
<1>1. route[i] \in Cands
  BY RouteFacts
<1>2. KeyOf[route[i]] \in Providers /\ ModelOf[route[i]] \in Models
  BY <1>1, WalkAssumption
<1> QED
  BY <1>2 DEF Scopes, Keys

LEMMA SoonestIs ==
  ASSUME NEW S \in SUBSET Nat, S # {}
  PROVE  Soonest(S) \in S
<1>1. \E x \in S : \A y \in S : x <= y
  BY LeastExists
<1> QED
  BY <1>1 DEF Soonest

\* Falling asleep over blocks alone: the sleep is as long as both blocks of
\* the candidate that is back first.
LEMMA SleepMends ==
  ASSUME WalkInv, NEW r \in Requests, Sleep(r), ~req[r].sawRpm
  PROVE  req'[r].pc = "sleeping" /\ Mends(req[r])'
<1> DEFINE q == req[r]
           t == Soonest(Waits(q))
<1>1. q \in Handler /\ q.route \in Routes /\ Waits(q) # {}
  BY DEF WalkInv, RequestsInv, Sane, Placed, Sleep, WalkEmpty, MayRetry
<1>2. t \in Waits(q)
  BY <1>1, WaitsType, SoonestIs DEF WalkInv
<1>3. PICK c \in OnRoute(q) : t = Remaining(cool, KeyOf[c], ModelOf[c])
  BY <1>2 DEF Waits
<1>4. PICK i \in DOMAIN q.route : c = q.route[i]
  BY DEF OnRoute
<1>5. \A k \in Scopes(KeyOf[c], ModelOf[c]) : k \in Keys /\ Left(cool[k]) \in Nat
  <2>1. Scopes(KeyOf[c], ModelOf[c]) \in SUBSET Keys
    BY <1>1, <1>4, RouteScopes
  <2>2. \A k \in Keys : Left(cool[k]) \in Nat
    BY DEF WalkInv, TableTyped, Left, Slot, Entry
  <2> QED
    BY <2>1, <2>2
<1>6. \A k \in Scopes(KeyOf[c], ModelOf[c]) : Left(cool[k]) <= t
  BY <1>3, <1>5 DEF Remaining, Larger, Scopes
<1>7. req' = [req EXCEPT ![r] = [q EXCEPT !.pc = "sleeping", !.timer = t]] /\ cool' = cool
  BY DEF Sleep
<1> HIDE DEF t
<1>8. req'[r] = [q EXCEPT !.pc = "sleeping", !.timer = t]
  BY <1>7 DEF WalkInv, HandlersTyped
<1>9. req'[r].pc = "sleeping" /\ req'[r].timer = t /\ req'[r].route = q.route
  BY <1>1, <1>8 DEF Handler
<1>10. c \in OnRoute(req'[r])
  BY <1>9 DEF OnRoute
<1> QED
  BY <1>6, <1>7, <1>9, <1>10 DEF Mends

\* Time counts the sleep down no faster than the blocks.
LEMMA TickMends ==
  ASSUME WalkInv, NEW r \in Requests, Tick, req[r].pc = "sleeping", Mends(req[r])
  PROVE  Mends(req[r])'
<1> DEFINE q == req[r]
           t == Larger(q.timer - 1, 0)
<1>1. q \in Handler /\ q.route \in Routes /\ q.timer \in Nat
  BY DEF WalkInv, RequestsInv, Sane, Placed, Handler
<1>2. PICK c \in OnRoute(q) : \A k \in Scopes(KeyOf[c], ModelOf[c]) : Left(cool[k]) <= q.timer
  BY DEF Mends
<1>3. PICK i \in DOMAIN q.route : c = q.route[i]
  BY DEF OnRoute
<1>4. req' = [s \in Requests |-> [req[s] EXCEPT !.timer = Larger(@ - 1, 0)]]
      /\ cool' = [k \in Keys |-> Aged(cool[k])]
  BY DEF Tick
<1>5. req'[r] = [q EXCEPT !.timer = t]
  BY <1>4
<1>6. req'[r].timer = t /\ req'[r].route = q.route
  BY <1>1, <1>5 DEF Handler
<1>7. ASSUME NEW k \in Scopes(KeyOf[c], ModelOf[c])
      PROVE  Left(cool'[k]) <= t
  <2>1. k \in Keys
    BY <1>1, <1>3, RouteScopes
  <2>2. cool'[k] = Aged(cool[k]) /\ cool[k] \in Slot /\ Left(cool[k]) <= q.timer
    BY <1>2, <1>4, <2>1 DEF WalkInv, TableTyped
  <2>3. CASE cool[k] = NoEntry \/ cool[k].left = 0
    BY <1>1, <2>2, <2>3 DEF Aged, Left, Larger
  <2>4. CASE cool[k] # NoEntry /\ cool[k].left # 0
    <3>1. cool[k] \in Entry /\ cool[k].left \in Nat /\ cool[k].left <= q.timer
      BY <2>2, <2>4 DEF Slot, Entry, Left
    <3>2. cool'[k] = [cool[k] EXCEPT !.left = cool[k].left - 1]
      BY <2>2, <2>4 DEF Aged
    <3>3. cool'[k].left = cool[k].left - 1 /\ cool'[k] \in Entry
      BY <2>4, <3>1, <3>2 DEF Entry
    <3>4. cool'[k] # NoEntry
      BY <3>3, TableAssumption
    <3> QED
      BY <1>1, <2>4, <3>1, <3>3, <3>4 DEF Left, Larger
  <2> QED
    BY <2>3, <2>4
<1>8. c \in OnRoute(req'[r])
  BY <1>6 DEF OnRoute
<1> QED
  BY <1>6, <1>7, <1>8 DEF Mends

\* What a failed attempt leaves is a walk or an answer.
LEMMA AfterFaultPhase ==
  ASSUME NEW q \in Handler, q.at \in DOMAIN q.route, q.route \in Routes, NEW f \in DOMAIN Fault
  PROVE  AfterFault(q, f).pc # "sleeping"
<1> DEFINE fault == Fault[f]
           quota == fault.cause # "other"
           no == FALSE
           over == PassOver(q, "passing", quota, quota)
           small == PassOver(q, "context", no, no)
           room == Larger(small.tooSmall, WindowOf[Cand(q)])
           p == IF fault.result \in {"skip", "local"} THEN over
                ELSE IF fault.result = "raw" THEN [over EXCEPT !.lastRaw = TRUE]
                ELSE IF fault.result = "context" THEN [small EXCEPT !.tooSmall = room]
                ELSE [q EXCEPT !.pc = "answered", !.answer = "fatal"]
<1>1. fault.result \in {"local", "skip", "raw", "context", "fatal"}
  BY FaultFacts DEF Faults
<1>2. quota \in BOOLEAN /\ no \in BOOLEAN
  OBVIOUS
<1>3. AfterFault(q, f) = IF ~fault.retryable THEN [p EXCEPT !.dead = @ \cup {Cand(q)}] ELSE p
  BY <1>1 DEF AfterFault
<1> HIDE DEF quota, no
<1>4. "passing" \in Kinds /\ "context" \in Kinds
  BY DEF Kinds
<1>5. over \in Handler /\ over.pc = "walking" /\ small \in Handler /\ small.pc = "walking"
  BY <1>2, <1>4, PassOverFacts
<1> HIDE DEF over, small, room, fault
<1>6. [over EXCEPT !.lastRaw = TRUE].pc = "walking"
      /\ "dead" \in DOMAIN [over EXCEPT !.lastRaw = TRUE]
  BY <1>5 DEF Handler
<1>7. [small EXCEPT !.tooSmall = room].pc = "walking"
  BY <1>5 DEF Handler
<1>8. [q EXCEPT !.pc = "answered", !.answer = "fatal"].pc = "answered"
  BY DEF Handler
<1>9. p.pc # "sleeping"
  BY <1>5, <1>6, <1>7, <1>8
<1> HIDE DEF p
<1>10. [p EXCEPT !.dead = @ \cup {Cand(q)}].pc = p.pc
  OBVIOUS
<1> QED
  BY <1>3, <1>9, <1>10

LEMMA FailPhase ==
  ASSUME WalkInv, NEW r \in Requests, NEW f \in DOMAIN Fault, NEW hint,
         req[r].pc \in {"trying", "reading"}, Fail(r, f, hint)
  PROVE  req'[r].pc # "sleeping"
<1> DEFINE q == req[r]
<1>1. q \in Handler /\ Sane(q)
  BY DEF WalkInv, RequestsInv, Sane
<1>2. CASE Passthrough(q, f)
  BY <1>1, <1>2 DEF Fail, WalkInv, HandlersTyped, Handler
<1>3. CASE ~Passthrough(q, f)
  <2>1. req'[r] = AfterFault(q, f)
    BY <1>3 DEF Fail, WalkInv, HandlersTyped
  <2>2. q.route \in Routes /\ q.at \in DOMAIN q.route
    BY <1>1 DEF Sane, Placed
  <2> QED
    BY <1>1, <2>1, <2>2, AfterFaultPhase
<1> QED
  BY <1>2, <1>3

\* Only falling asleep and time touch what a lone request in its sleep needs.
LEMMA MendKept ==
  ASSUME WalkInv, MendInv, \A r, s \in Requests : r = s, [Next]_vars
  PROVE  MendInv'
<1>1. ASSUME NEW r \in Requests, req'[r].pc # "sleeping"
      PROVE  MendInv'
  BY <1>1 DEF MendInv
<1> USE DEF WalkInv, HandlersTyped
<1>2. ASSUME NEW r \in Requests, Arrive(r)
      PROVE  MendInv'
  <2>1. req'[r].pc \in {"answered", "walking"}
    BY <1>2 DEF Arrive, Blank
  <2> QED
    BY <1>1, <2>1
<1>3. ASSUME NEW r \in Requests, Overlook(r)
      PROVE  MendInv'
  <2> DEFINE yes == TRUE
  <2>1. req'[r] = PassOver(req[r], "held", yes, yes)
        \/ req'[r] = PassOver(req[r], "context", yes, yes)
    BY <1>3 DEF Overlook
  <2>2. req[r] \in Handler /\ "held" \in Kinds /\ "context" \in Kinds /\ yes \in BOOLEAN
    BY DEF Kinds
  <2> HIDE DEF yes
  <2>3. req'[r].pc = "walking"
    BY <2>1, <2>2, PassOverFacts
  <2> QED
    BY <1>1, <2>3
<1>4. ASSUME NEW r \in Requests, Check(r)
      PROVE  MendInv'
  <2> DEFINE q == req[r]
  <2>1. PICK v \in Verdicts(q) :
          IF v = "open"
          THEN req' = [req EXCEPT ![r].pc = "trying"]
          ELSE req' = [req EXCEPT ![r] =
                 [PassOver(q, KindOf(v), IsQuota(v, Cand(q)), ReadsAsQuota(v, Cand(q)))
                    EXCEPT !.sawRpm = @ \/ v = "rate",
                           !.toolSkip = @ \/ v = "server tools"]]
    BY <1>4 DEF Check
  <2>2. CASE v = "open"
    BY <1>1, <2>1, <2>2 DEF Handler
  <2>3. CASE v # "open"
    <3> DEFINE p == PassOver(q, KindOf(v), IsQuota(v, Cand(q)), ReadsAsQuota(v, Cand(q)))
               a == p.sawRpm \/ v = "rate"
               b == p.toolSkip \/ v = "server tools"
    <3>1. p.pc = "walking" /\ p \in Handler
      <4>1. q \in Handler /\ KindOf(v) \in Kinds
        BY DEF KindOf, Kinds
      <4>2. IsQuota(v, Cand(q)) \in BOOLEAN /\ ReadsAsQuota(v, Cand(q)) \in BOOLEAN
        BY DEF IsQuota, ReadsAsQuota
      <4> HIDE DEF q
      <4> QED
        BY <4>1, <4>2, PassOverFacts
    <3>2. req'[r] = [p EXCEPT !.sawRpm = a, !.toolSkip = b]
      BY <2>1, <2>3
    <3> HIDE DEF p, a, b
    <3>3. req'[r].pc = "walking"
      BY <3>1, <3>2 DEF Handler
    <3> QED
      BY <1>1, <3>3
  <2> QED
    BY <2>2, <2>3
<1>5. ASSUME NEW r \in Requests, AttemptFails(r)
      PROVE  MendInv'
  BY <1>1, <1>5, FailPhase DEF AttemptFails
<1>6. ASSUME NEW r \in Requests, Headers(r)
      PROVE  MendInv'
  <2>1. req'[r] = [req[r] EXCEPT !.pc = "reading"]
    BY <1>6 DEF Headers
  <2>2. req'[r].pc = "reading"
    BY <2>1 DEF Handler
  <2> QED
    BY <1>1, <2>2
<1>7. ASSUME NEW r \in Requests, Done(r) \/ GiveUp(r)
      PROVE  MendInv'
  <2>1. req'[r].pc = "answered"
    BY <1>7 DEF Done, GiveUp, Handler
  <2> QED
    BY <1>1, <2>1
<1>8. ASSUME NEW r \in Requests, Refuse(r)
      PROVE  MendInv'
  <2> DEFINE q == req[r]
             no == FALSE
             p == PassOver(q, "refused", no, no)
             n == p.refusals + 1
  <2>1. q \in Handler /\ "refused" \in Kinds /\ no \in BOOLEAN
    BY DEF Kinds
  <2>2. req'[r] = [p EXCEPT !.refusals = n]
        \/ req'[r] = [q EXCEPT !.pc = "answered", !.answer = "done"]
    BY <1>8 DEF Refuse
  <2> HIDE DEF no
  <2>3. p.pc = "walking" /\ p \in Handler
    BY <2>1, PassOverFacts
  <2> HIDE DEF p, n
  <2>4. req'[r].pc \in {"walking", "answered"}
    BY <2>1, <2>2, <2>3 DEF Handler
  <2> QED
    BY <1>1, <2>4
<1>9. ASSUME NEW r \in Requests, BodyFails(r)
      PROVE  MendInv'
  <2>1. PICK f \in Replies \cap (Statuses \cup {"died"}) : Fail(r, f, NoHint)
    BY <1>9 DEF BodyFails
  <2>2. f \in DOMAIN Fault
    BY DEF Statuses, Fault
  <2>3. req[r].pc \in {"trying", "reading"}
    BY <1>9 DEF BodyFails
  <2> QED
    BY <1>1, <2>1, <2>2, <2>3, FailPhase
<1>10. ASSUME NEW r \in Requests, Sleep(r)
       PROVE  MendInv'
  <2>1. req'[r].sawRpm = req[r].sawRpm
    BY <1>10 DEF Sleep, Handler
  <2>2. CASE req[r].sawRpm
    BY <2>1, <2>2 DEF MendInv
  <2>3. CASE ~req[r].sawRpm
    <3>1. Mends(req[r])'
      BY <1>10, <2>3, SleepMends
    <3> QED
      BY <3>1 DEF MendInv
  <2> QED
    BY <2>2, <2>3
<1>11. ASSUME NEW r \in Requests, Wake(r)
       PROVE  MendInv'
  <2>1. req'[r].pc = "walking"
    BY <1>11 DEF Wake, Handler
  <2> QED
    BY <1>1, <2>1
<1>12. CASE Tick
  <2> SUFFICES ASSUME NEW r \in Requests, req'[r].pc = "sleeping", ~req'[r].sawRpm
               PROVE  Mends(req[r])'
    BY DEF MendInv
  <2>1. req[r].pc = "sleeping" /\ req[r].sawRpm = req'[r].sawRpm
    BY <1>12 DEF Tick, Handler
  <2> QED
    BY <1>12, <2>1, TickMends DEF MendInv
<1>13. CASE UNCHANGED vars
  BY <1>13 DEF vars, MendInv, Mends
<1> QED
  BY <1>2, <1>3, <1>4, <1>5, <1>6, <1>7, <1>8, <1>9, <1>10, <1>11, <1>12, <1>13
     DEF Next, Step

\* A sleep that is over has outlasted both blocks of some candidate.
LEMMA MendedWake ==
  ASSUME WalkInv, MendInv, NEW r \in Requests, Wake(r), ~req[r].sawRpm
  PROVE  \E c \in OnRoute(req[r]) : ~PairBlocked(c)
<1> DEFINE q == req[r]
<1>1. q.pc = "sleeping" /\ q.timer = 0 /\ Mends(q)
  BY DEF Wake, MendInv
<1>2. q.route \in Routes
  BY <1>1 DEF WalkInv, RequestsInv, Sane, Placed
<1>3. PICK c \in OnRoute(q) : \A k \in Scopes(KeyOf[c], ModelOf[c]) : Left(cool[k]) <= 0
  BY <1>1 DEF Mends
<1>4. PICK i \in DOMAIN q.route : c = q.route[i]
  BY DEF OnRoute
<1>5. ASSUME NEW k \in Scopes(KeyOf[c], ModelOf[c])
      PROVE  ~Active(cool[k])
  <2>1. k \in Keys
    BY <1>2, <1>4, RouteScopes
  <2>2. cool[k] \in Slot
    BY <2>1 DEF WalkInv, TableTyped
  <2> QED
    BY <1>3, <2>2 DEF Active, Left, Slot, Entry
<1> QED
  BY <1>3, <1>5 DEF PairBlocked, Blocked, Blocking

-----------------------------------------------------------------------------
(* What follows for every chain, every number of requests and every setting. *)

\* The table holds entries and every handler its locals, whatever happens.
THEOREM TypeCorrect == Spec => []TypeOK
<1>1. WalkInv => TypeOK
  BY DEF WalkInv, TableTyped, HandlersTyped, TypeOK
<1> QED
  BY <1>1, Invariance, PTL

\* A 400 that tells the client not to retry is given only when no candidate, in
\* any walk, was passed over for something a retry might clear.
THEOREM BadRequestsAreHonest == Spec => []HonestBadRequest
<1>1. WalkInv => HonestBadRequest
  BY DEF WalkInv, RequestsInv, Sane, Remembers, HonestBadRequest
<1> QED
  BY <1>1, Invariance, PTL

\* A refusal is the answer only when all candidates of the last walk refused.
THEOREM RefusalsAreUnanimous == Spec => []RefusalIsUnanimous
<1>1. WalkInv => RefusalIsUnanimous
  BY DEF WalkInv, RequestsInv, Sane, Counts, RefusalIsUnanimous
<1> QED
  BY <1>1, Invariance, PTL

\* The paid step of a guarded chain is tried only after quota obstacles alone.
THEOREM PaidReserveIsKept == Spec => []PaidReserveKept
<1>1. WalkInv => PaidReserveKept
  BY DEF WalkInv, RequestsInv, Sane, Reserves, PaidReserveKept
<1> QED
  BY <1>1, Invariance, PTL

\* A request that is alone never sleeps for nothing: when it wakes and no rate
\* gate was shut, some candidate of its route is not blocked.  (Another request
\* may cool that candidate again meanwhile.)
THEOREM RewalksAreNotFutile ==
  ASSUME \A r, s \in Requests : r = s
  PROVE  Spec => RewalkNotFutile
<1>1. Init => MendInv
  BY DEF Init, MendInv, Blank
<1>2. WalkInv /\ MendInv /\ [Next]_vars => MendInv'
  BY MendKept
<1>3. WalkInv /\ MendInv /\ [Next]_vars
      => [\A r \in Requests :
            Wake(r) /\ ~req[r].sawRpm => \E c \in OnRoute(req[r]) : ~PairBlocked(c)]_vars
  BY MendedWake
<1> QED
  BY <1>1, <1>2, <1>3, Invariance, PTL DEF Spec, RewalkNotFutile

-----------------------------------------------------------------------------
(* Affinity: what a walk is made of. *)

\* The first n members of s, those of S kept: the function that Keep unfolds.
Kept(f, s, S, n) ==
  f = [i \in 0 .. n |-> IF i = 0 THEN <<>>
                        ELSE IF s[i] \in S THEN Append(f[i - 1], s[i]) ELSE f[i - 1]]

\* A set of numbers that has 0, and with a number the next, has all of them.
LEMMA AllTheWay ==
  ASSUME NEW N \in Nat, NEW S, 0 \in S, \A n \in 1 .. N : n - 1 \in S => n \in S
  PROVE  0 .. N \subseteq S
<1> DEFINE Bad == (0 .. N) \ S
<1> SUFFICES ASSUME Bad # {} PROVE FALSE
  OBVIOUS
<1>1. Bad \in SUBSET Nat
  OBVIOUS
<1>2. PICK n \in Bad : \A m \in Bad : n <= m
  <2> HIDE DEF Bad
  <2> QED
    BY <1>1, LeastExists
<1>3. n \in 1 .. N /\ n - 1 \notin Bad /\ n - 1 \in 0 .. N
  BY <1>2
<1> QED
  BY <1>3

\* One step more.
LEMMA KeptGrows ==
  ASSUME NEW s, NEW S, NEW n \in Nat \ {0}, NEW f, Kept(f, s, S, n - 1)
  PROVE  \E g : Kept(g, s, S, n)
<1> DEFINE next == IF s[n] \in S THEN Append(f[n - 1], s[n]) ELSE f[n - 1]
           g == [i \in 0 .. n |-> IF i = n THEN next ELSE f[i]]
           h == [i \in 0 .. n |-> IF i = 0 THEN <<>>
                                  ELSE IF s[i] \in S THEN Append(g[i - 1], s[i]) ELSE g[i - 1]]
<1>1. ASSUME NEW i \in 0 .. n PROVE g[i] = h[i]
  <2> HIDE DEF next
  <2>1. CASE i = n
    <3>1. g[i - 1] = f[i - 1] /\ i # 0 /\ i - 1 \in 0 .. n
      BY <2>1
    <3> QED
      BY <2>1, <3>1 DEF next
  <2>2. CASE i # n
    <3>1. i \in 0 .. n - 1 /\ (i # 0 => i - 1 \in 0 .. n - 1 /\ i - 1 # n /\ i - 1 \in 0 .. n)
      BY <2>2
    <3>2. f[i] = IF i = 0 THEN <<>>
                 ELSE IF s[i] \in S THEN Append(f[i - 1], s[i]) ELSE f[i - 1]
      BY <3>1 DEF Kept
    <3>3. g[i] = f[i] /\ (i # 0 => g[i - 1] = f[i - 1])
      BY <2>2, <3>1
    <3> QED
      BY <3>1, <3>2, <3>3
  <2> QED
    BY <2>1, <2>2
<1>2. g = h
  <2>1. g = [i \in 0 .. n |-> g[i]] /\ h = [i \in 0 .. n |-> h[i]]
    OBVIOUS
  <2>2. [i \in 0 .. n |-> g[i]] = [i \in 0 .. n |-> h[i]]
    <3> HIDE DEF g, h
    <3> QED
      BY <1>1
  <2> QED
    BY <2>1, <2>2
<1>3. Kept(g, s, S, n)
  BY <1>2 DEF Kept
<1> HIDE DEF g
<1> QED
  BY <1>3

\* So the function is there at every length.
LEMMA KeptExists ==
  ASSUME NEW N \in Nat, NEW s, NEW S
  PROVE  \E f : Kept(f, s, S, N)
<1> DEFINE Good == {n \in 0 .. N : \E f : Kept(f, s, S, n)}
<1>1. \E f : Kept(f, s, S, 0)
  <2> DEFINE f == [i \in 0 .. 0 |-> <<>>]
             h == [i \in 0 .. 0 |-> IF i = 0 THEN <<>>
                                    ELSE IF s[i] \in S THEN Append(f[i - 1], s[i]) ELSE f[i - 1]]
  <2>1. \A i \in 0 .. 0 : i = 0
    OBVIOUS
  <2>2. f = h
    BY <2>1
  <2>3. Kept(f, s, S, 0)
    BY <2>2 DEF Kept
  <2> HIDE DEF f
  <2> QED
    BY <2>3
<1>2. ASSUME NEW n \in 1 .. N, n - 1 \in Good PROVE n \in Good
  <2>1. n \in Nat \ {0} /\ n \in 0 .. N
    OBVIOUS
  <2>2. PICK f : Kept(f, s, S, n - 1)
    BY <1>2
  <2> QED
    BY <2>1, <2>2, KeptGrows
<1>3. 0 \in Good
  BY <1>1
<1> HIDE DEF Good
<1>4. 0 .. N \subseteq Good
  BY <1>2, <1>3, AllTheWay
<1> QED
  BY <1>4 DEF Good

\* What Keep returns is a sequence of members of both.
LEMMA KeepIsSeq ==
  ASSUME NEW A, NEW s \in Seq(A), NEW S
  PROVE  Keep(s, S) \in Seq(A \cap S)
<1> DEFINE kept == CHOOSE f : Kept(f, s, S, Len(s))
           Good == {n \in 0 .. Len(s) : kept[n] \in Seq(A \cap S)}
<1>1. Len(s) \in Nat
  OBVIOUS
<1>2. Kept(kept, s, S, Len(s))
  BY <1>1, KeptExists
<1>3. Keep(s, S) = kept[Len(s)]
  BY DEF Keep, Kept
<1> HIDE DEF kept
<1>4. 0 \in Good
  BY <1>1, <1>2 DEF Kept
<1>5. ASSUME NEW n \in 1 .. Len(s), n - 1 \in Good PROVE n \in Good
  <2>1. n \in 0 .. Len(s) /\ n # 0 /\ s[n] \in A
    BY <1>1
  <2>2. kept[n] = IF s[n] \in S THEN Append(kept[n - 1], s[n]) ELSE kept[n - 1]
    BY <1>2, <2>1 DEF Kept
  <2>3. kept[n - 1] \in Seq(A \cap S)
    BY <1>5
  <2>4. CASE s[n] \in S
    <3> DEFINE B == A \cap S
    <3>1. s[n] \in B /\ kept[n - 1] \in Seq(B)
      BY <2>1, <2>3, <2>4
    <3> HIDE DEF B
    <3>2. kept[n] \in Seq(B)
      BY <2>2, <2>4, <3>1
    <3> QED
      BY <2>1, <3>2 DEF B
  <2>5. CASE s[n] \notin S
    BY <2>1, <2>2, <2>3, <2>5
  <2> QED
    BY <2>4, <2>5
<1>6. 0 .. Len(s) \subseteq Good
  <2> HIDE DEF Good
  <2> QED
    BY <1>1, <1>4, <1>5, AllTheWay
<1> QED
  BY <1>1, <1>3, <1>6

LEMMA PiecesFacts ==
  ASSUME NEW A, NEW s \in Seq(A)
  PROVE  Pieces(s) \subseteq A /\ s \in Seq(Pieces(s)) /\ \A i \in 1 .. Len(s) : s[i] \in Pieces(s)
<1>1. \A i \in 1 .. Len(s) : s[i] \in A /\ s[i] \in Pieces(s)
  BY DEF Pieces
<1>2. Pieces(s) \subseteq A
  BY <1>1 DEF Pieces
<1>3. s \in Seq(Pieces(s))
  BY <1>1
<1> QED
  BY <1>1, <1>2, <1>3

\* The chain of a group is a sequence of models that are listed.
LEMMA ChainFacts ==
  ASSUME NEW v \in Numbers, NEW g \in DOMAIN ChainIn[v]
  PROVE  /\ ChainIn[v][g] \in Seq(Pieces(ChainIn[v][g]))
         /\ Pieces(ChainIn[v][g]) \subseteq ListedIn[v]
         /\ g \in DOMAIN Versions[v].groups
<1> DEFINE c == Versions[v]
           all == c.groups[g]
<1>1. g \in GroupNames(c) /\ ChainIn[v][g] = Chain(c, g) /\ ListedIn[v] = Listed(c)
  BY DEF ChainIn, ListedIn
<1>2. g \in DOMAIN c.groups
  BY <1>1 DEF GroupNames
<1>3. all \in Seq(Pieces(all))
  BY <1>2, AffinityAssumption DEF Numbers
<1> HIDE DEF c, all
<1>4. Chain(c, g) \in Seq(Pieces(Chain(c, g)))
  <2> DEFINE there == {id \in Pieces(all) : Provider(id) \in On(c)}
  <2>1. Chain(c, g) = Keep(all, there)
    BY DEF Chain, all
  <2> HIDE DEF there
  <2>2. Keep(all, there) \in Seq(Pieces(all) \cap there)
    BY <1>3, KeepIsSeq
  <2> QED
    BY <2>1, <2>2, PiecesFacts
<1>5. Pieces(Chain(c, g)) \subseteq Listed(c)
  BY <1>2 DEF Listed
<1> QED
  BY <1>1, <1>2, <1>4, <1>5 DEF c

\* Ranking a chain, or putting a model in front of it, adds no other model.
LEMMA LedIsSeq ==
  ASSUME NEW A, NEW chain \in Seq(A), NEW lead
  PROVE  /\ LedBy(lead, chain) \in Seq(A \cup {lead})
         /\ lead \in A \cup {NoId} => LedBy(lead, chain) \in Seq(A)
<1> DEFINE rest == Keep(chain, Pieces(chain) \ {lead})
<1>1. rest \in Seq(A)
  <2>1. rest \in Seq(A \cap (Pieces(chain) \ {lead}))
    BY KeepIsSeq
  <2> HIDE DEF rest
  <2> QED
    BY <2>1
<1>2. LedBy(lead, chain) = IF lead = NoId THEN chain ELSE <<lead>> \o rest
  BY DEF LedBy
<1> HIDE DEF rest
<1> DEFINE B == A \cup {lead}
<1>3. chain \in Seq(B) /\ <<lead>> \o rest \in Seq(B)
  <2>1. rest \in Seq(B) /\ chain \in Seq(B) /\ <<lead>> \in Seq(B)
    BY <1>1
  <2> HIDE DEF B
  <2> QED
    BY <2>1
<1>4. lead \in A => <<lead>> \o rest \in Seq(A)
  BY <1>1
<1> QED
  BY <1>2, <1>3, <1>4

LEMMA RankedIsSeq ==
  ASSUME NEW A, NEW chain \in Seq(A), NEW left
  PROVE  ByHeadroom(chain, left) \in Seq(A)
<1> DEFINE some == {id \in Pieces(chain) : left[id] = 1}
           none == {id \in Pieces(chain) : left[id] = 0}
<1>1. ByHeadroom(chain, left) = Keep(chain, some) \o Keep(chain, none)
  BY DEF ByHeadroom
<1> HIDE DEF some, none
<1>2. Keep(chain, some) \in Seq(A \cap some) /\ Keep(chain, none) \in Seq(A \cap none)
  BY KeepIsSeq
<1>3. Keep(chain, some) \in Seq(A) /\ Keep(chain, none) \in Seq(A)
  BY <1>2
<1> QED
  BY <1>1, <1>3

-----------------------------------------------------------------------------
(* Types and walks are kept by every step. *)

AffinityInv == AffinityTypeOK /\ WalkIsOfChain

\* What one request may be.
AskedRight(q, v) ==
  /\ q \in Asked(v)
  /\ q.pc # "idle" => q.group \in DOMAIN ChainIn[v]
  /\ q.pc = "walk" => Pieces(q.walk) \subseteq Pieces(ChainIn[v][q.group]) \cup {q.lead}

LEMMA InvParts ==
  AffinityInv <=>
    /\ file \in Numbers /\ cfg \in Numbers
    /\ pins \in [Groups -> {NoId} \cup Ids]
    /\ bound \in [SessionKeys -> [id : {NoId} \cup Ids, seen : 0 .. MaxTime]]
    /\ now \in 0 .. MaxTime /\ moves \in 0 .. MaxMoves
    /\ chat \in [Chats -> Asked(cfg)]
    /\ \A r \in Chats : AskedRight(chat[r], cfg)
  BY DEF AffinityInv, AffinityTypeOK, WalkIsOfChain, AskedRight

LEMMA IdleIsRight ==
  ASSUME NEW v
  PROVE  AskedRight(Idle, v)
  BY DEF AskedRight, Idle, Asked

\* A pin that counts is listed in the configuration it is read with.
LEMMA ActivePinListed ==
  ASSUME NEW v, NEW g
  PROVE  ActivePin(v, g) \in {NoId} \cup ListedIn[v]
  BY DEF ActivePin

\* The groups requests enter by are groups of the configuration.
LEMMA EntrancesAreGroups ==
  ASSUME NEW v \in Numbers, NEW g \in Entrances[v]
  PROVE  g \in DOMAIN ChainIn[v]
<1> DEFINE c == Versions[v]
<1>1. g # NoId /\ \E d \in Doors[v] : g = d.group
  BY DEF Entrances
<1>2. \E s \in Spellings(c) : g = GroupName(c, SplitVariant(c, s.id))
  BY <1>1 DEF Doors
<1>3. g \in GroupNames(c)
  BY <1>1, <1>2 DEF GroupName
<1> QED
  BY <1>3 DEF ChainIn

LEMMA AffinityInitInv == AffinityInit => AffinityInv
<1> SUFFICES ASSUME AffinityInit PROVE AffinityInv
  OBVIOUS
<1>1. file \in Numbers /\ cfg \in Numbers
  BY DEF AffinityInit, Loads
<1>2. 0 \in 0 .. MaxTime /\ 0 \in 0 .. MaxMoves
  BY AffinityAssumption
<1>3. pins \in [Groups -> {NoId} \cup Ids]
  BY DEF AffinityInit
<1>4. bound \in [SessionKeys -> [id : {NoId} \cup Ids, seen : 0 .. MaxTime]]
  BY <1>2 DEF AffinityInit, NoBinding
<1>5. \A r \in Chats : chat[r] = Idle
  BY DEF AffinityInit
<1>6. chat \in [Chats -> Asked(cfg)]
  BY IdleIsRight DEF AffinityInit, AskedRight
<1> QED
  BY <1>1, <1>2, <1>3, <1>4, <1>5, <1>6, IdleIsRight, InvParts DEF AffinityInit

\* A step of one request, the configuration as it was.
LEMMA OneAsks ==
  ASSUME AffinityInv, NEW r \in Chats, NEW q, AskedRight(q, cfg),
         chat' = [chat EXCEPT ![r] = q], cfg' = cfg
  PROVE  chat' \in [Chats -> Asked(cfg')] /\ \A s \in Chats : AskedRight(chat'[s], cfg')
<1>1. chat \in [Chats -> Asked(cfg)] /\ \A s \in Chats : AskedRight(chat[s], cfg)
  BY InvParts
<1>2. q \in Asked(cfg)
  BY DEF AskedRight
<1>3. chat' \in [Chats -> Asked(cfg)]
  BY <1>1, <1>2
<1>4. \A s \in Chats : chat'[s] = IF s = r THEN q ELSE chat[s]
  BY <1>1
<1> QED
  BY <1>1, <1>3, <1>4

\* What the other variables may become.
RowsRight ==
  /\ file \in Numbers /\ cfg \in Numbers
  /\ pins \in [Groups -> {NoId} \cup Ids]
  /\ bound \in [SessionKeys -> [id : {NoId} \cup Ids, seen : 0 .. MaxTime]]
  /\ now \in 0 .. MaxTime /\ moves \in 0 .. MaxMoves

ChatsRight == chat \in [Chats -> Asked(cfg)] /\ \A r \in Chats : AskedRight(chat[r], cfg)

LEMMA InvHalves == AffinityInv <=> RowsRight /\ ChatsRight
  BY InvParts DEF RowsRight, ChatsRight

LEMMA AskedWith ==
  ASSUME NEW P, NEW G, NEW K, NEW I, NEW W,
         NEW q \in [pc : P, group : G, key : K, pinned : I, lead : I, walk : W],
         NEW a \in P, NEW g \in G, NEW k \in K, NEW p \in I
  PROVE  [q EXCEPT !.pc = a, !.group = g, !.key = k, !.pinned = p]
           \in [pc : P, group : G, key : K, pinned : I, lead : I, walk : W]
  OBVIOUS

LEMMA EnterKeeps ==
  ASSUME AffinityInv, NEW r \in Chats, NEW g \in Entrances[cfg], NEW k \in SessionKeys \cup {NoKey},
         Enter(r, g, k)
  PROVE  AffinityInv'
<1> DEFINE p == ActivePin(cfg, g)
           q == [Idle EXCEPT !.pc = "pin", !.group = g, !.key = k, !.pinned = p]
<1>1. cfg \in Numbers /\ g \in DOMAIN ChainIn[cfg]
  BY InvParts, EntrancesAreGroups
<1>2. p \in {NoId} \cup ListedIn[cfg]
  BY ActivePinListed
<1>3. chat' = [chat EXCEPT ![r] = q] /\ cfg' = cfg
  BY DEF Enter
<1> HIDE DEF p
<1>6. Idle \in Asked(cfg) /\ q.pc = "pin" /\ q.group = g
  BY IdleIsRight DEF AskedRight, Idle
<1>7. q \in Asked(cfg)
  BY <1>1, <1>2, <1>6, AskedWith DEF Asked
<1>8. AskedRight(q, cfg)
  <2> HIDE DEF q
  <2> QED
    BY <1>1, <1>6, <1>7 DEF AskedRight
<1> HIDE DEF q
<1>4. ChatsRight'
  BY <1>3, <1>8, OneAsks DEF ChatsRight
<1>5. RowsRight'
  BY InvHalves DEF RowsRight, Enter
<1> QED
  BY <1>4, <1>5, InvHalves, PTL

LEMMA ReadPinKeeps ==
  ASSUME AffinityInv, NEW r \in Chats, ReadPin(r)
  PROVE  AffinityInv'
<1> DEFINE p == ActivePin(cfg, chat[r].group)
           q == [chat[r] EXCEPT !.pc = "session", !.lead = p]
<1>1. AskedRight(chat[r], cfg) /\ chat[r].pc = "pin"
  BY InvParts DEF ReadPin
<1>2. p \in {NoId} \cup ListedIn[cfg]
  BY ActivePinListed
<1>3. chat' = [chat EXCEPT ![r] = q] /\ cfg' = cfg
  BY InvParts DEF ReadPin
<1> HIDE DEF p
<1>4. AskedRight(q, cfg)
  BY <1>1, <1>2 DEF AskedRight, Asked
<1> HIDE DEF q
<1>5. ChatsRight'
  BY <1>3, <1>4, OneAsks DEF ChatsRight
<1>6. RowsRight'
  BY InvHalves DEF RowsRight, ReadPin
<1> QED
  BY <1>5, <1>6, InvHalves, PTL

\* A walk that is laid out is made of the chain and of its lead.
LEMMA LayOutKeeps ==
  ASSUME AffinityInv, NEW r \in Chats, LayOut(r)
  PROVE  AffinityInv'
<1> DEFINE q == chat[r]
           listed == ChainIn[cfg][q.group]
           A == Pieces(listed)
<1>1. /\ AskedRight(q, cfg) /\ q.pc = "session" /\ cfg \in Numbers
      /\ q.group \in DOMAIN ChainIn[cfg]
  BY InvParts DEF LayOut, AskedRight
<1>2. listed \in Seq(A) /\ A \subseteq ListedIn[cfg]
  BY <1>1, ChainFacts
<1>3. PICK left \in [A -> {0, 1}] :
        LET chain == IF q.group \in Versions[cfg].headroom THEN ByHeadroom(listed, left) ELSE listed
            lead  == IF q.lead # NoId THEN q.lead ELSE Bound(q.key, chain)
        IN  chat' = [chat EXCEPT ![r].pc = "walk", ![r].walk = LedBy(lead, chain)]
  BY DEF LayOut
<1> DEFINE chain == IF q.group \in Versions[cfg].headroom THEN ByHeadroom(listed, left) ELSE listed
           lead == IF q.lead # NoId THEN q.lead ELSE Bound(q.key, chain)
           walk == LedBy(lead, chain)
           next == [q EXCEPT !.pc = "walk", !.walk = walk]
<1>4. chat' = [chat EXCEPT ![r] = next] /\ cfg' = cfg
  BY <1>3, InvParts DEF LayOut
<1>5. chain \in Seq(A)
  <2> HIDE DEF listed, A
  <2> QED
    BY <1>2, RankedIsSeq
<1>6. q.lead \in {NoId} \cup ListedIn[cfg]
  BY <1>1 DEF AskedRight, Asked
<1> HIDE DEF chain
<1>7. q.lead = NoId => lead \in A \cup {NoId}
  <2>1. Pieces(chain) \subseteq A
    <3> HIDE DEF A
    <3> QED
      BY <1>5, PiecesFacts
  <2>2. Bound(q.key, chain) \in Pieces(chain) \cup {NoId}
    BY DEF Bound
  <2> QED
    BY <2>1, <2>2
<1>8. q.lead # NoId => lead = q.lead
  OBVIOUS
<1> HIDE DEF lead, A
<1>9. walk \in Seq(A \cup {lead}) /\ (lead \in A \cup {NoId} => walk \in Seq(A))
  BY <1>5, LedIsSeq
<1> HIDE DEF walk
<1>10. walk \in Seq(ListedIn[cfg]) /\ Pieces(walk) \subseteq A \cup {q.lead}
  <2>1. CASE q.lead = NoId
    <3>1. walk \in Seq(A)
      BY <1>7, <1>9, <2>1
    <3> QED
      BY <1>2, <3>1, PiecesFacts
  <2>2. CASE q.lead # NoId
    <3>1. walk \in Seq(A \cup {q.lead}) /\ q.lead \in ListedIn[cfg]
      BY <1>6, <1>8, <1>9, <2>2
    <3> DEFINE B == A \cup {q.lead}
    <3>2. Pieces(walk) \subseteq B
      <4> HIDE DEF B
      <4> QED
        BY <3>1, PiecesFacts DEF B
    <3>3. B \subseteq ListedIn[cfg]
      BY <1>2, <3>1
    <3> QED
      BY <3>1, <3>2, <3>3
  <2> QED
    BY <2>1, <2>2
<1>11. AskedRight(next, cfg)
  <2>1. next \in Asked(cfg)
    BY <1>1, <1>10 DEF AskedRight, Asked
  <2>2. next.group = q.group /\ next.walk = walk /\ next.lead = q.lead
    BY <1>1 DEF AskedRight, Asked
  <2> HIDE DEF next, q
  <2> QED
    BY <1>1, <1>10, <2>1, <2>2 DEF AskedRight, A
<1> HIDE DEF next
<1>12. ChatsRight'
  BY <1>4, <1>11, OneAsks DEF ChatsRight
<1>13. RowsRight'
  BY InvHalves DEF RowsRight, LayOut
<1> QED
  BY <1>12, <1>13, InvHalves, PTL

\* What wins is listed, so what is bound is.
LEMMA WonIsListed ==
  ASSUME AffinityInv, NEW r \in Chats, NEW i \in 1 .. Len(chat[r].walk)
  PROVE  /\ chat[r].walk[i] \in Ids
         /\ chat[r].walk[i] \in Pieces(chat[r].walk)
<1>1. chat[r].walk \in Seq(ListedIn[cfg]) /\ cfg \in Numbers
  BY InvParts DEF AskedRight, Asked
<1>2. chat[r].walk[i] \in ListedIn[cfg]
  BY <1>1
<1> QED
  BY <1>1, <1>2 DEF Ids, Pieces

LEMMA WinKeeps ==
  ASSUME AffinityInv, NEW r \in Chats, NEW i \in 1 .. Len(chat[r].walk), Win(r, i)
  PROVE  AffinityInv'
<1> DEFINE q == chat[r]
           id == q.walk[i]
<1>1. id \in Ids /\ q.key \in SessionKeys \cup {NoKey} /\ now \in 0 .. MaxTime
  BY WonIsListed, InvParts DEF AskedRight, Asked
<1>2. bound' = IF Binds(q, id) THEN [bound EXCEPT ![q.key] = [id |-> id, seen |-> now]] ELSE bound
  BY DEF Win
<1>3. chat' = [chat EXCEPT ![r] = Idle] /\ cfg' = cfg
  BY DEF Win
<1>4. ChatsRight'
  BY <1>3, IdleIsRight, OneAsks DEF ChatsRight
<1>5. bound' \in [SessionKeys -> [id : {NoId} \cup Ids, seen : 0 .. MaxTime]]
  <2> HIDE DEF q, id
  <2>1. [id |-> id, seen |-> now] \in [id : {NoId} \cup Ids, seen : 0 .. MaxTime]
    BY <1>1
  <2> QED
    BY <1>2, <2>1, InvParts
<1>6. RowsRight'
  BY <1>5, InvHalves DEF RowsRight, Win
<1> QED
  BY <1>4, <1>6, InvHalves, PTL

LEMMA LoseKeeps ==
  ASSUME AffinityInv, NEW r \in Chats, Lose(r)
  PROVE  AffinityInv'
<1>1. chat' = [chat EXCEPT ![r] = Idle] /\ cfg' = cfg
  BY DEF Lose
<1>2. ChatsRight'
  BY <1>1, IdleIsRight, OneAsks DEF ChatsRight
<1>3. RowsRight'
  BY InvHalves DEF RowsRight, Lose
<1> QED
  BY <1>2, <1>3, InvHalves, PTL

\* A pin is listed in the configuration it was set from.
LEMMA TargetsAreListed ==
  ASSUME NEW v \in Numbers, NEW to \in Targets[v]
  PROVE  to \in {NoId} \cup Ids
<1>1. to = NoId \/ to \in ListedIn[v]
  BY DEF Targets
<1> QED
  BY <1>1 DEF Ids

\* Moves of the world and of `pxy route` leave the requests alone, but for a restart.
LEMMA WorldKeeps ==
  ASSUME AffinityInv,
         \/ \E g \in DOMAIN ChainIn[file], to \in Targets[file] : Route(g, to)
         \/ ClearAll \/ Edit \/ ClockTicks \/ SetBack
  PROVE  AffinityInv'
<1>1. RowsRight /\ ChatsRight
  BY InvHalves
<1>2. chat' = chat /\ cfg' = cfg
  BY DEF Route, ClearAll, Edit, ClockTicks, SetBack
<1>3. ChatsRight'
  BY <1>1, <1>2 DEF ChatsRight
<1>4. MaxTime \in Nat /\ MaxMoves \in Nat
  BY AffinityAssumption
<1>5. Move => moves' \in 0 .. MaxMoves
  BY <1>1, <1>4 DEF RowsRight, Move
<1>6. CASE \E g \in DOMAIN ChainIn[file], to \in Targets[file] : Route(g, to)
  <2>1. PICK g \in DOMAIN ChainIn[file], to \in Targets[file] : Route(g, to)
    BY <1>6
  <2>2. to \in {NoId} \cup Ids
    BY <1>1, TargetsAreListed DEF RowsRight
  <2>3. RowsRight'
    BY <1>1, <1>5, <2>1, <2>2 DEF RowsRight, Route
  <2> QED
    BY <1>3, <2>3, InvHalves, PTL
<1>7. CASE ClearAll
  <2>1. pins' \in [Groups -> {NoId} \cup Ids]
    BY <1>1, <1>7 DEF RowsRight, ClearAll
  <2>2. RowsRight'
    BY <1>1, <1>5, <1>7, <2>1 DEF RowsRight, ClearAll
  <2> QED
    BY <1>3, <2>2, InvHalves, PTL
<1>8. CASE Edit
  <2>1. RowsRight'
    BY <1>1, <1>5, <1>8 DEF RowsRight, Edit
  <2> QED
    BY <1>3, <2>1, InvHalves, PTL
<1>9. CASE ClockTicks
  <2>1. RowsRight'
    BY <1>1, <1>4, <1>9 DEF RowsRight, ClockTicks
  <2> QED
    BY <1>3, <2>1, InvHalves, PTL
<1>10. CASE SetBack
  <2>1. RowsRight'
    BY <1>1, <1>4, <1>5, <1>10 DEF RowsRight, SetBack
  <2> QED
    BY <1>3, <2>1, InvHalves, PTL
<1> QED
  BY <1>6, <1>7, <1>8, <1>9, <1>10

LEMMA RestartKeeps ==
  ASSUME AffinityInv, Restart
  PROVE  AffinityInv'
<1>1. RowsRight'
  BY InvHalves DEF RowsRight, Restart
<1>2. \A r \in Chats : chat'[r] = Idle
  BY DEF Restart
<1>3. chat' \in [Chats -> Asked(cfg')]
  BY IdleIsRight DEF Restart, AskedRight
<1>4. ChatsRight'
  BY <1>2, <1>3, IdleIsRight DEF ChatsRight
<1> QED
  BY <1>1, <1>4, InvHalves, PTL

LEMMA AffinityNextInv == AffinityInv /\ [AffinityNext]_affinityVars => AffinityInv'
<1> SUFFICES ASSUME AffinityInv, [AffinityNext]_affinityVars PROVE AffinityInv'
  OBVIOUS
<1>1. CASE UNCHANGED affinityVars
  <2>1. RowsRight' /\ ChatsRight'
    BY <1>1, InvHalves DEF affinityVars, RowsRight, ChatsRight
  <2> QED
    BY <2>1, InvHalves, PTL
<1>2. CASE AffinityNext
  BY <1>2, EnterKeeps, ReadPinKeeps, LayOutKeeps, WinKeeps, LoseKeeps, WorldKeeps, RestartKeeps
     DEF AffinityNext
<1> QED
  BY <1>1, <1>2

LEMMA AffinityInvariance == AffinitySpec => []AffinityInv
  BY AffinityInitInv, AffinityNextInv, PTL DEF AffinitySpec

-----------------------------------------------------------------------------
(* What the invariant gives. *)

\* Types; pins, leads and every member of a walk are listed in the configuration the daemon runs
\* with (active_route_pin, resolve_candidates), and every binding and stored pin in some version
\* of the file.
THEOREM RoutesTyped == AffinitySpec => []AffinityTypeOK
<1>1. AffinityInv => AffinityTypeOK
  BY DEF AffinityInv
<1> QED
  BY <1>1, AffinityInvariance, PTL

\* Only a win changes a binding: that of its own key.
LEMMA OnlyWinsBind ==
  ASSUME AffinityInv, AffinityNext, NEW k \in SessionKeys, bound'[k] # bound[k]
  PROVE  \E r \in Chats : \E i \in 1 .. Len(chat[r].walk) :
           /\ Win(r, i) /\ Binds(chat[r], chat[r].walk[i])
           /\ chat[r].key = k /\ bound'[k].id = chat[r].walk[i]
<1>1. PICK r \in Chats : \E i \in 1 .. Len(chat[r].walk) : Win(r, i)
  BY DEF AffinityNext, Enter, ReadPin, LayOut, Lose, Route, ClearAll, Edit, Restart, ClockTicks, SetBack
<1>2. PICK i \in 1 .. Len(chat[r].walk) : Win(r, i)
  BY <1>1
<1> DEFINE q == chat[r]
           id == q.walk[i]
<1>3. bound' = IF Binds(q, id) THEN [bound EXCEPT ![q.key] = [id |-> id, seen |-> now]] ELSE bound
  BY <1>2 DEF Win
<1> HIDE DEF q, id
<1>4. DOMAIN bound = SessionKeys
  BY InvParts
<1>5. Binds(q, id) /\ q.key = k /\ bound'[k] = [id |-> id, seen |-> now]
  BY <1>3, <1>4
<1> QED
  BY <1>2, <1>5 DEF q, id

\* The pin moves no conversation: whatever changes a session's binding is a win of a request of
\* that session, and where the pin was not moved while the request was at the door, what it is
\* bound to is of its group's chain and not what the pin put in front (the comment on pinned_ids,
\* router.rs 702).
THEOREM BindingsAreOwnWins == AffinitySpec => BindsOwnWin
<1>1. ASSUME AffinityInv, AffinityNext, NEW k \in SessionKeys, bound'[k] # bound[k]
      PROVE  \E r \in Chats :
               /\ chat[r].pc = "walk" /\ chat'[r].pc = "idle" /\ chat[r].key = k
               /\ \E i \in 1 .. Len(chat[r].walk) : chat[r].walk[i] = bound'[k].id
               /\ chat[r].pinned = chat[r].lead =>
                    bound'[k].id \in Pieces(ChainIn[cfg][chat[r].group]) \ {chat[r].lead}
  <2>1. PICK r \in Chats : \E i \in 1 .. Len(chat[r].walk) :
          /\ Win(r, i) /\ Binds(chat[r], chat[r].walk[i])
          /\ chat[r].key = k /\ bound'[k].id = chat[r].walk[i]
    BY <1>1, OnlyWinsBind
  <2>2. PICK i \in 1 .. Len(chat[r].walk) :
          /\ Win(r, i) /\ Binds(chat[r], chat[r].walk[i])
          /\ chat[r].key = k /\ bound'[k].id = chat[r].walk[i]
    BY <2>1
  <2>3. chat[r].pc = "walk" /\ chat'[r] = Idle
    BY <1>1, <2>2, InvParts DEF Win
  <2>4. chat[r].walk[i] \in Pieces(ChainIn[cfg][chat[r].group]) \cup {chat[r].lead}
    BY <1>1, <2>2, <2>3, WonIsListed, InvParts DEF AskedRight
  <2>5. chat[r].walk[i] # chat[r].pinned
    BY <2>2 DEF Binds
  <2> QED
    BY <2>2, <2>3, <2>4, <2>5 DEF Idle
<1>2. AffinityInv /\ [AffinityNext]_affinityVars =>
        [\A k \in SessionKeys : bound'[k] # bound[k] =>
           \E r \in Chats :
             /\ chat[r].pc = "walk" /\ chat'[r].pc = "idle" /\ chat[r].key = k
             /\ \E i \in 1 .. Len(chat[r].walk) : chat[r].walk[i] = bound'[k].id
             /\ chat[r].pinned = chat[r].lead =>
                  bound'[k].id \in Pieces(ChainIn[cfg][chat[r].group]) \ {chat[r].lead}]_affinityVars
  BY <1>1
<1> QED
  BY <1>2, AffinityInvariance, PTL DEF AffinitySpec, BindsOwnWin
=============================================================================
