------------------------------- MODULE Stats -------------------------------
(***************************************************************************)
(* The rows `pxy stats` reads: one per upstream leg (Leg in router.rs,     *)
(* record_attempt in media/mod.rs), one per served call, swept when old    *)
(* (state.rs), and the report made of them (stats.rs).  Nothing steers by  *)
(* them.  Time is the machine's: `moment` never goes back, `now` may.      *)
(***************************************************************************)
EXTENDS Integers, Sequences, FiniteSets, SequencesExt

CONSTANTS
  Legs,        \* chat legs: to [agent, provider, model, input], its input what it will spend
  MediaLegs,   \* media legs: to [agent, provider, model]
  Spans,       \* how long a media leg may last
  Outcomes,    \* what a leg that is not walked away from may end with
  Answering,   \* "ok", "truncated", "refused": outcomes that are no errors
  Retain,      \* retain_days
  SweepGap,    \* STATS_PRUNE_INTERVAL_MS
  Tables,      \* what earlier processes may have left in the table of legs
  MaxRows,     \* bound of the model: legs written
  MaxRuns,     \* bound of the model: served calls
  Every        \* what a filter that is not given lets through

ASSUME StatsAssumption == {Retain, SweepGap, MaxRows, MaxRuns} \subseteq Nat

Caller(w) == IF w \in DOMAIN Legs THEN Legs[w] ELSE MediaLegs[w]

VARIABLES
  legs,     \* Leg: where each chat leg is
  rows,     \* the table attempts, in the order of its ids
  runs,     \* the table tool_runs, too
  swept,    \* stats_swept
  stats     \* the legs and calls there were; history: whether the last sweep failed

statsVars == <<legs, rows, runs, swept, stats>>

Never == -1

NoLeg == [on |-> FALSE, at |-> 0, since |-> 0, input |-> 0]

OpenLeg(now, moment) == [NoLeg EXCEPT !.on = TRUE, !.at = now, !.since = moment]

NoStats == [stale |-> FALSE, legs |-> 0, runs |-> 0]

StatsInit(tables) ==
  /\ legs = [w \in DOMAIN Legs |-> NoLeg]
  /\ rows \in tables /\ runs = <<>> /\ swept = Never
  /\ stats = NoStats

-----------------------------------------------------------------------------
(* state.rs *)

\* Mutant: the row that is as old as it may be goes too.
Swept_OneMore(table, now) == SelectSeq(table, LAMBDA r : r.at > now - Retain)

Swept(table, now) == SelectSeq(table, LAMBDA r : ~(r.at < now - Retain))

\* sweep_stats: at most once in a while, as far as this process knows.
SweepDue(now) == swept = Never \/ (IF now < swept THEN 0 ELSE now - swept) >= SweepGap

\* record_attempt, record_tool_run, with [stats] on: best effort, a row may not be written; each table is swept
\* by itself, and a sweep that failed is not made again before the next is due.
Records(now, newRows, newRuns, count) ==
  \E stored \in BOOLEAN, failing \in SUBSET {"attempts", "tool_runs"} :
    LET due == SweepDue(now)
        after(table, name) == IF due /\ name \notin failing THEN Swept(table, now) ELSE table
    IN  /\ ~due => failing = {}
        /\ rows' = after(IF stored THEN rows \o newRows ELSE rows, "attempts")
        /\ runs' = after(IF stored THEN runs \o newRuns ELSE runs, "tool_runs")
        /\ swept' = IF due THEN now ELSE swept
        /\ stats' = [count EXCEPT !.stale = IF due THEN "attempts" \in failing ELSE @]

\* attempts_since, tool_runs_since: ORDER BY ts, id.
Since(table, since) ==
  LET kept == {i \in DOMAIN table : table[i].at >= since}
      before(i, j) == table[i].at < table[j].at \/ (table[i].at = table[j].at /\ i < j)
  IN  [n \in DOMAIN SetToSortSeq(kept, before) |-> table[SetToSortSeq(kept, before)[n]]]

-----------------------------------------------------------------------------
(* router.rs, media/mod.rs: who writes them. *)

\* A call that reached the wire took time: zero is "never measured".
Elapsed(since, moment) == IF moment > since THEN moment - since ELSE 1

\* Leg::begin.
LegBegins(w, now, moment) ==
  /\ ~legs[w].on /\ stats.legs < MaxRows
  /\ legs' = [legs EXCEPT ![w] = OpenLeg(now, moment)]
  /\ stats' = [stats EXCEPT !.legs = @ + 1]
  /\ UNCHANGED <<rows, runs, swept>>

LegRow(w, outcome, moment) ==
  [at |-> legs[w].at, of |-> w, outcome |-> outcome, ms |-> Elapsed(legs[w].since, moment), input |-> legs[w].input]

\* Leg::set_usage.
LegUses(w) ==
  /\ legs[w].on /\ legs[w].input = 0
  /\ legs' = [legs EXCEPT ![w].input = Legs[w].input]
  /\ UNCHANGED <<rows, runs, swept, stats>>

\* Leg::finish.
LegEnds(w, now, moment) ==
  /\ legs[w].on
  /\ \E outcome \in Outcomes : Records(now, <<LegRow(w, outcome, moment)>>, <<>>, stats)
  /\ legs' = [legs EXCEPT ![w] = NoLeg]

\* Leg::next: a continuation is a leg of its own on the same candidate.
LegGoesOn(w, now, moment) ==
  /\ legs[w].on /\ stats.legs < MaxRows
  /\ \E outcome \in {"ok", "dead"} \cap Outcomes :
       Records(now, <<LegRow(w, outcome, moment)>>, <<>>, [stats EXCEPT !.legs = @ + 1])
  /\ legs' = [legs EXCEPT ![w] = OpenLeg(now, moment)]

\* Leg's Drop: the client walked away.
LegDropped(w, now, moment) ==
  /\ legs[w].on
  /\ Records(now, <<LegRow(w, "disconnect", moment)>>, <<>>, stats)
  /\ legs' = [legs EXCEPT ![w] = NoLeg]

\* record_attempt of media/mod.rs: dated by the leg's end, and there is none of one that was
\* walked away from.
MediaLegEnds(now) ==
  /\ stats.legs < MaxRows
  /\ \E w \in DOMAIN MediaLegs, outcome \in Outcomes \cap {"ok", "http", "failed"}, ms \in Spans :
       Records(now, <<[at |-> now, of |-> w, outcome |-> outcome, ms |-> ms, input |-> 0]>>, <<>>,
               [stats EXCEPT !.legs = @ + 1])
  /\ UNCHANGED legs

\* record_tool_run of router.rs: dated by its end.
ToolRun(now) ==
  /\ stats.runs < MaxRuns
  /\ Records(now, <<>>, <<[at |-> now]>>, [stats EXCEPT !.runs = @ + 1])
  /\ UNCHANGED legs

StatsNext(now, moment) ==
  \/ \E w \in DOMAIN Legs : \/ LegBegins(w, now, moment) \/ LegUses(w) \/ LegEnds(w, now, moment)
                            \/ LegGoesOn(w, now, moment) \/ LegDropped(w, now, moment)
  \/ MediaLegEnds(now)
  \/ ToolRun(now)

\* The process ends with its legs, and what it knew of sweeps.
StatsCrash ==
  /\ legs' = [w \in DOMAIN Legs |-> NoLeg] /\ swept' = Never
  /\ UNCHANGED <<rows, runs, stats>>

-----------------------------------------------------------------------------
(* stats.rs *)

IsError(r) == r.outcome \notin Answering

Candidate(r) == <<Caller(r.of).provider, Caller(r.of).model>>

\* Filter::keeps: a model is named by itself or with its provider.
Keeps(f, r) ==
  /\ f.provider \in {Every, Caller(r.of).provider}
  /\ f.agent \in {Every, Caller(r.of).agent}
  /\ \E p \in {Every, Caller(r.of).provider}, m \in {Every, Caller(r.of).model} : f.model = <<p, m>>

\* The rows of a report.
Reported(f, since) == SelectSeq(Since(rows, since), LAMBDA r : Keeps(f, r))

NoAgg == [legs |-> 0, errors |-> 0, input |-> 0, latencies |-> <<>>]

\* Agg::add: a leg that did not answer has no latency to tell.
Added(a, r) ==
  [a EXCEPT !.legs = @ + 1, !.input = @ + r.input,
            !.errors = IF IsError(r) THEN @ + 1 ELSE @,
            !.latencies = IF IsError(r) THEN @ ELSE Append(@, r.ms)]

Agg(rs) == FoldLeft(Added, NoAgg, rs)

\* Agg::percentile: the nearest rank.
Percentile(latencies, percent) ==
  LET sorted == SortSeq(latencies, LAMBDA x, y : x < y)
      rank == (percent * Len(sorted) + 99) \div 100
  IN  sorted[IF rank < 1 THEN 1 ELSE rank]

Key(r, by) ==
  CASE by = "model" -> Candidate(r)
    [] by = "provider" -> Caller(r.of).provider
    [] by = "agent" -> Caller(r.of).agent

\* group_by.
GroupBy(rs, by) ==
  [k \in {Key(rs[i], by) : i \in DOMAIN rs} |-> Agg(SelectSeq(rs, LAMBDA r : Key(r, by) = k))]

\* error_groups: the reason is what it ended with.
ErrorGroups(rs) ==
  LET folded(g, r) ==
        LET old == IF r.outcome \in DOMAIN g THEN g[r.outcome] ELSE [n |-> 0, last |-> -1, of |-> Every]
            new == [n |-> old.n + 1, last |-> IF r.at > old.last THEN r.at ELSE old.last,
                    of |-> IF r.at > old.last THEN Candidate(r) ELSE old.of]
        IN  [o \in DOMAIN g \cup {r.outcome} |-> IF o = r.outcome THEN new ELSE g[o]]
  IN  FoldLeft(folded, [o \in {} |-> NoAgg], SelectSeq(rs, IsError))

-----------------------------------------------------------------------------
(* Properties' parts. *)

Filters ==
  LET of(field) == {Caller(w)[field] : w \in DOMAIN Legs \cup DOMAIN MediaLegs}
  IN  [provider : {Every} \cup of("provider"), agent : {Every} \cup of("agent"),
       model : {<<Every, Every>>} \cup ({Every} \cup of("provider")) \X of("model")]

Total(groups, field) == FoldLeft(LAMBDA n, k : n + groups[k][field], 0, SetToSeq(DOMAIN groups))

\* Where the report of a window and a filter cuts the same legs by another key, or into
\* failures, it tells as many as its heading; a percentile is a latency of a leg as many are
\* under as it says; and the candidate a failure is laid to is one it last happened to.
AddsUp(f, since) ==
  LET rs == Reported(f, since)
      total == Agg(rs)
      failures == ErrorGroups(rs)
      under(x) == Cardinality({i \in DOMAIN total.latencies : total.latencies[i] <= x})
  IN  /\ \A by \in {"model", "provider", "agent"}, field \in {"legs", "errors", "input"} :
           Total(GroupBy(rs, by), field) = total[field]
      /\ Total(failures, "n") = total.errors
      /\ total.latencies # <<>> =>
           \A q \in {50, 95} :
             /\ 100 * under(Percentile(total.latencies, q)) >= q * Len(total.latencies)
             /\ 100 * under(Percentile(total.latencies, q) - 1) < q * Len(total.latencies)
      /\ \A o \in DOMAIN failures :
           LET bit == {i \in DOMAIN rs : rs[i].outcome = o}
           IN  \E i \in bit : Candidate(rs[i]) = failures[o].of /\ \A j \in bit : rs[j].at <= rs[i].at

\* No row goes before its time, and none is changed.
KeepsRows(now) ==
  \A i \in DOMAIN rows : rows[i].at >= now - Retain => \E j \in DOMAIN rows' : rows'[j] = rows[i]

\* Where the last sweep went well, a write leaves no row whose leg ended much longer ago than
\* it is to be kept.
ForgetsRows(now) ==
  rows' # rows /\ ~stats'.stale => \A i \in DOMAIN rows' : now - (rows'[i].at + rows'[i].ms) <= Retain + SweepGap
=============================================================================
