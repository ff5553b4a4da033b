----------------------------- MODULE UsageBooks -----------------------------
(***************************************************************************)
(* The counters of pxy that outlive the process (state.rs, usage.rs): one  *)
(* row per state key and per window of a day, of a month and of all time.  *)
(* Windows start at a reset time the user sets, in a time zone the user    *)
(* sets: a calendar is three constants, so that days of 23 and 25 hours    *)
(* and a reset that a clock change moves are among the calendars.          *)
(***************************************************************************)
EXTENDS Integers

CONSTANTS
  Days,      \* the civil days of the calendar, numbered
  Midnight,  \* the instant each day begins
  ResetAt,   \* the instant the reset time names on each day
  Firsts,    \* the days that are the first of a month
  Earliest, Latest   \* the instants the calendar speaks of

Instants == Earliest .. Latest

ASSUME CalendarAssumption ==
  /\ Days \subseteq Int /\ Firsts \subseteq Days
  /\ Midnight \in [Days -> Int] /\ ResetAt \in [Days -> Int]
  /\ Earliest \in Int /\ Latest \in Int /\ Earliest <= Latest
  \* A reset lies in its own day.
  /\ \A d \in Days : Midnight[d] <= ResetAt[d]
  /\ \A d, e \in Days : d < e => ResetAt[d] < Midnight[e]
  \* An instant the calendar speaks of lies in a day and in a month of it, and before
  \* the reset of either the calendar knows the day or month before.
  /\ \A t \in Instants : \E d \in Days :
       /\ Midnight[d] <= t
       /\ \A e \in Days : d < e => t < Midnight[e]
       /\ t < ResetAt[d] => d - 1 \in Days
       /\ \E f \in Firsts :
            /\ f <= d
            /\ \A g \in Firsts : g <= d => g <= f
            /\ t < ResetAt[f] => \E h \in Firsts : /\ h < f
                                                 /\ \A g \in Firsts : g < f => g <= h

-----------------------------------------------------------------------------
(* current_windows. *)

\* The civil date of an instant.
Today(t) == CHOOSE d \in Days : /\ Midnight[d] <= t
                                /\ \A e \in Days : d < e => t < Midnight[e]

\* The first of the month a day is in.
FirstOf(d) == CHOOSE f \in Firsts : f <= d /\ \A g \in Firsts : g <= d => g <= f

\* The first of the month before the one that starts on f.
FirstBefore(f) == CHOOSE h \in Firsts : h < f /\ \A g \in Firsts : g < f => g <= h

DayStart(t) ==
  IF t >= ResetAt[Today(t)] THEN ResetAt[Today(t)] ELSE ResetAt[Today(t) - 1]

\* Mutant: the first of the month opens the month before its reset has come.
MonthStart_AtMidnight(t) == ResetAt[FirstOf(Today(t))]

MonthStart(t) ==
  LET first == FirstOf(Today(t))
  IN  IF t >= ResetAt[first] THEN ResetAt[first] ELSE ResetAt[FirstBefore(first)]

Periods == {"day", "month", "total"}

\* The key of a period's row: current_windows, and the fixed key of the total.
Start(p, t) == CASE p = "day" -> DayStart(t)
                 [] p = "month" -> MonthStart(t)
                 [] p = "total" -> 0

-----------------------------------------------------------------------------
(* The rows: a function on the keys <<state key, period, start>> written so far. *)

Row == [requests : Nat, tokens : Nat]

Blank == [requests |-> 0, tokens |-> 0]

NoRows == [k \in {} |-> Blank]

\* usage_keyed: a row that is not there reads as zero.
RowAt(rows, k) == IF k \in DOMAIN rows THEN rows[k] ELSE Blank

Used(rows, key, p, t) == RowAt(rows, <<key, p, Start(p, t)>>)

\* Mutant: the loop over the windows starts with the total.
Written_TotalFirst(n) ==
  CASE n = 0 -> {} [] n = 1 -> {"total"} [] n = 2 -> {"total", "month"} [] n = 3 -> Periods

\* The periods the first n upserts of the loop reach; an error ends the loop.
Written(n) ==
  CASE n = 0 -> {} [] n = 1 -> {"day"} [] n = 2 -> {"day", "month"} [] n = 3 -> Periods

\* record_usage (requests = 1) and add_tokens (requests = 0) at t, of which n of the
\* three upserts succeed.
Recorded(rows, key, t, requests, tokens, n) ==
  LET keys == {<<key, p, Start(p, t)>> : p \in Written(n)}
  IN  [k \in DOMAIN rows \cup keys |->
         IF k \in keys
         THEN [requests |-> RowAt(rows, k).requests + requests,
               tokens |-> RowAt(rows, k).tokens + tokens]
         ELSE rows[k]]
=============================================================================
