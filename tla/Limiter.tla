------------------------------ MODULE Limiter ------------------------------
(***************************************************************************)
(* What a daily, monthly or lifetime limit of pxy promises.  A request is  *)
(* let through while the window's count is below the limit, and what it    *)
(* will count is owed from then on: nothing is reserved.  So a window can  *)
(* end above its limit, by no more than what was owed when it was reached. *)
(***************************************************************************)
EXTENDS Integers, FiniteSets

CONSTANTS
  Slots,   \* requests that may be in flight at once
  Most,    \* the counts one request may lead to
  Cap      \* the limit

\* What a limiter is given; a module that uses one has it of its own constants.
LimiterAssumption ==
  /\ IsFiniteSet(Slots) /\ Slots # {}
  /\ Most \in Nat \ {0}
  /\ Cap \in Nat

VARIABLES
  span,   \* which window the count is of
  marks,  \* what the window's row says
  due,    \* counts that may still come of requests let through
  waved   \* counted in the window behind no gate

limiterVars == <<span, marks, due, waved>>

Debts == Slots \X (1 .. Most)

LimiterTypeOK ==
  /\ span \in Int
  /\ marks \in Nat
  /\ due \in SUBSET Debts
  /\ waved \in Nat

LimiterInit ==
  /\ span \in Int
  /\ marks = 0
  /\ due = {}
  /\ waved = 0

\* The count is read below the limit and nothing is written.
LetIn ==
  /\ marks < Cap
  /\ \E s \in Slots : \E n \in 1 .. Most :
       /\ due \cap ({s} \X (1 .. Most)) = {}
       /\ due' = due \cup ({s} \X (1 .. n))
  /\ UNCHANGED <<span, marks, waved>>

CountOne ==
  /\ \E x \in due : due' = due \ {x}
  /\ marks' = marks + 1
  /\ UNCHANGED <<span, waved>>

\* The request ends early, the process dies or the row is not written.
Forgive ==
  /\ due' \in SUBSET due
  /\ UNCHANGED <<span, marks, waved>>

\* Something that asks no limit is counted with the rest.
Bypass ==
  /\ marks' = marks + 1
  /\ waved' = waved + 1
  /\ UNCHANGED <<span, due>>

\* A new window: its row does not exist yet.
Roll ==
  /\ span' \in Int /\ span' > span
  /\ marks' = 0
  /\ waved' = 0
  /\ UNCHANGED due

LimiterNext == LetIn \/ CountOne \/ Forgive \/ Bypass \/ Roll

LimiterSpec == LimiterInit /\ [][LimiterNext]_limiterVars

\* A window's count never exceeds the limit by more than the counts of the requests
\* that were in flight together, whatever they end in.
Overshoot ==
  marks + Cardinality(due) <= Cap - 1 + Cardinality(Slots) * Most + waved
=============================================================================
