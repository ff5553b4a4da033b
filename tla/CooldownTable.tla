--------------------------- MODULE CooldownTable ---------------------------
(***************************************************************************)
(* The cooldown table of pxy (state.rs): what an entry holds, how a        *)
(* failure extends it, how a reader takes it.  One table serves two        *)
(* scopes: an entry for a whole provider and an entry for one model of it. *)
(*                                                                         *)
(* A table is a function on Keys.  NoEntry stands for a key the HashMap or *)
(* the SQL table does not hold.  Deadlines are kept as the time LEFT until *)
(* them, which the clock counts down to 0, so that a table has finitely    *)
(* many values.  The unit of time is the ladder's first step (3 s).        *)
(***************************************************************************)
EXTENDS Integers

CONSTANTS
  Providers,    \* state keys of providers (one per account)
  Models,       \* model ids
  AnyModel,     \* the "model" of a provider-wide entry
  NoEntry,      \* the value of a key that is not in the table
  LadderBase,   \* first step of the ladder, state.rs:689
  LadderCap,    \* ceiling of the ladder, state.rs:691
  LongestSpan,  \* longest span an upstream may ask for, state.rs:686
  LevelMax      \* where the level saturates (u32::MAX in the code)

Keys == Providers \X (Models \cup {AnyModel})

Entry == [left : Nat, level : 0..LevelMax, retryable : BOOLEAN]

ASSUME TableAssumption ==
  /\ AnyModel \notin Models
  /\ NoEntry \notin Entry
  /\ LadderBase \in Nat \ {0}
  /\ LadderCap \in Nat
  /\ LadderCap >= LadderBase
  /\ LongestSpan \in Nat
  /\ LevelMax \in Nat \ {0}

Slot == Entry \cup {NoEntry}

Lesser(a, b) == IF a <= b THEN a ELSE b
Larger(a, b) == IF a <= b THEN b ELSE a

\* The keys a request for model m of provider p is checked against.
Scopes(p, m) == {<<p, AnyModel>>, <<p, m>>}

-----------------------------------------------------------------------------
(* Writing an entry. *)

\* 2^(level.min(6) - 1), the multiple of the base a level waits.
Multiple == <<1, 2, 4, 8, 16, 32>>

LadderSpan(level) ==
  Lesser(LadderBase * Multiple[Lesser(level, 6)], LadderCap)

\* The level of an entry survives its expiry: only its removal resets it.
LevelOf(e) == IF e = NoEntry THEN 0 ELSE e.level

Left(e) == IF e = NoEntry THEN 0 ELSE e.left

\* Mutants: the level runs past its width; an expired entry counts as none.
LadderEntry_Unsaturated(e, retryable) ==
  [left |-> LadderSpan(LevelOf(e) + 1), level |-> LevelOf(e) + 1,
   retryable |-> retryable]

LadderEntry_ExpiredIsNone(e, retryable) ==
  LET level == IF Left(e) > 0 THEN Lesser(LevelOf(e) + 1, LevelMax) ELSE 1
  IN  [left |-> LadderSpan(level), level |-> level, retryable |-> retryable]

\* A failure with no Retry-After climbs the ladder from the entry it replaces.
LadderEntry(e, retryable) ==
  LET level == Lesser(LevelOf(e) + 1, LevelMax)
  IN  [left |-> LadderSpan(level), level |-> level, retryable |-> retryable]

\* Mutant: the 30 day cut is lost.
SpanEntry_Uncut(span, retryable) ==
  [left |-> span, level |-> 0, retryable |-> retryable]

\* A failure with a span of its own replaces the entry and resets the level.
SpanEntry(span, retryable) ==
  [left |-> Lesser(span, LongestSpan), level |-> 0, retryable |-> retryable]

\* One unit of time passes.
Aged(e) ==
  IF e = NoEntry \/ e.left = 0 THEN e ELSE [e EXCEPT !.left = @ - 1]

-----------------------------------------------------------------------------
(* Reading a table. *)

\* until > now: an expired entry stays, it just stops blocking.
Active(e) == e # NoEntry /\ e.left > 0

Blocking(tab, p, m) == {k \in Scopes(p, m) : Active(tab[k])}

Blocked(tab, p, m) == Blocking(tab, p, m) # {}

\* Mutant: the first scope to expire counts.
Remaining_Shorter(tab, p, m) ==
  Lesser(Left(tab[<<p, AnyModel>>]), Left(tab[<<p, m>>]))

\* Both scopes have to expire, so the longer one counts.
Remaining(tab, p, m) == Larger(Left(tab[<<p, AnyModel>>]), Left(tab[<<p, m>>]))

\* recovery_wait is Some(Remaining) exactly when this holds.
Waitable(tab, p, m) ==
  /\ Blocked(tab, p, m)
  /\ \A k \in Blocking(tab, p, m) : tab[k].retryable
=============================================================================
