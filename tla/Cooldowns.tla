----------------------------- MODULE Cooldowns -----------------------------
(***************************************************************************)
(* The cooldown store of pxy's State: the in-memory map every request      *)
(* reads, the SQLite table that mirrors it, and the threads that write     *)
(* both.  A writer changes the map under its lock, drops the lock ("never  *)
(* hold two locks"), and only then writes the table under another lock, so *)
(* other writers, the clock, a crash or a command-line process that opens  *)
(* the same file can come between the two halves.                          *)
(***************************************************************************)
EXTENDS CooldownTable

CONSTANTS
  Threads,        \* the tasks of the daemon that finish an attempt
  Spans,          \* the Retry-After and quota-window spans upstreams send
  Kinds,          \* the values of retryable callers pass
  WritesMayFail   \* whether the best-effort SQL write may fail

ASSUME StoreAssumption ==
  /\ Spans \subseteq Nat
  /\ Kinds \subseteq BOOLEAN
  /\ WritesMayFail \in BOOLEAN

VARIABLES
  map,    \* State.cooldowns
  db,     \* the rows of the SQL table cooldowns
  pend,   \* per thread: the SQL write it still owes for its map change
  stray   \* history: keys whose row may no longer follow the map

vars == <<map, db, pend, stray>>

\* A write that is owed: the keys, and what they are to hold.  A row is
\* stamped with its deadline (epoch_ms() + dur) before the db lock is taken;
\* from then on the deadline comes closer while the write waits.
Owed == [keys : SUBSET Keys, slot : Slot, stamped : BOOLEAN]

Nothing == [keys |-> {}, slot |-> NoEntry, stamped |-> FALSE]

Idle(t) == pend[t].keys = {}

TypeOK ==
  /\ map \in [Keys -> Slot]
  /\ db \in [Keys -> Slot]
  /\ pend \in [Threads -> Owed]
  /\ stray \in [Keys -> BOOLEAN]

Init ==
  /\ map = [k \in Keys |-> NoEntry]
  /\ db = [k \in Keys |-> NoEntry]
  /\ pend = [t \in Threads |-> Nothing]
  /\ stray = [k \in Keys |-> FALSE]

-----------------------------------------------------------------------------

Overwrite(tab, keys, slot) == [k \in Keys |-> IF k \in keys THEN slot ELSE tab[k]]

Contended(t, k) == \E u \in Threads \ {t} : k \in pend[u].keys

\* The half under the map's lock.
Begin(t, keys, slot, stamped) ==
  /\ Idle(t)
  /\ map' = Overwrite(map, keys, slot)
  /\ pend' = [pend EXCEPT ![t] =
                [keys |-> keys, slot |-> slot, stamped |-> stamped]]
  /\ stray' = [k \in Keys |-> IF k \in keys THEN Contended(t, k) ELSE stray[k]]
  /\ UNCHANGED db

SetByLadder(t, k) ==
  \E retryable \in Kinds : Begin(t, {k}, LadderEntry(map[k], retryable), FALSE)

SetBySpan(t, k) ==
  \E span \in Spans, retryable \in Kinds :
    Begin(t, {k}, SpanEntry(span, retryable), FALSE)

\* Success clears both scopes; the DELETE that follows has no deadline.
ClearCooldown(t, p, m) == Begin(t, Scopes(p, m), NoEntry, TRUE)

Stamp(t) ==
  /\ ~Idle(t)
  /\ ~pend[t].stamped
  /\ pend' = [pend EXCEPT ![t].stamped = TRUE]
  /\ UNCHANGED <<map, db, stray>>

\* Mutant: ON CONFLICT DO NOTHING.
Mirror_KeepsOldRow(t) ==
  /\ ~Idle(t)
  /\ pend[t].stamped
  /\ db' = [k \in Keys |->
              IF k \in pend[t].keys /\ (db[k] = NoEntry \/ pend[t].slot = NoEntry)
              THEN pend[t].slot
              ELSE db[k]]
  /\ pend' = [pend EXCEPT ![t] = Nothing]
  /\ UNCHANGED <<map, stray>>

\* The half under the db's lock: the upsert, or the DELETE of both rows.
Mirror(t) ==
  /\ ~Idle(t)
  /\ pend[t].stamped
  /\ db' = Overwrite(db, pend[t].keys, pend[t].slot)
  /\ pend' = [pend EXCEPT ![t] = Nothing]
  /\ UNCHANGED <<map, stray>>

\* "Best-effort: a write failure must never block routing."
MirrorFails(t) ==
  /\ WritesMayFail
  /\ ~Idle(t)
  /\ pend[t].stamped
  /\ pend' = [pend EXCEPT ![t] = Nothing]
  /\ stray' = [k \in Keys |-> stray[k] \/ k \in pend[t].keys]
  /\ UNCHANGED <<map, db>>

-----------------------------------------------------------------------------

Tick ==
  /\ map' = [k \in Keys |-> Aged(map[k])]
  /\ db' = [k \in Keys |-> Aged(db[k])]
  /\ pend' = [t \in Threads |->
                IF pend[t].stamped
                THEN [pend[t] EXCEPT !.slot = Aged(pend[t].slot)]
                ELSE pend[t]]
  /\ UNCHANGED stray

\* Mutant: the deadlines are compared in coarser units.
Unexpired_Rounded == [k \in Keys |-> IF Left(db[k]) > 1 THEN db[k] ELSE NoEntry]

\* DELETE FROM cooldowns WHERE until_ms <= now.
Unexpired == [k \in Keys |-> IF Active(db[k]) THEN db[k] ELSE NoEntry]

\* The daemon dies at any point and a new one opens the file.
Restart ==
  /\ db' = Unexpired
  /\ map' = Unexpired
  /\ pend' = [t \in Threads |-> Nothing]
  /\ stray' = [k \in Keys |-> FALSE]

\* A pxy command opens the same file while the daemon runs.
CliOpen ==
  /\ db' = Unexpired
  /\ UNCHANGED <<map, pend, stray>>

SetCooldown(t, k) == SetByLadder(t, k) \/ SetBySpan(t, k)

ThreadStep(t) ==
  \/ \E k \in Keys : SetCooldown(t, k)
  \/ \E p \in Providers, m \in Models : ClearCooldown(t, p, m)
  \/ Stamp(t)
  \/ Mirror(t)
  \/ MirrorFails(t)

Next ==
  \/ \E t \in Threads : ThreadStep(t)
  \/ Tick
  \/ Restart
  \/ CliOpen

Spec == Init /\ [][Next]_vars

-----------------------------------------------------------------------------
(* Properties. *)

Quiet(k) == ~stray[k] /\ \A t \in Threads : k \notin pend[t].keys

\* What the row of a key has to tell a restart about the map's entry.
Follows(row, e) ==
  IF e = NoEntry
  THEN ~Active(row)
  ELSE Active(e) => /\ row # NoEntry
                    /\ row.level = e.level
                    /\ row.retryable = e.retryable
                    /\ row.left >= e.left

\* A key no writer is between its two halves on, and whose last write was
\* neither overlapped by another one nor failed, has a row that outlasts the
\* map's block and carries its level and kind, and has no live row when the
\* map holds nothing ("Mirror to sqlite so restarts don't forget it").
MirrorFaithful == \A k \in Keys : Quiet(k) => Follows(db[k], map[k])

\* The inductive form of MirrorFaithful: a key that is not stray has at most
\* one writer between its halves, and what that writer owes reflects the map.
Writes(t, k) == k \in pend[t].keys

Reflects(slot, e) ==
  IF slot = NoEntry
  THEN e = NoEntry
  ELSE /\ e # NoEntry
       /\ slot.level = e.level
       /\ slot.retryable = e.retryable
       /\ slot.left >= e.left

KeyInv(k) ==
  ~stray[k] =>
    /\ \A t, u \in Threads : Writes(t, k) /\ Writes(u, k) => t = u
    /\ \A t \in Threads : Writes(t, k) => Reflects(pend[t].slot, map[k])
    /\ (\A t \in Threads : ~Writes(t, k)) => Follows(db[k], map[k])

MirrorInv == \A k \in Keys : KeyInv(k)

\* A crash forgets no block of such a key, shortens none, keeps the level the
\* next failure climbs from, and brings no cleared block back.
RestartKeeps ==
  [][Restart => \A k \in Keys : Quiet(k) => Follows(map'[k], map[k])]_vars

\* A failure with no span of its own blocks the key for twice the span of the
\* step before, up to the ladder's top, even if that block expired meanwhile:
\* repeated failures back off, and an expired block is not a success.
LadderDoubles ==
  [][\A t \in Threads, k \in Keys :
       SetByLadder(t, k) /\ LevelOf(map[k]) > 0
         => map'[k].left >= Lesser(2 * LadderSpan(map[k].level), LadderSpan(LevelMax))]_vars

\* No entry, row or owed row blocks for longer than its own kind allows: the
\* step its level stands for, or the 30 days an upstream's span is cut to.
\* Restarts and late mirror writes never lengthen a block beyond that.
SpanBound(e) == IF e.level = 0 THEN LongestSpan ELSE LadderSpan(e.level)

Within(e) == e # NoEntry => e.left <= SpanBound(e)

BlocksBounded ==
  /\ \A k \in Keys : Within(map[k]) /\ Within(db[k])
  /\ \A t \in Threads : Within(pend[t].slot)

\* The wait recovery_wait and cooldown_remaining report is exact: left alone,
\* the pair stays blocked for every moment before it and is free at it.
WaitExact ==
  \A p \in Providers, m \in Models :
    \A n \in 0 .. Remaining(map, p, m) :
      LET later == [k \in Keys |->
                      IF map[k] = NoEntry THEN NoEntry
                      ELSE [map[k] EXCEPT !.left = Larger(@ - n, 0)]]
      IN  Blocked(later, p, m) <=> n < Remaining(map, p, m)

\* What the doc of State says of every key: "a restart must not forget a
\* six-hour 'monthly quota exhausted' cooldown" (state.rs:13-16).  It is said
\* of a daemon none of whose writers is between its two halves.
RestartForgetsNothing ==
  [][Restart /\ (\A t \in Threads : Idle(t))
       => \A k \in Keys : Active(map[k]) => Active(map'[k])]_vars
=============================================================================
