---------------------------- MODULE State_proofs ----------------------------
(***************************************************************************)
(* Proofs about what the State of state.rs keeps in memory: the cooldowns  *)
(* and their table (Cooldowns), for every set of providers, models and     *)
(* threads and every choice of the spans and the ladder; and the sliding   *)
(* minutes (SlidingWindows), for every number of requests, every limit and *)
(* every length of a minute.  The two share no variable: what is proved of *)
(* either is proved under its own specification.                           *)
(***************************************************************************)
EXTENDS Cooldowns, SlidingWindows, FiniteSetTheorems, TLAPS

-----------------------------------------------------------------------------
(* What the operators of CooldownTable return, for any ladder and any table. *)

\* Every level waits a natural number of time units.
LEMMA LadderSpanType ==
  ASSUME NEW level \in Nat, level > 0
  PROVE  LadderSpan(level) \in Nat
<1>1. LadderBase \in Nat /\ LadderCap \in Nat
  BY TableAssumption
<1>2. Lesser(level, 6) \in 1..6
  BY DEF Lesser
<1>3. Multiple[Lesser(level, 6)] \in Nat
  BY <1>2 DEF Multiple
<1>4. LadderBase * Multiple[Lesser(level, 6)] \in Nat
  BY <1>1, <1>3
<1> QED
  BY <1>1, <1>4 DEF LadderSpan, Lesser

\* The three ways an entry comes about yield an entry.
LEMMA LadderEntryType ==
  ASSUME NEW e \in Slot, NEW r \in BOOLEAN
  PROVE  /\ LadderEntry(e, r) \in Entry
         /\ LadderEntry(e, r).level > 0
<1>1. LevelOf(e) \in Nat
  BY TableAssumption DEF LevelOf, Slot, Entry
<1>2. Lesser(LevelOf(e) + 1, LevelMax) \in 1..LevelMax
  BY <1>1, TableAssumption DEF Lesser
<1>3. LadderSpan(Lesser(LevelOf(e) + 1, LevelMax)) \in Nat
  BY <1>2, LadderSpanType
<1> QED
  BY <1>2, <1>3 DEF LadderEntry, Entry

LEMMA SpanEntryType ==
  ASSUME NEW span \in Nat, NEW r \in BOOLEAN
  PROVE  SpanEntry(span, r) \in Entry
BY TableAssumption DEF SpanEntry, Entry, Lesser

LEMMA AgedType ==
  ASSUME NEW e \in Slot
  PROVE  Aged(e) \in Slot
BY TableAssumption DEF Aged, Slot, Entry

\* The two scopes of a pair are keys of the table.
LEMMA ScopesAreKeys ==
  ASSUME NEW p \in Providers, NEW m \in Models
  PROVE  Scopes(p, m) \in SUBSET Keys
BY DEF Scopes, Keys

-----------------------------------------------------------------------------
(* Type correctness. *)

LEMMA OverwriteType ==
  ASSUME NEW tab \in [Keys -> Slot], NEW ks \in SUBSET Keys, NEW s \in Slot
  PROVE  Overwrite(tab, ks, s) \in [Keys -> Slot]
BY DEF Overwrite

LEMMA BeginType ==
  ASSUME TypeOK, NEW t \in Threads, NEW ks \in SUBSET Keys, NEW s \in Slot,
         NEW b \in BOOLEAN, Begin(t, ks, s, b)
  PROVE  TypeOK'
<1>1. map' \in [Keys -> Slot]
  BY OverwriteType DEF TypeOK, Begin
<1>2. pend' \in [Threads -> Owed]
  BY DEF TypeOK, Begin, Owed
<1>3. stray' \in [Keys -> BOOLEAN]
  BY DEF TypeOK, Begin, Contended
<1> QED
  BY <1>1, <1>2, <1>3 DEF TypeOK, Begin

\* Every write to the map is a Begin with some keys and some slot.
LEMMA WriteIsBegin ==
  ASSUME TypeOK, NEW t \in Threads,
         \/ \E k \in Keys : SetCooldown(t, k)
         \/ \E p \in Providers, m \in Models : ClearCooldown(t, p, m)
  PROVE  \E ks \in SUBSET Keys, s \in Slot, b \in BOOLEAN : Begin(t, ks, s, b)
<1>1. ASSUME NEW k \in Keys, SetByLadder(t, k)
      PROVE  \E ks \in SUBSET Keys, s \in Slot, b \in BOOLEAN : Begin(t, ks, s, b)
  <2>1. PICK r \in Kinds : Begin(t, {k}, LadderEntry(map[k], r), FALSE)
    BY <1>1 DEF SetByLadder
  <2>2. LadderEntry(map[k], r) \in Slot
    BY LadderEntryType, StoreAssumption DEF TypeOK, Slot
  <2> QED
    BY <2>1, <2>2
<1>2. ASSUME NEW k \in Keys, SetBySpan(t, k)
      PROVE  \E ks \in SUBSET Keys, s \in Slot, b \in BOOLEAN : Begin(t, ks, s, b)
  <2>1. PICK span \in Spans, r \in Kinds : Begin(t, {k}, SpanEntry(span, r), FALSE)
    BY <1>2 DEF SetBySpan
  <2>2. SpanEntry(span, r) \in Slot
    BY SpanEntryType, StoreAssumption DEF Slot
  <2> QED
    BY <2>1, <2>2
<1>3. ASSUME NEW p \in Providers, NEW m \in Models, ClearCooldown(t, p, m)
      PROVE  \E ks \in SUBSET Keys, s \in Slot, b \in BOOLEAN : Begin(t, ks, s, b)
  BY <1>3, ScopesAreKeys DEF ClearCooldown, Slot
<1> QED
  BY <1>1, <1>2, <1>3 DEF SetCooldown

LEMMA UnexpiredType ==
  ASSUME TypeOK
  PROVE  Unexpired \in [Keys -> Slot]
BY DEF TypeOK, Unexpired, Slot

\* Every step keeps the types.
LEMMA TypeStep == TypeOK /\ [Next]_vars => TypeOK'
<1> SUFFICES ASSUME TypeOK, [Next]_vars
             PROVE  TypeOK'
  OBVIOUS
<1>1. ASSUME NEW t \in Threads, \E k \in Keys : SetCooldown(t, k)
      PROVE  TypeOK'
  BY <1>1, WriteIsBegin, BeginType
<1>2. ASSUME NEW t \in Threads,
             \E p \in Providers, m \in Models : ClearCooldown(t, p, m)
      PROVE  TypeOK'
  BY <1>2, WriteIsBegin, BeginType
<1>3. ASSUME NEW t \in Threads, Stamp(t)
      PROVE  TypeOK'
  BY <1>3 DEF TypeOK, Stamp, Owed
<1>4. ASSUME NEW t \in Threads, Mirror(t)
      PROVE  TypeOK'
  <2>1. db' \in [Keys -> Slot]
    BY <1>4, OverwriteType DEF TypeOK, Mirror, Owed
  <2>2. pend' \in [Threads -> Owed]
    BY <1>4 DEF TypeOK, Mirror, Owed, Nothing, Slot
  <2> QED
    BY <1>4, <2>1, <2>2 DEF TypeOK, Mirror
<1>5. ASSUME NEW t \in Threads, MirrorFails(t)
      PROVE  TypeOK'
  <2>1. pend' \in [Threads -> Owed]
    BY <1>5 DEF TypeOK, MirrorFails, Owed, Nothing, Slot
  <2>2. stray' \in [Keys -> BOOLEAN]
    BY <1>5 DEF TypeOK, MirrorFails
  <2> QED
    BY <1>5, <2>1, <2>2 DEF TypeOK, MirrorFails
<1>6. CASE Tick
  <2>1. map' \in [Keys -> Slot] /\ db' \in [Keys -> Slot]
    BY <1>6, AgedType DEF TypeOK, Tick
  <2>2. pend' \in [Threads -> Owed]
    <3> SUFFICES ASSUME NEW t \in Threads
                 PROVE  pend'[t] \in Owed
      BY <1>6 DEF Tick
    <3>1. Aged(pend[t].slot) \in Slot
      BY AgedType DEF TypeOK, Owed
    <3> QED
      BY <1>6, <3>1 DEF TypeOK, Tick, Owed
  <2> QED
    BY <1>6, <2>1, <2>2 DEF TypeOK, Tick
<1>7. CASE Restart
  <2>1. pend' \in [Threads -> Owed]
    BY <1>7 DEF Restart, Owed, Nothing, Slot
  <2> QED
    BY <1>7, <2>1, UnexpiredType DEF TypeOK, Restart
<1>8. CASE CliOpen
  BY <1>8, UnexpiredType DEF TypeOK, CliOpen
<1>9. CASE UNCHANGED vars
  BY <1>9 DEF TypeOK, vars
<1> QED
  BY <1>1, <1>2, <1>3, <1>4, <1>5, <1>6, <1>7, <1>8, <1>9 DEF Next, ThreadStep

\* Type correctness of the store.
THEOREM TypeCorrect == Spec => []TypeOK
<1>1. Init => TypeOK
  BY DEF Init, TypeOK, Slot, Owed, Nothing
<1> QED
  BY <1>1, TypeStep, PTL DEF Spec

-----------------------------------------------------------------------------
(* The mirror. *)

\* A row written from what reflects the map follows the map.
LEMMA ReflectsFollows ==
  ASSUME NEW s \in Slot, NEW e \in Slot, Reflects(s, e)
  PROVE  Follows(s, e)
BY DEF Reflects, Follows, Active

LEMMA FollowsItself ==
  ASSUME NEW e \in Slot, e = NoEntry \/ Active(e)
  PROVE  Follows(e, e)
BY DEF Follows, Active, Slot, Entry

\* Time passes for both sides alike.
LEMMA AgedReflects ==
  ASSUME NEW s \in Slot, NEW e \in Slot, Reflects(s, e)
  PROVE  Reflects(Aged(s), Aged(e)) /\ Reflects(s, Aged(e))
BY TableAssumption DEF Reflects, Aged, Slot, Entry

LEMMA AgedFollows ==
  ASSUME NEW r \in Slot, NEW e \in Slot, Follows(r, e)
  PROVE  Follows(Aged(r), Aged(e))
BY TableAssumption DEF Follows, Active, Aged, Slot, Entry

LEMMA BeginKey ==
  ASSUME TypeOK, NEW k \in Keys, KeyInv(k),
         NEW t \in Threads, NEW ks \in SUBSET Keys, NEW s \in Slot,
         NEW b \in BOOLEAN, Begin(t, ks, s, b)
  PROVE  KeyInv(k)'
<1>1. \A u \in Threads : u # t => pend'[u] = pend[u]
  BY DEF TypeOK, Begin
<1>2. /\ pend'[t] = [keys |-> ks, slot |-> s, stamped |-> b]
      /\ ~Writes(t, k)
  BY DEF TypeOK, Begin, Idle, Writes
<1>3. CASE k \in ks
  <2> SUFFICES ASSUME ~stray'[k]
               PROVE  KeyInv(k)'
    BY DEF KeyInv
  <2>1. map'[k] = s
    BY <1>3 DEF Begin, Overwrite
  <2>2. \A u \in Threads : u # t => k \notin pend[u].keys
    BY <1>3 DEF Begin, Contended
  <2>3. Reflects(s, s)
    BY DEF Reflects, Slot, Entry
  <2> QED
    BY <1>1, <1>2, <1>3, <2>1, <2>2, <2>3 DEF KeyInv, Writes
<1>4. CASE k \notin ks
  <2>1. map'[k] = map[k] /\ stray'[k] = stray[k] /\ db'[k] = db[k]
    BY <1>4 DEF Begin, Overwrite
  <2>2. ~Writes(t, k)'
    BY <1>2, <1>4 DEF Writes
  <2> QED
    BY <1>1, <1>2, <2>1, <2>2 DEF KeyInv, Writes
<1> QED
  BY <1>3, <1>4

LEMMA MirrorKey ==
  ASSUME TypeOK, NEW k \in Keys, KeyInv(k), NEW t \in Threads, Mirror(t)
  PROVE  KeyInv(k)'
<1>1. \A u \in Threads : u # t => pend'[u] = pend[u]
  BY DEF TypeOK, Mirror
<1>2. ~Writes(t, k)'
  BY DEF TypeOK, Mirror, Nothing, Writes
<1> SUFFICES ASSUME ~stray[k]
             PROVE  KeyInv(k)'
  BY DEF KeyInv, Mirror
<1>3. CASE Writes(t, k)
  <2>1. \A u \in Threads : ~Writes(u, k)'
    BY <1>1, <1>2, <1>3 DEF KeyInv, Writes
  <2>2. Reflects(pend[t].slot, map[k])
    BY <1>3 DEF KeyInv
  <2>3. Follows(pend[t].slot, map[k])
    BY <2>2, ReflectsFollows DEF TypeOK, Owed
  <2>4. db'[k] = pend[t].slot /\ map'[k] = map[k]
    BY <1>3 DEF Mirror, Overwrite, Writes
  <2> QED
    BY <2>1, <2>3, <2>4 DEF KeyInv
<1>4. CASE ~Writes(t, k)
  <2>1. db'[k] = db[k] /\ map'[k] = map[k]
    BY <1>4 DEF Mirror, Overwrite, Writes, TypeOK
  <2> QED
    BY <1>1, <1>2, <1>4, <2>1 DEF KeyInv, Writes
<1> QED
  BY <1>3, <1>4

LEMMA MirrorFailsKey ==
  ASSUME TypeOK, NEW k \in Keys, KeyInv(k), NEW t \in Threads, MirrorFails(t)
  PROVE  KeyInv(k)'
<1>1. \A u \in Threads : u # t => pend'[u] = pend[u]
  BY DEF TypeOK, MirrorFails
<1>2. stray'[k] = (stray[k] \/ k \in pend[t].keys)
  BY DEF MirrorFails
<1>3. ~Writes(t, k)'
  BY DEF TypeOK, MirrorFails, Nothing, Writes
<1> QED
  BY <1>1, <1>2, <1>3 DEF KeyInv, Writes, MirrorFails

LEMMA TickKey ==
  ASSUME TypeOK, NEW k \in Keys, KeyInv(k), Tick
  PROVE  KeyInv(k)'
<1>1. \A t \in Threads :
        /\ pend'[t].keys = pend[t].keys
        /\ pend'[t].slot \in {pend[t].slot, Aged(pend[t].slot)}
  BY DEF TypeOK, Tick, Owed
<1>2. /\ map'[k] = Aged(map[k])
      /\ db'[k] = Aged(db[k])
      /\ stray'[k] = stray[k]
  BY DEF Tick
<1>3. /\ map[k] \in Slot
      /\ db[k] \in Slot
      /\ \A t \in Threads : pend[t].slot \in Slot
  BY DEF TypeOK, Owed
<1> SUFFICES ASSUME ~stray[k]
             PROVE  KeyInv(k)'
  BY <1>2 DEF KeyInv
<1>4. ASSUME NEW t \in Threads, Writes(t, k)'
      PROVE  Reflects(pend'[t].slot, map'[k])
  <2>1. Reflects(pend[t].slot, map[k])
    BY <1>1, <1>4 DEF KeyInv, Writes
  <2> QED
    BY <1>1, <1>2, <1>3, <2>1, AgedReflects
<1>5. ASSUME \A t \in Threads : ~Writes(t, k)'
      PROVE  Follows(db'[k], map'[k])
  <2>1. Follows(db[k], map[k])
    BY <1>1, <1>5 DEF KeyInv, Writes
  <2> QED
    BY <1>2, <1>3, <2>1, AgedFollows
<1> QED
  BY <1>1, <1>4, <1>5 DEF KeyInv, Writes

LEMMA RestartKey ==
  ASSUME TypeOK, NEW k \in Keys, Restart
  PROVE  KeyInv(k)'
<1>1. \A t \in Threads : ~Writes(t, k)'
  BY DEF Restart, Nothing, Writes
<1>2. map'[k] = db'[k] /\ map'[k] \in Slot /\ (map'[k] = NoEntry \/ Active(map'[k]))
  BY UnexpiredType DEF Restart, Unexpired, TypeOK
<1>3. Follows(db'[k], map'[k])
  BY <1>2, FollowsItself
<1> QED
  BY <1>1, <1>3 DEF KeyInv

LEMMA CliOpenKey ==
  ASSUME TypeOK, NEW k \in Keys, KeyInv(k), CliOpen
  PROVE  KeyInv(k)'
<1>1. db'[k] = IF Active(db[k]) THEN db[k] ELSE NoEntry
  BY DEF CliOpen, Unexpired
<1>2. Follows(db[k], map[k]) => Follows(db'[k], map[k])
  BY <1>1 DEF Follows, Active, TypeOK, Slot, Entry
<1> QED
  BY <1>2 DEF KeyInv, Writes, CliOpen

LEMMA MirrorStep == TypeOK /\ MirrorInv /\ [Next]_vars => MirrorInv'
<1> SUFFICES ASSUME TypeOK, MirrorInv, [Next]_vars, NEW k \in Keys
             PROVE  KeyInv(k)'
  BY DEF MirrorInv
<1>0. KeyInv(k)
  BY DEF MirrorInv
<1>1. ASSUME NEW t \in Threads,
             \/ \E j \in Keys : SetCooldown(t, j)
             \/ \E p \in Providers, m \in Models : ClearCooldown(t, p, m)
      PROVE  KeyInv(k)'
  BY <1>0, <1>1, WriteIsBegin, BeginKey
<1>2. ASSUME NEW t \in Threads, Stamp(t)
      PROVE  KeyInv(k)'
  <2>1. \A u \in Threads : /\ pend'[u].keys = pend[u].keys
                            /\ pend'[u].slot = pend[u].slot
    BY <1>2 DEF TypeOK, Stamp, Owed
  <2> QED
    BY <1>0, <1>2, <2>1 DEF KeyInv, Writes, Stamp
<1>3. ASSUME NEW t \in Threads, Mirror(t)
      PROVE  KeyInv(k)'
  BY <1>0, <1>3, MirrorKey
<1>4. ASSUME NEW t \in Threads, MirrorFails(t)
      PROVE  KeyInv(k)'
  BY <1>0, <1>4, MirrorFailsKey
<1>5. CASE Tick
  BY <1>0, <1>5, TickKey
<1>6. CASE Restart
  BY <1>6, RestartKey
<1>7. CASE CliOpen
  BY <1>0, <1>7, CliOpenKey
<1>8. CASE UNCHANGED vars
  BY <1>0, <1>8 DEF KeyInv, Writes, vars
<1> QED
  BY <1>1, <1>2, <1>3, <1>4, <1>5, <1>6, <1>7, <1>8 DEF Next, ThreadStep

LEMMA MirrorInvariant == Spec => [](TypeOK /\ MirrorInv)
<1>1. Init => TypeOK /\ MirrorInv
  BY DEF Init, TypeOK, Slot, Owed, Nothing, MirrorInv, KeyInv, Writes, Follows, Active
<1> QED
  BY <1>1, TypeStep, MirrorStep, PTL DEF Spec

LEMMA InvFaithful == MirrorInv => MirrorFaithful
BY DEF MirrorInv, KeyInv, MirrorFaithful, Quiet, Writes

\* The rows of quiet keys follow the map, whatever the threads, the clock, the
\* crashes and the other processes do in between.
THEOREM MirrorIsFaithful == Spec => []MirrorFaithful
BY MirrorInvariant, InvFaithful, PTL

\* What Unexpired keeps is what blocked.
LEMMA RestartFollows ==
  ASSUME TypeOK, NEW k \in Keys, Follows(db[k], map[k]), Restart
  PROVE  Follows(map'[k], map[k])
<1>1. map'[k] = IF Active(db[k]) THEN db[k] ELSE NoEntry
  BY DEF Restart, Unexpired
<1> QED
  BY <1>1 DEF Follows, Active, TypeOK, Slot, Entry

\* No crash loses, shortens, weakens or resurrects the block of a quiet key.
THEOREM RestartIsFaithful == Spec => RestartKeeps
<1>1. TypeOK /\ MirrorFaithful
        => [Restart => \A k \in Keys : Quiet(k) => Follows(map'[k], map[k])]_vars
  BY RestartFollows DEF MirrorFaithful
<1> QED
  BY <1>1, MirrorIsFaithful, TypeCorrect, PTL DEF RestartKeeps

-----------------------------------------------------------------------------
(* The length of blocks. *)

LEMMA LadderEntryWithin ==
  ASSUME NEW e \in Slot, NEW r \in BOOLEAN
  PROVE  Within(LadderEntry(e, r))
<1>1. LadderEntry(e, r).left = LadderSpan(LadderEntry(e, r).level)
  BY DEF LadderEntry
<1>2. LadderEntry(e, r).level > 0 /\ LadderEntry(e, r) \in Entry
  BY LadderEntryType
<1>3. LadderSpan(LadderEntry(e, r).level) \in Nat
  BY <1>1, <1>2 DEF Entry
<1> QED
  BY <1>1, <1>2, <1>3 DEF Within, SpanBound, Entry

LEMMA SpanEntryWithin ==
  ASSUME NEW span \in Nat, NEW r \in BOOLEAN
  PROVE  Within(SpanEntry(span, r))
BY TableAssumption DEF SpanEntry, Within, SpanBound, Lesser

LEMMA SpanBoundType ==
  ASSUME NEW e \in Entry
  PROVE  SpanBound(e) \in Nat
<1>1. e.level \in Nat
  BY TableAssumption DEF Entry
<1> QED
  BY <1>1, LadderSpanType, TableAssumption DEF SpanBound

LEMMA AgedWithin ==
  ASSUME NEW e \in Slot, Within(e)
  PROVE  Within(Aged(e))
<1>1. CASE e = NoEntry \/ e.left = 0
  BY <1>1 DEF Aged
<1>2. CASE e # NoEntry /\ e.left # 0
  <2>1. e \in Entry /\ Aged(e) = [e EXCEPT !.left = e.left - 1]
    BY <1>2 DEF Aged, Slot
  <2>2. SpanBound(Aged(e)) = SpanBound(e) /\ Aged(e).left = e.left - 1
    BY <2>1 DEF SpanBound, Entry
  <2>3. SpanBound(e) \in Nat /\ e.left \in Nat
    BY <2>1, SpanBoundType DEF Entry
  <2> QED
    BY <1>2, <2>2, <2>3 DEF Within
<1> QED
  BY <1>1, <1>2

\* A Begin with a bounded slot keeps the bounds.
LEMMA BeginWithin ==
  ASSUME TypeOK, BlocksBounded, NEW t \in Threads, NEW ks \in SUBSET Keys,
         NEW s \in Slot, NEW b \in BOOLEAN, Begin(t, ks, s, b), Within(s)
  PROVE  BlocksBounded'
<1>1. \A k \in Keys : map'[k] \in {map[k], s} /\ db'[k] = db[k]
  BY DEF Begin, Overwrite
<1>2. \A u \in Threads : pend'[u].slot \in {pend[u].slot, s}
  BY DEF Begin, TypeOK, Owed
<1> QED
  BY <1>1, <1>2 DEF BlocksBounded

LEMMA BoundedStep == TypeOK /\ BlocksBounded /\ [Next]_vars => BlocksBounded'
<1> SUFFICES ASSUME TypeOK, BlocksBounded, [Next]_vars
             PROVE  BlocksBounded'
  OBVIOUS
<1>0. Within(NoEntry)
  BY DEF Within
<1>1. ASSUME NEW t \in Threads, NEW k \in Keys, SetByLadder(t, k)
      PROVE  BlocksBounded'
  <2>1. PICK r \in Kinds : Begin(t, {k}, LadderEntry(map[k], r), FALSE)
    BY <1>1 DEF SetByLadder
  <2>2. /\ r \in BOOLEAN /\ map[k] \in Slot
        /\ LadderEntry(map[k], r) \in Slot
    BY LadderEntryType, StoreAssumption DEF TypeOK, Slot
  <2> QED
    BY <2>1, <2>2, LadderEntryWithin, BeginWithin
<1>2. ASSUME NEW t \in Threads, NEW k \in Keys, SetBySpan(t, k)
      PROVE  BlocksBounded'
  <2>1. PICK span \in Spans, r \in Kinds : Begin(t, {k}, SpanEntry(span, r), FALSE)
    BY <1>2 DEF SetBySpan
  <2>2. SpanEntry(span, r) \in Slot /\ r \in BOOLEAN /\ span \in Nat
    BY SpanEntryType, StoreAssumption DEF Slot
  <2> QED
    BY <2>1, <2>2, SpanEntryWithin, BeginWithin
<1>3. ASSUME NEW t \in Threads, NEW p \in Providers, NEW m \in Models,
             ClearCooldown(t, p, m)
      PROVE  BlocksBounded'
  BY <1>0, <1>3, ScopesAreKeys, BeginWithin DEF ClearCooldown, Slot
<1>4. ASSUME NEW t \in Threads, Stamp(t)
      PROVE  BlocksBounded'
  <2>1. \A u \in Threads : pend'[u].slot = pend[u].slot
    BY <1>4 DEF TypeOK, Stamp, Owed
  <2> QED
    BY <1>4, <2>1 DEF BlocksBounded, Stamp
<1>5. ASSUME NEW t \in Threads, Mirror(t) \/ MirrorFails(t)
      PROVE  BlocksBounded'
  <2>1. \A u \in Threads : pend'[u].slot \in {pend[u].slot, NoEntry}
    BY <1>5 DEF TypeOK, Mirror, MirrorFails, Nothing, Owed
  <2>2. \A k \in Keys : map'[k] = map[k] /\ db'[k] \in {db[k], pend[t].slot}
    BY <1>5 DEF TypeOK, Mirror, MirrorFails, Overwrite
  <2> QED
    BY <1>0, <2>1, <2>2 DEF BlocksBounded
<1>6. CASE Tick
  <2>1. \A k \in Keys : map'[k] = Aged(map[k]) /\ db'[k] = Aged(db[k])
    BY <1>6 DEF Tick
  <2>2. \A u \in Threads : pend'[u].slot \in {pend[u].slot, Aged(pend[u].slot)}
    BY <1>6 DEF TypeOK, Tick, Owed
  <2>3. /\ \A k \in Keys : map[k] \in Slot /\ db[k] \in Slot
        /\ \A u \in Threads : pend[u].slot \in Slot
    BY DEF TypeOK, Owed
  <2> QED
    BY <2>1, <2>2, <2>3, AgedWithin DEF BlocksBounded
<1>7. CASE Restart \/ CliOpen
  <2>1. /\ \A k \in Keys : /\ db'[k] \in {db[k], NoEntry}
                          /\ map'[k] \in {map[k], db[k], NoEntry}
        /\ \A u \in Threads : pend'[u].slot \in {pend[u].slot, NoEntry}
    BY <1>7 DEF TypeOK, Restart, CliOpen, Unexpired, Nothing
  <2> QED
    BY <1>0, <2>1 DEF BlocksBounded
<1>8. CASE UNCHANGED vars
  BY <1>8 DEF BlocksBounded, vars
<1> QED
  BY <1>1, <1>2, <1>3, <1>4, <1>5, <1>6, <1>7, <1>8
     DEF Next, ThreadStep, SetCooldown

\* No block is longer than its kind allows, whatever is written late, lost or
\* read back.
THEOREM BlocksAreBounded == Spec => []BlocksBounded
<1>1. Init => BlocksBounded
  BY DEF Init, BlocksBounded, Within, Nothing
<1> QED
  BY <1>1, BoundedStep, TypeCorrect, PTL DEF Spec

-----------------------------------------------------------------------------
(* The ladder and the wait. *)

\* One level up doubles the span, unless the ladder's top is reached.
LEMMA NextStepDoubles ==
  ASSUME NEW level \in Nat, level > 0, level <= LevelMax
  PROVE  LadderSpan(Lesser(level + 1, LevelMax))
           >= Lesser(2 * LadderSpan(level), LadderSpan(LevelMax))
<1>1. LadderBase \in Nat /\ LadderCap \in Nat /\ LevelMax \in Nat
  BY TableAssumption
<1>2. LadderSpan(LevelMax) \in Nat /\ LadderSpan(level) \in Nat
  BY <1>1, LadderSpanType
<1>3. CASE level = LevelMax
  BY <1>1, <1>2, <1>3 DEF Lesser
<1>4. CASE level < LevelMax
  <2>1. Lesser(level + 1, LevelMax) = level + 1 /\ LadderSpan(level + 1) \in Nat
    BY <1>1, <1>4, LadderSpanType DEF Lesser
  <2>2. CASE level < 6
    <3>1. /\ Lesser(level, 6) = level /\ Lesser(level + 1, 6) = level + 1
          /\ level \in 1..5
      BY <2>2 DEF Lesser
    <3>2. Multiple[level + 1] = 2 * Multiple[level] /\ Multiple[level] \in Nat
      BY <3>1 DEF Multiple
    <3> DEFINE M == Multiple[level]
    <3>3. LadderBase * (2 * M) = 2 * (LadderBase * M) /\ LadderBase * M \in Nat
      BY <1>1, <3>2
    <3>4. LadderSpan(level) = Lesser(LadderBase * M, LadderCap)
      BY <3>1 DEF LadderSpan
    <3>5. LadderSpan(level + 1) = Lesser(2 * (LadderBase * M), LadderCap)
      BY <3>1, <3>2, <3>3 DEF LadderSpan
    <3>6. LadderSpan(LevelMax) <= LadderCap
      <4>1. Lesser(LevelMax, 6) \in 1..6
        BY <1>1, <1>4 DEF Lesser
      <4>2. Multiple[Lesser(LevelMax, 6)] \in Nat
        BY <4>1 DEF Multiple
      <4>3. LadderBase * Multiple[Lesser(LevelMax, 6)] \in Nat
        BY <1>1, <4>2
      <4> QED
        BY <1>1, <4>3 DEF LadderSpan, Lesser
    <3> HIDE DEF M
    <3>7. Lesser(2 * (LadderBase * M), LadderCap)
            >= Lesser(2 * Lesser(LadderBase * M, LadderCap), LadderSpan(LevelMax))
      BY <1>1, <1>2, <3>3, <3>6 DEF Lesser
    <3> QED
      BY <2>1, <3>4, <3>5, <3>7
  <2>3. CASE level >= 6
    <3>1. Lesser(level + 1, 6) = 6 /\ Lesser(LevelMax, 6) = 6
      BY <1>1, <1>4, <2>3 DEF Lesser
    <3>2. LadderSpan(level + 1) = LadderSpan(LevelMax)
      BY <3>1 DEF LadderSpan
    <3> QED
      BY <1>2, <2>1, <3>2 DEF Lesser
  <2> QED
    BY <2>2, <2>3
<1> QED
  BY <1>1, <1>3, <1>4

\* Repeated failures back off, whether or not the last block has expired.
THEOREM LadderBacksOff == Spec => LadderDoubles
<1>1. TypeOK => [\A t \in Threads, k \in Keys :
                   SetByLadder(t, k) /\ LevelOf(map[k]) > 0
                     => map'[k].left
                          >= Lesser(2 * LadderSpan(map[k].level),
                                    LadderSpan(LevelMax))]_vars
  <2> SUFFICES ASSUME TypeOK, NEW t \in Threads, NEW k \in Keys,
                      SetByLadder(t, k), LevelOf(map[k]) > 0
               PROVE  map'[k].left
                        >= Lesser(2 * LadderSpan(map[k].level), LadderSpan(LevelMax))
    OBVIOUS
  <2>1. PICK r \in Kinds : Begin(t, {k}, LadderEntry(map[k], r), FALSE)
    BY DEF SetByLadder
  <2>2. map'[k] = LadderEntry(map[k], r)
    BY <2>1 DEF Begin, Overwrite
  <2>3. /\ LevelOf(map[k]) = map[k].level
        /\ map[k].level \in Nat /\ map[k].level <= LevelMax
    BY TableAssumption DEF LevelOf, TypeOK, Slot, Entry
  <2>4. map'[k].left = LadderSpan(Lesser(map[k].level + 1, LevelMax))
    BY <2>2, <2>3 DEF LadderEntry
  <2> QED
    BY <2>3, <2>4, NextStepDoubles
<1> QED
  BY <1>1, TypeCorrect, PTL DEF LadderDoubles

\* The reported wait is exact for every pair in every reachable state.
THEOREM WaitIsExact == Spec => []WaitExact
<1>1. TypeOK => WaitExact
  <2> SUFFICES ASSUME TypeOK, NEW p \in Providers, NEW m \in Models,
                      NEW n \in 0 .. Remaining(map, p, m)
               PROVE  Blocked([k \in Keys |->
                                 IF map[k] = NoEntry THEN NoEntry
                                 ELSE [map[k] EXCEPT !.left = Larger(@ - n, 0)]], p, m)
                        <=> n < Remaining(map, p, m)
    BY DEF WaitExact
  <2> DEFINE later == [k \in Keys |->
                         IF map[k] = NoEntry THEN NoEntry
                         ELSE [map[k] EXCEPT !.left = Larger(@ - n, 0)]]
             a == <<p, AnyModel>>
             b == <<p, m>>
  <2>1. a \in Keys /\ b \in Keys
    BY DEF Keys
  <2>2. \A k \in Keys : Left(map[k]) \in Nat
    BY DEF TypeOK, Slot, Entry, Left
  <2>3. n \in Nat
    BY <2>1, <2>2 DEF Remaining, Larger
  <2>4. \A k \in Keys : Active(later[k]) <=> n < Left(map[k])
    <3> SUFFICES ASSUME NEW k \in Keys
                 PROVE  Active(later[k]) <=> n < Left(map[k])
      OBVIOUS
    <3>1. CASE map[k] = NoEntry
      BY <2>3, <3>1 DEF Active, Left
    <3>2. CASE map[k] # NoEntry
      <4>1. map[k] \in Entry
        BY <3>2 DEF TypeOK, Slot
      <4>2. later[k] = [left |-> Larger(map[k].left - n, 0),
                        level |-> map[k].level,
                        retryable |-> map[k].retryable]
        BY <3>2, <4>1 DEF Entry
      <4>3. Larger(map[k].left - n, 0) \in Nat
        BY <2>3, <4>1 DEF Entry, Larger
      <4>4. later[k] # NoEntry
        BY <4>1, <4>2, <4>3, TableAssumption DEF Entry
      <4> QED
        BY <2>3, <3>2, <4>1, <4>2, <4>4 DEF Active, Left, Entry, Larger
    <3> QED
      BY <3>1, <3>2
  <2> HIDE DEF later
  <2>5. Blocked(later, p, m) <=> Active(later[a]) \/ Active(later[b])
    BY DEF Blocked, Blocking, Scopes
  <2>6. n < Remaining(map, p, m) <=> n < Left(map[a]) \/ n < Left(map[b])
    BY <2>1, <2>2, <2>3 DEF Remaining, Larger
  <2>7. Blocked(later, p, m) <=> n < Remaining(map, p, m)
    BY <2>1, <2>4, <2>5, <2>6
  <2> QED
    BY <2>7 DEF later
<1> QED
  BY <1>1, TypeCorrect, PTL
-----------------------------------------------------------------------------
(* Minutes. *)

LEMMA MinuteType ==
  ASSUME NEW t \in 0 .. MaxNow
  PROVE  Minute(t) \in Minutes
<1>1. Slices \in Nat \ {0} /\ MaxNow \in Nat
  BY WindowsAssumption
<1> DEFINE m == t \div Slices
           n == MaxNow \div Slices
<1>2. m \in Nat /\ n \in Nat /\ Slices * m <= t /\ MaxNow < Slices * n + Slices
  BY <1>1
<1> HIDE DEF m, n
<1>3. Slices * m < Slices * (n + 1)
  BY <1>1, <1>2
<1>4. m < n + 1
  BY <1>1, <1>2, <1>3
<1> QED
  BY <1>2, <1>4 DEF Minute, Minutes, m, n

LEMMA MinuteGrows ==
  ASSUME NEW t \in Nat
  PROVE  Minute(t) <= Minute(t + 1)
<1>1. Slices \in Nat \ {0}
  BY WindowsAssumption
<1> DEFINE m == t \div Slices
           n == (t + 1) \div Slices
<1>2. m \in Nat /\ n \in Nat /\ Slices * m <= t /\ t + 1 < Slices * n + Slices
  BY <1>1
<1> HIDE DEF m, n
<1>3. Slices * m < Slices * (n + 1)
  BY <1>1, <1>2
<1>4. m < n + 1
  BY <1>1, <1>2, <1>3
<1> QED
  BY <1>2, <1>4 DEF Minute, m, n

LEMMA LastMinute == Minute(MaxNow) \in Nat
<1>1. MaxNow \in 0 .. MaxNow
  BY WindowsAssumption
<1> QED
  BY <1>1, MinuteType DEF Minutes

LEMMA MinuteBefore ==
  ASSUME NEW i \in Minutes, i # 0
  PROVE  i - 1 \in Minutes
BY LastMinute DEF Minutes

-----------------------------------------------------------------------------
(* One window w and the counts l of its events, minute by minute. *)

Prev(l, m) == IF m = 0 THEN 0 ELSE l[m - 1]

\* The window holds no more than happened in its minute and the one before.
Below(w, l) ==
  /\ w \in Window
  /\ w.index \in Minutes
  /\ w.curr <= l[w.index]
  /\ w.prev <= Prev(l, w.index)

\* The window holds what happened, and nothing has happened since.
Exact(w, l) ==
  /\ w.curr = l[w.index]
  /\ w.prev = Prev(l, w.index)
  /\ \A j \in Minutes : j > w.index => l[j] = 0

LEMMA RolledBelow ==
  ASSUME NEW l \in [Minutes -> Nat], NEW w, Below(w, l), NEW i \in Minutes
  PROVE  Below(Rolled(w, i), l) /\ Rolled(w, i).index = i
<1>1. w \in Window /\ w.index \in Nat /\ w.curr \in Nat /\ i \in Nat
  BY DEF Below, Window, Minutes
<1>2. CASE i = w.index
  BY <1>2 DEF Rolled
<1>3. CASE i # w.index
  <2> DEFINE p == IF i = w.index + 1 THEN w.curr ELSE 0
  <2>1. Rolled(w, i) = [index |-> i, prev |-> p, curr |-> 0]
    BY <1>3 DEF Rolled
  <2>2. p \in Nat
    BY <1>1
  <2>3. p <= Prev(l, i)
    <3>1. CASE i = w.index + 1
      BY <1>1, <3>1 DEF Prev, Below
    <3>2. CASE i # w.index + 1
      <4>1. Prev(l, i) \in Nat
        <5>1. CASE i = 0
          BY <5>1 DEF Prev
        <5>2. CASE i # 0
          <6>1. i - 1 \in Minutes
            BY <5>2, MinuteBefore
          <6> QED
            BY <5>2, <6>1 DEF Prev
        <5> QED
          BY <5>1, <5>2
      <4>2. p = 0
        BY <3>2
      <4> QED
        BY <4>1, <4>2
    <3> QED
      BY <3>1, <3>2
  <2>4. l[i] \in Nat
    OBVIOUS
  <2> HIDE DEF p
  <2> QED
    BY <1>1, <2>1, <2>2, <2>3, <2>4 DEF Below, Window
<1> QED
  BY <1>2, <1>3

LEMMA RolledExact ==
  ASSUME NEW l \in [Minutes -> Nat], NEW w, Below(w, l), Exact(w, l),
         NEW i \in Minutes, i >= w.index
  PROVE  Exact(Rolled(w, i), l)
<1>1. w \in Window /\ w.index \in Minutes /\ w.index \in Nat /\ i \in Nat
  BY DEF Below, Window, Minutes
<1>2. CASE i = w.index
  BY <1>2 DEF Rolled
<1>3. CASE i # w.index
  <2> DEFINE p == IF i = w.index + 1 THEN w.curr ELSE 0
  <2>1. Rolled(w, i) = [index |-> i, prev |-> p, curr |-> 0]
    BY <1>3 DEF Rolled
  <2>2. l[i] = 0 /\ i # 0
    BY <1>1, <1>3 DEF Exact
  <2>3. p = l[i - 1]
    <3>1. CASE i = w.index + 1
      BY <1>1, <3>1 DEF Exact
    <3>2. CASE i # w.index + 1
      <4>1. i - 1 \in Minutes /\ i - 1 > w.index
        BY <1>1, <1>3, <2>2, <3>2, MinuteBefore
      <4>2. l[i - 1] = 0
        BY <4>1 DEF Exact
      <4>3. p = 0
        BY <3>2
      <4> QED
        BY <4>2, <4>3
    <3> QED
      BY <3>1, <3>2
  <2>4. \A j \in Minutes : j > i => l[j] = 0
    BY <1>1 DEF Exact, Minutes
  <2> HIDE DEF p
  <2> QED
    BY <2>1, <2>2, <2>3, <2>4 DEF Exact, Prev
<1> QED
  BY <1>2, <1>3

\* An event is counted in the window and in its minute.
LEMMA CountedBelow ==
  ASSUME NEW l \in [Minutes -> Nat], NEW w, Below(w, l), NEW n \in Nat
  PROVE  Below([w EXCEPT !.curr = @ + n], [l EXCEPT ![w.index] = @ + n])
<1> DEFINE c == w.curr + n
           v == [w EXCEPT !.curr = c]
           k == [l EXCEPT ![w.index] = @ + n]
<1>1. w \in Window /\ w.index \in Minutes /\ w.curr \in Nat /\ w.prev \in Nat /\ w.index \in Nat
  BY DEF Below, Window, Minutes
<1>2. c \in Nat /\ c <= l[w.index] + n
  BY <1>1 DEF Below
<1>3. k[w.index] = l[w.index] + n /\ Prev(k, w.index) = Prev(l, w.index)
  BY <1>1 DEF Prev, Minutes
<1> HIDE DEF c, k
<1>4. v \in Window /\ v.index = w.index /\ v.curr = c /\ v.prev = w.prev
  BY <1>1, <1>2 DEF Window
<1> QED
  BY <1>1, <1>2, <1>3, <1>4 DEF Below, c, k

LEMMA CountedExact ==
  ASSUME NEW l \in [Minutes -> Nat], NEW w, Below(w, l), Exact(w, l), NEW n \in Nat
  PROVE  Exact([w EXCEPT !.curr = @ + n], [l EXCEPT ![w.index] = @ + n])
<1> DEFINE c == w.curr + n
           v == [w EXCEPT !.curr = c]
           k == [l EXCEPT ![w.index] = @ + n]
<1>1. w \in Window /\ w.index \in Minutes /\ w.index \in Nat
  BY DEF Below, Window, Minutes
<1>2. /\ k[w.index] = l[w.index] + n
      /\ Prev(k, w.index) = Prev(l, w.index)
      /\ \A j \in Minutes : j > w.index => k[j] = l[j]
  BY <1>1 DEF Prev, Minutes
<1>3. c = l[w.index] + n
  BY DEF Exact
<1> HIDE DEF c, k
<1>4. v.index = w.index /\ v.curr = c /\ v.prev = w.prev
  BY <1>1 DEF Window
<1> QED
  BY <1>2, <1>3, <1>4 DEF Exact, c, k

-----------------------------------------------------------------------------
(* The inductive invariant. *)

Consistent ==
  \A b \in Buckets :
    /\ Below(win[b], log[b])
    /\ ~stepped => Exact(win[b], log[b]) /\ win[b].index <= Minute(now)

IInv == WindowsTypeOK /\ Consistent /\ RateOvershoot

\* One bucket that is rolled and counts n events.
LEMMA BucketTouched ==
  ASSUME NEW l \in [Minutes -> Nat], NEW w, Below(w, l), NEW i \in Minutes, NEW n \in Nat
  PROVE  LET v == [Rolled(w, i) EXCEPT !.curr = @ + n]
             k == [l EXCEPT ![i] = @ + n]
         IN  /\ Below(v, k) /\ v.index = i
             /\ Exact(w, l) /\ i >= w.index => Exact(v, k)
<1> DEFINE u == Rolled(w, i)
           v == [u EXCEPT !.curr = @ + n]
           k == [l EXCEPT ![u.index] = @ + n]
<1>1. Below(u, l) /\ u.index = i
  BY RolledBelow
<1>2. Exact(w, l) /\ i >= w.index => Exact(u, l)
  BY RolledExact
<1> HIDE DEF u
<1>3. Below(v, k)
  BY <1>1, CountedBelow
<1>4. Exact(u, l) => Exact(v, k)
  BY <1>1, CountedExact
<1>5. v.index = i
  BY <1>1 DEF Below, Window
<1> QED
  BY <1>1, <1>2, <1>3, <1>4, <1>5 DEF u

\* A touch keeps the windows consistent and adds its events to the minute.
LEMMA TouchKeeps ==
  ASSUME WindowsTypeOK, Consistent, now' = now, stepped' = stepped,
         NEW news, DOMAIN news \subseteq Buckets,
         \A b \in DOMAIN news : news[b] \in Nat,
         Touch(news)
  PROVE  /\ win' \in [Buckets -> Window]
         /\ log' \in [Buckets -> [Minutes -> Nat]]
         /\ Consistent'
         /\ \A b \in Buckets :
              log'[b][Minute(now)]
                = log[b][Minute(now)] + (IF b \in DOMAIN news THEN news[b] ELSE 0)
<1> DEFINE i == Minute(now)
<1>1. i \in Minutes
  BY MinuteType DEF WindowsTypeOK
<1>2. log \in [Buckets -> [Minutes -> Nat]] /\ win \in [Buckets -> Window]
  BY DEF WindowsTypeOK
<1>3. i \in Nat /\ \A b \in Buckets : win[b].index \in Nat
  BY <1>1, <1>2, LastMinute DEF Minutes, Window
<1> HIDE DEF i
<1>4. ASSUME NEW b \in Buckets
      PROVE  /\ win'[b] \in Window
             /\ log'[b] \in [Minutes -> Nat]
             /\ Below(win'[b], log'[b])
             /\ ~stepped => Exact(win'[b], log'[b]) /\ win'[b].index <= i
             /\ log'[b][i] = log[b][i] + (IF b \in DOMAIN news THEN news[b] ELSE 0)
  <2>1. CASE b \in DOMAIN news
    <3> DEFINE n == news[b]
               w == win[b]
               l == log[b]
               v == [Rolled(w, i) EXCEPT !.curr = @ + n]
               k == [l EXCEPT ![i] = @ + n]
    <3>1. win'[b] = v /\ log'[b] = k
      BY <2>1 DEF Touch, i
    <3>2. n \in Nat /\ l \in [Minutes -> Nat] /\ Below(w, l)
      BY <1>2, <2>1 DEF Consistent
    <3>3. ~stepped => Exact(w, l) /\ w.index <= i
      BY DEF Consistent, i
    <3>4. w.index \in Nat
      BY <1>3
    <3> HIDE DEF n, w, l
    <3>5. Below(v, k) /\ v.index = i /\ (Exact(w, l) /\ i >= w.index => Exact(v, k))
      BY <1>1, <3>2, BucketTouched
    <3>6. k \in [Minutes -> Nat] /\ k[i] = l[i] + n
      BY <1>1, <3>2
    <3>7. v \in Window
      BY <3>5 DEF Below
    <3> HIDE DEF v, k
    <3> QED
      BY <1>3, <2>1, <3>1, <3>3, <3>4, <3>5, <3>6, <3>7 DEF n, l
  <2>2. CASE b \notin DOMAIN news
    <3>1. win'[b] = win[b] /\ log'[b] = log[b]
      BY <2>2 DEF Touch
    <3>2. log[b][i] \in Nat
      BY <1>1, <1>2
    <3>3. /\ Below(win[b], log[b])
          /\ ~stepped => Exact(win[b], log[b]) /\ win[b].index <= i
      BY DEF Consistent, i
    <3> QED
      BY <1>2, <2>2, <3>1, <3>2, <3>3
  <2> QED
    BY <2>1, <2>2
<1>5. win' \in [Buckets -> Window] /\ log' \in [Buckets -> [Minutes -> Nat]]
  <2>1. /\ win' = [b \in Buckets |-> win'[b]]
        /\ log' = [b \in Buckets |-> log'[b]]
    BY DEF Touch
  <2> QED
    BY <1>4, <2>1
<1>6. Minute(now)' = i
  BY DEF i, Minute
<1>7. Consistent'
  BY <1>4, <1>6 DEF Consistent
<1> QED
  BY <1>4, <1>5, <1>7 DEF i

-----------------------------------------------------------------------------
(* Requests between the gate and the count. *)

LEMMA SomeRequests ==
  ASSUME NEW S \in SUBSET Requests
  PROVE  /\ IsFiniteSet(S)
         /\ Cardinality(S) \in Nat /\ Cardinality(Requests) \in Nat
         /\ Cardinality(S) <= Cardinality(Requests)
<1>1. IsFiniteSet(Requests)
  BY WindowsAssumption
<1>2. IsFiniteSet(S) /\ Cardinality(S) <= Cardinality(Requests)
  BY <1>1, FS_Subset
<1> QED
  BY <1>1, <1>2, FS_CardinalityType

LEMMA LimitType == Rpm \subseteq Nat
BY WindowsAssumption DEF Optional

\* The requests counted are no more, and those before the count are others.
LEMMA NoMoreRequests ==
  ASSUME WindowsTypeOK, RateOvershoot, now' = now, stepped' = stepped,
         log["rpm"][Minute(now)] \in Nat,
         log'["rpm"][Minute(now)] = log["rpm"][Minute(now)],
         Admitted' \subseteq Admitted
  PROVE  RateOvershoot'
<1> DEFINE n == log["rpm"][Minute(now)]
           a == Cardinality(Admitted)
           c == Cardinality(Admitted')
           k == Cardinality(Requests)
<1>1. Admitted \in SUBSET Requests /\ Admitted' \in SUBSET Requests
  BY DEF Admitted
<1>2. a \in Nat /\ c \in Nat /\ k \in Nat /\ c <= a
  BY <1>1, SomeRequests, FS_Subset
<1>3. Minute(now)' = Minute(now)
  BY DEF Minute
<1>4. Cardinality(Admitted)' = c
  OBVIOUS
<1> HIDE DEF n, a, c, k
<1>5. n \in Nat /\ log'["rpm"][Minute(now)'] = n
  BY <1>3 DEF n
<1>6. ASSUME ~stepped', NEW l \in Rpm \ {0}
      PROVE  n + c < l + k
  <2>1. n + a < l + k
    BY <1>6 DEF RateOvershoot, n, a, k
  <2> QED
    BY <1>2, <1>5, <2>1, LimitType
<1> QED
  BY <1>4, <1>5, <1>6 DEF RateOvershoot, k

\* The gate that reads the requests of the minute compares them with the limit.
LEMMA OpenLeavesRoom ==
  ASSUME WindowsTypeOK, Consistent, ~stepped, ~Full("rpm", Rpm), NEW l \in Rpm
  PROVE  log["rpm"][Minute(now)] < l
<1> DEFINE i == Minute(now)
           w == Rolled(win["rpm"], i)
           rest == Slices - (now % Slices)
<1>1. i \in Minutes /\ "rpm" \in Buckets /\ now \in Nat
  BY MinuteType DEF WindowsTypeOK, Buckets
<1>2. /\ Below(win["rpm"], log["rpm"]) /\ Exact(win["rpm"], log["rpm"])
      /\ win["rpm"].index <= i
  BY <1>1 DEF Consistent
<1>3. log["rpm"] \in [Minutes -> Nat]
  BY <1>1 DEF WindowsTypeOK
<1>4. i \in Nat /\ win["rpm"].index \in Nat
  BY <1>1, <1>2, LastMinute DEF Below, Minutes
<1>5. i >= win["rpm"].index
  BY <1>2, <1>4
<1>6. w.index = i /\ w \in Window /\ Exact(w, log["rpm"])
  BY <1>1, <1>2, <1>3, <1>5, RolledBelow, RolledExact DEF Below
<1>7. Slices \in Nat \ {0} /\ l \in Nat
  BY WindowsAssumption, LimitType
<1>8. rest \in Nat
  BY <1>1, <1>7
<1> HIDE DEF rest
<1>9. w.prev \in Nat /\ w.curr \in Nat /\ w.curr = log["rpm"][i]
  BY <1>6 DEF Window, Exact
<1> HIDE DEF w
<1>10. Effective("rpm") = w.prev * rest + w.curr * Slices
  BY DEF Effective, Blend, w, rest
<1>11. ~(w.prev * rest + w.curr * Slices >= l * Slices)
  BY <1>10 DEF Full
<1>12. w.prev * rest \in Nat
  BY <1>8, <1>9
<1>13. w.curr * Slices \in Nat /\ l * Slices \in Nat
  BY <1>7, <1>9
<1>14. w.curr * Slices < l * Slices
  BY <1>11, <1>12, <1>13
<1>15. w.curr < l
  BY <1>7, <1>9, <1>14
<1> QED
  BY <1>9, <1>15

-----------------------------------------------------------------------------
(* The steps. *)

LEMMA FreshConsistent ==
  ASSUME NEW b \in Buckets
  PROVE  /\ Fresh[b] \in Window /\ NoEvents[b] \in [Minutes -> Nat]
         /\ Below(Fresh[b], NoEvents[b]) /\ Exact(Fresh[b], NoEvents[b])
         /\ Fresh[b].index = 0
<1>1. 0 \in Minutes
  BY LastMinute DEF Minutes
<1>2. Fresh[b] = [index |-> 0, prev |-> 0, curr |-> 0]
  BY DEF Fresh
<1>3. NoEvents[b] = [m \in Minutes |-> 0]
  BY DEF NoEvents
<1> QED
  BY <1>1, <1>2, <1>3 DEF Below, Exact, Prev, Window

\* A process that has just started, at any time.
LEMMA StartIsConsistent ==
  ASSUME now \in 0 .. MaxNow, win = Fresh, log = NoEvents, Admitted = {}
  PROVE  /\ win \in [Buckets -> Window]
         /\ log \in [Buckets -> [Minutes -> Nat]]
         /\ Consistent /\ RateOvershoot
<1>1. Minute(now) \in Minutes /\ Minute(now) \in Nat
  BY MinuteType, LastMinute DEF Minutes
<1>2. win \in [Buckets -> Window] /\ log \in [Buckets -> [Minutes -> Nat]]
  BY FreshConsistent DEF Fresh, NoEvents
<1>3. Consistent
  BY <1>1, FreshConsistent DEF Consistent
<1>4. log["rpm"][Minute(now)] = 0
  BY <1>1 DEF NoEvents, Buckets
<1>5. Cardinality(Admitted) = 0 /\ Cardinality(Requests) \in Nat
  BY FS_EmptySet, SomeRequests
<1>6. RateOvershoot
  BY <1>4, <1>5, LimitType DEF RateOvershoot
<1> QED
  BY <1>2, <1>3, <1>6

LEMMA InitInv == WindowsInit => IInv
<1> SUFFICES ASSUME WindowsInit PROVE IInv
  OBVIOUS
<1>1. now \in 0 .. MaxNow
  BY WindowsAssumption DEF WindowsInit
<1>2. Admitted = {}
  BY DEF WindowsInit, Admitted
<1>3. /\ win \in [Buckets -> Window]
      /\ log \in [Buckets -> [Minutes -> Nat]]
      /\ Consistent /\ RateOvershoot
  BY <1>1, <1>2, StartIsConsistent DEF WindowsInit
<1>4. req \in [Requests -> Phases]
  BY DEF WindowsInit, Phases
<1>5. calls \in 0 .. MaxCalls
  BY WindowsAssumption DEF WindowsInit
<1>6. stepped \in BOOLEAN
  BY DEF WindowsInit
<1> QED
  BY <1>1, <1>3, <1>4, <1>5, <1>6 DEF IInv, WindowsTypeOK

LEMMA GateInv == ASSUME IInv, NEW r \in Requests, Gate(r) PROVE IInv'
<1>1. PICK multi \in BOOLEAN, fits \in BOOLEAN :
        /\ Read(Consulted(multi, fits))
        /\ \/ /\ Verdict(multi, fits) = "open"
              /\ calls < MaxCalls
              /\ req' = [req EXCEPT ![r] = "admitted"]
              /\ calls' = calls + 1
           \/ UNCHANGED <<req, calls>>
  BY DEF Gate
<1>2. now' = now /\ stepped' = stepped
  BY DEF Gate
<1>3. PICK news : news = [b \in Consulted(multi, fits) |-> 0]
  OBVIOUS
<1>4. Touch(news)
  BY <1>1, <1>3 DEF Read
<1>5. DOMAIN news \subseteq Buckets /\ \A b \in DOMAIN news : news[b] = 0
  BY <1>3 DEF Consulted, Buckets
<1>6. /\ win' \in [Buckets -> Window]
      /\ log' \in [Buckets -> [Minutes -> Nat]]
      /\ Consistent'
      /\ \A b \in Buckets :
           log'[b][Minute(now)]
             = log[b][Minute(now)] + (IF b \in DOMAIN news THEN news[b] ELSE 0)
  BY <1>2, <1>4, <1>5, TouchKeeps DEF IInv
<1>7. "rpm" \in Buckets /\ log["rpm"][Minute(now)] \in Nat
  BY MinuteType DEF IInv, WindowsTypeOK, Buckets
<1>8. log'["rpm"][Minute(now)] = log["rpm"][Minute(now)]
  BY <1>5, <1>6, <1>7
<1>9. CASE UNCHANGED <<req, calls>>
  <2>1. Admitted' \subseteq Admitted
    BY <1>9 DEF Admitted
  <2>2. RateOvershoot'
    BY <1>2, <1>7, <1>8, <2>1, NoMoreRequests DEF IInv
  <2> QED
    BY <1>2, <1>6, <1>9, <2>2 DEF IInv, WindowsTypeOK
<1>10. CASE /\ Verdict(multi, fits) = "open"
            /\ calls < MaxCalls
            /\ req' = [req EXCEPT ![r] = "admitted"]
            /\ calls' = calls + 1
  <2>1. req' \in [Requests -> Phases] /\ calls' \in 0 .. MaxCalls
    BY <1>10, WindowsAssumption DEF IInv, WindowsTypeOK, Phases
  <2>2. ~Full("rpm", Rpm)
    BY <1>10 DEF Verdict
  <2>3. Admitted' \in SUBSET Requests
    BY DEF Admitted
  <2>4. /\ Cardinality(Admitted') \in Nat /\ Cardinality(Requests) \in Nat
        /\ Cardinality(Admitted') <= Cardinality(Requests)
    BY <2>3, SomeRequests
  <2>5. Minute(now)' = Minute(now)
    BY <1>2 DEF Minute
  <2>6. ASSUME ~stepped', NEW l \in Rpm \ {0}
        PROVE  log'["rpm"][Minute(now)] + Cardinality(Admitted') < l + Cardinality(Requests)
    <3>1. log["rpm"][Minute(now)] < l
      BY <1>2, <2>2, <2>6, OpenLeavesRoom DEF IInv
    <3> QED
      BY <1>7, <1>8, <2>4, <3>1, LimitType
  <2>7. RateOvershoot'
    BY <2>5, <2>6 DEF RateOvershoot
  <2> QED
    BY <1>2, <1>6, <2>1, <2>7 DEF IInv, WindowsTypeOK
<1> QED
  BY <1>1, <1>9, <1>10

\* A step that counts no request and lets none through.
LEMMA QuietStep ==
  ASSUME IInv, req' \in [Requests -> Phases], Admitted' \subseteq Admitted,
         calls' \in 0 .. MaxCalls, now' = now, stepped' = stepped,
         NEW news, DOMAIN news \subseteq Buckets,
         \A b \in DOMAIN news : news[b] \in Nat,
         "rpm" \in DOMAIN news => news["rpm"] = 0,
         Touch(news)
  PROVE  IInv'
<1>1. /\ win' \in [Buckets -> Window]
      /\ log' \in [Buckets -> [Minutes -> Nat]]
      /\ Consistent'
      /\ \A b \in Buckets :
           log'[b][Minute(now)]
             = log[b][Minute(now)] + (IF b \in DOMAIN news THEN news[b] ELSE 0)
  BY TouchKeeps DEF IInv
<1>2. "rpm" \in Buckets /\ log["rpm"][Minute(now)] \in Nat
  BY MinuteType DEF IInv, WindowsTypeOK, Buckets
<1>3. log'["rpm"][Minute(now)] = log["rpm"][Minute(now)]
  BY <1>1, <1>2
<1>4. RateOvershoot'
  BY <1>2, <1>3, NoMoreRequests DEF IInv
<1> QED
  BY <1>1, <1>4 DEF IInv, WindowsTypeOK

\* The same, when no window is touched.
LEMMA UntouchedStep ==
  ASSUME IInv, req' \in [Requests -> Phases], Admitted' \subseteq Admitted,
         calls' = calls, now' = now, stepped' = stepped, win' = win, log' = log
  PROVE  IInv'
<1>1. "rpm" \in Buckets /\ log["rpm"][Minute(now)] \in Nat
  BY MinuteType DEF IInv, WindowsTypeOK, Buckets
<1>2. RateOvershoot'
  BY <1>1, NoMoreRequests DEF IInv
<1>3. Consistent'
  BY DEF IInv, Consistent, Minute
<1> QED
  BY <1>2, <1>3 DEF IInv, WindowsTypeOK

\* A request that moves on is not let through by it.
LEMMA Moves ==
  ASSUME WindowsTypeOK, NEW r \in Requests, NEW phase \in Phases \ {"admitted"},
         req' = [req EXCEPT ![r] = phase]
  PROVE  req' \in [Requests -> Phases] /\ Admitted' \subseteq Admitted
BY DEF Admitted, WindowsTypeOK

LEMMA SendInv == ASSUME IInv, NEW r \in Requests, Send(r) PROVE IInv'
<1>1. /\ now' = now /\ calls' = calls /\ stepped' = stepped
      /\ req[r] = "admitted" /\ req' = [req EXCEPT ![r] = "sent"]
  BY DEF Send
<1>2. PICK news : news = [b \in {"rpm"} |-> 1]
  OBVIOUS
<1>3. Touch(news)
  BY <1>2 DEF Send
<1>4. DOMAIN news \subseteq Buckets /\ "rpm" \in DOMAIN news /\ news["rpm"] = 1
  BY <1>2 DEF Buckets
<1>5. \A b \in DOMAIN news : news[b] \in Nat
  BY <1>2
<1>6. /\ win' \in [Buckets -> Window]
      /\ log' \in [Buckets -> [Minutes -> Nat]]
      /\ Consistent'
      /\ \A b \in Buckets :
           log'[b][Minute(now)]
             = log[b][Minute(now)] + (IF b \in DOMAIN news THEN news[b] ELSE 0)
  BY <1>1, <1>3, <1>4, <1>5, TouchKeeps DEF IInv
<1> DEFINE n == log["rpm"][Minute(now)]
           a == Cardinality(Admitted)
           c == Cardinality(Admitted')
           k == Cardinality(Requests)
<1>7. n \in Nat
  BY MinuteType DEF IInv, WindowsTypeOK, Buckets
<1>8. log'["rpm"][Minute(now)] = n + 1
  BY <1>4, <1>6 DEF Buckets
<1>9. req' \in [Requests -> Phases]
  BY <1>1 DEF IInv, WindowsTypeOK, Phases
<1>10. Admitted' = Admitted \ {r} /\ r \in Admitted /\ Admitted \in SUBSET Requests
  BY <1>1 DEF Admitted, IInv, WindowsTypeOK
<1>11. IsFiniteSet(Admitted) /\ a \in Nat /\ k \in Nat
  BY <1>10, SomeRequests
<1>12. c = a - 1
  BY <1>10, <1>11, FS_RemoveElement
<1>13. Minute(now)' = Minute(now)
  BY <1>1 DEF Minute
<1>14. Cardinality(Admitted)' = c
  OBVIOUS
<1> HIDE DEF n, a, c, k
<1>15. ASSUME ~stepped', NEW l \in Rpm \ {0}
       PROVE  (n + 1) + c < l + k
  <2>1. n + a < l + k
    BY <1>1, <1>15 DEF IInv, RateOvershoot, n, a, k
  <2> QED
    BY <1>7, <1>11, <1>12, <2>1, LimitType
<1>16. RateOvershoot'
  BY <1>8, <1>13, <1>14, <1>15 DEF RateOvershoot, k
<1> QED
  BY <1>1, <1>6, <1>9, <1>16 DEF IInv, WindowsTypeOK

LEMMA ResultInv ==
  ASSUME IInv, NEW ok \in BOOLEAN, Result(ok),
         req' \in [Requests -> Phases], Admitted' \subseteq Admitted,
         calls' \in 0 .. MaxCalls, now' = now, stepped' = stepped
  PROVE  IInv'
<1>1. PICK news : news = [b \in {"req", "fail"} |-> IF b = "fail" /\ ok THEN 0 ELSE 1]
  OBVIOUS
<1>2. Touch(news)
  BY <1>1 DEF Result
<1>3. /\ DOMAIN news \subseteq Buckets /\ "rpm" \notin DOMAIN news
      /\ \A b \in DOMAIN news : news[b] \in Nat
  BY <1>1 DEF Buckets
<1> QED
  BY <1>2, <1>3, QuietStep

LEMMA TokensInv ==
  ASSUME IInv, NEW tokens \in Reports, Touch([b \in {"tpm"} |-> tokens]),
         req' \in [Requests -> Phases], Admitted' \subseteq Admitted,
         calls' \in 0 .. MaxCalls, now' = now, stepped' = stepped
  PROVE  IInv'
<1>1. PICK news : news = [b \in {"tpm"} |-> tokens]
  OBVIOUS
<1>2. Touch(news)
  BY <1>1
<1>3. /\ DOMAIN news \subseteq Buckets /\ "rpm" \notin DOMAIN news
      /\ \A b \in DOMAIN news : news[b] \in Nat
  BY <1>1, WindowsAssumption DEF Buckets
<1> QED
  BY <1>2, <1>3, QuietStep

LEMMA BanksInv == ASSUME IInv, NEW r \in Requests, Banks(r) PROVE IInv'
<1>1. req' = req /\ now' = now /\ stepped' = stepped /\ calls < MaxCalls /\ calls' = calls + 1
  BY DEF Banks
<1>2. calls' \in 0 .. MaxCalls
  BY <1>1, WindowsAssumption DEF IInv, WindowsTypeOK
<1>3. req' \in [Requests -> Phases] /\ Admitted' \subseteq Admitted
  BY <1>1 DEF IInv, WindowsTypeOK, Admitted
<1>4. CASE Result(FALSE)
  BY <1>1, <1>2, <1>3, <1>4, ResultInv
<1>5. ASSUME NEW tokens \in Reports, Touch([b \in {"tpm"} |-> tokens])
      PROVE  IInv'
  BY <1>1, <1>2, <1>3, <1>5, TokensInv
<1> QED
  BY <1>4, <1>5 DEF Banks

LEMMA FailsInv == ASSUME IInv, NEW r \in Requests, Fails(r) PROVE IInv'
<1>1. /\ req' = [req EXCEPT ![r] = "idle"] /\ "idle" \in Phases \ {"admitted"}
      /\ now' = now /\ stepped' = stepped /\ calls' = calls
  BY DEF Fails, Phases
<1>2. req' \in [Requests -> Phases] /\ Admitted' \subseteq Admitted
  BY <1>1, Moves DEF IInv
<1>3. calls' \in 0 .. MaxCalls
  BY <1>1 DEF IInv, WindowsTypeOK
<1>4. CASE Result(FALSE)
  BY <1>1, <1>2, <1>3, <1>4, ResultInv
<1>5. CASE UNCHANGED <<win, log>>
  BY <1>1, <1>2, <1>5, UntouchedStep
<1> QED
  BY <1>4, <1>5 DEF Fails

LEMMA AnswersInv == ASSUME IInv, NEW r \in Requests, Answers(r) PROVE IInv'
<1>1. /\ req' = [req EXCEPT ![r] = "streaming"] /\ "streaming" \in Phases \ {"admitted"}
      /\ now' = now /\ stepped' = stepped /\ calls' = calls /\ Result(TRUE)
  BY DEF Answers, Phases
<1>2. req' \in [Requests -> Phases] /\ Admitted' \subseteq Admitted
  BY <1>1, Moves DEF IInv
<1>3. calls' \in 0 .. MaxCalls
  BY <1>1 DEF IInv, WindowsTypeOK
<1> QED
  BY <1>1, <1>2, <1>3, ResultInv

LEMMA EndsInv == ASSUME IInv, NEW r \in Requests, Ends(r) PROVE IInv'
<1>1. /\ req' = [req EXCEPT ![r] = "idle"] /\ "idle" \in Phases \ {"admitted"}
      /\ now' = now /\ stepped' = stepped /\ calls' = calls
  BY DEF Ends, Phases
<1>2. req' \in [Requests -> Phases] /\ Admitted' \subseteq Admitted
  BY <1>1, Moves DEF IInv
<1>3. calls' \in 0 .. MaxCalls
  BY <1>1 DEF IInv, WindowsTypeOK
<1>4. CASE UNCHANGED <<win, log>>
  BY <1>1, <1>2, <1>4, UntouchedStep
<1>5. ASSUME NEW tokens \in Reports, Touch([b \in {"tpm"} |-> tokens])
      PROVE  IInv'
  BY <1>1, <1>2, <1>3, <1>5, TokensInv
<1> QED
  BY <1>4, <1>5 DEF Ends

LEMMA ObserveInv == ASSUME IInv, Observe PROVE IInv'
<1>1. PICK b \in {"rpm", "tpm"} : Read({b})
  BY DEF Observe
<1>2. now' = now /\ stepped' = stepped /\ calls' = calls /\ req' = req
  BY DEF Observe
<1>3. req' \in [Requests -> Phases] /\ Admitted' \subseteq Admitted /\ calls' \in 0 .. MaxCalls
  BY <1>2 DEF IInv, WindowsTypeOK, Admitted
<1>4. PICK news : news = [c \in {b} |-> 0]
  OBVIOUS
<1>5. Touch(news)
  BY <1>1, <1>4 DEF Read
<1>6. DOMAIN news \subseteq Buckets /\ \A c \in DOMAIN news : news[c] = 0
  BY <1>4 DEF Buckets
<1> QED
  BY <1>2, <1>3, <1>5, <1>6, QuietStep

LEMMA TickInv == ASSUME IInv, Advance PROVE IInv'
<1>1. now' = now + 1 /\ now' \in 0 .. MaxNow /\ now \in 0 .. MaxNow
  BY WindowsAssumption DEF Advance, IInv, WindowsTypeOK
<1>2. UNCHANGED <<win, req, calls, log, stepped>>
  BY DEF Advance
<1> DEFINE m == Minute(now)
           n == Minute(now + 1)
<1>3. m \in Minutes /\ n \in Minutes /\ m <= n /\ n = Minute(now)'
  BY <1>1, MinuteType, MinuteGrows DEF Minute
<1>4. m \in Nat /\ n \in Nat
  BY <1>3, LastMinute DEF Minutes
<1> HIDE DEF m, n
<1>5. ASSUME NEW b \in Buckets, ~stepped
      PROVE  win[b].index \in Nat /\ win[b].index <= m
  BY <1>5 DEF IInv, WindowsTypeOK, Window, Consistent, m
<1>6. Consistent'
  <2>1. ASSUME NEW b \in Buckets
        PROVE  /\ Below(win[b], log[b])
               /\ ~stepped => Exact(win[b], log[b]) /\ win[b].index <= n
    BY <1>3, <1>4, <1>5 DEF IInv, Consistent
  <2> QED
    BY <1>2, <1>3, <2>1 DEF Consistent
<1>7. Cardinality(Admitted) \in Nat /\ Cardinality(Requests) \in Nat
      /\ Cardinality(Admitted) <= Cardinality(Requests)
  BY SomeRequests DEF Admitted
<1>8. ASSUME ~stepped, NEW l \in Rpm \ {0}
      PROVE  log["rpm"][n] + Cardinality(Admitted) < l + Cardinality(Requests)
  <2>1. CASE n = m
    BY <1>8, <2>1 DEF IInv, RateOvershoot, m
  <2>2. CASE n # m
    <3>1. "rpm" \in Buckets
      BY DEF Buckets
    <3>2. n > win["rpm"].index
      BY <1>3, <1>4, <1>5, <1>8, <2>2, <3>1
    <3>3. log["rpm"][n] = 0
      BY <1>3, <1>8, <3>1, <3>2 DEF IInv, Consistent, Exact
    <3> QED
      BY <1>7, <1>8, <3>3, LimitType
  <2> QED
    BY <2>1, <2>2
<1>9. Admitted' = Admitted
  BY <1>2 DEF Admitted
<1>10. RateOvershoot'
  BY <1>2, <1>3, <1>8, <1>9 DEF RateOvershoot
<1> QED
  BY <1>1, <1>2, <1>6, <1>10 DEF IInv, WindowsTypeOK

LEMMA StepBackInv == ASSUME IInv, StepBack PROVE IInv'
<1>1. PICK t \in 1 .. Slices : t <= now - Origin /\ now' = now - t
  BY DEF StepBack
<1>2. stepped' /\ UNCHANGED <<win, req, calls, log>> /\ stepped' \in BOOLEAN
  BY DEF StepBack
<1>3. now' \in 0 .. MaxNow
  BY <1>1, WindowsAssumption DEF IInv, WindowsTypeOK
<1>4. Consistent' /\ RateOvershoot'
  BY <1>2 DEF IInv, Consistent, RateOvershoot
<1> QED
  BY <1>2, <1>3, <1>4 DEF IInv, WindowsTypeOK

LEMMA RestartInv == ASSUME IInv, StartAgain PROVE IInv'
<1>1. /\ win' = Fresh /\ log' = NoEvents /\ req' = [r \in Requests |-> "idle"]
      /\ now' = now /\ calls' = calls /\ stepped' = stepped
  BY DEF StartAgain
<1>2. Minute(now) \in Minutes /\ Minute(now) \in Nat
  BY MinuteType, LastMinute DEF Minutes, IInv, WindowsTypeOK
<1>3. win' \in [Buckets -> Window] /\ log' \in [Buckets -> [Minutes -> Nat]]
  BY <1>1, FreshConsistent DEF Fresh, NoEvents
<1>4. Consistent'
  BY <1>1, <1>2, FreshConsistent DEF Consistent, Minute
<1>5. log'["rpm"][Minute(now)'] = 0
  BY <1>1, <1>2 DEF NoEvents, Buckets, Minute
<1>6. Admitted' = {}
  BY <1>1 DEF Admitted
<1>7. Cardinality(Admitted') = 0 /\ Cardinality(Requests) \in Nat
  BY <1>6, FS_EmptySet, SomeRequests
<1>8. Cardinality(Admitted)' = 0
  BY <1>7
<1>9. RateOvershoot'
  BY <1>5, <1>7, <1>8, LimitType DEF RateOvershoot
<1>10. req' \in [Requests -> Phases]
  BY <1>1 DEF Phases
<1> QED
  BY <1>1, <1>3, <1>4, <1>9, <1>10 DEF IInv, WindowsTypeOK

LEMMA NextInv == IInv /\ [WindowsNext]_windowsVars => IInv'
<1> SUFFICES ASSUME IInv, [WindowsNext]_windowsVars PROVE IInv'
  OBVIOUS
<1>1. ASSUME NEW r \in Requests, Gate(r) PROVE IInv'
  BY <1>1, GateInv
<1>2. ASSUME NEW r \in Requests, FailLocally(r) PROVE IInv'
  <2>1. req' = [req EXCEPT ![r] = "idle"] /\ "idle" \in Phases \ {"admitted"}
    BY <1>2 DEF FailLocally, Phases
  <2>2. req' \in [Requests -> Phases] /\ Admitted' \subseteq Admitted
    BY <2>1, Moves DEF IInv
  <2> QED
    BY <1>2, <2>2, UntouchedStep DEF FailLocally
<1>3. ASSUME NEW r \in Requests, Send(r) PROVE IInv'
  BY <1>3, SendInv
<1>4. ASSUME NEW r \in Requests, Banks(r) PROVE IInv'
  BY <1>4, BanksInv
<1>5. ASSUME NEW r \in Requests, Fails(r) PROVE IInv'
  BY <1>5, FailsInv
<1>6. ASSUME NEW r \in Requests, Answers(r) PROVE IInv'
  BY <1>6, AnswersInv
<1>7. ASSUME NEW r \in Requests, Ends(r) PROVE IInv'
  BY <1>7, EndsInv
<1>8. CASE Observe
  BY <1>8, ObserveInv
<1>9. CASE Advance
  BY <1>9, TickInv
<1>10. CASE StepBack
  BY <1>10, StepBackInv
<1>11. CASE StartAgain
  BY <1>11, RestartInv
<1>12. CASE UNCHANGED windowsVars
  BY <1>12 DEF windowsVars, IInv, WindowsTypeOK, Consistent, RateOvershoot, Admitted, Minute
<1> QED
  BY <1>1, <1>2, <1>3, <1>4, <1>5, <1>6, <1>7, <1>8, <1>9, <1>10, <1>11, <1>12 DEF WindowsNext

THEOREM Invariant == WindowsSpec => []IInv
BY InitInv, NextInv, PTL DEF WindowsSpec

\* The windows and the requests keep their types.
THEOREM WindowsTyped == WindowsSpec => []WindowsTypeOK
<1>1. IInv => WindowsTypeOK
  BY DEF IInv
<1> QED
  BY <1>1, Invariant, PTL

\* While the clock goes forward, a window rolled when touched (state.rs roll)
\* holds exactly what the minute and the one before counted.
THEOREM LazyWindowsAreExact == WindowsSpec => []LazyIsEager
<1>1. IInv => LazyIsEager
  <2> SUFFICES ASSUME IInv, ~stepped, NEW b \in Buckets
               PROVE  LET w == Rolled(win[b], Minute(now))
                      IN  w.curr = log[b][Minute(now)] /\ w.prev = Before(b, Minute(now))
    BY DEF LazyIsEager
  <2> DEFINE i == Minute(now)
  <2>1. i \in Minutes /\ log[b] \in [Minutes -> Nat]
    BY MinuteType DEF IInv, WindowsTypeOK
  <2>2. Below(win[b], log[b]) /\ Exact(win[b], log[b]) /\ win[b].index <= i
    BY DEF IInv, Consistent
  <2>3. i \in Nat /\ win[b].index \in Nat
    BY <2>1, <2>2, LastMinute DEF Below, Minutes
  <2> HIDE DEF i
  <2>4. i >= win[b].index
    BY <2>2, <2>3
  <2> DEFINE w == Rolled(win[b], i)
  <2>5a. w.index = i
    BY <2>1, <2>2, RolledBelow
  <2>5. w.index = i /\ Exact(w, log[b])
    BY <2>1, <2>2, <2>4, <2>5a, RolledExact
  <2>6. w.curr = log[b][i] /\ w.prev = Prev(log[b], i)
    BY <2>5 DEF Exact
  <2>7. Prev(log[b], i) = Before(b, i)
    BY DEF Prev, Before
  <2> QED
    BY <2>6, <2>7 DEF i
<1> QED
  BY <1>1, Invariant, PTL

\* Whatever the clock does, no gate of the minute counts what is older than the
\* minute before: nothing latches (state.rs:870).
THEOREM NothingLatches == WindowsSpec => []NoPhantoms
<1>1. IInv => NoPhantoms
  <2> SUFFICES ASSUME IInv, NEW b \in Buckets
               PROVE  LET w == Rolled(win[b], Minute(now))
                      IN  w.curr <= log[b][Minute(now)] /\ w.prev <= Before(b, Minute(now))
    BY DEF NoPhantoms
  <2> DEFINE i == Minute(now)
  <2>1. i \in Minutes /\ log[b] \in [Minutes -> Nat] /\ Below(win[b], log[b])
    BY MinuteType DEF IInv, WindowsTypeOK, Consistent
  <2> HIDE DEF i
  <2>2. Rolled(win[b], i).index = i /\ Below(Rolled(win[b], i), log[b])
    BY <2>1, RolledBelow
  <2> QED
    BY <2>2 DEF Below, Prev, Before, i
<1> QED
  BY <1>1, Invariant, PTL

\* The requests of a minute pass the limit by fewer than the requests in flight
\* (router.rs:1344 reads the window, router.rs:1836 counts).
THEOREM RateIsBounded == WindowsSpec => []RateOvershoot
<1>1. IInv => RateOvershoot
  BY DEF IInv
<1> QED
  BY <1>1, Invariant, PTL
=============================================================================
