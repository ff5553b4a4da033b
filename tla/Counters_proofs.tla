--------------------------- MODULE Counters_proofs ---------------------------
(***************************************************************************)
(* The counters for every calendar, chain, limit and number of requests:   *)
(* the windows in use are the open ones, and each daily limit is a Limiter *)
(* with the bound that is proved here of every Limiter.                    *)
(***************************************************************************)
EXTENDS Counters, Limiter, FiniteSetTheorems, TLAPS

-----------------------------------------------------------------------------
(* The calendar. *)

\* What the calendar's maps give.
LEMMA DaysHaveResets ==
  /\ Firsts \subseteq Days
  /\ \A d \in Days : /\ d \in Int
                    /\ ResetAt[d] \in Int /\ Midnight[d] \in Int
                    /\ Midnight[d] <= ResetAt[d]
<1>1. Days \subseteq Int /\ Midnight \in [Days -> Int] /\ ResetAt \in [Days -> Int]
      /\ Firsts \subseteq Days /\ \A d \in Days : Midnight[d] <= ResetAt[d]
  BY CalendarAssumption
<1>2. QED
  BY <1>1

\* Resets follow the order of their days, and come after the midnights of both.
LEMMA ResetsInOrder ==
  ASSUME NEW d \in Days, NEW e \in Days, d <= e
  PROVE  /\ ResetAt[d] \in Int /\ Midnight[d] \in Int
         /\ ResetAt[d] <= ResetAt[e]
         /\ Midnight[d] <= Midnight[e]
         /\ d < e => ResetAt[d] < Midnight[e]
<1>1. d \in Int /\ e \in Int
  BY CalendarAssumption
<1>2. /\ ResetAt[d] \in Int /\ ResetAt[e] \in Int /\ Midnight[d] \in Int /\ Midnight[e] \in Int
      /\ Midnight[d] <= ResetAt[d] /\ Midnight[e] <= ResetAt[e]
  BY CalendarAssumption
<1>3. d < e => ResetAt[d] < Midnight[e]
  BY CalendarAssumption
<1>4. CASE d = e
  BY <1>1, <1>2, <1>4
<1>5. CASE d < e
  BY <1>1, <1>2, <1>3, <1>5
<1>6. QED
  BY <1>1, <1>2, <1>3, <1>4, <1>5

\* The day of an instant is the one the calendar assigns.
LEMMA TodayIsADay ==
  ASSUME NEW t \in Instants
  PROVE  /\ Today(t) \in Days
         /\ Midnight[Today(t)] <= t
         /\ \A e \in Days : Today(t) < e => t < Midnight[e]
         /\ t < ResetAt[Today(t)] => Today(t) - 1 \in Days
         /\ \E f \in Firsts :
              /\ f <= Today(t)
              /\ \A g \in Firsts : g <= Today(t) => g <= f
              /\ t < ResetAt[f] => \E h \in Firsts : h < f /\ \A g \in Firsts : g < f => g <= h
<1> DEFINE Is(d) == Midnight[d] <= t /\ \A e \in Days : d < e => t < Midnight[e]
<1>1. PICK d \in Days :
        /\ Is(d)
        /\ t < ResetAt[d] => d - 1 \in Days
        /\ \E f \in Firsts :
             /\ f <= d
             /\ \A g \in Firsts : g <= d => g <= f
             /\ t < ResetAt[f] => \E h \in Firsts : h < f /\ \A g \in Firsts : g < f => g <= h
  BY CalendarAssumption
<1>2. ASSUME NEW c \in Days, Is(c) PROVE c = d
  <2>1. c \in Int /\ d \in Int /\ Midnight[c] \in Int /\ Midnight[d] \in Int /\ t \in Int
    BY CalendarAssumption DEF Instants
  <2>2. ~(c < d) /\ ~(d < c)
    BY <1>1, <1>2, <2>1
  <2>3. QED
    BY <2>1, <2>2
<1>3. Today(t) = CHOOSE c \in Days : Is(c)
  BY DEF Today
<1>4. Today(t) \in Days /\ Is(Today(t))
  BY <1>1, <1>3
<1>5. Today(t) = d
  BY <1>2, <1>4
<1>6. QED
  BY <1>1, <1>4, <1>5

\* The day window in use is the last reset.
LEMMA DayIsCurrent ==
  ASSUME NEW t \in Instants
  PROVE  /\ DayStart(t) \in {ResetAt[d] : d \in Days}
         /\ DayStart(t) \in Int
         /\ DayStart(t) <= t
         /\ \A d \in Days : ResetAt[d] <= t => ResetAt[d] <= DayStart(t)
<1> DEFINE D == Today(t)
<1>1. /\ D \in Days
      /\ Midnight[D] <= t
      /\ \A e \in Days : D < e => t < Midnight[e]
      /\ t < ResetAt[D] => D - 1 \in Days
  BY TodayIsADay
<1>2. /\ t \in Int /\ D \in Int /\ \A d \in Days : d \in Int
      /\ \A d \in Days : ResetAt[d] \in Int /\ Midnight[d] \in Int /\ Midnight[d] <= ResetAt[d]
  <2>1. t \in Int
    BY CalendarAssumption DEF Instants
  <2>2. QED
    BY <1>1, <2>1, DaysHaveResets
<1>3. ASSUME NEW d \in Days, ResetAt[d] <= t PROVE d <= D
  <2>1. ~(D < d)
    BY <1>1, <1>2, <1>3
  <2>2. QED
    BY <1>2, <2>1
<1>4. DayStart(t) = IF t >= ResetAt[D] THEN ResetAt[D] ELSE ResetAt[D - 1]
  BY DEF DayStart
<1> HIDE DEF D
<1>5. CASE t >= ResetAt[D]
  BY <1>1, <1>2, <1>3, <1>4, <1>5, ResetsInOrder
<1>6. CASE t < ResetAt[D]
  <2>1. D - 1 \in Days /\ D - 1 < D
    BY <1>1, <1>2, <1>6
  <2>2. ResetAt[D - 1] < Midnight[D]
    BY <1>1, <1>2, <2>1, ResetsInOrder
  <2>3. DayStart(t) = ResetAt[D - 1]
    BY <1>1, <1>2, <1>4, <1>6
  <2>4. ASSUME NEW d \in Days, ResetAt[d] <= t PROVE ResetAt[d] <= ResetAt[D - 1]
    <3>1. d <= D /\ d # D
      BY <1>2, <1>3, <1>6, <2>4
    <3>2. d <= D - 1
      BY <1>2, <3>1
    <3>3. QED
      BY <2>1, <3>2, ResetsInOrder
  <2>5. QED
    BY <1>1, <1>2, <2>1, <2>2, <2>3, <2>4
<1>7. QED
  BY <1>1, <1>2, <1>5, <1>6

\* So is the month window, among the firsts.
LEMMA MonthIsCurrent ==
  ASSUME NEW t \in Instants
  PROVE  /\ MonthStart(t) \in {ResetAt[f] : f \in Firsts}
         /\ MonthStart(t) \in Int
         /\ MonthStart(t) <= t
         /\ \A f \in Firsts : ResetAt[f] <= t => ResetAt[f] <= MonthStart(t)
<1> DEFINE D == Today(t)
           F == FirstOf(D)
           H == FirstBefore(F)
           Isf(f) == f <= D /\ \A g \in Firsts : g <= D => g <= f
           Ish(h) == h < F /\ \A g \in Firsts : g < F => g <= h
<1>1. /\ D \in Days
      /\ Midnight[D] <= t
      /\ \A e \in Days : D < e => t < Midnight[e]
      /\ \E f \in Firsts :
           /\ Isf(f)
           /\ t < ResetAt[f] => \E h \in Firsts : h < f /\ \A g \in Firsts : g < f => g <= h
  BY TodayIsADay
<1>2. /\ t \in Int /\ D \in Int /\ Firsts \subseteq Days /\ \A d \in Days : d \in Int
      /\ \A d \in Days : ResetAt[d] \in Int /\ Midnight[d] \in Int /\ Midnight[d] <= ResetAt[d]
  <2>1. t \in Int
    BY CalendarAssumption DEF Instants
  <2>2. QED
    BY <1>1, <2>1, DaysHaveResets
<1>3. F = CHOOSE f \in Firsts : Isf(f)
  BY DEF FirstOf
<1>4. MonthStart(t) = IF t >= ResetAt[F] THEN ResetAt[F] ELSE ResetAt[H]
  BY DEF MonthStart
<1>5. PICK f0 \in Firsts :
        /\ Isf(f0)
        /\ t < ResetAt[f0] => \E h \in Firsts : h < f0 /\ \A g \in Firsts : g < f0 => g <= h
  BY <1>1
<1>6. F \in Firsts /\ Isf(F)
  BY <1>3, <1>5
<1>7. F = f0
  <2>1. F <= f0 /\ f0 <= F /\ F \in Int /\ f0 \in Int
    BY <1>2, <1>5, <1>6
  <2>2. QED
    BY <2>1
<1>8. H = CHOOSE h \in Firsts : Ish(h)
  BY DEF FirstBefore
<1>9. t < ResetAt[F] => H \in Firsts /\ Ish(H)
  BY <1>5, <1>7, <1>8
<1> HIDE DEF D, F, H
<1>10. ASSUME NEW g \in Firsts, ResetAt[g] <= t PROVE g <= F
  <2>1. ~(D < g)
    BY <1>1, <1>2, <1>10
  <2>2. g <= D
    BY <1>2, <2>1
  <2>3. QED
    BY <1>6, <2>2
<1>11. CASE t >= ResetAt[F]
  BY <1>2, <1>4, <1>6, <1>10, <1>11, ResetsInOrder
<1>12. CASE t < ResetAt[F]
  <2>1. H \in Firsts /\ Ish(H)
    BY <1>9, <1>12
  <2>2. ResetAt[H] < Midnight[F]
    BY <1>2, <1>6, <2>1, ResetsInOrder
  <2>3. Midnight[F] <= Midnight[D]
    BY <1>1, <1>2, <1>6, ResetsInOrder
  <2>4. MonthStart(t) = ResetAt[H]
    BY <1>2, <1>4, <1>6, <1>12
  <2>5. ASSUME NEW g \in Firsts, ResetAt[g] <= t PROVE ResetAt[g] <= ResetAt[H]
    <3>1. g <= F /\ g # F
      BY <1>10, <1>12, <1>2, <1>6, <2>5
    <3>2. g < F
      BY <1>2, <1>6, <3>1
    <3>3. g <= H
      BY <2>1, <3>2
    <3>4. QED
      BY <1>2, <2>1, <3>3, ResetsInOrder
  <2>6. QED
    BY <1>1, <1>2, <1>6, <2>1, <2>2, <2>3, <2>4, <2>5
<1>13. QED
  BY <1>2, <1>6, <1>11, <1>12

-----------------------------------------------------------------------------
(* A recording. *)

RowsOK(book) == \A k \in DOMAIN book : /\ k \in StateKeys \X Periods \X Int
                                       /\ book[k] \in Row

\* Windows start at integers.
LEMMA StartsAreInts ==
  ASSUME NEW t \in Instants, NEW p \in Periods
  PROVE  Start(p, t) \in Int
  BY DayIsCurrent, MonthIsCurrent DEF Start, Periods

\* A row that is there has its type, one that is not reads as zero.
LEMMA RowsRead ==
  ASSUME NEW book, RowsOK(book), NEW k
  PROVE  RowAt(book, k) \in Row
  BY DEF RowsOK, RowAt, Row, Blank

\* The rows a recording reaches.
Reached(key, t, n) == {<<key, p, Start(p, t)>> : p \in Written(n)}

Adds(book, new, keys, requests) ==
  /\ RowsOK(new)
  /\ DOMAIN new = DOMAIN book \cup keys
  /\ \A k \in keys : RowAt(new, k).requests = RowAt(book, k).requests + requests
  /\ \A k : k \notin keys => RowAt(new, k) = RowAt(book, k)

\* A recording keeps the types and adds to the rows it reaches.
LEMMA RecordingAdds ==
  ASSUME NEW book, RowsOK(book), NEW key \in StateKeys, NEW t \in Instants,
         NEW requests \in Nat, NEW tokens \in Nat, NEW n \in 0 .. 3
  PROVE  Adds(book, Recorded(book, key, t, requests, tokens, n), Reached(key, t, n), requests)
<1> DEFINE new == Recorded(book, key, t, requests, tokens, n)
           keys == Reached(key, t, n)
           Grown(k) == [requests |-> RowAt(book, k).requests + requests,
                        tokens |-> RowAt(book, k).tokens + tokens]
<1>1. /\ DOMAIN new = DOMAIN book \cup keys
      /\ \A k \in keys : new[k] = Grown(k)
      /\ \A k \in DOMAIN book \ keys : new[k] = book[k]
  BY DEF Recorded, Reached
<1>2. Written(n) \subseteq Periods
  BY DEF Written, Periods
<1>3. keys \subseteq StateKeys \X Periods \X Int
  BY <1>2, StartsAreInts DEF Reached
<1>4. \A k : /\ RowAt(book, k).requests \in Nat /\ RowAt(book, k).tokens \in Nat
             /\ Grown(k) \in Row
  BY RowsRead DEF Row
<1> HIDE DEF new, keys
<1>5. RowsOK(new)
  BY <1>1, <1>3, <1>4 DEF RowsOK
<1>6. \A k \in keys : RowAt(new, k).requests = RowAt(book, k).requests + requests
  BY <1>1 DEF RowAt
<1>7. \A k : k \notin keys => RowAt(new, k) = RowAt(book, k)
  BY <1>1 DEF RowAt
<1>8. QED
  BY <1>1, <1>5, <1>6, <1>7 DEF new, keys, Adds

\* What a recording does to the count of a day.
Counts(book, new, key, t, requests, other) ==
  /\ Used(book, other, "day", t).requests \in Nat
  /\ Used(new, other, "day", t).requests
       \in {Used(book, other, "day", t).requests,
            Used(book, other, "day", t).requests + requests}
  /\ other # key => Used(new, other, "day", t) = Used(book, other, "day", t)

\* The count of the recording's own key grows, or stays if it broke off before the day's
\* row; no other key's count moves.
LEMMA RecordingCounts ==
  ASSUME NEW book, RowsOK(book), NEW key \in StateKeys, NEW t \in Instants,
         NEW requests \in Nat, NEW tokens \in Nat, NEW n \in 0 .. 3, NEW other \in StateKeys
  PROVE  Counts(book, Recorded(book, key, t, requests, tokens, n), key, t, requests, other)
<1> DEFINE new == Recorded(book, key, t, requests, tokens, n)
           keys == Reached(key, t, n)
           k == <<other, "day", Start("day", t)>>
<1>1. Adds(book, new, keys, requests)
  BY RecordingAdds
<1>2. k \in keys => other = key
  BY DEF Reached
<1>3. RowAt(book, k).requests \in Nat
  BY RowsRead DEF Row
<1>4. /\ Used(book, other, "day", t) = RowAt(book, k)
      /\ Used(new, other, "day", t) = RowAt(new, k)
  BY DEF Used
<1> HIDE DEF new, keys, k
<1>5. /\ k \in keys => RowAt(new, k).requests = RowAt(book, k).requests + requests
      /\ k \notin keys => RowAt(new, k) = RowAt(book, k)
  BY <1>1 DEF Adds
<1>6. QED
  BY <1>2, <1>3, <1>4, <1>5 DEF new, Counts

-----------------------------------------------------------------------------
(* Types. *)

Slot == [pc : Phases, chain : Chains \cup {<<>>}, at : Nat, legs : 0 .. Legs]

\* A request that walks is at a candidate of its chain.
Placed(q) == q.pc \in {"walking", "checked", "counted", "calling"} => q.at \in 1 .. Len(q.chain)

RequestsOK == /\ req \in [Requests -> Slot]
              /\ \A r \in Requests : Placed(req[r])

LEMMA TypeParts ==
  TypeOK <=> /\ now \in Instants
             /\ RowsOK(rows)
             /\ stats \in Row
             /\ blocked \subseteq Walked \X {"pool", "model"}
             /\ RequestsOK
             /\ calls \in 0 .. MaxCalls
             /\ billed \in [StateKeys -> Nat]
             /\ embeds \in Nat
             /\ cut \in 0 .. MaxCuts
  BY DEF TypeOK, RowsOK, RequestsOK, Slot, Placed

LEMMA ChainsAreSequences ==
  ASSUME NEW c \in Chains \cup {<<>>}
  PROVE  /\ c \in Seq(Walked)
         /\ c # <<>> => 1 \in 1 .. Len(c)
         /\ \A i \in 1 .. Len(c) : c[i] \in Walked
<1>1. c \in Seq(Walked)
  <2>1. c = MediaChain \/ c = ServiceChain \/ c = <<>>
    BY DEF Chains
  <2>2. <<>> \in Seq(Walked)
    OBVIOUS
  <2>3. QED
    BY <2>1, <2>2, CountersAssumption
<1>2. QED
  BY <1>1

\* The candidate a walk is at is one of the walked.
LEMMA HereIsWalked ==
  ASSUME RequestsOK, NEW r \in Requests,
         req[r].pc \in {"walking", "checked", "counted", "calling"}
  PROVE  Here(r) \in Walked /\ Here(r) \in StateKeys /\ Here(r) # Chat
<1>1. req[r].chain \in Chains \cup {<<>>} /\ req[r].at \in 1 .. Len(req[r].chain)
  BY DEF RequestsOK, Slot, Placed
<1>2. Here(r) \in Walked
  BY <1>1, ChainsAreSequences DEF Here
<1>3. QED
  BY <1>2, CountersAssumption DEF StateKeys

\* What a request may become.
LEMMA SlotTyped ==
  ASSUME RequestsOK, NEW r \in Requests, NEW q \in Slot, Placed(q),
         req' = [req EXCEPT ![r] = q]
  PROVE  RequestsOK'
  BY DEF RequestsOK

LEMMA IdleTyped ==
  Idle \in Slot /\ Placed(Idle)
  BY CountersAssumption DEF Idle, Slot, Placed, Phases

\* A step of the phase alone.
LEMMA PhaseTyped ==
  ASSUME RequestsOK, NEW r \in Requests, NEW to \in Phases,
         to \in {"walking", "checked", "counted", "calling"}
           => req[r].pc \in {"walking", "checked", "counted", "calling"},
         req' = [req EXCEPT ![r].pc = to]
  PROVE  RequestsOK'
<1>1. req[r] \in Slot /\ Placed(req[r])
  BY DEF RequestsOK
<1>2. [req[r] EXCEPT !.pc = to] \in Slot /\ Placed([req[r] EXCEPT !.pc = to])
  BY <1>1 DEF Slot, Placed
<1>3. req' = [req EXCEPT ![r] = [req[r] EXCEPT !.pc = to]]
  OBVIOUS
<1>4. QED
  BY <1>2, <1>3, SlotTyped

\* The walk goes on, or is over.
LEMMA OnwardTyped ==
  ASSUME RequestsOK, NEW r \in Requests,
         req[r].pc \in {"walking", "checked", "counted", "calling"},
         req' = Onward(r)
  PROVE  RequestsOK'
<1>1. req[r] \in Slot /\ Placed(req[r])
  BY DEF RequestsOK
<1>2. CASE req[r].at < Len(req[r].chain)
  <2> DEFINE q == [req[r] EXCEPT !.pc = "walking", !.at = req[r].at + 1]
  <2>1. req[r].chain \in Seq(Walked)
    BY <1>1, ChainsAreSequences DEF Slot
  <2>2. q \in Slot /\ Placed(q)
    <3>1. /\ req[r].at \in Nat /\ Len(req[r].chain) \in Nat
      BY <1>1, <2>1 DEF Slot
    <3>2. req[r].at + 1 \in Nat /\ req[r].at + 1 \in 1 .. Len(req[r].chain)
      BY <1>2, <3>1
    <3>3. q \in Slot
      BY <1>1, <3>2 DEF Slot, Phases
    <3>4. q.at = req[r].at + 1 /\ q.chain = req[r].chain
      BY <1>1 DEF Slot
    <3>5. QED
      BY <3>2, <3>3, <3>4 DEF Placed
  <2>3. req' = [req EXCEPT ![r] = q]
    BY <1>2 DEF Onward
  <2>4. QED
    BY <2>2, <2>3, SlotTyped
<1>3. CASE ~(req[r].at < Len(req[r].chain))
  BY <1>3, IdleTyped, SlotTyped DEF Onward
<1>4. QED
  BY <1>2, <1>3

\* A recording within a step.
LEMMA RecordTyped ==
  ASSUME TypeOK, NEW key \in StateKeys, NEW requests \in Nat, NEW tokens \in Nat,
         Record(key, requests, tokens)
  PROVE  /\ RowsOK(rows')
         /\ cut' \in 0 .. MaxCuts
         /\ \A other \in StateKeys : Counts(rows, rows', key, now, requests, other)
<1>1. now \in Instants /\ RowsOK(rows) /\ cut \in 0 .. MaxCuts
  BY TypeParts
<1>2. PICK n \in 0 .. 3 :
        /\ rows' = Recorded(rows, key, now, requests, tokens, n)
        /\ cut' = IF n < 3 THEN cut + 1 ELSE cut
        /\ cut' <= MaxCuts
  BY DEF Record
<1>3. RowsOK(rows')
  <2>1. Adds(rows, Recorded(rows, key, now, requests, tokens, n), Reached(key, now, n), requests)
    BY <1>1, RecordingAdds
  <2>2. QED
    BY <1>2, <2>1 DEF Adds
<1>4. cut' \in 0 .. MaxCuts
  BY <1>1, <1>2, CountersAssumption
<1>5. ASSUME NEW other \in StateKeys PROVE Counts(rows, rows', key, now, requests, other)
  <2>1. Counts(rows, Recorded(rows, key, now, requests, tokens, n), key, now, requests, other)
    BY <1>1, RecordingCounts
  <2>2. QED
    BY <1>2, <2>1
<1>6. QED
  BY <1>3, <1>4, <1>5

\* The types after a step, part by part.
LEMMA TypePartsNext ==
  TypeOK' <=> /\ now' \in Instants
              /\ RowsOK(rows')
              /\ stats' \in Row
              /\ blocked' \subseteq Walked \X {"pool", "model"}
              /\ RequestsOK'
              /\ calls' \in 0 .. MaxCalls
              /\ billed' \in [StateKeys -> Nat]
              /\ embeds' \in Nat
              /\ cut' \in 0 .. MaxCuts
  BY DEF TypeOK, RowsOK, RequestsOK, Slot, Placed

LEMMA TallyTyped ==
  ASSUME stats \in Row, NEW requests \in Nat, NEW tokens \in Nat, Tally(requests, tokens)
  PROVE  stats' \in Row
  BY DEF Tally, Row

LEMMA InitTyped == Init => TypeOK
<1> SUFFICES ASSUME Init PROVE TypeOK
  OBVIOUS
<1>1. now \in Instants
  <2>1. Earliest \in Int /\ Latest \in Int /\ Earliest <= Latest
    BY CalendarAssumption
  <2>2. QED
    BY <2>1 DEF Init, Instants
<1>2. RowsOK(rows)
  BY DEF Init, RowsOK, NoRows
<1>3. RequestsOK
  BY IdleTyped DEF Init, RequestsOK
<1>4. /\ stats \in Row /\ blocked \subseteq Walked \X {"pool", "model"}
      /\ billed \in [StateKeys -> Nat] /\ embeds \in Nat
  BY DEF Init, Row, Blank
<1>5. calls \in 0 .. MaxCalls /\ cut \in 0 .. MaxCuts
  BY CountersAssumption DEF Init
<1>6. QED
  BY <1>1, <1>2, <1>3, <1>4, <1>5, TypeParts

\* The steps of a chat turn keep the types.
LEMMA ChatTyped ==
  ASSUME TypeOK, NEW r \in Requests,
         Admit(r) \/ Answers(r) \/ Fails(r) \/ MoreCalls(r) \/ Ends(r)
  PROVE  TypeOK'
<1> USE TypeParts
<1>1. req[r] \in Slot /\ Placed(req[r]) /\ Chat \in StateKeys
  BY DEF RequestsOK, StateKeys
<1>2. CASE Admit(r)
  <2> DEFINE q == [req[r] EXCEPT !.pc = "admitted", !.legs = Legs]
  <2>1. q \in Slot /\ Placed(q)
    <3>1. Legs \in 0 .. Legs
      BY CountersAssumption
    <3>2. q \in Slot
      BY <1>1, <3>1 DEF Slot, Phases
    <3>3. q.pc = "admitted"
      BY <1>1 DEF Slot
    <3>4. QED
      BY <3>2, <3>3 DEF Placed
  <2>2. req' = [req EXCEPT ![r] = q]
    BY <1>2 DEF Admit
  <2>3. RequestsOK'
    BY <2>1, <2>2, SlotTyped
  <2>4. calls' \in 0 .. MaxCalls
    BY <1>2, CountersAssumption DEF Admit
  <2>5. QED
    BY <1>2, <2>3, <2>4, TypePartsNext DEF Admit, Unwritten
<1>3. CASE Answers(r)
  <2>1. RowsOK(rows') /\ cut' \in 0 .. MaxCuts
    BY <1>1, <1>3, RecordTyped DEF Answers
  <2>2. stats' \in Row
    BY <1>3, TallyTyped DEF Answers
  <2>3. RequestsOK'
    <3>1. req' = [req EXCEPT ![r].pc = "streaming"]
      BY <1>3 DEF Answers
    <3>2. QED
      BY <3>1, PhaseTyped DEF Phases
  <2>4. QED
    BY <1>3, <2>1, <2>2, <2>3, TypePartsNext DEF Answers
<1>4. CASE Fails(r)
  <2>1. RequestsOK'
    BY <1>4, IdleTyped, SlotTyped DEF Fails
  <2>2. QED
    BY <1>4, <2>1, TypePartsNext DEF Fails, Unwritten
<1>5. CASE MoreCalls(r)
  <2>1. RowsOK(rows') /\ cut' \in 0 .. MaxCuts
    BY <1>1, <1>5, RecordTyped DEF MoreCalls
  <2>2. stats' \in Row
    BY <1>5, TallyTyped DEF MoreCalls
  <2>3. RequestsOK'
    <3> DEFINE q == [req[r] EXCEPT !.legs = req[r].legs - 1]
    <3>1. req[r].legs \in 0 .. Legs /\ req[r].legs > 0 /\ Legs \in Nat
      BY <1>1, <1>5, CountersAssumption DEF MoreCalls, Slot
    <3>2. req[r].legs - 1 \in 0 .. Legs
      BY <3>1
    <3>3. q \in Slot /\ Placed(q)
      BY <1>1, <3>2 DEF Slot, Placed
    <3>4. req' = [req EXCEPT ![r] = q]
      BY <1>5 DEF MoreCalls
    <3>5. QED
      BY <3>3, <3>4, SlotTyped
  <2>4. QED
    BY <1>5, <2>1, <2>2, <2>3, TypePartsNext DEF MoreCalls
<1>6. CASE Ends(r)
  <2>1. RowsOK(rows') /\ cut' \in 0 .. MaxCuts /\ stats' \in Row
    <3>1. CASE Unwritten /\ UNCHANGED stats
      BY <3>1 DEF Unwritten
    <3>2. ASSUME NEW tokens \in Reports, Record(Chat, 0, tokens), Tally(0, tokens)
          PROVE  RowsOK(rows') /\ cut' \in 0 .. MaxCuts /\ stats' \in Row
      <4>1. tokens \in Nat
        BY CountersAssumption
      <4>2. QED
        BY <1>1, <3>2, <4>1, RecordTyped, TallyTyped
    <3>3. QED
      BY <1>6, <3>1, <3>2 DEF Ends
  <2>2. RequestsOK'
    BY <1>6, IdleTyped, SlotTyped DEF Ends
  <2>3. QED
    BY <1>6, <2>1, <2>2, TypePartsNext DEF Ends
<1>7. QED
  BY <1>2, <1>3, <1>4, <1>5, <1>6

\* The steps of a walk keep the types.
LEMMA WalkTyped ==
  ASSUME TypeOK, NEW r \in Requests,
         \/ Walk(r) \/ Check(r) \/ Book(r) \/ CannotCall(r)
         \/ Call(r) \/ Succeeds(r) \/ FailsOver(r) \/ Fatal(r)
  PROVE  TypeOK'
<1> USE TypeParts
<1>1. req[r] \in Slot /\ Placed(req[r])
  BY DEF RequestsOK
<1>2. CASE Walk(r)
  <2>1. PICK c \in Chains : /\ c # <<>>
                            /\ req' = [req EXCEPT ![r].pc = "walking", ![r].chain = c, ![r].at = 1]
    BY <1>2 DEF Walk
  <2> DEFINE q == [req[r] EXCEPT !.pc = "walking", !.chain = c, !.at = 1]
  <2>2. 1 \in 1 .. Len(c)
    BY <2>1, ChainsAreSequences
  <2>3. q \in Slot
    BY <1>1 DEF Slot, Phases
  <2>4. q.at = 1 /\ q.chain = c
    BY <1>1 DEF Slot
  <2>5. Placed(q)
    BY <2>2, <2>4 DEF Placed
  <2>6. req' = [req EXCEPT ![r] = q]
    BY <2>1
  <2> HIDE DEF q
  <2>7. RequestsOK'
    BY <2>3, <2>5, <2>6, SlotTyped
  <2>8. calls' \in 0 .. MaxCalls
    <3>1. calls \in 0 .. MaxCalls /\ calls < MaxCalls /\ calls' = calls + 1 /\ MaxCalls \in Nat
      BY <1>2, CountersAssumption DEF Walk
    <3>2. QED
      BY <3>1
  <2>9. QED
    BY <1>2, <2>7, <2>8, TypePartsNext DEF Walk, Unwritten
<1>3. CASE Check(r)
  <2>1. CASE Gated(r)
    <3>1. RequestsOK'
      BY <1>3, <2>1, OnwardTyped DEF Check
    <3>2. QED
      BY <1>3, <3>1, TypePartsNext DEF Check, Unwritten
  <2>2. CASE ~Gated(r)
    <3>1. RequestsOK'
      BY <1>3, <2>2, PhaseTyped DEF Check, Phases
    <3>2. QED
      BY <1>3, <3>1, TypePartsNext DEF Check, Unwritten
  <2>3. QED
    BY <2>1, <2>2
<1>4. CASE Book(r)
  <2>1. Here(r) \in StateKeys
    BY <1>4, HereIsWalked DEF Book
  <2>2. RowsOK(rows') /\ cut' \in 0 .. MaxCuts
    BY <1>4, <2>1, RecordTyped DEF Book
  <2>3. RequestsOK'
    BY <1>4, PhaseTyped DEF Book, Phases
  <2>4. QED
    BY <1>4, <2>2, <2>3, TypePartsNext DEF Book
<1>5. CASE CannotCall(r)
  <2>1. Here(r) \in Walked
    BY <1>5, HereIsWalked DEF CannotCall
  <2>2. RequestsOK'
    BY <1>5, OnwardTyped DEF CannotCall
  <2>3. blocked' \subseteq Walked \X {"pool", "model"}
    BY <1>5, <2>1 DEF CannotCall
  <2>4. QED
    BY <1>5, <2>2, <2>3, TypePartsNext DEF CannotCall, Unwritten
<1>6. CASE Call(r)
  <2>1. Here(r) \in StateKeys
    BY <1>6, HereIsWalked DEF Call
  <2>2. RequestsOK'
    BY <1>6, PhaseTyped DEF Call, Phases
  <2>3. billed' \in [StateKeys -> Nat]
    <3>1. billed' = [billed EXCEPT ![Here(r)] = @ + 1] /\ billed \in [StateKeys -> Nat]
      BY <1>6 DEF Call
    <3> HIDE TypeParts
    <3>2. QED
      BY <2>1, <3>1
  <2>4. QED
    BY <1>6, <2>2, <2>3, TypePartsNext DEF Call, Unwritten
<1>7. CASE Succeeds(r)
  <2>1. Here(r) \in StateKeys
    BY <1>7, HereIsWalked DEF Succeeds
  <2>2. RowsOK(rows') /\ cut' \in 0 .. MaxCuts
    <3>1. CASE Unwritten
      BY <3>1 DEF Unwritten
    <3>2. ASSUME NEW units \in Reports, Record(Here(r), 0, units)
          PROVE  RowsOK(rows') /\ cut' \in 0 .. MaxCuts
      <4>1. units \in Nat
        BY CountersAssumption
      <4>2. QED
        BY <2>1, <3>2, <4>1, RecordTyped
    <3>3. QED
      BY <1>7, <3>1, <3>2 DEF Succeeds
  <2>3. RequestsOK'
    <3>1. CASE req' = Onward(r)
      BY <1>7, <3>1, OnwardTyped DEF Succeeds
    <3>2. CASE req' = [req EXCEPT ![r] = Idle]
      BY <3>2, IdleTyped, SlotTyped
    <3>3. QED
      BY <1>7, <3>1, <3>2 DEF Succeeds
  <2>4. blocked' \subseteq Walked \X {"pool", "model"}
    BY <1>7 DEF Succeeds
  <2>5. QED
    BY <1>7, <2>2, <2>3, <2>4, TypePartsNext DEF Succeeds
<1>8. CASE FailsOver(r)
  <2>1. Here(r) \in Walked
    BY <1>8, HereIsWalked DEF FailsOver
  <2>2. RequestsOK'
    BY <1>8, OnwardTyped DEF FailsOver
  <2>3. blocked' \subseteq Walked \X {"pool", "model"}
    BY <1>8, <2>1 DEF FailsOver
  <2>4. QED
    BY <1>8, <2>2, <2>3, TypePartsNext DEF FailsOver, Unwritten
<1>9. CASE Fatal(r)
  <2>1. Here(r) \in Walked
    BY <1>9, HereIsWalked DEF Fatal
  <2>2. RequestsOK'
    <3>1. CASE req' = Onward(r)
      BY <1>9, <3>1, OnwardTyped DEF Fatal
    <3>2. CASE req' = [req EXCEPT ![r] = Idle]
      BY <3>2, IdleTyped, SlotTyped
    <3>3. QED
      BY <1>9, <3>1, <3>2 DEF Fatal
  <2>3. blocked' \subseteq Walked \X {"pool", "model"}
    BY <1>9, <2>1 DEF Fatal
  <2>4. QED
    BY <1>9, <2>2, <2>3, TypePartsNext DEF Fatal, Unwritten
<1>10. QED
  BY <1>2, <1>3, <1>4, <1>5, <1>6, <1>7, <1>8, <1>9

\* An embedding, the clock, a cooldown that ends and a request that is dropped keep them.
LEMMA WorldTyped ==
  ASSUME TypeOK, Embedding \/ Expire \/ Tick \/ \E r \in Requests : Drops(r)
  PROVE  TypeOK'
<1> USE TypeParts
<1>1. CASE Embedding
  <2>1. PICK tokens \in Reports \cup {0} : Record(Chat, 1, tokens)
    BY <1>1 DEF Embedding
  <2>2. tokens \in Nat /\ Chat \in StateKeys
    BY CountersAssumption DEF StateKeys
  <2>3. /\ RowsOK(rows') /\ cut' \in 0 .. MaxCuts
        /\ Counts(rows, rows', Chat, now, 1, Chat)
    BY <2>1, <2>2, RecordTyped
  <2>4. embeds' \in Nat
    BY <1>1, <2>3 DEF Embedding, Counts
  <2>5. RequestsOK'
    BY <1>1 DEF Embedding, RequestsOK
  <2>6. calls' \in 0 .. MaxCalls
    BY <1>1, CountersAssumption DEF Embedding
  <2>7. QED
    BY <1>1, <2>3, <2>4, <2>5, <2>6, TypePartsNext DEF Embedding
<1>2. CASE Expire
  <2>1. RequestsOK'
    BY <1>2 DEF Expire, RequestsOK
  <2>2. QED
    BY <1>2, <2>1, TypePartsNext DEF Expire, Unwritten
<1>3. CASE Tick
  <2>1. RequestsOK'
    BY <1>3 DEF Tick, RequestsOK
  <2>2. now' \in Instants
    BY <1>3, CalendarAssumption DEF Tick, Instants
  <2>3. embeds' \in Nat
    BY <1>3 DEF Tick
  <2>4. QED
    BY <1>3, <2>1, <2>2, <2>3, TypePartsNext DEF Tick, Unwritten
<1>4. ASSUME NEW r \in Requests, Drops(r) PROVE TypeOK'
  <2>1. RequestsOK'
    BY <1>4, IdleTyped, SlotTyped DEF Drops
  <2>2. QED
    BY <1>4, <2>1, TypePartsNext DEF Drops, Unwritten
<1>5. QED
  BY <1>1, <1>2, <1>3, <1>4

LEMMA StutterTyped ==
  ASSUME TypeOK, UNCHANGED vars
  PROVE  TypeOK'
  BY DEF TypeOK, vars

LEMMA StepTyped == TypeOK /\ [Next]_vars => TypeOK'
<1> SUFFICES ASSUME TypeOK, [Next]_vars PROVE TypeOK'
  OBVIOUS
<1>1. CASE UNCHANGED vars
  BY <1>1, StutterTyped
<1>2. CASE Next
  BY <1>2, ChatTyped, WalkTyped, WorldTyped DEF Next
<1>3. QED
  BY <1>1, <1>2

\* Every reachable state is typed: the rows hold counts of known keys and periods, and a
\* request that walks is at a candidate of its chain (run_chain, run_search).
THEOREM TypeCorrect == Spec => []TypeOK
<1>1. Init => TypeOK
  BY InitTyped
<1>2. TypeOK /\ [Next]_vars => TypeOK'
  BY StepTyped
<1>3. QED
  BY <1>1, <1>2, PTL DEF Spec

\* The open windows are those of the last resets at or before now, in every calendar:
\* over days of any length, resets that a clock change moves, and the turn of a month
\* before its first reset (current_windows).
THEOREM WindowsCurrent == Spec => []WindowsAreCurrent
<1>1. TypeOK => WindowsAreCurrent
  <2> SUFFICES ASSUME TypeOK PROVE WindowsAreCurrent
    OBVIOUS
  <2>1. now \in Instants
    BY DEF TypeOK
  <2>2. QED
    BY <2>1, DayIsCurrent, MonthIsCurrent DEF WindowsAreCurrent
<1>2. QED
  BY <1>1, TypeCorrect, PTL

-----------------------------------------------------------------------------
(* What the requests owe. *)

\* The debts as a set, of the number each request owes.
Pile(f) == UNION {{r} \X (1 .. f[r]) : r \in Requests}

LEMMA PileIs ==
  ASSUME NEW f \in [Requests -> Nat], NEW x
  PROVE  x \in Pile(f) <=> \E r \in Requests : \E i \in 1 .. f[r] : x = <<r, i>>
  BY DEF Pile

LEMMA PileFalls ==
  ASSUME NEW f \in [Requests -> Nat], NEW g \in [Requests -> Nat],
         \A r \in Requests : g[r] <= f[r]
  PROVE  Pile(g) \subseteq Pile(f)
<1> SUFFICES ASSUME NEW x \in Pile(g) PROVE x \in Pile(f)
  OBVIOUS
<1>0. PICK r \in Requests : \E i \in 1 .. g[r] : x = <<r, i>>
  BY PileIs
<1>1. PICK i \in 1 .. g[r] : x = <<r, i>>
  BY <1>0
<1>2. f[r] \in Nat /\ g[r] \in Nat /\ g[r] <= f[r]
  OBVIOUS
<1>3. i \in 1 .. f[r]
  BY <1>2
<1>4. QED
  BY <1>1, <1>3, PileIs

\* Paying one takes the top of a request's pile.
LEMMA PilePays ==
  ASSUME NEW f \in [Requests -> Nat], NEW r \in Requests, f[r] > 0,
         NEW g \in [Requests -> Nat], g[r] = f[r] - 1,
         \A s \in Requests \ {r} : g[s] = f[s]
  PROVE  <<r, f[r]>> \in Pile(f) /\ Pile(g) = Pile(f) \ {<<r, f[r]>>}
<1>1. f[r] \in 1 .. f[r]
  OBVIOUS
<1>2. <<r, f[r]>> \in Pile(f)
  BY <1>1, PileIs
<1>3. ASSUME NEW x \in Pile(g) PROVE x \in Pile(f) /\ x # <<r, f[r]>>
  <2>0. PICK s \in Requests : \E i \in 1 .. g[s] : x = <<s, i>>
    BY <1>3, PileIs
  <2>1. PICK i \in 1 .. g[s] : x = <<s, i>>
    BY <2>0
  <2>2. i \in 1 .. f[s] /\ (s = r => i < f[r])
    BY <2>1
  <2>3. QED
    BY <2>1, <2>2, PileIs
<1>4. ASSUME NEW x \in Pile(f), x # <<r, f[r]>> PROVE x \in Pile(g)
  <2>0. PICK s \in Requests : \E i \in 1 .. f[s] : x = <<s, i>>
    BY <1>4, PileIs
  <2>1. PICK i \in 1 .. f[s] : x = <<s, i>>
    BY <2>0
  <2>2. s = r => i # f[r]
    BY <1>4, <2>1
  <2>3. i \in 1 .. g[s]
    BY <2>2
  <2>4. QED
    BY <2>1, <2>3, PileIs
<1>5. QED
  BY <1>2, <1>3, <1>4

\* A request that owes nothing is lent n.
LEMMA PileLends ==
  ASSUME NEW f \in [Requests -> Nat], NEW r \in Requests, f[r] = 0, NEW n \in Nat, NEW m \in Nat,
         NEW g \in [Requests -> Nat], g[r] = n, \A s \in Requests \ {r} : g[s] = f[s]
  PROVE  /\ Pile(f) \cap ({r} \X (1 .. m)) = {}
         /\ Pile(g) = Pile(f) \cup ({r} \X (1 .. n))
<1>1. ASSUME NEW x \in Pile(f) PROVE x \notin {r} \X (1 .. m)
  <2>0. PICK s \in Requests : \E i \in 1 .. f[s] : x = <<s, i>>
    BY <1>1, PileIs
  <2>1. PICK i \in 1 .. f[s] : x = <<s, i>>
    BY <2>0
  <2>2. s # r
    BY <2>1
  <2>3. QED
    BY <2>1, <2>2
<1>2. ASSUME NEW x \in Pile(g) PROVE x \in Pile(f) \cup ({r} \X (1 .. n))
  <2>0. PICK s \in Requests : \E i \in 1 .. g[s] : x = <<s, i>>
    BY <1>2, PileIs
  <2>1. PICK i \in 1 .. g[s] : x = <<s, i>>
    BY <2>0
  <2>2. CASE s = r
    BY <2>1, <2>2
  <2>3. CASE s # r
    BY <2>1, <2>3, PileIs
  <2>4. QED
    BY <2>2, <2>3
<1>3. ASSUME NEW x \in Pile(f) PROVE x \in Pile(g)
  <2>0. PICK s \in Requests : \E i \in 1 .. f[s] : x = <<s, i>>
    BY <1>3, PileIs
  <2>1. PICK i \in 1 .. f[s] : x = <<s, i>>
    BY <2>0
  <2>2. s # r
    BY <2>1
  <2>3. i \in 1 .. g[s]
    BY <2>1, <2>2
  <2>4. QED
    BY <2>1, <2>3, PileIs
<1>4. ASSUME NEW x \in {r} \X (1 .. n) PROVE x \in Pile(g)
  <2>1. PICK i \in 1 .. n : x = <<r, i>>
    BY <1>4
  <2>2. i \in 1 .. g[r]
    BY <2>1
  <2>3. QED
    BY <2>1, <2>2, PileIs
<1>5. QED
  BY <1>1, <1>2, <1>3, <1>4

Debt(key) == [r \in Requests |-> Owes(r, key)]

LEMMA OwedIsPile ==
  ASSUME NEW key
  PROVE  Owed(key) = Pile(Debt(key)) /\ Owed(key)' = Pile(Debt(key)')
  BY DEF Owed, Pile, Debt

LEMMA DebtTyped ==
  ASSUME RequestsOK, NEW key
  PROVE  /\ Debt(key) \in [Requests -> Nat]
         /\ \A r \in Requests : Debt(key)[r] = Owes(r, key) /\ Owes(r, key) \in Nat
<1>1. ASSUME NEW r \in Requests PROVE Owes(r, key) \in Nat
  <2>1. req[r].legs \in Nat
    BY CountersAssumption DEF RequestsOK, Slot
  <2>2. QED
    BY <2>1 DEF Owes
<1>2. QED
  BY <1>1 DEF Debt

LEMMA DebtTypedNext ==
  ASSUME RequestsOK', NEW key
  PROVE  /\ Debt(key)' \in [Requests -> Nat]
         /\ \A r \in Requests : Debt(key)'[r] = Owes(r, key)' /\ Owes(r, key)' \in Nat
<1>1. ASSUME NEW r \in Requests PROVE Owes(r, key)' \in Nat
  <2>1. req'[r].legs \in Nat
    BY CountersAssumption DEF RequestsOK, Slot
  <2>2. QED
    BY <2>1 DEF Owes
<1>2. QED
  BY <1>1 DEF Debt

\* Debts that only fall leave fewer owed.
LEMMA OwedFalls ==
  ASSUME RequestsOK, RequestsOK', NEW key,
         \A s \in Requests : Owes(s, key)' <= Owes(s, key)
  PROVE  Owed(key)' \subseteq Owed(key)
<1> DEFINE f == Debt(key)
           g == Debt(key)'
<1>1. /\ f \in [Requests -> Nat] /\ g \in [Requests -> Nat]
      /\ \A s \in Requests : f[s] = Owes(s, key) /\ g[s] = Owes(s, key)'
  BY DebtTyped, DebtTypedNext
<1>2. Owed(key) = Pile(f) /\ Owed(key)' = Pile(g)
  BY OwedIsPile
<1>3. \A s \in Requests : g[s] <= f[s]
  BY <1>1
<1> HIDE DEF f, g
<1>4. Pile(g) \subseteq Pile(f)
  BY <1>1, <1>3, PileFalls
<1>5. QED
  BY <1>2, <1>4

\* A request that pays one of its debts takes one from what is owed.
LEMMA OwedPays ==
  ASSUME RequestsOK, RequestsOK', NEW key, NEW r \in Requests,
         Owes(r, key) > 0, Owes(r, key)' = Owes(r, key) - 1,
         \A s \in Requests \ {r} : Owes(s, key)' = Owes(s, key)
  PROVE  \E x \in Owed(key) : Owed(key)' = Owed(key) \ {x}
<1> DEFINE f == Debt(key)
           g == Debt(key)'
<1>1. /\ f \in [Requests -> Nat] /\ g \in [Requests -> Nat]
      /\ \A s \in Requests : f[s] = Owes(s, key) /\ g[s] = Owes(s, key)'
  BY DebtTyped, DebtTypedNext
<1>2. Owed(key) = Pile(f) /\ Owed(key)' = Pile(g)
  BY OwedIsPile
<1>3. /\ f[r] > 0 /\ g[r] = f[r] - 1
      /\ \A s \in Requests \ {r} : g[s] = f[s]
  BY <1>1
<1> HIDE DEF f, g
<1>5. <<r, f[r]>> \in Pile(f) /\ Pile(g) = Pile(f) \ {<<r, f[r]>>}
  BY <1>1, <1>3, PilePays
<1>6. QED
  BY <1>2, <1>5

\* A request that owed nothing is lent what it may count.
LEMMA OwedLends ==
  ASSUME RequestsOK, RequestsOK', NEW key, NEW r \in Requests, NEW n \in Nat, NEW most \in Nat,
         Owes(r, key) = 0, Owes(r, key)' = n,
         \A s \in Requests \ {r} : Owes(s, key)' = Owes(s, key)
  PROVE  /\ Owed(key) \cap ({r} \X (1 .. most)) = {}
         /\ Owed(key)' = Owed(key) \cup ({r} \X (1 .. n))
<1> DEFINE f == Debt(key)
           g == Debt(key)'
<1>1. /\ f \in [Requests -> Nat] /\ g \in [Requests -> Nat]
      /\ \A s \in Requests : f[s] = Owes(s, key) /\ g[s] = Owes(s, key)'
  BY DebtTyped, DebtTypedNext
<1>2. Owed(key) = Pile(f) /\ Owed(key)' = Pile(g)
  BY OwedIsPile
<1>3. /\ f[r] = 0 /\ g[r] = n
      /\ \A s \in Requests \ {r} : g[s] = f[s]
  BY <1>1
<1> HIDE DEF f, g
<1>5. /\ Pile(f) \cap ({r} \X (1 .. most)) = {}
      /\ Pile(g) = Pile(f) \cup ({r} \X (1 .. n))
  BY <1>1, <1>3, PileLends
<1>6. QED
  BY <1>2, <1>5

-----------------------------------------------------------------------------
(* What a step is to a limit. *)

CountOf(key) == Used(rows, key, "day", now).requests

\* Some of what is owed is let off.
Eases(key) == CountOf(key)' = CountOf(key) /\ Owed(key)' \subseteq Owed(key)

\* One count comes of what is owed.
Pays(key) ==
  /\ CountOf(key)' = CountOf(key) + 1
  /\ \E x \in Owed(key) : Owed(key)' = Owed(key) \ {x}

\* A request goes past the gate.
Lends(key, most) ==
  /\ CountOf(key) < DayCap[key] /\ CountOf(key)' = CountOf(key)
  /\ \E r \in Requests : \E n \in 1 .. most :
       /\ Owed(key) \cap ({r} \X (1 .. most)) = {}
       /\ Owed(key)' = Owed(key) \cup ({r} \X (1 .. n))

LEMMA CountIsNat ==
  ASSUME TypeOK, NEW key
  PROVE  CountOf(key) \in Nat
<1>1. RowsOK(rows)
  BY TypeParts
<1>2. RowAt(rows, <<key, "day", Start("day", now)>>) \in Row
  BY <1>1, RowsRead
<1>3. QED
  BY <1>2 DEF CountOf, Used, Row

LEMMA CountStays ==
  ASSUME UNCHANGED <<now, rows>>, NEW key
  PROVE  CountOf(key)' = CountOf(key)
<1>1. now' = now /\ rows' = rows
  OBVIOUS
<1>2. QED
  BY <1>1 DEF CountOf

\* A recording of another key, or of tokens alone, moves no count of this one; one of a
\* request moves it by one or not at all.
LEMMA CountMoves ==
  ASSUME TypeOK, UNCHANGED now, NEW key \in StateKeys, NEW other \in StateKeys,
         NEW requests \in Nat, NEW tokens \in Nat, Record(other, requests, tokens)
  PROVE  /\ CountOf(key)' \in {CountOf(key), CountOf(key) + requests}
         /\ other # key => CountOf(key)' = CountOf(key)
<1>1. Counts(rows, rows', other, now, requests, key)
  BY RecordTyped
<1>2. CountOf(key)' = Used(rows', key, "day", now).requests
  BY DEF CountOf
<1>3. QED
  BY <1>1, <1>2 DEF Counts, CountOf

\* Whoever does not move owes what it owed.
LEMMA OwesTheSame ==
  ASSUME NEW s, req'[s] = req[s], NEW key
  PROVE  Owes(s, key)' = Owes(s, key)
  BY DEF Owes, Here

\* A turn that ends, or never was one, owes no request.
LEMMA OwesNothing ==
  ASSUME NEW r, NEW key
  PROVE  /\ req'[r].pc \notin {"admitted", "streaming", "checked"} => Owes(r, key)' = 0
         /\ req'[r].pc \notin {"admitted", "streaming"} => Owes(r, Chat)' = 0
         /\ req[r].pc \notin {"admitted", "streaming"} => Owes(r, Chat) = 0
         /\ key # Chat /\ req'[r].pc # "checked" => Owes(r, key)' = 0
         /\ key # Chat /\ req[r].pc # "checked" => Owes(r, key) = 0
  BY DEF Owes

\* A step of one request after which it owes nothing, and which leaves the count, eases.
LEMMA EasesIfNothing ==
  ASSUME TypeOK, TypeOK', NEW key, NEW r \in Requests, Owes(r, key)' = 0,
         \A s \in Requests \ {r} : req'[s] = req[s],
         CountOf(key)' = CountOf(key)
  PROVE  Eases(key)
<1>1. RequestsOK /\ RequestsOK'
  BY TypeParts, TypePartsNext
<1>2. ASSUME NEW s \in Requests PROVE Owes(s, key)' <= Owes(s, key)
  <2>1. Owes(s, key) \in Nat
    BY <1>1, DebtTyped
  <2>2. CASE s = r
    BY <2>1, <2>2
  <2>3. CASE s # r
    BY <2>1, <2>3, OwesTheSame
  <2>4. QED
    BY <2>2, <2>3
<1>3. Owed(key)' \subseteq Owed(key)
  BY <1>1, <1>2, OwedFalls
<1>4. QED
  BY <1>3 DEF Eases

\* A step in which no request moves and the count stays eases.
LEMMA EasesIfStill ==
  ASSUME TypeOK, TypeOK', NEW key, UNCHANGED req, CountOf(key)' = CountOf(key)
  PROVE  Eases(key)
<1>1. RequestsOK /\ RequestsOK'
  BY TypeParts, TypePartsNext
<1>2. ASSUME NEW s \in Requests PROVE Owes(s, key)' <= Owes(s, key)
  <2>1. Owes(s, key) \in Nat
    BY <1>1, DebtTyped
  <2>2. QED
    BY <2>1, OwesTheSame
<1>3. Owed(key)' \subseteq Owed(key)
  BY <1>1, <1>2, OwedFalls
<1>4. QED
  BY <1>3 DEF Eases

\* A request that is recorded as it pays, fully or not at all.
LEMMA PaysOrEases ==
  ASSUME TypeOK, TypeOK', NEW key, NEW r \in Requests,
         Owes(r, key) > 0, Owes(r, key)' = Owes(r, key) - 1,
         \A s \in Requests \ {r} : req'[s] = req[s],
         CountOf(key)' \in {CountOf(key), CountOf(key) + 1}
  PROVE  Pays(key) \/ Eases(key)
<1>1. RequestsOK /\ RequestsOK'
  BY TypeParts, TypePartsNext
<1>2. \A s \in Requests \ {r} : Owes(s, key)' = Owes(s, key)
  BY OwesTheSame
<1>3. \E x \in Owed(key) : Owed(key)' = Owed(key) \ {x}
  BY <1>1, <1>2, OwedPays
<1>4. CASE CountOf(key)' = CountOf(key) + 1
  BY <1>3, <1>4 DEF Pays
<1>5. CASE CountOf(key)' = CountOf(key)
  BY <1>3, <1>5 DEF Eases
<1>6. QED
  BY <1>4, <1>5

\* A request that goes past the gate owes n from then on.
LEMMA LendsIfGated ==
  ASSUME TypeOK, TypeOK', NEW key, NEW r \in Requests, NEW most \in Nat, NEW n \in 1 .. most,
         Owes(r, key) = 0, Owes(r, key)' = n,
         \A s \in Requests \ {r} : req'[s] = req[s],
         CountOf(key) < DayCap[key], CountOf(key)' = CountOf(key)
  PROVE  Lends(key, most)
<1>1. RequestsOK /\ RequestsOK'
  BY TypeParts, TypePartsNext
<1>2. \A s \in Requests \ {r} : Owes(s, key)' = Owes(s, key)
  BY OwesTheSame
<1>3. n \in Nat
  OBVIOUS
<1>4. /\ Owed(key) \cap ({r} \X (1 .. most)) = {}
      /\ Owed(key)' = Owed(key) \cup ({r} \X (1 .. n))
  BY <1>1, <1>2, <1>3, OwedLends
<1>5. QED
  BY <1>4 DEF Lends

-----------------------------------------------------------------------------
(* Each action, to the limit of a chat provider and to the cap of a walked one. *)

\* The turn that passes check_candidate is lent its calls; what it counts it pays.
LEMMA ChatToItsLimit ==
  ASSUME TypeOK, TypeOK', NEW r \in Requests,
         Admit(r) \/ Answers(r) \/ Fails(r) \/ MoreCalls(r) \/ Ends(r)
  PROVE  Lends(Chat, 1 + Legs) \/ Pays(Chat) \/ Eases(Chat)
<1>1. /\ DOMAIN req = Requests /\ req[r] \in Slot /\ req[r].legs \in Nat
      /\ Legs \in Nat /\ 1 + Legs \in Nat /\ 1 + Legs \in 1 .. 1 + Legs
      /\ Chat \in StateKeys
  <2>1. Legs \in Nat
    BY CountersAssumption
  <2>2. req \in [Requests -> Slot]
    BY TypeParts DEF RequestsOK
  <2>3. QED
    BY <2>1, <2>2 DEF Slot, StateKeys
<1>2. CASE Admit(r)
  <2>1. /\ \A s \in Requests \ {r} : req'[s] = req[s]
        /\ req[r].pc = "idle" /\ req'[r].pc = "admitted" /\ req'[r].legs = Legs
    BY <1>1, <1>2 DEF Admit, Slot
  <2>2. Owes(r, Chat) = 0
    BY <2>1, OwesNothing
  <2>3. Owes(r, Chat)' = 1 + Legs
    BY <1>1, <2>1 DEF Owes
  <2>4. CountOf(Chat) < DayCap[Chat]
    <3>1. CountOf(Chat) \in Nat /\ DayCap[Chat] \in Nat
      BY <1>1, CountIsNat, CountersAssumption
    <3>2. ~(CountOf(Chat) >= DayCap[Chat])
      BY <1>2 DEF Admit, Spent, CountOf
    <3>3. QED
      BY <3>1, <3>2
  <2>5. CountOf(Chat)' = CountOf(Chat)
    BY <1>2, CountStays DEF Admit, Unwritten
  <2>6. QED
    BY <1>1, <2>1, <2>2, <2>3, <2>4, <2>5, LendsIfGated
<1>3. CASE Answers(r)
  <2>1. /\ \A s \in Requests \ {r} : req'[s] = req[s]
        /\ req[r].pc = "admitted" /\ req'[r].pc = "streaming" /\ req'[r].legs = req[r].legs
    BY <1>1, <1>3 DEF Answers, Slot
  <2>2. Owes(r, Chat) = 1 + req[r].legs /\ Owes(r, Chat)' = req[r].legs
    BY <1>1, <2>1 DEF Owes
  <2>3. Owes(r, Chat) > 0 /\ Owes(r, Chat)' = Owes(r, Chat) - 1
    BY <1>1, <2>2
  <2>4. CountOf(Chat)' \in {CountOf(Chat), CountOf(Chat) + 1}
    BY <1>1, <1>3, CountMoves DEF Answers
  <2>5. QED
    BY <2>1, <2>3, <2>4, PaysOrEases
<1>4. CASE MoreCalls(r)
  <2>1. /\ \A s \in Requests \ {r} : req'[s] = req[s]
        /\ req[r].pc = "streaming" /\ req'[r].pc = "streaming"
        /\ req[r].legs > 0 /\ req'[r].legs = req[r].legs - 1
    BY <1>1, <1>4 DEF MoreCalls, Slot
  <2>2. Owes(r, Chat) = req[r].legs /\ Owes(r, Chat)' = req[r].legs - 1
    BY <1>1, <2>1 DEF Owes
  <2>3. Owes(r, Chat) > 0 /\ Owes(r, Chat)' = Owes(r, Chat) - 1
    BY <2>1, <2>2
  <2>4. CountOf(Chat)' \in {CountOf(Chat), CountOf(Chat) + 1}
    BY <1>1, <1>4, CountMoves DEF MoreCalls
  <2>5. QED
    BY <2>1, <2>3, <2>4, PaysOrEases
<1>5. CASE Fails(r) \/ Ends(r)
  <2>1. \A s \in Requests \ {r} : req'[s] = req[s]
    BY <1>1, <1>5 DEF Fails, Ends
  <2>2. req'[r].pc = "idle"
    BY <1>1, <1>5 DEF Fails, Ends, Idle
  <2>3. Owes(r, Chat)' = 0
    BY <2>2, OwesNothing
  <2>4. CountOf(Chat)' = CountOf(Chat)
    <3>1. CASE UNCHANGED <<now, rows>>
      BY <3>1, CountStays
    <3>2. ASSUME NEW tokens \in Reports, Record(Chat, 0, tokens), Ends(r)
          PROVE  CountOf(Chat)' = CountOf(Chat)
      <4>1. tokens \in Nat /\ 0 \in Nat
        BY CountersAssumption
      <4>2. CountOf(Chat)' \in {CountOf(Chat), CountOf(Chat) + 0}
        BY <1>1, <3>2, <4>1, CountMoves DEF Ends
      <4>3. CountOf(Chat) \in Nat
        BY CountIsNat
      <4>4. QED
        BY <4>2, <4>3
    <3>3. QED
      BY <1>5, <3>1, <3>2 DEF Fails, Ends, Unwritten
  <2>5. QED
    BY <2>1, <2>3, <2>4, EasesIfNothing
<1>6. QED
  BY <1>2, <1>3, <1>4, <1>5

\* A chat turn is nothing to the cap of a walked provider.
LEMMA ChatToAWalk ==
  ASSUME TypeOK, TypeOK', NEW r \in Requests, NEW key \in Walked,
         Admit(r) \/ Answers(r) \/ Fails(r) \/ MoreCalls(r) \/ Ends(r)
  PROVE  Eases(key)
<1>1. /\ DOMAIN req = Requests /\ req[r] \in Slot
      /\ Chat \in StateKeys /\ key \in StateKeys /\ key # Chat
  <2>1. req \in [Requests -> Slot]
    BY TypeParts DEF RequestsOK
  <2>2. QED
    BY <2>1, CountersAssumption DEF StateKeys
<1>2. \A s \in Requests \ {r} : req'[s] = req[s]
  BY <1>1 DEF Admit, Answers, Fails, MoreCalls, Ends
<1>3. req'[r].pc \in {"idle", "admitted", "streaming"}
  BY <1>1 DEF Admit, Answers, Fails, MoreCalls, Ends, Idle, Slot
<1>4. Owes(r, key)' = 0
  BY <1>1, <1>3, OwesNothing
<1>5. CountOf(key)' = CountOf(key)
  <2>1. CASE UNCHANGED <<now, rows>>
    BY <2>1, CountStays
  <2>2. ASSUME UNCHANGED now, NEW requests \in Nat, NEW tokens \in Nat,
               Record(Chat, requests, tokens)
        PROVE  CountOf(key)' = CountOf(key)
    BY <1>1, <2>2, CountMoves
  <2>3. Reports \subseteq Nat
    BY CountersAssumption
  <2>4. CASE Admit(r) \/ Fails(r)
    BY <2>1, <2>4 DEF Admit, Fails, Unwritten
  <2>5. CASE Answers(r)
    BY <2>2, <2>5 DEF Answers
  <2>6. CASE MoreCalls(r)
    BY <2>2, <2>6 DEF MoreCalls
  <2>7. CASE Ends(r)
    BY <2>1, <2>2, <2>3, <2>7 DEF Ends, Unwritten
  <2>8. QED
    BY <2>4, <2>5, <2>6, <2>7
<1>6. QED
  BY <1>2, <1>4, <1>5, EasesIfNothing

\* What a walk's step does to the requests: one moves, to a phase that owes nothing, but
\* for Check.
LEMMA OnwardLeaves ==
  ASSUME RequestsOK, NEW r \in Requests
  PROVE  /\ \A s \in Requests \ {r} : Onward(r)[s] = req[s]
         /\ Onward(r)[r].pc \in {"walking", "idle"}
<1>1. DOMAIN req = Requests /\ req[r] \in Slot
  BY DEF RequestsOK
<1>2. CASE req[r].at < Len(req[r].chain)
  BY <1>1, <1>2 DEF Onward, Slot
<1>3. CASE ~(req[r].at < Len(req[r].chain))
  BY <1>1, <1>3 DEF Onward, Idle
<1>4. QED
  BY <1>2, <1>3

WalkStep(r) ==
  Walk(r) \/ Check(r) \/ Book(r) \/ CannotCall(r) \/ Call(r) \/ Succeeds(r) \/ FailsOver(r)
  \/ Fatal(r) \/ Drops(r)

LEMMA WalkMoves ==
  ASSUME RequestsOK, NEW r \in Requests, WalkStep(r)
  PROVE  /\ \A s \in Requests \ {r} : req'[s] = req[s]
         /\ req'[r].pc \in {"idle", "walking", "checked", "counted", "calling"}
         /\ req'[r].pc = "checked" => Check(r) /\ ~Gated(r) /\ Here(r)' = Here(r)
<1>1. DOMAIN req = Requests /\ req[r] \in Slot
  BY DEF RequestsOK
<1>2. CASE Walk(r)
  BY <1>1, <1>2 DEF Walk, Slot
<1>3. CASE Check(r) /\ ~Gated(r)
  BY <1>1, <1>3 DEF Check, Slot, Here
<1>4. CASE \/ Check(r) /\ Gated(r)
           \/ CannotCall(r) \/ FailsOver(r)
           \/ Succeeds(r) /\ req' = Onward(r)
           \/ Fatal(r) /\ req' = Onward(r)
  BY <1>4, OnwardLeaves DEF Check, CannotCall, FailsOver
<1>5. CASE Book(r)
  BY <1>1, <1>5 DEF Book, Slot
<1>6. CASE Call(r)
  BY <1>1, <1>6 DEF Call, Slot
<1>7. CASE req' = [req EXCEPT ![r] = Idle]
  BY <1>1, <1>7 DEF Idle
<1>8. QED
  BY <1>2, <1>3, <1>4, <1>5, <1>6, <1>7 DEF WalkStep, Succeeds, Fatal, Drops

\* The counts a walk's step leaves: all but its own candidate's when it is booked.
LEMMA WalkCounts ==
  ASSUME TypeOK, NEW r \in Requests, NEW key \in StateKeys, WalkStep(r)
  PROVE  \/ CountOf(key)' = CountOf(key)
         \/ /\ Book(r) /\ Here(r) = key
            /\ CountOf(key)' = CountOf(key) + 1
<1>1. CASE UNCHANGED <<now, rows>>
  BY <1>1, CountStays
<1>2. CASE Book(r)
  <2>1. RequestsOK
    BY TypeParts
  <2>2. Here(r) \in StateKeys
    BY <1>2, <2>1, HereIsWalked DEF Book
  <2>3. /\ CountOf(key)' \in {CountOf(key), CountOf(key) + 1}
        /\ Here(r) # key => CountOf(key)' = CountOf(key)
    BY <1>2, <2>2, CountMoves DEF Book
  <2>4. QED
    BY <1>2, <2>3
<1>3. ASSUME Succeeds(r), NEW units \in Reports, Record(Here(r), 0, units)
      PROVE  CountOf(key)' = CountOf(key)
  <2>1. RequestsOK /\ units \in Nat
    BY TypeParts, CountersAssumption
  <2>2. Here(r) \in StateKeys
    BY <1>3, <2>1, HereIsWalked DEF Succeeds
  <2>3. CountOf(key)' \in {CountOf(key), CountOf(key) + 0}
    BY <1>3, <2>1, <2>2, CountMoves DEF Succeeds
  <2>4. CountOf(key) \in Nat
    BY CountIsNat
  <2>5. QED
    BY <2>3, <2>4
<1>4. CASE Succeeds(r)
  BY <1>1, <1>3, <1>4 DEF Succeeds, Unwritten
<1>5. CASE ~Book(r) /\ ~Succeeds(r)
  BY <1>1, <1>5 DEF WalkStep, Walk, Check, CannotCall, Call, FailsOver, Fatal, Drops, Unwritten
<1>6. QED
  BY <1>2, <1>4, <1>5

\* A walk is nothing to the limit of a chat provider.
LEMMA WalkToChat ==
  ASSUME TypeOK, TypeOK', NEW r \in Requests, WalkStep(r)
  PROVE  Eases(Chat)
<1>1. RequestsOK /\ Chat \in StateKeys
  BY TypeParts DEF StateKeys
<1>2. /\ \A s \in Requests \ {r} : req'[s] = req[s]
      /\ req'[r].pc \in {"idle", "walking", "checked", "counted", "calling"}
  BY <1>1, WalkMoves
<1>3. Owes(r, Chat)' = 0
  BY <1>2, OwesNothing
<1>4. Book(r) => Here(r) # Chat
  BY <1>1, HereIsWalked DEF Book
<1>5. CountOf(Chat)' = CountOf(Chat)
  BY <1>1, <1>4, WalkCounts
<1>6. QED
  BY <1>2, <1>3, <1>5, EasesIfNothing

\* The walk that reads a provider's cap below it is lent one request, and pays when it is
\* counted.
LEMMA WalkToItsCap ==
  ASSUME TypeOK, TypeOK', NEW r \in Requests, NEW key \in Walked, WalkStep(r)
  PROVE  Lends(key, 1) \/ Pays(key) \/ Eases(key)
<1>1. RequestsOK /\ key \in StateKeys /\ key # Chat
  BY TypeParts, CountersAssumption DEF StateKeys
<1>2. /\ \A s \in Requests \ {r} : req'[s] = req[s]
      /\ req'[r].pc = "checked" => Check(r) /\ ~Gated(r) /\ Here(r)' = Here(r)
  BY <1>1, WalkMoves
<1>3. CASE Book(r) /\ Here(r) = key
  <2>1. req[r].pc = "checked" /\ req'[r].pc = "counted"
    BY <1>1, <1>3 DEF Book, RequestsOK, Slot
  <2>2. Owes(r, key) = 1 /\ Owes(r, key)' = 0
    BY <1>1, <1>3, <2>1 DEF Owes
  <2>3. Owes(r, key) > 0 /\ Owes(r, key)' = Owes(r, key) - 1
    BY <2>2
  <2>4. CountOf(key)' \in {CountOf(key), CountOf(key) + 1}
    BY <1>1, WalkCounts
  <2>5. QED
    BY <1>2, <2>3, <2>4, PaysOrEases
<1>4. CASE ~(Book(r) /\ Here(r) = key) /\ req'[r].pc = "checked" /\ Here(r) = key
  <2>1. CountOf(key)' = CountOf(key)
    BY <1>1, <1>4, WalkCounts
  <2>2. req[r].pc = "walking" /\ ~Exhausted(r) /\ Here(r)' = key
    BY <1>2, <1>4 DEF Check, Gated
  <2>3. Owes(r, key) = 0 /\ Owes(r, key)' = 1
    BY <1>1, <1>4, <2>2 DEF Owes
  <2>4. CountOf(key) < DayCap[key]
    <3>1. CountOf(key) \in Nat /\ DayCap[key] \in Nat
      BY <1>1, CountIsNat, CountersAssumption
    <3>2. ~(CountOf(key) >= DayCap[key])
      BY <1>4, <2>2 DEF Exhausted, CountOf
    <3>3. QED
      BY <3>1, <3>2
  <2>5. 1 \in Nat /\ 1 \in 1 .. 1
    OBVIOUS
  <2>6. QED
    BY <1>2, <2>1, <2>3, <2>4, <2>5, LendsIfGated
<1>5. CASE ~(Book(r) /\ Here(r) = key) /\ ~(req'[r].pc = "checked" /\ Here(r) = key)
  <2>1. CountOf(key)' = CountOf(key)
    BY <1>1, <1>5, WalkCounts
  <2>2. req'[r].pc # "checked" \/ Here(r)' # key
    BY <1>2, <1>5
  <2>3. Owes(r, key)' = 0
    BY <1>1, <2>2 DEF Owes
  <2>4. QED
    BY <1>2, <2>1, <2>3, EasesIfNothing
<1>6. QED
  BY <1>3, <1>4, <1>5

\* A cooldown that ends is nothing to either.
LEMMA ExpireIsNothing ==
  ASSUME TypeOK, TypeOK', Expire, NEW key
  PROVE  Eases(key)
<1>1. CountOf(key)' = CountOf(key)
  BY CountStays DEF Expire, Unwritten
<1>2. QED
  BY <1>1, EasesIfStill DEF Expire

\* An embedding is counted behind no gate, if its day's row is written.
LEMMA EmbeddingBypasses ==
  ASSUME TypeOK, TypeOK', Embedding
  PROVE  /\ \/ CountOf(Chat)' = CountOf(Chat) /\ embeds' = embeds
            \/ CountOf(Chat)' = CountOf(Chat) + 1 /\ embeds' = embeds + 1
         /\ Owed(Chat)' = Owed(Chat)
         /\ \A key \in Walked : Eases(key)
<1>1. PICK tokens \in Reports \cup {0} : Record(Chat, 1, tokens)
  BY DEF Embedding
<1>2. tokens \in Nat /\ Chat \in StateKeys
  BY CountersAssumption DEF StateKeys
<1>3. CountOf(Chat)' \in {CountOf(Chat), CountOf(Chat) + 1}
  BY <1>1, <1>2, CountMoves DEF Embedding
<1>4. CountOf(Chat) \in Nat /\ embeds \in Nat
  BY CountIsNat, TypeParts
<1>5. embeds' = embeds + CountOf(Chat)' - CountOf(Chat)
  BY DEF Embedding, CountOf
<1>6. \/ CountOf(Chat)' = CountOf(Chat) /\ embeds' = embeds
      \/ CountOf(Chat)' = CountOf(Chat) + 1 /\ embeds' = embeds + 1
  <2>1. CASE CountOf(Chat)' = CountOf(Chat)
    BY <1>4, <1>5, <2>1
  <2>2. CASE CountOf(Chat)' = CountOf(Chat) + 1
    BY <1>4, <1>5, <2>2
  <2>3. QED
    BY <1>3, <2>1, <2>2
<1>7. Owed(Chat)' = Owed(Chat)
  BY DEF Embedding, Owed, Owes, Here
<1>8. ASSUME NEW key \in Walked PROVE Eases(key)
  <2>1. key \in StateKeys /\ key # Chat
    BY CountersAssumption DEF StateKeys
  <2>2. CountOf(key)' = CountOf(key)
    BY <1>1, <1>2, <2>1, CountMoves DEF Embedding
  <2>3. QED
    BY <2>2, EasesIfStill DEF Embedding
<1>9. QED
  BY <1>6, <1>7, <1>8

-----------------------------------------------------------------------------
(* The clock. *)

\* No row of a day is ahead of the open one: a window that opens has no row yet.
DaysPast == \A k \in DOMAIN rows : k[2] = "day" => k[3] <= DayStart(now)

LEMMA DayAdvances ==
  ASSUME NEW t \in Instants, NEW u \in Instants, t <= u
  PROVE  DayStart(t) <= DayStart(u)
<1>1. PICK d \in Days : DayStart(t) = ResetAt[d]
  BY DayIsCurrent
<1>2. DayStart(t) \in Int /\ t \in Int /\ u \in Int /\ DayStart(t) <= t
  BY CalendarAssumption, DayIsCurrent DEF Instants
<1>3. ResetAt[d] <= u
  BY <1>1, <1>2
<1>4. QED
  BY <1>1, <1>3, DayIsCurrent

LEMMA RecordPast ==
  ASSUME TypeOK, DaysPast, UNCHANGED now, NEW key \in StateKeys,
         NEW requests \in Nat, NEW tokens \in Nat, Record(key, requests, tokens)
  PROVE  DaysPast'
<1>1. now \in Instants /\ RowsOK(rows)
  BY TypeParts
<1>2. PICK n \in 0 .. 3 : rows' = Recorded(rows, key, now, requests, tokens, n)
  BY DEF Record
<1>3. Adds(rows, Recorded(rows, key, now, requests, tokens, n), Reached(key, now, n), requests)
  BY <1>1, RecordingAdds
<1>4. DOMAIN rows' = DOMAIN rows \cup Reached(key, now, n)
  BY <1>2, <1>3 DEF Adds
<1>5. ASSUME NEW k \in Reached(key, now, n), k[2] = "day" PROVE k[3] <= DayStart(now)
  <2>1. DayStart(now) \in Int
    BY <1>1, DayIsCurrent
  <2>2. PICK p \in Written(n) : k = <<key, p, Start(p, now)>>
    BY DEF Reached
  <2>3. p = "day" /\ k[3] = Start(p, now)
    BY <1>5, <2>2
  <2>4. QED
    BY <2>1, <2>3 DEF Start
<1>6. QED
  BY <1>4, <1>5 DEF DaysPast

\* A step writes the rows by one recording, or not at all, and only the clock moves time.
LEMMA StepsRecord ==
  ASSUME TypeOK, Next
  PROVE  \/ UNCHANGED <<now, rows, cut>>
         \/ Tick
         \/ /\ UNCHANGED now
            /\ \E key \in StateKeys : \E requests \in {0, 1}, tokens \in Nat :
                 Record(key, requests, tokens)
<1>1. /\ Chat \in StateKeys /\ Reports \subseteq Nat /\ RequestsOK
      /\ 0 \in Nat /\ 1 \in Nat
  BY TypeParts, CountersAssumption DEF StateKeys
<1>2. CASE Embedding
  BY <1>1, <1>2 DEF Embedding
<1>3. CASE Expire
  BY <1>3 DEF Expire, Unwritten
<1>4. ASSUME NEW r \in Requests, Admit(r) \/ Fails(r) \/ Walk(r) \/ Check(r) \/ CannotCall(r)
                               \/ Call(r) \/ FailsOver(r) \/ Fatal(r) \/ Drops(r)
      PROVE  UNCHANGED <<now, rows, cut>>
  BY <1>4 DEF Admit, Fails, Walk, Check, CannotCall, Call, FailsOver, Fatal, Drops, Unwritten
<1>5. ASSUME NEW r \in Requests, Answers(r) \/ MoreCalls(r)
      PROVE  now' = now /\ Record(Chat, 1, 0)
  BY <1>5 DEF Answers, MoreCalls
<1>6. ASSUME NEW r \in Requests, Ends(r)
      PROVE  /\ now' = now
             /\ UNCHANGED <<rows, cut>> \/ \E tokens \in Nat : Record(Chat, 0, tokens)
  BY <1>1, <1>6 DEF Ends, Unwritten
<1>7. ASSUME NEW r \in Requests, Book(r)
      PROVE  now' = now /\ Here(r) \in StateKeys /\ Record(Here(r), 1, 0)
  BY <1>1, <1>7, HereIsWalked DEF Book
<1>8. ASSUME NEW r \in Requests, Succeeds(r)
      PROVE  /\ now' = now /\ Here(r) \in StateKeys
             /\ UNCHANGED <<rows, cut>> \/ \E tokens \in Nat : Record(Here(r), 0, tokens)
  BY <1>1, <1>8, HereIsWalked DEF Succeeds, Unwritten
<1>9. QED
  BY <1>1, <1>2, <1>3, <1>4, <1>5, <1>6, <1>7, <1>8 DEF Next

LEMMA StepPast ==
  ASSUME TypeOK, TypeOK', DaysPast, [Next]_vars
  PROVE  DaysPast'
<1>1. CASE UNCHANGED <<now, rows>>
  BY <1>1 DEF DaysPast
<1>2. CASE Tick
  <2>1. now \in Instants /\ now' \in Instants /\ RowsOK(rows)
    BY TypeParts, TypePartsNext
  <2>2. now <= now' /\ rows' = rows
    BY <1>2, <2>1, CalendarAssumption DEF Tick, Unwritten, Instants
  <2>3. /\ DayStart(now) <= DayStart(now')
        /\ DayStart(now) \in Int /\ DayStart(now') \in Int
    BY <2>1, <2>2, DayAdvances, DayIsCurrent
  <2>4. ASSUME NEW k \in DOMAIN rows, k[2] = "day" PROVE k[3] <= DayStart(now')
    <3>1. k[3] \in Int
      BY <2>1, <2>4 DEF RowsOK
    <3>2. k[3] <= DayStart(now)
      BY <2>4 DEF DaysPast
    <3>3. QED
      BY <2>3, <3>1, <3>2
  <2>5. QED
    BY <2>2, <2>4 DEF DaysPast
<1>3. ASSUME UNCHANGED now, NEW key \in StateKeys, NEW requests \in {0, 1}, NEW tokens \in Nat,
             Record(key, requests, tokens)
      PROVE  DaysPast'
  BY <1>3, RecordPast
<1>4. CASE UNCHANGED vars
  BY <1>1, <1>4 DEF vars
<1>5. QED
  BY <1>1, <1>2, <1>3, <1>4, StepsRecord

\* A tick within a day changes nothing; one that opens a day finds no count in it.
LEMMA TickRolls ==
  ASSUME TypeOK, TypeOK', DaysPast, Tick, NEW key
  PROVE  /\ Owed(key)' = Owed(key)
         /\ \/ /\ DayStart(now') = DayStart(now)
               /\ CountOf(key)' = CountOf(key) /\ embeds' = embeds
            \/ /\ DayStart(now') \in Int /\ DayStart(now') > DayStart(now)
               /\ CountOf(key)' = 0 /\ embeds' = 0
<1>1. now \in Instants /\ now' \in Instants
  BY TypeParts, TypePartsNext
<1>2. now <= now' /\ rows' = rows
  BY <1>1, CalendarAssumption DEF Tick, Unwritten, Instants
<1>3. /\ DayStart(now) <= DayStart(now')
      /\ DayStart(now) \in Int /\ DayStart(now') \in Int
  BY <1>1, <1>2, DayAdvances, DayIsCurrent
<1>4. Owed(key)' = Owed(key)
  BY DEF Tick, Owed, Owes, Here
<1>5. /\ CountOf(key) = RowAt(rows, <<key, "day", DayStart(now)>>).requests
      /\ CountOf(key)' = RowAt(rows, <<key, "day", DayStart(now')>>).requests
  BY <1>2 DEF CountOf, Used, Start
<1>6. CASE DayStart(now') = DayStart(now)
  BY <1>4, <1>5, <1>6 DEF Tick
<1>7. CASE DayStart(now') > DayStart(now)
  <2> DEFINE k == <<key, "day", DayStart(now')>>
  <2>1. ~(DayStart(now') <= DayStart(now))
    BY <1>3, <1>7
  <2>2. k[2] = "day" /\ k[3] = DayStart(now')
    OBVIOUS
  <2>3. k \notin DOMAIN rows
    BY <2>1, <2>2 DEF DaysPast
  <2>4. CountOf(key)' = 0
    BY <1>5, <2>3 DEF RowAt, Blank
  <2>5. embeds' = 0
    BY <1>3, <1>7 DEF Tick
  <2>6. QED
    BY <1>3, <1>4, <1>7, <2>4, <2>5
<1>8. QED
  BY <1>3, <1>6, <1>7

-----------------------------------------------------------------------------
(* Both daily limits are limiters. *)

LEMMA NothingOwedAtFirst ==
  ASSUME Init, NEW key
  PROVE  CountOf(key) = 0 /\ Owed(key) = {} /\ DayStart(now) \in Int
<1>1. CountOf(key) = 0
  BY DEF Init, NoRows, CountOf, Used, RowAt, Blank
<1>2. TypeOK
  BY InitTyped
<1>3. DayStart(now) \in Int
  BY <1>2, DayIsCurrent DEF TypeOK
<1>4. ASSUME NEW r \in Requests PROVE Owes(r, key) = 0
  <2>1. req[r].pc = "idle"
    BY DEF Init, Idle
  <2>2. QED
    BY <2>1 DEF Owes
<1>5. \A r \in Requests : 1 .. Owes(r, key) = {}
  BY <1>4
<1>6. Owed(key) = {}
  BY <1>5 DEF Owed
<1>7. QED
  BY <1>1, <1>3, <1>6

\* A step of a limit within a window is one of the chat limiter.
LEMMA ChatWithin ==
  ASSUME now' = now, embeds' = embeds,
         Lends(Chat, 1 + Legs) \/ Pays(Chat) \/ Eases(Chat)
  PROVE  ChatDay!LimiterNext
<1>1. CASE Lends(Chat, 1 + Legs)
  <2>1. ChatDay!LetIn
    BY <1>1 DEF ChatDay!LetIn, Lends, CountOf
  <2>2. QED
    BY <2>1 DEF ChatDay!LimiterNext
<1>2. CASE Pays(Chat)
  <2>1. ChatDay!CountOne
    BY <1>2 DEF ChatDay!CountOne, Pays, CountOf
  <2>2. QED
    BY <2>1 DEF ChatDay!LimiterNext
<1>3. CASE Eases(Chat)
  <2>1. ChatDay!Forgive
    BY <1>3 DEF ChatDay!Forgive, Eases, CountOf
  <2>2. QED
    BY <2>1 DEF ChatDay!LimiterNext
<1>4. QED
  BY <1>1, <1>2, <1>3

\* And one of the walks' limiter.
LEMMA WalkWithin ==
  ASSUME now' = now, Lends(Watched, 1) \/ Pays(Watched) \/ Eases(Watched)
  PROVE  WalkDay!LimiterNext
<1>1. CASE Lends(Watched, 1)
  <2>1. WalkDay!LetIn
    BY <1>1 DEF WalkDay!LetIn, Lends, CountOf
  <2>2. QED
    BY <2>1 DEF WalkDay!LimiterNext
<1>2. CASE Pays(Watched)
  <2>1. WalkDay!CountOne
    BY <1>2 DEF WalkDay!CountOne, Pays, CountOf
  <2>2. QED
    BY <2>1 DEF WalkDay!LimiterNext
<1>3. CASE Eases(Watched)
  <2>1. WalkDay!Forgive
    BY <1>3 DEF WalkDay!Forgive, Eases, CountOf
  <2>2. QED
    BY <2>1 DEF WalkDay!LimiterNext
<1>4. QED
  BY <1>1, <1>2, <1>3

LEMMA ChatStepRefines ==
  ASSUME TypeOK, TypeOK', DaysPast, [Next]_vars
  PROVE  [ChatDay!LimiterNext]_(ChatDay!limiterVars)
<1>1. ASSUME NEW r \in Requests,
             Admit(r) \/ Answers(r) \/ Fails(r) \/ MoreCalls(r) \/ Ends(r)
      PROVE  ChatDay!LimiterNext
  <2>1. now' = now /\ embeds' = embeds
    BY <1>1 DEF Admit, Answers, Fails, MoreCalls, Ends
  <2>2. QED
    BY <1>1, <2>1, ChatToItsLimit, ChatWithin
<1>2. ASSUME NEW r \in Requests, WalkStep(r) PROVE ChatDay!LimiterNext
  <2>1. now' = now /\ embeds' = embeds
    BY <1>2 DEF WalkStep, Walk, Check, Book, CannotCall, Call, Succeeds, FailsOver, Fatal, Drops
  <2>2. QED
    BY <1>2, <2>1, WalkToChat, ChatWithin
<1>3. CASE Expire
  <2>1. now' = now /\ embeds' = embeds
    BY <1>3 DEF Expire
  <2>2. QED
    BY <1>3, <2>1, ExpireIsNothing, ChatWithin
<1>4. CASE Embedding
  <2>1. now' = now
    BY <1>4 DEF Embedding
  <2>2. CASE CountOf(Chat)' = CountOf(Chat) + 1 /\ embeds' = embeds + 1
    <3>1. ChatDay!Bypass
      BY <1>4, <2>1, <2>2, EmbeddingBypasses DEF ChatDay!Bypass, CountOf
    <3>2. QED
      BY <3>1 DEF ChatDay!LimiterNext
  <2>3. CASE CountOf(Chat)' = CountOf(Chat) /\ embeds' = embeds
    BY <1>4, <2>1, <2>3, EmbeddingBypasses DEF ChatDay!limiterVars, CountOf
  <2>4. QED
    BY <1>4, <2>2, <2>3, EmbeddingBypasses
<1>5. CASE Tick
  <2>1. CASE /\ DayStart(now') = DayStart(now)
             /\ CountOf(Chat)' = CountOf(Chat) /\ embeds' = embeds
    BY <1>5, <2>1, TickRolls DEF ChatDay!limiterVars, CountOf
  <2>2. CASE /\ DayStart(now') \in Int /\ DayStart(now') > DayStart(now)
             /\ CountOf(Chat)' = 0 /\ embeds' = 0
    <3>1. ChatDay!Roll
      BY <1>5, <2>2, TickRolls DEF ChatDay!Roll, CountOf
    <3>2. QED
      BY <3>1 DEF ChatDay!LimiterNext
  <2>3. QED
    BY <1>5, <2>1, <2>2, TickRolls
<1>6. CASE UNCHANGED vars
  BY <1>6 DEF vars, ChatDay!limiterVars, Owed, Owes, Here
<1>7. QED
  BY <1>1, <1>2, <1>3, <1>4, <1>5, <1>6 DEF Next, WalkStep

LEMMA WalkStepRefines ==
  ASSUME TypeOK, TypeOK', DaysPast, [Next]_vars
  PROVE  [WalkDay!LimiterNext]_(WalkDay!limiterVars)
<1>0. Watched \in Walked
  BY CountersAssumption
<1>1. ASSUME NEW r \in Requests,
             Admit(r) \/ Answers(r) \/ Fails(r) \/ MoreCalls(r) \/ Ends(r)
      PROVE  WalkDay!LimiterNext
  <2>1. now' = now
    BY <1>1 DEF Admit, Answers, Fails, MoreCalls, Ends
  <2>2. QED
    BY <1>0, <1>1, <2>1, ChatToAWalk, WalkWithin
<1>2. ASSUME NEW r \in Requests, WalkStep(r) PROVE WalkDay!LimiterNext
  <2>1. now' = now
    BY <1>2 DEF WalkStep, Walk, Check, Book, CannotCall, Call, Succeeds, FailsOver, Fatal, Drops
  <2>2. QED
    BY <1>0, <1>2, <2>1, WalkToItsCap, WalkWithin
<1>3. CASE Expire
  <2>1. now' = now
    BY <1>3 DEF Expire
  <2>2. QED
    BY <1>3, <2>1, ExpireIsNothing, WalkWithin
<1>4. CASE Embedding
  <2>1. now' = now
    BY <1>4 DEF Embedding
  <2>2. QED
    BY <1>0, <1>4, <2>1, EmbeddingBypasses, WalkWithin
<1>5. CASE Tick
  <2>1. CASE DayStart(now') = DayStart(now) /\ CountOf(Watched)' = CountOf(Watched)
    BY <1>5, <2>1, TickRolls DEF WalkDay!limiterVars, CountOf
  <2>2. CASE /\ DayStart(now') \in Int /\ DayStart(now') > DayStart(now)
             /\ CountOf(Watched)' = 0
    <3>1. WalkDay!Roll
      BY <1>5, <2>2, TickRolls DEF WalkDay!Roll, CountOf
    <3>2. QED
      BY <3>1 DEF WalkDay!LimiterNext
  <2>3. QED
    BY <1>5, <2>1, <2>2, TickRolls
<1>6. CASE UNCHANGED vars
  BY <1>6 DEF vars, WalkDay!limiterVars, Owed, Owes, Here
<1>7. QED
  BY <1>1, <1>2, <1>3, <1>4, <1>5, <1>6 DEF Next, WalkStep

LEMMA TypedAndPast == Spec => [](TypeOK /\ DaysPast)
<1>1. Init => TypeOK /\ DaysPast
  BY InitTyped DEF Init, NoRows, DaysPast
<1>2. TypeOK /\ DaysPast /\ [Next]_vars => (TypeOK /\ DaysPast)'
  BY StepTyped, StepPast
<1>3. QED
  BY <1>1, <1>2, PTL DEF Spec

\* The daily limit of a chat provider is a limiter: whatever turns, re-sends and
\* continuations come in between, a count comes of a turn that was let through below the
\* limit, or of an embedding (check_candidate, record_request).
THEOREM ChatIsLimited == Spec => ChatLimited
<1>1. Init => ChatDay!LimiterInit
  <2> SUFFICES ASSUME Init PROVE ChatDay!LimiterInit
    OBVIOUS
  <2>1. CountOf(Chat) = 0 /\ Owed(Chat) = {} /\ DayStart(now) \in Int
    BY NothingOwedAtFirst
  <2>2. embeds = 0
    BY DEF Init
  <2>3. QED
    BY <2>1, <2>2 DEF ChatDay!LimiterInit, CountOf
<1>2. TypeOK /\ DaysPast /\ TypeOK' /\ [Next]_vars => [ChatDay!LimiterNext]_(ChatDay!limiterVars)
  BY ChatStepRefines
<1>3. QED
  BY <1>1, <1>2, TypedAndPast, PTL DEF Spec, ChatLimited, ChatDay!LimiterSpec

\* So is the daily cap of a provider the media and service chains walk: a count comes of a
\* walk that read the cap below it (run_chain, run_search: cap_exhausted, then record).
THEOREM WalkIsLimited == Spec => WalkLimited
<1>1. Init => WalkDay!LimiterInit
  <2> SUFFICES ASSUME Init PROVE WalkDay!LimiterInit
    OBVIOUS
  <2>1. CountOf(Watched) = 0 /\ Owed(Watched) = {} /\ DayStart(now) \in Int
    BY NothingOwedAtFirst
  <2>2. QED
    BY <2>1 DEF WalkDay!LimiterInit, CountOf
<1>2. TypeOK /\ DaysPast /\ TypeOK' /\ [Next]_vars => [WalkDay!LimiterNext]_(WalkDay!limiterVars)
  BY WalkStepRefines
<1>3. QED
  BY <1>1, <1>2, TypedAndPast, PTL DEF Spec, WalkLimited, WalkDay!LimiterSpec

-----------------------------------------------------------------------------
(* What a limiter is worth: a bound every step of one keeps, for any limit, any *)
(* number of requests in flight and any number of counts one may lead to.       *)

\* A count c with the debts o that may still be added to it, and what was counted
\* behind no gate; beside the bound itself, where nothing is let through nothing is owed.
Within(S, most, cap, c, o, p) ==
  /\ c \in Nat /\ p \in Nat
  /\ o \in SUBSET (S \X (1 .. most))
  /\ c + Cardinality(o) <= cap - 1 + Cardinality(S) * most + p
  /\ cap = 0 => o = {}

\* What a step of a limiter makes of them.
Moves(S, most, cap, c, o, p, d, q, z) ==
  \/ /\ c < cap
     /\ \E s \in S : \E n \in 1 .. most : q = o \cup ({s} \X (1 .. n))
     /\ d = c /\ z = p
  \/ (\E x \in o : q = o \ {x}) /\ d = c + 1 /\ z = p
  \/ q \in SUBSET o /\ d = c /\ z = p
  \/ q = o /\ d = c + 1 /\ z = p + 1
  \/ q = o /\ d = 0 /\ z = 0

\* All debts there can be.
LEMMA DebtsBounded ==
  ASSUME NEW S, IsFiniteSet(S), S # {}, NEW most \in Nat \ {0}
  PROVE  /\ Cardinality(S) * most \in Nat
         /\ Cardinality(S) * most >= 1
         /\ \A D \in SUBSET (S \X (1 .. most)) :
              /\ IsFiniteSet(D)
              /\ Cardinality(D) \in Nat
              /\ Cardinality(D) <= Cardinality(S) * most
<1>1. IsFiniteSet(1 .. most) /\ Cardinality(1 .. most) = most
  BY FS_Interval
<1>2. Cardinality(S) \in Nat \ {0}
  BY FS_CardinalityType, FS_EmptySet
<1>3. IsFiniteSet(S \X (1 .. most)) /\ Cardinality(S \X (1 .. most)) = Cardinality(S) * most
  BY <1>1, FS_Product
<1>4. \A a, b \in Nat \ {0} : a * b \in Nat /\ a * b >= 1
  OBVIOUS
<1>5. QED
  BY <1>2, <1>3, <1>4, FS_Subset, FS_CardinalityType

LEMMA WithinAtFirst ==
  ASSUME NEW S, IsFiniteSet(S), S # {}, NEW most \in Nat \ {0}, NEW cap \in Nat, NEW p \in Nat
  PROVE  Within(S, most, cap, 0, {}, p)
<1>1. Cardinality({}) = 0 /\ {} \in SUBSET (S \X (1 .. most))
  BY FS_EmptySet
<1>2. Cardinality(S) * most \in Nat /\ Cardinality(S) * most >= 1
  BY DebtsBounded
<1>3. QED
  BY <1>1, <1>2 DEF Within

LEMMA WithinKept ==
  ASSUME NEW S, IsFiniteSet(S), S # {}, NEW most \in Nat \ {0}, NEW cap \in Nat,
         NEW c, NEW o, NEW p, NEW d, NEW q, NEW z,
         Within(S, most, cap, c, o, p), Moves(S, most, cap, c, o, p, d, q, z)
  PROVE  Within(S, most, cap, d, q, z)
<1> DEFINE all == Cardinality(S) * most
<1>1. /\ c \in Nat /\ p \in Nat /\ all \in Nat /\ all >= 1
      /\ o \in SUBSET (S \X (1 .. most))
      /\ IsFiniteSet(o) /\ Cardinality(o) \in Nat
      /\ c + Cardinality(o) <= cap - 1 + all + p
      /\ cap = 0 => o = {}
  BY DebtsBounded DEF Within
<1>2. CASE c < cap /\ (\E s \in S : \E n \in 1 .. most : q = o \cup ({s} \X (1 .. n))) /\ d = c /\ z = p
  <2>1. PICK s \in S, n \in 1 .. most : q = o \cup ({s} \X (1 .. n))
    BY <1>2
  <2>2. 1 .. n \subseteq 1 .. most
    OBVIOUS
  <2>3. q \in SUBSET (S \X (1 .. most))
    BY <1>1, <2>1, <2>2
  <2>4. Cardinality(q) \in Nat /\ Cardinality(q) <= all
    BY <2>3, DebtsBounded
  <2>5. d + Cardinality(q) <= cap - 1 + all + z
    <3> HIDE DEF all
    <3>1. QED
      BY <1>1, <1>2, <2>4
  <2>6. QED
    BY <1>1, <1>2, <2>3, <2>5 DEF Within
<1>3. CASE (\E x \in o : q = o \ {x}) /\ d = c + 1 /\ z = p
  <2>1. PICK x \in o : q = o \ {x}
    BY <1>3
  <2>2. Cardinality(q) = Cardinality(o) - 1
    BY <1>1, <2>1, FS_RemoveElement
  <2>3. d + Cardinality(q) <= cap - 1 + all + z
    <3> HIDE DEF all
    <3>1. QED
      BY <1>1, <1>3, <2>2
  <2>4. QED
    BY <1>1, <1>3, <2>1, <2>3 DEF Within
<1>4. CASE q \in SUBSET o /\ d = c /\ z = p
  <2>1. Cardinality(q) \in Nat /\ Cardinality(q) <= Cardinality(o)
    BY <1>1, <1>4, FS_Subset, FS_CardinalityType
  <2>2. d + Cardinality(q) <= cap - 1 + all + z
    <3> HIDE DEF all
    <3>1. QED
      BY <1>1, <1>4, <2>1
  <2>3. QED
    BY <1>1, <1>4, <2>2 DEF Within
<1>5. CASE q = o /\ d = c + 1 /\ z = p + 1
  <2>1. d + Cardinality(q) <= cap - 1 + all + z
    <3> HIDE DEF all
    <3>1. QED
      BY <1>1, <1>5
  <2>2. QED
    BY <1>1, <1>5, <2>1 DEF Within
<1>6. CASE q = o /\ d = 0 /\ z = 0
  <2>1. cap = 0 => Cardinality(o) = 0
    BY <1>1, FS_EmptySet
  <2>2. Cardinality(o) <= all
    BY <1>1, DebtsBounded
  <2>3. d + Cardinality(q) <= cap - 1 + all + z
    <3> HIDE DEF all
    <3>1. QED
      BY <1>1, <1>6, <2>1, <2>2
  <2>4. QED
    BY <1>1, <1>6, <2>3 DEF Within
<1>7. QED
  BY <1>2, <1>3, <1>4, <1>5, <1>6 DEF Moves

\* Whatever satisfies the limiter's specification never counts further beyond the limit than
\* what was let through together can count, and what passed no gate (check_candidate and the
\* recordings of router.rs; preflight of media/mod.rs with one count a request).
THEOREM LimitHolds == ASSUME LimiterAssumption PROVE LimiterSpec => []Overshoot
<1> DEFINE Kept == Within(Slots, Most, Cap, marks, due, waved)
<1>1. LimiterInit => Kept
  BY WithinAtFirst DEF LimiterInit, LimiterAssumption
<1>2. Kept /\ [LimiterNext]_limiterVars => Kept'
  <2>1. SUFFICES ASSUME Kept, [LimiterNext]_limiterVars PROVE Kept'
    OBVIOUS
  <2>2. Moves(Slots, Most, Cap, marks, due, waved, marks', due', waved')
    BY <2>1 DEF LimiterNext, limiterVars, LetIn, CountOne, Forgive, Bypass, Roll, Moves
  <2>3. QED
    BY <2>1, <2>2, WithinKept DEF LimiterAssumption
<1>3. Kept => Overshoot
  BY DEF Within, Overshoot
<1>4. QED
  BY <1>1, <1>2, <1>3, PTL DEF LimiterSpec

\* What that is worth in a provider's own numbers: the open day's count passes the limit by
\* no more than the calls of the turns in flight, and the embeddings of the day.
THEOREM ChatOvershoot == Spec => []ChatDay!Overshoot
<1> DEFINE Kept == Within(Requests, 1 + Legs, DayCap[Chat], Used(rows, Chat, "day", now).requests, Owed(Chat), embeds)
<1>1. /\ IsFiniteSet(Requests) /\ Requests # {}
      /\ 1 + Legs \in Nat \ {0} /\ DayCap[Chat] \in Nat
  BY CountersAssumption DEF StateKeys
<1>2. ChatDay!LimiterInit => Kept
  BY <1>1, WithinAtFirst DEF ChatDay!LimiterInit
<1>3. Kept /\ [ChatDay!LimiterNext]_(ChatDay!limiterVars) => Kept'
  <2>1. SUFFICES ASSUME Kept, [ChatDay!LimiterNext]_(ChatDay!limiterVars) PROVE Kept'
    OBVIOUS
  <2>2. Moves(Requests, 1 + Legs, DayCap[Chat], Used(rows, Chat, "day", now).requests, Owed(Chat), embeds,
              (Used(rows, Chat, "day", now).requests)', Owed(Chat)', embeds')
    BY <2>1 DEF ChatDay!LimiterNext, ChatDay!limiterVars, ChatDay!LetIn, ChatDay!CountOne, ChatDay!Forgive,
                ChatDay!Bypass, ChatDay!Roll, Moves
  <2>3. Within(Requests, 1 + Legs, DayCap[Chat],
               (Used(rows, Chat, "day", now).requests)', Owed(Chat)', embeds')
    <3>1. Within(Requests, 1 + Legs, DayCap[Chat], Used(rows, Chat, "day", now).requests, Owed(Chat), embeds)
      BY <2>1
    <3>2. QED
      BY <1>1, <2>2, <3>1, WithinKept
  <2>4. QED
    BY <2>3 DEF Within
<1>4. Kept => ChatDay!Overshoot
  BY DEF Within, ChatDay!Overshoot, ChatDay!Cardinality, Cardinality
<1> HIDE DEF Kept
<1>5. QED
  BY <1>2, <1>3, <1>4, ChatIsLimited, PTL DEF ChatLimited, ChatDay!LimiterSpec

\* The open day's count of a walked provider passes its cap by no more than the requests
\* that read the cap together.
THEOREM WalkOvershoot == Spec => []WalkDay!Overshoot
<1> DEFINE Kept == Within(Requests, 1, DayCap[Watched], Used(rows, Watched, "day", now).requests, Owed(Watched), 0)
<1>1. /\ IsFiniteSet(Requests) /\ Requests # {}
      /\ 1 \in Nat \ {0} /\ DayCap[Watched] \in Nat
  BY CountersAssumption DEF StateKeys
<1>2. WalkDay!LimiterInit => Kept
  BY <1>1, WithinAtFirst DEF WalkDay!LimiterInit
<1>3. Kept /\ [WalkDay!LimiterNext]_(WalkDay!limiterVars) => Kept'
  <2>1. SUFFICES ASSUME Kept, [WalkDay!LimiterNext]_(WalkDay!limiterVars) PROVE Kept'
    OBVIOUS
  <2>2. Moves(Requests, 1, DayCap[Watched], Used(rows, Watched, "day", now).requests, Owed(Watched), 0,
              (Used(rows, Watched, "day", now).requests)', Owed(Watched)', 0)
    BY <2>1 DEF WalkDay!LimiterNext, WalkDay!limiterVars, WalkDay!LetIn, WalkDay!CountOne, WalkDay!Forgive,
                WalkDay!Bypass, WalkDay!Roll, Moves
  <2>3. Within(Requests, 1, DayCap[Watched],
               (Used(rows, Watched, "day", now).requests)', Owed(Watched)', 0)
    <3>1. Within(Requests, 1, DayCap[Watched], Used(rows, Watched, "day", now).requests, Owed(Watched), 0)
      BY <2>1
    <3>2. QED
      BY <1>1, <2>2, <3>1, WithinKept
  <2>4. QED
    BY <2>3 DEF Within
<1>4. Kept => WalkDay!Overshoot
  BY DEF Within, WalkDay!Overshoot, WalkDay!Cardinality, Cardinality
<1> HIDE DEF Kept
<1>5. QED
  BY <1>2, <1>3, <1>4, WalkIsLimited, PTL DEF WalkLimited, WalkDay!LimiterSpec

-----------------------------------------------------------------------------
(* The books nest. *)

At(count, k) == IF k \in DOMAIN count THEN count[k] ELSE 0

\* A count that agrees on the rows of a key and a period has the same units in them.
LEMMA UnitsStay ==
  ASSUME NEW c, NEW d, NEW key, NEW p,
         \A k : k[1] = key /\ k[2] = p => At(d, k) = At(c, k)
  PROVE  Units(d, key, p) = Units(c, key, p)
<1>1. ASSUME NEW f, NEW e
      PROVE  e \in Units(f, key, p)
               <=> \E k : k[1] = key /\ k[2] = p /\ e \in {k} \X (1 .. At(f, k))
  <2>1. 1 .. 0 = {}
    OBVIOUS
  <2>2. ASSUME NEW k PROVE k \in DOMAIN f \/ 1 .. At(f, k) = {}
    BY <2>1 DEF At
  <2>3. QED
    BY <2>2 DEF Units, At
<1>2. ASSUME NEW e PROVE e \in Units(d, key, p) <=> e \in Units(c, key, p)
  BY <1>1
<1>3. QED
  BY <1>2

\* Raising the count of one row by r raises its period's units by r, and leaves them
\* finite.
LEMMA UnitsGrow ==
  ASSUME NEW c, NEW d, NEW key, NEW p, NEW k, NEW r \in Nat,
         k[1] = key, k[2] = p,
         At(c, k) \in Nat, At(d, k) = At(c, k) + r,
         \A x : x[1] = key /\ x[2] = p /\ x # k => At(d, x) = At(c, x),
         IsFiniteSet(Units(c, key, p))
  PROVE  /\ IsFiniteSet(Units(d, key, p))
         /\ Cardinality(Units(d, key, p)) = Cardinality(Units(c, key, p)) + r
<1> DEFINE old == At(c, k)
           New == {k} \X (old + 1 .. old + r)
<1>1. ASSUME NEW f, NEW e
      PROVE  e \in Units(f, key, p)
               <=> \E x : x[1] = key /\ x[2] = p /\ e \in {x} \X (1 .. At(f, x))
  <2>1. 1 .. 0 = {}
    OBVIOUS
  <2>2. ASSUME NEW x PROVE x \in DOMAIN f \/ 1 .. At(f, x) = {}
    BY <2>1 DEF At
  <2>3. QED
    BY <2>2 DEF Units, At
<1> HIDE DEF old
<1>2. old \in Nat /\ At(c, k) = old /\ At(d, k) = old + r
  BY DEF old
<1>3. 1 .. old + r = (1 .. old) \cup (old + 1 .. old + r)
  BY <1>2
<1>4. {k} \X (1 .. At(d, k)) = ({k} \X (1 .. At(c, k))) \cup New
  BY <1>2, <1>3
<1>5. Units(d, key, p) = Units(c, key, p) \cup New
  <2>1. ASSUME NEW e PROVE e \in Units(d, key, p) => e \in Units(c, key, p) \cup New
    <3>1. SUFFICES ASSUME NEW x, x[1] = key, x[2] = p, e \in {x} \X (1 .. At(d, x))
                   PROVE  e \in Units(c, key, p) \cup New
      BY <1>1
    <3>2. CASE x = k
      BY <1>1, <1>4, <3>1, <3>2
    <3>3. CASE x # k
      BY <1>1, <3>1, <3>3
    <3>4. QED
      BY <3>2, <3>3
  <2>2. ASSUME NEW e \in Units(c, key, p) PROVE e \in Units(d, key, p)
    <3>1. PICK x : x[1] = key /\ x[2] = p /\ e \in {x} \X (1 .. At(c, x))
      BY <1>1
    <3>2. CASE x = k
      BY <1>1, <1>4, <3>1, <3>2
    <3>3. CASE x # k
      BY <1>1, <3>1, <3>3
    <3>4. QED
      BY <3>2, <3>3
  <2>3. ASSUME NEW e \in New PROVE e \in Units(d, key, p)
    BY <1>1, <1>4
  <2>4. QED
    BY <2>1, <2>2, <2>3
<1>6. Units(c, key, p) \cap New = {}
  <2>1. SUFFICES ASSUME NEW e \in Units(c, key, p), e \in New PROVE FALSE
    OBVIOUS
  <2>2. PICK x : e \in {x} \X (1 .. At(c, x))
    BY <1>1
  <2>3. e[1] = x /\ e[1] = k /\ e[2] \in 1 .. old /\ e[2] \in old + 1 .. old + r
    BY <1>2, <2>1, <2>2
  <2>4. QED
    BY <1>2, <2>3
<1>7. IsFiniteSet(New) /\ Cardinality(New) = r
  <2>1. IsFiniteSet({k}) /\ Cardinality({k}) = 1
    BY FS_Singleton
  <2>2. old + 1 \in Int /\ old + r \in Int
    BY <1>2
  <2>3. /\ IsFiniteSet(old + 1 .. old + r)
        /\ Cardinality(old + 1 .. old + r) = IF old + 1 > old + r THEN 0 ELSE (old + r) - (old + 1) + 1
    BY <2>2, FS_Interval
  <2>4. Cardinality(old + 1 .. old + r) = r
    BY <1>2, <2>3
  <2>5. /\ IsFiniteSet(New)
        /\ Cardinality(New) = Cardinality({k}) * Cardinality(old + 1 .. old + r)
    BY <2>1, <2>3, FS_Product
  <2> HIDE DEF New
  <2>6. QED
    BY <2>1, <2>4, <2>5
<1> HIDE DEF New
<1>8. /\ IsFiniteSet(Units(c, key, p) \cup New)
      /\ Cardinality(Units(c, key, p) \cup New)
           = Cardinality(Units(c, key, p)) + Cardinality(New) - Cardinality(Units(c, key, p) \cap New)
  BY <1>7, FS_Union
<1>9. Cardinality(Units(c, key, p)) \in Nat /\ Cardinality(Units(c, key, p) \cap New) = 0
  BY <1>6, FS_CardinalityType, FS_EmptySet
<1>10. QED
  BY <1>5, <1>7, <1>8, <1>9

\* The units of a key and a period after a recording of it.
Grows(book, new, key, p, requests, tokens) ==
  /\ IsFiniteSet(Units(RequestsIn(new), key, p))
  /\ Cardinality(Units(RequestsIn(new), key, p))
       = Cardinality(Units(RequestsIn(book), key, p)) + requests
  /\ IsFiniteSet(Units(TokensIn(new), key, p))
  /\ Cardinality(Units(TokensIn(new), key, p))
       = Cardinality(Units(TokensIn(book), key, p)) + tokens

\* And of any other key, and of a period the recording broke off before.
Stays(book, new, key, p) ==
  /\ Units(RequestsIn(new), key, p) = Units(RequestsIn(book), key, p)
  /\ Units(TokensIn(new), key, p) = Units(TokensIn(book), key, p)

Countable(book, key, p) ==
  /\ IsFiniteSet(Units(RequestsIn(book), key, p))
  /\ IsFiniteSet(Units(TokensIn(book), key, p))

LEMMA CountsRead ==
  ASSUME NEW book, NEW k
  PROVE  /\ At(RequestsIn(book), k) = RowAt(book, k).requests
         /\ At(TokensIn(book), k) = RowAt(book, k).tokens
  BY DEF At, RequestsIn, TokensIn, RowAt, Blank

\* The rows a recording changes are those of its key and of the periods it reached.
LEMMA RecordingGrows ==
  ASSUME NEW book, RowsOK(book), NEW key \in StateKeys, NEW t \in Instants,
         NEW requests \in Nat, NEW tokens \in Nat, NEW n \in 0 .. 3,
         NEW other \in StateKeys, NEW p \in Periods, Countable(book, other, p)
  PROVE  IF other = key /\ p \in Written(n)
         THEN Grows(book, Recorded(book, key, t, requests, tokens, n), other, p, requests, tokens)
         ELSE Stays(book, Recorded(book, key, t, requests, tokens, n), other, p)
<1> DEFINE new == Recorded(book, key, t, requests, tokens, n)
           keys == Reached(key, t, n)
           k == <<key, p, Start(p, t)>>
<1>1. /\ \A x \in keys : /\ RowAt(new, x).requests = RowAt(book, x).requests + requests
                         /\ RowAt(new, x).tokens = RowAt(book, x).tokens + tokens
      /\ \A x : x \notin keys => RowAt(new, x) = RowAt(book, x)
  <2>1. /\ DOMAIN new = DOMAIN book \cup keys
        /\ \A x \in keys : new[x] = [requests |-> RowAt(book, x).requests + requests,
                                     tokens |-> RowAt(book, x).tokens + tokens]
        /\ \A x \in DOMAIN book \ keys : new[x] = book[x]
    BY DEF Recorded, Reached
  <2> HIDE DEF new, keys
  <2>2. QED
    BY <2>1 DEF RowAt
<1>2. \A x \in keys : x[1] = key /\ x[2] \in Written(n) /\ x = <<key, x[2], Start(x[2], t)>>
  BY DEF Reached
<1>3. p \in Written(n) => k \in keys
  BY DEF Reached
<1>4. k[1] = key /\ k[2] = p
  OBVIOUS
<1>5. RowAt(book, k).requests \in Nat /\ RowAt(book, k).tokens \in Nat
  BY RowsRead DEF Row
<1>6. \A x : x[1] = key /\ x[2] = p /\ x # k => x \notin keys
  BY <1>2
<1> HIDE DEF new, keys, k
<1>7. CASE other = key /\ p \in Written(n)
  <2>1. /\ IsFiniteSet(Units(RequestsIn(new), key, p))
        /\ Cardinality(Units(RequestsIn(new), key, p))
             = Cardinality(Units(RequestsIn(book), key, p)) + requests
    <3> DEFINE c == RequestsIn(book)
               d == RequestsIn(new)
    <3>1. /\ At(c, k) \in Nat /\ At(d, k) = At(c, k) + requests
          /\ \A x : x[1] = key /\ x[2] = p /\ x # k => At(d, x) = At(c, x)
      BY <1>1, <1>3, <1>5, <1>6, <1>7, CountsRead
    <3>2. IsFiniteSet(Units(c, key, p))
      BY <1>7 DEF Countable
    <3> HIDE DEF c, d
    <3>3. IsFiniteSet(Units(d, key, p))
          /\ Cardinality(Units(d, key, p)) = Cardinality(Units(c, key, p)) + requests
      BY <1>4, <3>1, <3>2, UnitsGrow
    <3>4. QED
      BY <3>3 DEF c, d
  <2>2. /\ IsFiniteSet(Units(TokensIn(new), key, p))
        /\ Cardinality(Units(TokensIn(new), key, p))
             = Cardinality(Units(TokensIn(book), key, p)) + tokens
    <3> DEFINE c == TokensIn(book)
               d == TokensIn(new)
    <3>1. /\ At(c, k) \in Nat /\ At(d, k) = At(c, k) + tokens
          /\ \A x : x[1] = key /\ x[2] = p /\ x # k => At(d, x) = At(c, x)
      BY <1>1, <1>3, <1>5, <1>6, <1>7, CountsRead
    <3>2. IsFiniteSet(Units(c, key, p))
      BY <1>7 DEF Countable
    <3> HIDE DEF c, d
    <3>3. IsFiniteSet(Units(d, key, p))
          /\ Cardinality(Units(d, key, p)) = Cardinality(Units(c, key, p)) + tokens
      BY <1>4, <3>1, <3>2, UnitsGrow
    <3>4. QED
      BY <3>3 DEF c, d
  <2>3. QED
    BY <1>7, <2>1, <2>2 DEF Grows, new
<1>8. CASE ~(other = key /\ p \in Written(n))
  <2>1. \A x : x[1] = other /\ x[2] = p => x \notin keys
    BY <1>2, <1>8
  <2>2. \A x : x[1] = other /\ x[2] = p => /\ At(RequestsIn(new), x) = At(RequestsIn(book), x)
                                           /\ At(TokensIn(new), x) = At(TokensIn(book), x)
    BY <1>1, <2>1, CountsRead
  <2>3. QED
    BY <1>8, <2>2, UnitsStay DEF Stays, new
<1>9. QED
  BY <1>7, <1>8 DEF new

\* The inductive invariant: the books nest, and there is a finite sum of each of them.
Nested ==
  /\ \A key \in StateKeys : \A p \in Periods : Countable(rows, key, p)
  /\ BooksNest

LEMMA SumsAreNaturals ==
  ASSUME NEW key \in StateKeys, NEW p \in Periods, Countable(rows, key, p)
  PROVE  Total(key, p) \in Nat /\ TotalTokens(key, p) \in Nat
  BY FS_CardinalityType DEF Countable, Total, TotalTokens

\* A recording that breaks off leaves the later periods short, and is counted as one that
\* broke off.
LEMMA RecordNests ==
  ASSUME TypeOK, Nested, NEW key \in StateKeys, NEW requests \in {0, 1}, NEW tokens \in Nat,
         Record(key, requests, tokens)
  PROVE  Nested'
<1>1. now \in Instants /\ RowsOK(rows) /\ cut \in Nat
  BY TypeParts, CountersAssumption
<1>2. PICK n \in 0 .. 3 :
        /\ rows' = Recorded(rows, key, now, requests, tokens, n)
        /\ cut' = IF n < 3 THEN cut + 1 ELSE cut
  BY DEF Record
<1>3. requests \in Nat
  OBVIOUS
<1>4. ASSUME NEW other \in StateKeys, NEW p \in Periods
      PROVE  /\ IF other = key /\ p \in Written(n)
                THEN Grows(rows, rows', other, p, requests, tokens)
                ELSE Stays(rows, rows', other, p)
             /\ Countable(rows, other, p)
  <2>1. Countable(rows, other, p)
    BY DEF Nested
  <2>2. QED
    BY <1>1, <1>2, <1>3, <2>1, RecordingGrows
<1>5. ASSUME NEW other \in StateKeys, NEW p \in Periods
      PROVE  /\ Countable(rows, other, p)'
             /\ Total(other, p) \in Nat /\ TotalTokens(other, p) \in Nat
             /\ IF other = key /\ p \in Written(n)
                THEN /\ Total(other, p)' = Total(other, p) + requests
                     /\ TotalTokens(other, p)' = TotalTokens(other, p) + tokens
                ELSE /\ Total(other, p)' = Total(other, p)
                     /\ TotalTokens(other, p)' = TotalTokens(other, p)
  BY <1>4, SumsAreNaturals DEF Countable, Grows, Stays, Total, TotalTokens
<1>6. /\ {"day", "month", "total"} = Periods
      /\ "total" \in Written(n) => "month" \in Written(n) /\ n = 3
      /\ "month" \in Written(n) => "day" \in Written(n)
  BY DEF Written, Periods
<1>7. ASSUME NEW other \in StateKeys
      PROVE  /\ Total(other, "total")' <= Total(other, "month")'
             /\ Total(other, "month")' <= Total(other, "day")'
             /\ Total(other, "day")' <= Total(other, "total")' + cut'
             /\ TotalTokens(other, "total")' <= TotalTokens(other, "month")'
             /\ TotalTokens(other, "month")' <= TotalTokens(other, "day")'
  <2> DEFINE D == Total(other, "day")
             M == Total(other, "month")
             T == Total(other, "total")
             Dt == TotalTokens(other, "day")
             Mt == TotalTokens(other, "month")
             Tt == TotalTokens(other, "total")
  <2> SUFFICES T' <= M' /\ M' <= D' /\ D' <= T' + cut' /\ Tt' <= Mt' /\ Mt' <= Dt'
    OBVIOUS
  <2>1. T <= M /\ M <= D /\ D <= T + cut /\ Tt <= Mt /\ Mt <= Dt
    BY DEF Nested, BooksNest
  <2>2. /\ D \in Nat /\ M \in Nat /\ T \in Nat /\ Dt \in Nat /\ Mt \in Nat /\ Tt \in Nat
        /\ IF other = key /\ "day" \in Written(n)
           THEN D' = D + requests /\ Dt' = Dt + tokens ELSE D' = D /\ Dt' = Dt
        /\ IF other = key /\ "month" \in Written(n)
           THEN M' = M + requests /\ Mt' = Mt + tokens ELSE M' = M /\ Mt' = Mt
        /\ IF other = key /\ "total" \in Written(n)
           THEN T' = T + requests /\ Tt' = Tt + tokens ELSE T' = T /\ Tt' = Tt
    BY <1>5, <1>6
  <2>3. cut' = IF n < 3 THEN cut + 1 ELSE cut
    BY <1>2
  <2>4. n = 3 => {"day", "month", "total"} \subseteq Written(n)
    BY <1>6 DEF Written
  <2> HIDE DEF D, M, T, Dt, Mt, Tt
  <2>5. CASE other # key
    BY <1>1, <2>1, <2>2, <2>3, <2>5
  <2>6. CASE other = key /\ "total" \in Written(n)
    BY <1>1, <1>3, <1>6, <2>1, <2>2, <2>3, <2>6
  <2>7. CASE other = key /\ "total" \notin Written(n)
    <3>1. cut' = cut + 1
      BY <2>3, <2>4, <2>7
    <3>2. QED
      BY <1>1, <1>6, <2>1, <2>2, <2>7, <3>1
  <2>8. QED
    BY <2>5, <2>6, <2>7
<1>8. QED
  BY <1>5, <1>7 DEF Nested, BooksNest

LEMMA InitNested ==
  ASSUME Init
  PROVE  Nested
<1>1. ASSUME NEW key, NEW p
      PROVE  Units(RequestsIn(rows), key, p) = {} /\ Units(TokensIn(rows), key, p) = {}
  BY DEF Init, NoRows, Units, RequestsIn, TokensIn
<1>2. /\ \A key \in StateKeys : \A p \in Periods : Countable(rows, key, p)
      /\ \A key : \A p : Total(key, p) = 0 /\ TotalTokens(key, p) = 0
  BY <1>1, FS_EmptySet DEF Countable, Total, TotalTokens
<1>3. cut = 0
  BY DEF Init
<1>4. QED
  BY <1>2, <1>3 DEF Nested, BooksNest

LEMMA StepNested ==
  ASSUME TypeOK, Nested, [Next]_vars
  PROVE  Nested'
<1>1. CASE UNCHANGED <<rows, cut>>
  BY <1>1 DEF Nested, BooksNest, Countable, Total, TotalTokens
<1>2. ASSUME NEW key \in StateKeys, NEW requests \in {0, 1}, NEW tokens \in Nat,
             Record(key, requests, tokens)
      PROVE  Nested'
  BY <1>2, RecordNests
<1>3. QED
  BY <1>1, <1>2, StepsRecord DEF Tick, Unwritten, vars

\* The three upserts of a recording need no transaction for this: the day's sum of any key
\* never falls behind the month's, nor the month's behind the total's, and the day is
\* ahead of the total by no more than the recordings that broke off (record_usage).
THEOREM BooksAreNested == Spec => []BooksNest
<1>1. Init => Nested
  BY InitNested
<1>2. TypeOK /\ Nested /\ [Next]_vars => Nested'
  BY StepNested
<1>3. Nested => BooksNest
  BY DEF Nested
<1>4. QED
  BY <1>1, <1>2, <1>3, TypedAndPast, PTL DEF Spec

-----------------------------------------------------------------------------
(* What is billed is in the books. *)

\* The walks between their record and their call.
Booked(key) == {r \in Requests : req[r].pc = "counted" /\ Here(r) = key}

Covered(key) == billed[key] + Cardinality(Booked(key)) <= Total(key, "day") + cut

\* The inductive invariant: a walk that is counted and about to call is covered already.
Billable == Nested /\ \A key \in Walked : Covered(key)

LEMMA BookedIsFinite ==
  ASSUME NEW key
  PROVE  IsFiniteSet(Booked(key)) /\ Cardinality(Booked(key)) \in Nat
<1>1. IsFiniteSet(Requests) /\ Booked(key) \subseteq Requests
  BY CountersAssumption DEF Booked
<1>2. IsFiniteSet(Booked(key))
  BY <1>1, FS_Subset
<1>3. QED
  BY <1>2, FS_CardinalityType

\* A recording takes nothing from what covers a key, and gives its own key the request
\* it counts: to the day's row, or to the recordings that broke off.
LEMMA RecordCovers ==
  ASSUME TypeOK, Nested, NEW key \in StateKeys, NEW requests \in {0, 1}, NEW tokens \in Nat,
         Record(key, requests, tokens), NEW other \in StateKeys
  PROVE  /\ Total(other, "day") \in Nat /\ Total(other, "day")' \in Nat
         /\ Total(other, "day")' + cut' >= Total(other, "day") + cut
         /\ Total(key, "day")' + cut' >= Total(key, "day") + cut + requests
<1>1. now \in Instants /\ RowsOK(rows) /\ cut \in Nat /\ requests \in Nat /\ "day" \in Periods
  BY TypeParts, CountersAssumption DEF Periods
<1>2. PICK n \in 0 .. 3 :
        /\ rows' = Recorded(rows, key, now, requests, tokens, n)
        /\ cut' = IF n < 3 THEN cut + 1 ELSE cut
  BY DEF Record
<1>3. ASSUME NEW o \in StateKeys
      PROVE  /\ Total(o, "day") \in Nat
             /\ Total(o, "day")' = IF o = key /\ "day" \in Written(n)
                                   THEN Total(o, "day") + requests ELSE Total(o, "day")
  <2>1. Countable(rows, o, "day")
    BY <1>1 DEF Nested
  <2>2. IF o = key /\ "day" \in Written(n)
        THEN Grows(rows, rows', o, "day", requests, tokens)
        ELSE Stays(rows, rows', o, "day")
    BY <1>1, <1>2, <2>1, RecordingGrows
  <2>3. QED
    BY <1>1, <2>1, <2>2, SumsAreNaturals DEF Grows, Stays, Total
<1>4. "day" \notin Written(n) => cut' = cut + 1
  BY <1>2 DEF Written, Periods
<1>5. cut' >= cut /\ cut' \in Nat
  BY <1>1, <1>2
<1>6. QED
  BY <1>1, <1>3, <1>4, <1>5

\* A step of a request that does not end counted books nothing.
LEMMA BooksNothing ==
  ASSUME RequestsOK, NEW r \in Requests, NEW q, q.pc # "counted",
         req' = [req EXCEPT ![r] = q], NEW key
  PROVE  Booked(key)' \subseteq Booked(key)
<1>1. \A x \in Requests : req'[x] = IF x = r THEN q ELSE req[x]
  BY DEF RequestsOK
<1>2. QED
  BY <1>1 DEF Booked, Here

LEMMA CoveredStill ==
  ASSUME TypeOK, Nested, NEW key \in Walked, Covered(key),
         Booked(key)' \subseteq Booked(key), billed' = billed,
         Total(key, "day")' \in Int, cut' \in Int,
         Total(key, "day")' + cut' >= Total(key, "day") + cut
  PROVE  Covered(key)'
<1>1. Cardinality(Booked(key)') <= Cardinality(Booked(key)) /\ IsFiniteSet(Booked(key)')
  BY BookedIsFinite, FS_Subset
<1>2. Cardinality(Booked(key)) \in Nat /\ Cardinality(Booked(key)') \in Nat
  BY <1>1, BookedIsFinite, FS_CardinalityType
<1>3. /\ key \in StateKeys /\ billed[key] \in Nat /\ cut \in Int
  BY TypeParts, CountersAssumption DEF StateKeys
<1>4. Total(key, "day") \in Nat
  BY <1>3, SumsAreNaturals DEF Nested, Periods
<1>5. QED
  BY <1>1, <1>2, <1>3, <1>4 DEF Covered

\* Where a step may leave its request, other than counted.
LEMMA StepsEndUncounted ==
  ASSUME TypeOK, Next, \A r \in Requests : ~Book(r) /\ ~Call(r), NEW key
  PROVE  Booked(key)' \subseteq Booked(key) /\ billed' = billed
<1>1. RequestsOK
  BY TypeParts
<1>2. CASE UNCHANGED <<req, billed>>
  BY <1>2 DEF Booked, Here
<1>3. ASSUME NEW r \in Requests, NEW q, q.pc # "counted",
             req' = [req EXCEPT ![r] = q], billed' = billed
      PROVE  Booked(key)' \subseteq Booked(key) /\ billed' = billed
  BY <1>1, <1>3, BooksNothing
<1>4. ASSUME NEW r \in Requests PROVE req[r] \in Slot
  BY <1>1 DEF RequestsOK
<1>5. Idle.pc # "counted"
  BY DEF Idle
<1>6. ASSUME NEW r \in Requests,
             Fails(r) \/ Ends(r) \/ Drops(r) \/ req' = [req EXCEPT ![r] = Idle],
             billed' = billed
      PROVE  Booked(key)' \subseteq Booked(key) /\ billed' = billed
  BY <1>3, <1>5, <1>6 DEF Fails, Ends, Drops
<1>7. ASSUME NEW r \in Requests, req' = Onward(r), billed' = billed
      PROVE  Booked(key)' \subseteq Booked(key) /\ billed' = billed
  <2> DEFINE q == [req[r] EXCEPT !.pc = "walking", !.at = req[r].at + 1]
  <2>1. q.pc # "counted"
    BY <1>4 DEF Slot
  <2>2. req' = [req EXCEPT ![r] = q] \/ req' = [req EXCEPT ![r] = Idle]
    BY <1>7 DEF Onward
  <2> HIDE DEF q
  <2>3. QED
    BY <1>3, <1>5, <1>7, <2>1, <2>2
<1>8. ASSUME NEW r \in Requests, Admit(r) \/ Answers(r) \/ MoreCalls(r) \/ Walk(r)
      PROVE  Booked(key)' \subseteq Booked(key) /\ billed' = billed
  <2>1. CASE Admit(r)
    <3> DEFINE q == [req[r] EXCEPT !.pc = "admitted", !.legs = Legs]
    <3>1. q.pc # "counted"
      BY <1>4 DEF Slot
    <3>2. req' = [req EXCEPT ![r] = q] /\ billed' = billed
      BY <2>1 DEF Admit
    <3> HIDE DEF q
    <3>3. QED
      BY <1>3, <3>1, <3>2
  <2>2. CASE Answers(r)
    <3> DEFINE q == [req[r] EXCEPT !.pc = "streaming"]
    <3>1. q.pc # "counted"
      BY <1>4 DEF Slot
    <3>2. req' = [req EXCEPT ![r] = q] /\ billed' = billed
      BY <2>2 DEF Answers
    <3> HIDE DEF q
    <3>3. QED
      BY <1>3, <3>1, <3>2
  <2>3. CASE MoreCalls(r)
    <3> DEFINE q == [req[r] EXCEPT !.legs = req[r].legs - 1]
    <3>1. q.pc # "counted"
      BY <1>4, <2>3 DEF Slot, MoreCalls
    <3>2. req' = [req EXCEPT ![r] = q] /\ billed' = billed
      BY <2>3 DEF MoreCalls
    <3> HIDE DEF q
    <3>3. QED
      BY <1>3, <3>1, <3>2
  <2>4. CASE Walk(r)
    <3>1. PICK c \in Chains : req' = [req EXCEPT ![r].pc = "walking", ![r].chain = c, ![r].at = 1]
      BY <2>4 DEF Walk
    <3> DEFINE q == [req[r] EXCEPT !.pc = "walking", !.chain = c, !.at = 1]
    <3>2. q.pc # "counted"
      BY <1>4 DEF Slot
    <3>3. req' = [req EXCEPT ![r] = q] /\ billed' = billed
      BY <2>4, <3>1 DEF Walk
    <3> HIDE DEF q
    <3>4. QED
      BY <1>3, <3>2, <3>3
  <2>5. QED
    BY <1>8, <2>1, <2>2, <2>3, <2>4
<1>9. ASSUME NEW r \in Requests, Check(r)
      PROVE  Booked(key)' \subseteq Booked(key) /\ billed' = billed
  <2> DEFINE q == [req[r] EXCEPT !.pc = "checked"]
  <2>1. q.pc # "counted"
    BY <1>4 DEF Slot
  <2>2. billed' = billed /\ (req' = Onward(r) \/ req' = [req EXCEPT ![r] = q])
    BY <1>9 DEF Check
  <2> HIDE DEF q
  <2>3. QED
    BY <1>3, <1>7, <2>1, <2>2
<1>10. ASSUME NEW r \in Requests, CannotCall(r) \/ Succeeds(r) \/ FailsOver(r) \/ Fatal(r)
       PROVE  Booked(key)' \subseteq Booked(key) /\ billed' = billed
  <2>1. billed' = billed /\ (req' = Onward(r) \/ req' = [req EXCEPT ![r] = Idle])
    BY <1>10 DEF CannotCall, Succeeds, FailsOver, Fatal
  <2>2. QED
    BY <1>6, <1>7, <2>1
<1>11. ASSUME NEW r \in Requests, Fails(r) \/ Ends(r) \/ Drops(r)
       PROVE  Booked(key)' \subseteq Booked(key) /\ billed' = billed
  BY <1>6, <1>11 DEF Fails, Ends, Drops
<1>12. CASE Embedding \/ Expire \/ Tick
  BY <1>2, <1>12 DEF Embedding, Expire, Tick
<1>13. QED
  BY <1>8, <1>9, <1>10, <1>11, <1>12 DEF Next

\* A record covers the walk it books.
LEMMA BookCovers ==
  ASSUME TypeOK, Billable, NEW r \in Requests, Book(r), NEW key \in Walked
  PROVE  Covered(key)'
<1>1. /\ RequestsOK /\ req[r].pc = "checked" /\ Here(r) \in StateKeys
      /\ key \in StateKeys
  BY TypeParts, HereIsWalked DEF Book, StateKeys
<1>2. /\ Total(key, "day") \in Nat /\ Total(key, "day")' \in Nat
      /\ Total(key, "day")' + cut' >= Total(key, "day") + cut
      /\ key = Here(r) => Total(key, "day")' + cut' >= Total(key, "day") + cut + 1
  <2>1. PICK h \in StateKeys : h = Here(r) /\ Record(h, 1, 0)
    BY <1>1 DEF Book
  <2>2. Nested /\ 1 \in {0, 1} /\ 0 \in Nat
    BY DEF Billable
  <2>3. /\ Total(key, "day") \in Nat /\ Total(key, "day")' \in Nat
        /\ Total(key, "day")' + cut' >= Total(key, "day") + cut
        /\ Total(h, "day")' + cut' >= Total(h, "day") + cut + 1
    BY <1>1, <2>1, <2>2, RecordCovers
  <2>4. key = h => Total(key, "day")' + cut' >= Total(key, "day") + cut + 1
    <3> SUFFICES ASSUME key = h PROVE Total(key, "day")' + cut' >= Total(key, "day") + cut + 1
      OBVIOUS
    <3>1. QED
      BY <2>3
  <2>5. QED
    BY <2>1, <2>3, <2>4
<1>3. billed' = billed /\ billed[key] \in Nat /\ cut \in Nat /\ cut' \in Nat
  <2>1. RowsOK(rows') /\ cut' \in 0 .. MaxCuts
    BY <1>1, RecordTyped DEF Book
  <2>2. QED
    BY <1>1, <2>1, TypeParts, CountersAssumption DEF Book
<1>4. \A x \in Requests : /\ x # r => req'[x] = req[x]
                          /\ req'[r].at = req[r].at /\ req'[r].chain = req[r].chain
  BY <1>1 DEF Book, RequestsOK, Slot
<1>5. Booked(key)' \subseteq IF key = Here(r) THEN Booked(key) \cup {r} ELSE Booked(key)
  BY <1>4 DEF Booked, Here
<1>6. /\ Cardinality(Booked(key)) \in Nat
      /\ Cardinality(Booked(key)') \in Nat
      /\ Cardinality(Booked(key)') <= Cardinality(Booked(key)) + (IF key = Here(r) THEN 1 ELSE 0)
  <2>1. IsFiniteSet(Booked(key)) /\ Cardinality(Booked(key)) \in Nat
    BY BookedIsFinite
  <2>2. /\ IsFiniteSet(Booked(key) \cup {r})
        /\ Cardinality(Booked(key) \cup {r}) \in {Cardinality(Booked(key)), Cardinality(Booked(key)) + 1}
    BY <2>1, FS_AddElement
  <2>3. CASE key = Here(r)
    <3>1. IsFiniteSet(Booked(key)') /\ Cardinality(Booked(key)') <= Cardinality(Booked(key) \cup {r})
      BY <1>5, <2>2, <2>3, FS_Subset
    <3>2. Cardinality(Booked(key)') \in Nat
      BY <3>1, FS_CardinalityType
    <3>3. QED
      BY <2>1, <2>2, <2>3, <3>1, <3>2
  <2>4. CASE key # Here(r)
    <3>1. IsFiniteSet(Booked(key)') /\ Cardinality(Booked(key)') <= Cardinality(Booked(key))
      BY <1>5, <2>1, <2>4, FS_Subset
    <3>2. Cardinality(Booked(key)') \in Nat
      BY <3>1, FS_CardinalityType
    <3>3. QED
      BY <2>1, <2>4, <3>1, <3>2
  <2>5. QED
    BY <2>3, <2>4
<1>7. billed[key] + Cardinality(Booked(key)) <= Total(key, "day") + cut
  BY DEF Billable, Covered
<1>8. billed[key] + Cardinality(Booked(key)') <= Total(key, "day")' + cut'
  <2> DEFINE one == IF key = Here(r) THEN 1 ELSE 0
  <2>1. one \in Nat /\ Total(key, "day")' + cut' >= Total(key, "day") + cut + one
    BY <1>2, <1>3
  <2>2. Cardinality(Booked(key)') <= Cardinality(Booked(key)) + one
    BY <1>6
  <2> HIDE DEF one
  <2>3. QED
    BY <1>2, <1>3, <1>6, <1>7, <2>1, <2>2
<1>9. QED
  BY <1>3, <1>8 DEF Covered

\* A call moves its walk from the booked to the billed.
LEMMA CallCovers ==
  ASSUME TypeOK, Billable, NEW r \in Requests, Call(r), NEW key \in Walked
  PROVE  Covered(key)'
<1>1. /\ RequestsOK /\ req[r].pc = "counted" /\ billed \in [StateKeys -> Nat]
      /\ key \in StateKeys
  BY TypeParts DEF Call, StateKeys
<1>2. \A x \in Requests : /\ x # r => req'[x] = req[x]
                          /\ req'[r].pc = "calling"
  BY <1>1 DEF Call, RequestsOK, Slot
<1>3. Booked(key)' = Booked(key) \ {r}
  BY <1>2 DEF Booked, Here
<1>4. /\ billed[key] \in Nat
      /\ billed'[key] = billed[key] + (IF key = Here(r) THEN 1 ELSE 0)
  BY <1>1 DEF Call
<1>5. r \in Booked(key) <=> key = Here(r)
  BY <1>1 DEF Booked
<1>6. /\ Cardinality(Booked(key)) \in Nat
      /\ Cardinality(Booked(key)') = Cardinality(Booked(key)) - (IF key = Here(r) THEN 1 ELSE 0)
  <2>1. IsFiniteSet(Booked(key)) /\ Cardinality(Booked(key)) \in Nat
    BY BookedIsFinite
  <2>2. Cardinality(Booked(key) \ {r}) = IF r \in Booked(key) THEN Cardinality(Booked(key)) - 1
                                         ELSE Cardinality(Booked(key))
    BY <2>1, FS_RemoveElement
  <2>3. QED
    BY <1>3, <1>5, <2>1, <2>2
<1>7. Total(key, "day")' = Total(key, "day") /\ cut' = cut
  BY DEF Call, Unwritten, Total
<1>8. billed[key] + Cardinality(Booked(key)) <= Total(key, "day") + cut
  BY DEF Billable, Covered
<1>9. billed'[key] + Cardinality(Booked(key)') = billed[key] + Cardinality(Booked(key))
  BY <1>4, <1>6
<1>10. QED
  BY <1>7, <1>8, <1>9 DEF Covered

LEMMA StepCovers ==
  ASSUME TypeOK, TypeOK', Billable, Next, NEW key \in Walked
  PROVE  Covered(key)'
<1>1. CASE \E r \in Requests : Book(r) \/ Call(r)
  BY <1>1, BookCovers, CallCovers
<1>2. CASE \A r \in Requests : ~Book(r) /\ ~Call(r)
  <2>1. Booked(key)' \subseteq Booked(key) /\ billed' = billed
    BY <1>2, StepsEndUncounted
  <2>2. key \in StateKeys /\ Covered(key) /\ Nested /\ cut \in Int /\ cut' \in Int
    BY TypeParts, TypePartsNext DEF Billable, StateKeys
  <2>3. Total(key, "day") \in Nat
    BY <2>2, SumsAreNaturals DEF Nested, Periods
  <2>4. CASE UNCHANGED <<rows, cut>>
    <3>1. Total(key, "day")' = Total(key, "day") /\ cut' = cut
      BY <2>4 DEF Total
    <3>2. QED
      BY <2>1, <2>2, <2>3, <3>1, CoveredStill
  <2>5. ASSUME NEW k \in StateKeys, NEW requests \in {0, 1}, NEW tokens \in Nat,
               Record(k, requests, tokens)
        PROVE  Covered(key)'
    <3>1. /\ Total(key, "day")' \in Nat
          /\ Total(key, "day")' + cut' >= Total(key, "day") + cut
      BY <2>2, <2>5, RecordCovers
    <3>2. QED
      BY <2>1, <2>2, <3>1, CoveredStill
  <2>6. QED
    BY <2>4, <2>5, StepsRecord DEF Tick, Unwritten
<1>3. QED
  BY <1>1, <1>2

\* "A billed-but-lost response must not escape the cap" (media/mod.rs): whatever became of
\* its answer, and whichever other requests came in between, every call that a media chain
\* or a search sent out is in the day sums of its provider, short of the recordings that
\* broke off.
THEOREM BilledCallsAreCounted == Spec => []BilledIsCounted
<1>1. Init => Billable
  <2> SUFFICES ASSUME Init PROVE Billable
    OBVIOUS
  <2>1. Nested
    BY InitNested
  <2>2. ASSUME NEW key \in Walked PROVE Covered(key)
    <3>1. Booked(key) = {}
      BY DEF Booked, Init, Idle
    <3>2. billed[key] = 0 /\ cut = 0 /\ key \in StateKeys
      BY DEF Init, StateKeys
    <3>3. Total(key, "day") \in Nat
      BY <2>1, <3>2, SumsAreNaturals DEF Nested, Periods
    <3>4. QED
      BY <3>1, <3>2, <3>3, FS_EmptySet DEF Covered
  <2>3. QED
    BY <2>1, <2>2 DEF Billable
<1>2. TypeOK /\ TypeOK' /\ Billable /\ [Next]_vars => Billable'
  <2> SUFFICES ASSUME TypeOK, TypeOK', Billable, [Next]_vars PROVE Billable'
    OBVIOUS
  <2>1. Nested'
    BY StepNested DEF Billable
  <2>2. CASE Next
    BY <2>1, <2>2, StepCovers DEF Billable
  <2>3. CASE UNCHANGED vars
    BY <2>1, <2>3 DEF Billable, vars, Covered, Booked, Here, Total
  <2>4. QED
    BY <2>2, <2>3
<1>3. TypeOK /\ Billable => BilledIsCounted
  <2> SUFFICES ASSUME TypeOK, Billable, NEW key \in Walked
               PROVE  billed[key] <= Total(key, "day") + cut
    BY DEF BilledIsCounted
  <2>1. key \in StateKeys /\ billed[key] \in Nat /\ cut \in Nat
    BY TypeParts, CountersAssumption DEF StateKeys
  <2>2. Cardinality(Booked(key)) \in Nat /\ Total(key, "day") \in Nat
    BY <2>1, BookedIsFinite, SumsAreNaturals DEF Billable, Nested, Periods
  <2>3. QED
    BY <2>1, <2>2 DEF Billable, Covered
<1>4. QED
  BY <1>1, <1>2, <1>3, TypedAndPast, PTL DEF Spec
=============================================================================
