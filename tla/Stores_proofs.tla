---------------------------- MODULE Stores_proofs ----------------------------
(***************************************************************************)
(* Proofs about Stores, for every number of callers, every document, every *)
(* span and limit: how old an answer of the documentation cache can be,    *)
(* what a parse is remembered as, what the pruning of captures leaves, and *)
(* what commands that work in one memory directory make of it.             *)
(***************************************************************************)
EXTENDS Stores, FiniteSetTheorems, SequenceTheorems, WellFoundedInduction, TLAPS

-----------------------------------------------------------------------------
(* What a step of one store leaves of the others. *)

LEMMA DocsSteps ==
  ASSUME Next
  PROVE  \/ DocsNext /\ UNCHANGED clockVars
         \/ UNCHANGED docsVars /\ (UNCHANGED clockVars \/ Tick \/ SetBack)
         \/ find' = [f \in Finders |-> NotFinding] /\ UNCHANGED <<kv, clockVars>>
  BY DEF Next, Crash, docsVars, clockVars, Tick, SetBack

LEMMA ParsesSteps ==
  ASSUME Next
  PROVE  ParsesNext \/ UNCHANGED parsesVars
  BY DEF Next, Crash

-----------------------------------------------------------------------------
(* docs.rs: the cache. *)

Steps == {"idle", "search", "searching", "text", "fetching", "told"}

Replies == {"none", "error", "no library", "no version", "text"}

Found == [step : Steps, version : BOOLEAN, search : Int, text : Int, began : Int, since : Int,
          answer : Replies, at : Int]

DocsTyped ==
  /\ moment \in Nat /\ back \in Nat
  /\ kv \in [Rows -> [at : Int, said : Int]]
  /\ find \in [Finders -> Found]

\* A row was put by an answer that was asked for a fetch ago at most, and says that there is
\* something.
RowSound(key) ==
  kv[key] # NoRow =>
    /\ kv[key].at - kv[key].said <= FetchTime
    /\ kv[key].said >= (IF key = "search" THEN Indexed ELSE Written)

\* As young as a row that is taken for fresh can be.
Young(said) == moment - said <= Ttl + FetchTime + back

TextFresh(q) ==
  q.answer = "text" =>
    /\ q.at - q.text <= Ttl + FetchTime + back
    /\ q.search >= 0 => q.at - q.search <= Ttl + 2 * FetchTime + back
    /\ q.text < Written => q.text >= q.began

CallSound(q) ==
  /\ q.began <= moment
  /\ q.step \in {"searching", "fetching"} =>
       /\ q.began <= q.since /\ q.since <= moment
       /\ moment - q.since <= FetchTime
  /\ q.step = "text" => (q.search >= 0 => Young(q.search))
  /\ q.step = "fetching" =>
       (q.search >= 0 => q.since - q.search <= Ttl + FetchTime + back)
  /\ q.step = "told" => TextFresh(q) /\ (q.answer = "no library" => q.search >= q.began)

\* The inductive invariant: an answer under way is as old as its fetch, the search it rests on
\* as old as a fresh row and a fetch.
DocsInv ==
  /\ DocsTyped
  /\ \A key \in Rows : RowSound(key)
  /\ \A f \in Finders : CallSound(find[f])

LEMMA SpansAreNaturals ==
  Ttl \in Nat /\ FetchTime \in Nat /\ Indexed \in Nat /\ Versioned \in Nat /\ Written \in Nat
  BY StoresAssumption

LEMMA Words ==
  /\ "idle" \in Steps /\ "search" \in Steps /\ "searching" \in Steps /\ "text" \in Steps
  /\ "fetching" \in Steps /\ "told" \in Steps
  /\ "none" \in Replies /\ "error" \in Replies /\ "no library" \in Replies
  /\ "no version" \in Replies /\ "text" \in Replies
  BY DEF Steps, Replies

LEMMA StepSet == \A r \in Found, v \in Steps : [r EXCEPT !.step = v] \in Found
  BY DEF Found
LEMMA VersionSet == \A r \in Found, v \in BOOLEAN : [r EXCEPT !.version = v] \in Found
  BY DEF Found
LEMMA AnswerSet == \A r \in Found, v \in Replies : [r EXCEPT !.answer = v] \in Found
  BY DEF Found
LEMMA BeganSet == \A r \in Found, v \in Int : [r EXCEPT !.began = v] \in Found
  BY DEF Found
LEMMA SinceSet == \A r \in Found, v \in Int : [r EXCEPT !.since = v] \in Found
  BY DEF Found
LEMMA SearchSet == \A r \in Found, v \in Int : [r EXCEPT !.search = v] \in Found
  BY DEF Found
LEMMA TextSet == \A r \in Found, v \in Int : [r EXCEPT !.text = v] \in Found
  BY DEF Found
LEMMA AtSet == \A r \in Found, v \in Int : [r EXCEPT !.at = v] \in Found
  BY DEF Found

\* What a call is once it was told.
Ended(r, answer) ==
  [r EXCEPT !.step = "told", !.answer = answer, !.at = moment, !.since = 0, !.version = FALSE]

LEMMA EndedTyped ==
  ASSUME moment \in Nat, NEW r \in Found, NEW answer \in Replies
  PROVE  /\ Ended(r, answer) \in Found
         /\ Ended(r, answer).step = "told" /\ Ended(r, answer).answer = answer
         /\ Ended(r, answer).at = moment /\ Ended(r, answer).search = r.search
         /\ Ended(r, answer).text = r.text /\ Ended(r, answer).began = r.began
<1> DEFINE r1 == [r EXCEPT !.step = "told"]
<1> DEFINE r2 == [r1 EXCEPT !.answer = answer]
<1> DEFINE r3 == [r2 EXCEPT !.at = moment]
<1> DEFINE r4 == [r3 EXCEPT !.since = 0]
<1> DEFINE r5 == [r4 EXCEPT !.version = FALSE]
<1>1. r5 = Ended(r, answer)
  BY Zenon DEF Ended
<1>2. /\ Ended(r, answer).step = "told" /\ Ended(r, answer).answer = answer
      /\ Ended(r, answer).at = moment /\ Ended(r, answer).search = r.search
      /\ Ended(r, answer).text = r.text /\ Ended(r, answer).began = r.began
  BY DEF Found, Ended
<1>3. r1 \in Found
  BY StepSet, Words
<1> HIDE DEF r1
<1>4. r2 \in Found
  BY <1>3, AnswerSet
<1> HIDE DEF r2
<1>5. r3 \in Found
  BY <1>4, AtSet
<1> HIDE DEF r3
<1>6. r4 \in Found
  BY <1>5, SinceSet
<1> HIDE DEF r4
<1>7. r5 \in Found
  BY <1>6, VersionSet
<1>8. QED
  BY <1>1, <1>2, <1>7

LEMMA NotFindingSound ==
  ASSUME DocsTyped
  PROVE  NotFinding \in Found /\ CallSound(NotFinding)
<1>1. NotFinding \in Found
  BY DEF NotFinding, Found, Steps, Replies
<1>2. NotFinding.step = "idle" /\ NotFinding.began = 0 /\ moment \in Nat
  BY DEF NotFinding, DocsTyped
<1>3. QED
  BY <1>1, <1>2 DEF CallSound

\* A row that is fresh by the clock is young by the time.
LEMMA FreshIsYoung ==
  ASSUME DocsInv, NEW key \in Rows, Fresh(key)
  PROVE  /\ kv[key].said \in Int
         /\ Young(kv[key].said)
         /\ kv[key].said >= (IF key = "search" THEN Indexed ELSE Written)
<1>1. /\ kv[key].at \in Int /\ kv[key].said \in Int /\ moment \in Nat /\ back \in Nat
  BY DEF DocsInv, DocsTyped
<1>2. kv[key] # NoRow /\ Age(kv[key]) <= Ttl
  BY DEF Fresh
<1>3. /\ kv[key].at - kv[key].said <= FetchTime
      /\ kv[key].said >= (IF key = "search" THEN Indexed ELSE Written)
  BY <1>2 DEF DocsInv, RowSound
<1>4. moment - kv[key].at <= Ttl + back
  <2>1. CASE Now < kv[key].at
    BY <1>1, <2>1, SpansAreNaturals DEF Now
  <2>2. CASE ~(Now < kv[key].at)
    BY <1>1, <1>2, <2>2, SpansAreNaturals DEF Now, Age
  <2>3. QED
    BY <2>1, <2>2
<1>5. QED
  BY <1>1, <1>3, <1>4, SpansAreNaturals DEF Young

\* A step of one call, under an unchanged clock.
LEMMA CallMoves ==
  ASSUME DocsInv, UNCHANGED clockVars, NEW f \in Finders, NEW q \in Found,
         find' = [find EXCEPT ![f] = q], CallSound(q),
         kv' \in [Rows -> [at : Int, said : Int]],
         \A key \in Rows : RowSound(key)'
  PROVE  DocsInv'
<1>1. moment' = moment /\ back' = back
  BY DEF clockVars
<1>2. find' \in [Finders -> Found]
  BY DEF DocsInv, DocsTyped
<1>3. \A g \in Finders : find'[g] = IF g = f THEN q ELSE find[g]
  BY DEF DocsInv, DocsTyped
<1>4. ASSUME NEW g \in Finders PROVE CallSound(find[g])'
  BY <1>1, <1>3 DEF DocsInv, CallSound, TextFresh, Young
<1>5. QED
  BY <1>1, <1>2, <1>4 DEF DocsInv, DocsTyped

LEMMA RowsKept ==
  ASSUME DocsInv, UNCHANGED kv
  PROVE  kv' \in [Rows -> [at : Int, said : Int]] /\ \A key \in Rows : RowSound(key)'
  BY DEF DocsInv, DocsTyped, RowSound

\* A call is told, and of what it was told the text, or that there is no library, stands.
LEMMA ToldSound ==
  ASSUME DocsInv, UNCHANGED clockVars, NEW f \in Finders, NEW r \in Found, NEW answer \in Replies,
         find' = [find EXCEPT ![f] = Ended(r, answer)],
         r.began <= moment,
         answer = "text" =>
           /\ Young(r.text)
           /\ r.search >= 0 => moment - r.search <= Ttl + 2 * FetchTime + back
           /\ r.text < Written => r.text >= r.began,
         answer = "no library" => r.search >= r.began,
         kv' \in [Rows -> [at : Int, said : Int]],
         \A key \in Rows : RowSound(key)'
  PROVE  DocsInv'
<1>1. moment \in Nat
  BY DEF DocsInv, DocsTyped
<1> DEFINE q == Ended(r, answer)
<1>2. /\ q \in Found
      /\ q.step = "told" /\ q.answer = answer /\ q.at = moment /\ q.search = r.search
      /\ q.text = r.text /\ q.began = r.began
  BY <1>1, EndedTyped
<1> HIDE DEF q
<1>3. CallSound(q)
  BY <1>1, <1>2 DEF CallSound, TextFresh, Young
<1>4. find' = [find EXCEPT ![f] = q]
  BY DEF q
<1>5. QED
  BY <1>2, <1>3, <1>4, CallMoves

LEMMA NotFindingFits ==
  ASSUME moment \in Nat
  PROVE  NotFinding.began <= moment
  BY DEF NotFinding

LEMMA AsksSound ==
  ASSUME DocsInv, UNCHANGED clockVars, NEW f \in Finders, Asks(f)
  PROVE  DocsInv'
<1>1. kv' \in [Rows -> [at : Int, said : Int]] /\ \A key \in Rows : RowSound(key)'
  BY RowsKept DEF Asks
<1>2. moment \in Nat
  BY DEF DocsInv, DocsTyped
<1>3. PICK named \in BOOLEAN, version \in BOOLEAN :
        LET f0 == [NotFinding EXCEPT !.version = version, !.began = moment]
        IN  IF ~named /\ version THEN Tells(f, "error", NotFinding)
            ELSE find' = [find EXCEPT ![f] = [f0 EXCEPT !.step = IF named THEN "search" ELSE "text"]]
  BY DEF Asks
<1>4. NotFinding \in Found
  BY NotFindingSound DEF DocsInv
<1>5. CASE ~named /\ version
  <2>1. find' = [find EXCEPT ![f] = Ended(NotFinding, "error")]
    BY <1>3, <1>5 DEF Tells, Ended
  <2>2. QED
    BY <1>1, <1>2, <1>4, <2>1, ToldSound, Words, NotFindingFits
<1>6. CASE ~(~named /\ version)
  <2> DEFINE r1 == [NotFinding EXCEPT !.version = version]
  <2> DEFINE r2 == [r1 EXCEPT !.began = moment]
  <2> DEFINE q == [r2 EXCEPT !.step = IF named THEN "search" ELSE "text"]
  <2>1. find' = [find EXCEPT ![f] = q]
    BY <1>3, <1>6
  <2>2. (q.step = "search" \/ q.step = "text") /\ q.began = moment /\ ~(q.search >= 0)
    BY DEF NotFinding
  <2>3. r1 \in Found
    BY <1>4, VersionSet
  <2> HIDE DEF r1
  <2>4. r2 \in Found
    BY <1>2, <2>3, BeganSet
  <2> HIDE DEF r2
  <2>5. q \in Found
    BY <2>4, StepSet, Words
  <2> HIDE DEF q
  <2>6. q.began <= moment
    BY <1>2, <2>2
  <2>7. CASE q.step = "search"
    <3>1. CallSound(q)
      BY <2>6, <2>7 DEF CallSound
    <3>2. QED
      BY <1>1, <2>1, <2>5, <3>1, CallMoves
  <2>8. CASE q.step = "text"
    <3>1. CallSound(q)
      BY <2>2, <2>6, <2>8 DEF CallSound
    <3>2. QED
      BY <1>1, <2>1, <2>5, <3>1, CallMoves
  <2>9. QED
    BY <2>2, <2>7, <2>8
<1>7. QED
  BY <1>5, <1>6

\* What pick_library makes of a list: of one that is young, or of one that came after the
\* call began.
LEMMA PicksSound ==
  ASSUME DocsInv, UNCHANGED clockVars, NEW f \in Finders, NEW said \in Int,
         Picks(f, said), Young(said), said < Indexed => said >= find[f].began,
         kv' \in [Rows -> [at : Int, said : Int]],
         \A key \in Rows : RowSound(key)'
  PROVE  DocsInv'
<1>1. moment \in Nat /\ find[f] \in Found /\ CallSound(find[f])
  BY DEF DocsInv, DocsTyped
<1> DEFINE f1 == [find[f] EXCEPT !.search = said]
<1>2. /\ f1 \in Found /\ f1.search = said /\ f1.began = find[f].began
      /\ f1.version = find[f].version /\ f1.text = find[f].text /\ f1.began <= moment
  BY <1>1, SearchSet DEF Found, CallSound
<1>3. IF said < Indexed THEN Tells(f, "no library", f1)
      ELSE IF f1.version /\ said < Versioned THEN Tells(f, "no version", NotFinding)
      ELSE find' = [find EXCEPT ![f] = [f1 EXCEPT !.step = "text"]]
  BY DEF Picks
<1>4. NotFinding \in Found /\ NotFinding.began <= moment
  BY <1>1, NotFindingSound, NotFindingFits DEF DocsInv
<1> HIDE DEF f1
<1>5. CASE said < Indexed
  <2>1. find' = [find EXCEPT ![f] = Ended(f1, "no library")]
    BY <1>3, <1>5 DEF Tells, Ended
  <2>2. QED
    BY <1>2, <1>5, <2>1, ToldSound, Words
<1>6. CASE ~(said < Indexed) /\ f1.version /\ said < Versioned
  <2>1. find' = [find EXCEPT ![f] = Ended(NotFinding, "no version")]
    BY <1>3, <1>6 DEF Tells, Ended
  <2>2. QED
    BY <1>4, <2>1, ToldSound, Words
<1>7. CASE ~(said < Indexed) /\ ~(f1.version /\ said < Versioned)
  <2> DEFINE q == [f1 EXCEPT !.step = "text"]
  <2>1. q \in Found
    BY <1>2, StepSet, Words
  <2>2. q.step = "text" /\ q.search = said /\ q.began = f1.began
    BY <1>2 DEF Found
  <2>3. find' = [find EXCEPT ![f] = q]
    BY <1>3, <1>7
  <2> HIDE DEF q
  <2>4. CallSound(q)
    BY <1>2, <2>2 DEF CallSound
  <2>5. QED
    BY <2>1, <2>3, <2>4, CallMoves
<1>8. QED
  BY <1>5, <1>6, <1>7

\* A fetch that starts now.
LEMMA StartsSound ==
  ASSUME DocsInv, UNCHANGED <<clockVars, kv>>, NEW f \in Finders, NEW step \in {"searching", "fetching"},
         find[f].step \in {"search", "text"}, step = "fetching" => find[f].step = "text",
         find' = [find EXCEPT ![f].step = step, ![f].since = moment]
  PROVE  DocsInv'
<1>1. moment \in Nat /\ find[f] \in Found /\ CallSound(find[f])
  BY DEF DocsInv, DocsTyped
<1>2. kv' \in [Rows -> [at : Int, said : Int]] /\ \A key \in Rows : RowSound(key)'
  BY RowsKept
<1> DEFINE r == [find[f] EXCEPT !.step = step]
<1> DEFINE q == [r EXCEPT !.since = moment]
<1>3. find' = [find EXCEPT ![f] = q]
  BY Zenon DEF DocsInv, DocsTyped
<1>4. /\ q.step = step /\ q.since = moment /\ q.search = find[f].search
      /\ q.began = find[f].began
  BY <1>1 DEF Found
<1>5. r \in Found
  BY <1>1, StepSet, Words
<1> HIDE DEF r
<1>6. q \in Found
  BY <1>1, <1>5, SinceSet
<1> HIDE DEF q
<1>7. /\ q.began <= moment
      /\ q.step = "fetching" => (q.search >= 0 => moment - q.search <= Ttl + FetchTime + back)
  BY <1>1, <1>4 DEF CallSound, Young
<1>8. CallSound(q)
  <2>1. moment - moment <= FetchTime /\ moment <= moment
    BY <1>1, SpansAreNaturals
  <2>2. CASE q.step = "searching"
    BY <1>4, <1>7, <2>1, <2>2 DEF CallSound
  <2>3. CASE q.step = "fetching"
    BY <1>4, <1>7, <2>1, <2>3 DEF CallSound
  <2>4. QED
    BY <1>4, <2>2, <2>3
<1>9. QED
  BY <1>2, <1>3, <1>6, <1>8, CallMoves

LEMMA FindsCachedSound ==
  ASSUME DocsInv, UNCHANGED clockVars, NEW f \in Finders, FindsCached(f)
  PROVE  DocsInv'
<1>1. /\ moment \in Nat /\ find[f] \in Found /\ CallSound(find[f])
      /\ find[f].version \in BOOLEAN
  BY DEF DocsInv, DocsTyped, Found
<1>2. UNCHANGED kv
  BY DEF FindsCached
<1>3. kv' \in [Rows -> [at : Int, said : Int]] /\ \A key \in Rows : RowSound(key)'
  BY <1>2, RowsKept
<1>4. CASE /\ find[f].step = "search"
           /\ IF Fresh("search") THEN Picks(f, kv["search"].said)
              ELSE find' = [find EXCEPT ![f].step = "searching", ![f].since = moment]
  <2>1. "search" \in Rows
    BY DEF Rows
  <2>2. CASE Fresh("search")
    <3>1. /\ kv["search"].said \in Int /\ Young(kv["search"].said)
          /\ ~(kv["search"].said < Indexed)
      BY <2>1, <2>2, FreshIsYoung, SpansAreNaturals
    <3>2. QED
      BY <1>3, <1>4, <2>2, <3>1, PicksSound
  <2>3. CASE ~Fresh("search")
    BY <1>2, <1>4, <2>3, StartsSound
  <2>4. QED
    BY <2>2, <2>3
<1>5. CASE /\ find[f].step = "text"
           /\ LET key == TextRow(f)
              IN  IF Fresh(key) THEN Tells(f, "text", [find[f] EXCEPT !.text = kv[key].said])
                  ELSE find' = [find EXCEPT ![f].step = "fetching", ![f].since = moment]
  <2> DEFINE key == TextRow(f)
  <2>1. key \in Rows /\ key # "search"
    BY DEF TextRow, Rows
  <2>2. IF Fresh(key) THEN Tells(f, "text", [find[f] EXCEPT !.text = kv[key].said])
        ELSE find' = [find EXCEPT ![f].step = "fetching", ![f].since = moment]
    BY <1>5
  <2> HIDE DEF key
  <2>3. CASE Fresh(key)
    <3>1. /\ kv[key].said \in Int /\ Young(kv[key].said)
          /\ ~(kv[key].said < Written)
      BY <2>1, <2>3, FreshIsYoung, SpansAreNaturals
    <3> DEFINE r == [find[f] EXCEPT !.text = kv[key].said]
    <3>2. /\ r \in Found /\ r.text = kv[key].said /\ r.search = find[f].search
          /\ r.began = find[f].began
      BY <1>1, <3>1, TextSet DEF Found
    <3>3. find' = [find EXCEPT ![f] = Ended(r, "text")]
      BY <2>2, <2>3 DEF Tells, Ended
    <3> HIDE DEF r
    <3>4. /\ r.began <= moment
          /\ r.search >= 0 => moment - r.search <= Ttl + 2 * FetchTime + back
      <4>1. find[f].search \in Int /\ back \in Nat
        BY <1>1 DEF Found, DocsInv, DocsTyped
      <4>2. QED
        BY <1>1, <1>5, <3>2, <4>1, SpansAreNaturals DEF CallSound, Young
    <3>5. "text" # "no library" /\ "text" \in Replies
      BY Words
    <3>6. Young(r.text) /\ ~(r.text < Written)
      BY <3>1, <3>2
    <3>7. QED
      BY <1>3, <3>2, <3>3, <3>4, <3>5, <3>6, ToldSound
  <2>4. CASE ~Fresh(key)
    BY <1>2, <1>5, <2>2, <2>4, StartsSound
  <2>5. QED
    BY <2>3, <2>4
<1>6. QED
  BY <1>4, <1>5 DEF FindsCached

LEMMA FetchFailsSound ==
  ASSUME DocsInv, UNCHANGED clockVars, NEW f \in Finders, FetchFails(f)
  PROVE  DocsInv'
<1>1. moment \in Nat
  BY DEF DocsInv, DocsTyped
<1>2. NotFinding \in Found /\ NotFinding.began <= moment
  BY <1>1, NotFindingSound, NotFindingFits DEF DocsInv
<1>3. find' = [find EXCEPT ![f] = Ended(NotFinding, "error")]
  BY DEF FetchFails, Tells, Ended
<1>4. kv' \in [Rows -> [at : Int, said : Int]] /\ \A key \in Rows : RowSound(key)'
  BY RowsKept DEF FetchFails
<1>5. QED
  BY <1>2, <1>3, <1>4, ToldSound, Words

\* What is remembered was asked for a fetch ago at most.
LEMMA RemembersSound ==
  ASSUME DocsInv, UNCHANGED clockVars, NEW key \in Rows, NEW said \in Int,
         moment - said <= FetchTime,
         Remembers(key, said, IF key = "search" THEN Indexed ELSE Written)
  PROVE  kv' \in [Rows -> [at : Int, said : Int]] /\ \A k \in Rows : RowSound(k)'
<1> DEFINE from == IF key = "search" THEN Indexed ELSE Written
<1>1. CASE UNCHANGED kv
  BY <1>1, RowsKept
<1>2. CASE said >= from /\ Put(key, said)
  <2>1. Now \in Int /\ Now <= moment /\ moment \in Nat
    BY DEF Now, DocsInv, DocsTyped
  <2>2. kv' = [kv EXCEPT ![key] = [at |-> Now, said |-> said]]
    BY <1>2 DEF Put
  <2>3. kv' \in [Rows -> [at : Int, said : Int]]
    BY <2>1, <2>2 DEF DocsInv, DocsTyped
  <2>4. kv'[key].at = Now /\ kv'[key].said = said
    BY <2>2 DEF DocsInv, DocsTyped
  <2>5. Now - said <= FetchTime
    BY <2>1, SpansAreNaturals
  <2>6. RowSound(key)'
    BY <1>2, <2>4, <2>5 DEF RowSound
  <2>7. ASSUME NEW k \in Rows, k # key PROVE RowSound(k)'
    BY <2>2, <2>7 DEF RowSound, DocsInv, DocsTyped
  <2>8. QED
    BY <2>3, <2>6, <2>7
<1>3. QED
  BY <1>1, <1>2 DEF Remembers

LEMMA FetchedSound ==
  ASSUME DocsInv, UNCHANGED clockVars, NEW f \in Finders, Fetched(f)
  PROVE  DocsInv'
<1>1. /\ moment \in Nat /\ back \in Nat /\ find[f] \in Found /\ CallSound(find[f])
      /\ find[f].version \in BOOLEAN /\ find[f].since \in Int /\ find[f].search \in Int
      /\ find[f].began \in Int
  BY DEF DocsInv, DocsTyped, Found
<1>2. PICK said \in find[f].since .. moment :
        \/ /\ find[f].step = "searching"
           /\ Remembers("search", said, Indexed)
           /\ Picks(f, said)
        \/ /\ find[f].step = "fetching"
           /\ Remembers(TextRow(f), said, Written)
           /\ Tells(f, "text", [find[f] EXCEPT !.text = said])
  BY DEF Fetched
<1>3. said \in Int /\ find[f].since <= said /\ said <= moment
  BY <1>1
<1>4. find[f].step \in {"searching", "fetching"}
  BY <1>2
<1>5. find[f].began <= find[f].since /\ moment - find[f].since <= FetchTime
  BY <1>1, <1>4 DEF CallSound
<1>6. /\ moment - said <= FetchTime /\ said >= find[f].began /\ Young(said)
      /\ find[f].began <= moment
  BY <1>1, <1>3, <1>5, SpansAreNaturals DEF Young
<1>7. CASE /\ find[f].step = "searching"
           /\ Remembers("search", said, Indexed)
           /\ Picks(f, said)
  <2>1. "search" \in Rows
    BY DEF Rows
  <2>2. Remembers("search", said, IF "search" = "search" THEN Indexed ELSE Written)
    BY <1>7
  <2>3. kv' \in [Rows -> [at : Int, said : Int]] /\ \A k \in Rows : RowSound(k)'
    BY <1>3, <1>6, <2>1, <2>2, RemembersSound
  <2>4. QED
    BY <1>3, <1>6, <1>7, <2>3, PicksSound
<1>8. CASE /\ find[f].step = "fetching"
           /\ Remembers(TextRow(f), said, Written)
           /\ Tells(f, "text", [find[f] EXCEPT !.text = said])
  <2>1. TextRow(f) \in Rows /\ TextRow(f) # "search"
    BY DEF TextRow, Rows
  <2>2. Remembers(TextRow(f), said, IF TextRow(f) = "search" THEN Indexed ELSE Written)
    BY <1>8, <2>1
  <2>3. kv' \in [Rows -> [at : Int, said : Int]] /\ \A k \in Rows : RowSound(k)'
    BY <1>3, <1>6, <2>1, <2>2, RemembersSound
  <2> DEFINE r == [find[f] EXCEPT !.text = said]
  <2>4. r \in Found /\ r.text = said /\ r.search = find[f].search /\ r.began = find[f].began
    BY <1>1, <1>3, TextSet DEF Found
  <2>5. find' = [find EXCEPT ![f] = Ended(r, "text")]
    BY <1>8 DEF Tells, Ended
  <2> HIDE DEF r
  <2>6. r.search >= 0 => moment - r.search <= Ttl + 2 * FetchTime + back
    <3>1. r.search >= 0 => find[f].since - r.search <= Ttl + FetchTime + back
      BY <1>1, <1>8, <2>4 DEF CallSound
    <3>2. QED
      BY <1>1, <1>5, <2>4, <3>1, SpansAreNaturals
  <2>7. "text" # "no library" /\ "text" \in Replies
    BY Words
  <2>8. Young(r.text) /\ r.text >= r.began /\ r.began <= moment
    BY <1>6, <2>4
  <2>9. QED
    BY <2>3, <2>4, <2>5, <2>6, <2>7, <2>8, ToldSound
<1>9. QED
  BY <1>2, <1>7, <1>8

\* Time passes only while no call does what takes none, and none has been waiting a fetch.
LEMMA TickSound ==
  ASSUME DocsInv, UNCHANGED docsVars, Tick
  PROVE  DocsInv'
<1>1. /\ moment \in Nat /\ moment' = moment + 1 /\ back' = back /\ kv' = kv /\ find' = find
  BY DEF Tick, docsVars, DocsInv, DocsTyped
<1>2. DocsTyped' /\ \A key \in Rows : RowSound(key)'
  BY <1>1 DEF DocsInv, DocsTyped, RowSound
<1>3. ASSUME NEW f \in Finders PROVE CallSound(find[f])'
  <2>1. /\ find[f] \in Found /\ CallSound(find[f]) /\ find[f].step # "text"
        /\ find[f].step \in {"searching", "fetching"} => moment - find[f].since < FetchTime
    BY DEF DocsInv, DocsTyped, Tick
  <2>2. find[f].began \in Int /\ find[f].since \in Int
    BY <2>1 DEF Found
  <2>3. find[f].began <= moment /\ find[f].began <= moment'
    <3>1. find[f].began <= moment
      BY <2>1 DEF CallSound
    <3>2. QED
      BY <1>1, <2>2, <3>1
  <2>4. find[f].step \in {"searching", "fetching"} =>
          /\ find[f].began <= find[f].since /\ find[f].since <= moment'
          /\ moment' - find[f].since <= FetchTime
    <3>1. find[f].step \in {"searching", "fetching"} =>
            find[f].began <= find[f].since /\ find[f].since <= moment
      BY <2>1 DEF CallSound
    <3>2. QED
      BY <1>1, <2>1, <2>2, <3>1, SpansAreNaturals
  <2>5. find[f].step = "told" => TextFresh(find[f])'
    BY <1>1, <2>1 DEF CallSound, TextFresh
  <2>6. QED
    BY <1>1, <2>1, <2>3, <2>4, <2>5 DEF CallSound
<1>4. QED
  BY <1>2, <1>3 DEF DocsInv

\* A clock that is set back makes rows look younger: by as much.
LEMMA SetBackSound ==
  ASSUME DocsInv, UNCHANGED docsVars, SetBack
  PROVE  DocsInv'
<1>1. /\ back \in Nat /\ back' = back + 1 /\ moment' = moment /\ kv' = kv /\ find' = find
      /\ moment \in Nat
  BY DEF SetBack, docsVars, DocsInv, DocsTyped
<1>2. DocsTyped' /\ \A key \in Rows : RowSound(key)'
  BY <1>1 DEF DocsInv, DocsTyped, RowSound
<1>3. ASSUME NEW f \in Finders PROVE CallSound(find[f])'
  <2>1. find[f] \in Found /\ CallSound(find[f])
    BY DEF DocsInv, DocsTyped
  <2>2. /\ find[f].search \in Int /\ find[f].text \in Int /\ find[f].at \in Int
        /\ find[f].since \in Int
    BY <2>1 DEF Found
  <2>3. TextFresh(find[f]) => TextFresh(find[f])'
    BY <1>1, <2>2, SpansAreNaturals DEF TextFresh
  <2>4. find[f].search >= 0 /\ Young(find[f].search) => Young(find[f].search)'
    BY <1>1, <2>2, SpansAreNaturals DEF Young
  <2>5. find[f].since - find[f].search <= Ttl + FetchTime + back =>
        find[f].since - find[f].search <= Ttl + FetchTime + back'
    BY <1>1, <2>2, SpansAreNaturals
  <2>6. QED
    BY <1>1, <2>1, <2>3, <2>4, <2>5 DEF CallSound
<1>4. QED
  BY <1>2, <1>3 DEF DocsInv

LEMMA DocsInit == Init => DocsInv
<1> SUFFICES ASSUME Init PROVE DocsInv
  OBVIOUS
<1>1. /\ moment = 0 /\ back = 0 /\ kv = [k \in Rows |-> NoRow]
      /\ find = [f \in Finders |-> NotFinding]
  BY DEF Init
<1>2. NotFinding \in Found
  BY DEF NotFinding, Found, Steps, Replies
<1>3. NoRow \in [at : Int, said : Int]
  BY DEF NoRow
<1>4. DocsTyped
  BY <1>1, <1>2, <1>3 DEF DocsTyped
<1>5. QED
  BY <1>1, <1>4, NotFindingSound DEF DocsInv, RowSound

LEMMA DocsStep == DocsInv /\ [Next]_vars => DocsInv'
<1> SUFFICES ASSUME DocsInv, [Next]_vars PROVE DocsInv'
  OBVIOUS
<1>1. CASE UNCHANGED vars
  BY <1>1 DEF vars, docsVars, clockVars, DocsInv, DocsTyped, RowSound, CallSound, TextFresh, Young
<1>2. CASE Next
  <2>1. CASE DocsNext /\ UNCHANGED clockVars
    BY <2>1, AsksSound, FindsCachedSound, FetchedSound, FetchFailsSound DEF DocsNext
  <2>2. CASE UNCHANGED docsVars /\ UNCHANGED clockVars
    BY <2>2 DEF docsVars, clockVars, DocsInv, DocsTyped, RowSound, CallSound, TextFresh, Young
  <2>3. CASE UNCHANGED docsVars /\ (Tick \/ SetBack)
    BY <2>3, TickSound, SetBackSound
  <2>4. CASE find' = [f \in Finders |-> NotFinding] /\ UNCHANGED <<kv, clockVars>>
    <3>1. moment' = moment /\ back' = back /\ kv' = kv
      BY <2>4 DEF clockVars
    <3>2. NotFinding \in Found /\ CallSound(NotFinding)
      BY NotFindingSound DEF DocsInv
    <3>3. DocsTyped' /\ \A key \in Rows : RowSound(key)'
      BY <2>4, <3>1, <3>2 DEF DocsInv, DocsTyped, RowSound
    <3>4. CallSound(NotFinding)'
      BY <3>1, <3>2 DEF CallSound, TextFresh, Young, NotFinding
    <3>5. \A f \in Finders : find'[f] = NotFinding
      BY <2>4
    <3>6. QED
      BY <3>3, <3>4, <3>5 DEF DocsInv
  <2>5. QED
    BY <1>2, <2>1, <2>2, <2>3, <2>4, DocsSteps
<1>3. QED
  BY <1>1, <1>2

-----------------------------------------------------------------------------
(* Parses: what is kept of a document, and what is told of it. *)

TurnSteps == {"idle", "parts", "pages", "told"}
Sentences == {"read", "text", "no text", "more pages", "unread", "as it is"}

TurnRecords == [step : TurnSteps, doc : DOMAIN Documents \cup {"none"}, engine : Engines,
                out : Seq(Sentences), complete : BOOLEAN]

\* A line for every page that was parsed, and the line for the others.
TellsUpTo(doc, out, limit) ==
  /\ Len(out) = Taken(doc, limit) + Len(Cut(doc, limit))
  /\ \A n \in 1 .. Taken(doc, limit) : out[n] \in {"read", Extracted(Documents[doc][n])}

\* What a faultless parse makes of a page.
Line(doc, engine, reads, n) ==
  IF reads /\ Wants(engine, Documents[doc][n]) THEN "read" ELSE Extracted(Documents[doc][n])

\* A parse under way has a line for each page so far, and while it is complete the line of a
\* faultless parse.
UnderWay(q) ==
  /\ q.doc \in DOMAIN Documents
  /\ Len(q.out) <= Taken(q.doc, plugin.pages)
  /\ \A n \in 1 .. Len(q.out) :
       /\ q.out[n] \in {"read", Extracted(Documents[q.doc][n])}
       /\ q.complete => q.out[n] = Line(q.doc, q.engine, plugin.reader, n)

\* What a turn was told, it was told all of.
IsTold(q) ==
  q.step = "told" /\ q.out \notin {Unread, AsItIs} => TellsAll(q.doc, q.out)

ParsesInv ==
  /\ plugin \in Plugins
  /\ DOMAIN parsed \subseteq DOMAIN Documents
  /\ parse \in [Parsers -> TurnRecords]
  /\ KeepsFaultless
  /\ \A p \in Parsers :
       /\ parse[p].step = "pages" => UnderWay(parse[p])
       /\ IsTold(parse[p])

LEMMA ParsesWords ==
  /\ "idle" \in TurnSteps /\ "parts" \in TurnSteps /\ "pages" \in TurnSteps /\ "told" \in TurnSteps
  /\ "auto" \in Engines
  /\ Unread \in Seq(Sentences) /\ AsItIs \in Seq(Sentences) /\ <<>> \in Seq(Sentences)
  BY DEF TurnSteps, Engines, Unread, AsItIs, Sentences

LEMMA PluginLimit ==
  ASSUME ParsesInv
  PROVE  plugin.pages \in PageLimits /\ plugin.pages \in Nat /\ plugin.reader \in BOOLEAN
  BY ParsesAssumption DEF ParsesInv, Plugins

LEMMA OneOf ==
  ASSUME NEW S, NEW x \in S
  PROVE  <<x>> \in Seq(S)
  OBVIOUS

LEMMA PagesTaken ==
  ASSUME NEW doc \in DOMAIN Documents, NEW limit \in PageLimits
  PROVE  /\ Taken(doc, limit) \in Nat
         /\ Cut(doc, limit) \in Seq(Sentences) /\ Len(Cut(doc, limit)) \in Nat
<1>1. Len(Documents[doc]) \in Nat /\ limit \in Nat
  BY ParsesAssumption
<1>2. Cut(doc, limit) \in Seq(Sentences)
  <2>1. "more pages" \in Sentences
    BY DEF Sentences
  <2>2. <<"more pages">> \in Seq(Sentences)
    BY <2>1, OneOf, Zenon
  <2>3. <<>> \in Seq(Sentences)
    OBVIOUS
  <2>4. QED
    BY <2>2, <2>3, Zenon DEF Cut
<1>3. QED
  BY <1>1, <1>2 DEF Taken

LEMMA LineIsOne ==
  ASSUME NEW doc, NEW engine, NEW reads, NEW n
  PROVE  /\ Line(doc, engine, reads, n) \in Sentences
         /\ Line(doc, engine, reads, n) \in {"read", Extracted(Documents[doc][n])}
  BY DEF Line, Sentences, Extracted

\* A faultless parse tells all.
LEMMA FaultlessTells ==
  ASSUME NEW doc \in DOMAIN Documents, NEW engine, NEW reads, NEW limit \in PageLimits
  PROVE  /\ Faultless(doc, engine, reads, limit) \in Seq(Sentences)
         /\ TellsAll(doc, Faultless(doc, engine, reads, limit))
<1> DEFINE body == [n \in 1 .. Taken(doc, limit) |-> Line(doc, engine, reads, n)]
           cut == Cut(doc, limit)
           whole == Faultless(doc, engine, reads, limit)
<1>1. Taken(doc, limit) \in Nat /\ cut \in Seq(Sentences) /\ Len(cut) \in Nat
  BY PagesTaken
<1>2. whole = body \o cut
  BY Zenon DEF Faultless, Line
<1>3. body \in Seq(Sentences) /\ Len(body) = Taken(doc, limit)
  BY <1>1, LineIsOne
<1>4. \A n \in 1 .. Taken(doc, limit) : body[n] \in {"read", Extracted(Documents[doc][n])}
  BY LineIsOne
<1> HIDE DEF body, cut, whole
<1>5. body \o cut \in Seq(Sentences) /\ Len(body \o cut) = Taken(doc, limit) + Len(cut)
  BY <1>1, <1>3
<1>6. \A n \in 1 .. Taken(doc, limit) : (body \o cut)[n] = body[n]
  BY <1>1, <1>3
<1>7. TellsUpTo(doc, whole, limit)
  BY <1>2, <1>4, <1>5, <1>6 DEF TellsUpTo, cut
<1>8. TellsAll(doc, whole)
  BY <1>7, Zenon DEF TellsAll, TellsUpTo
<1>9. QED
  BY <1>2, <1>5, <1>8 DEF whole

LEMMA NotParsingTyped == NotParsing \in TurnRecords
  BY ParsesWords DEF NotParsing, TurnRecords

LEMMA ToldRecord ==
  ASSUME NEW old \in TurnRecords,
         NEW doc \in DOMAIN Documents \cup {"none"}, NEW out \in Seq(Sentences)
  PROVE  /\ Told(old, doc, out) \in TurnRecords
         /\ Told(old, doc, out).step = "told"
         /\ Told(old, doc, out).doc = doc /\ Told(old, doc, out).out = out
<1> DEFINE r1 == [old EXCEPT !.step = "told"]
           r2 == [r1 EXCEPT !.doc = doc]
           r3 == [r2 EXCEPT !.out = out]
<1>1. r3 = Told(old, doc, out)
  BY Zenon DEF Told
<1>2. r3.step = "told" /\ r3.doc = doc /\ r3.out = out
  BY DEF TurnRecords
<1>3. r1 \in TurnRecords
  BY ParsesWords DEF TurnRecords
<1> HIDE DEF r1
<1>4. r2 \in TurnRecords
  BY <1>3 DEF TurnRecords
<1> HIDE DEF r2
<1>5. r3 \in TurnRecords
  BY <1>4 DEF TurnRecords
<1> HIDE DEF r3
<1>6. QED
  BY <1>1, <1>2, <1>5

\* A step of one turn that keeps nothing.
LEMMA TurnMoves ==
  ASSUME ParsesInv, UNCHANGED <<parsed, plugin>>, NEW p \in Parsers, NEW q \in TurnRecords,
         parse' = [parse EXCEPT ![p] = q],
         q.step = "pages" => UnderWay(q),
         IsTold(q)
  PROVE  ParsesInv'
<1>1. parse' \in [Parsers -> TurnRecords]
  BY DEF ParsesInv
<1>2. \A r \in Parsers : parse'[r] = IF r = p THEN q ELSE parse[r]
  BY DEF ParsesInv
<1>3. KeepsFaultless'
  BY DEF ParsesInv, KeepsFaultless
<1>4. ASSUME NEW r PROVE UnderWay(r) => UnderWay(r)'
  BY DEF UnderWay
<1>5. \A r \in Parsers : IsTold(parse[r])'
  BY <1>2 DEF ParsesInv, IsTold
<1>6. \A r \in Parsers : parse'[r].step = "pages" => UnderWay(parse[r])'
  BY <1>2, <1>4 DEF ParsesInv
<1>7. QED
  BY <1>1, <1>3, <1>5, <1>6 DEF ParsesInv

\* A step that tells a turn one thing of one part.
LEMMA TellsOne ==
  ASSUME ParsesInv, UNCHANGED <<parsed, plugin>>, NEW p \in Parsers, NEW old \in TurnRecords,
         NEW doc \in DOMAIN Documents \cup {"none"}, NEW out \in Seq(Sentences),
         out \in {Unread, AsItIs} \/ TellsAll(doc, out),
         parse' = [parse EXCEPT ![p] = Told(old, doc, out)]
  PROVE  ParsesInv'
<1>0. /\ Told(old, doc, out) \in TurnRecords /\ Told(old, doc, out).step = "told"
      /\ Told(old, doc, out).doc = doc /\ Told(old, doc, out).out = out
  BY ONLY ToldRecord, old \in TurnRecords, doc \in DOMAIN Documents \cup {"none"}, out \in Seq(Sentences)
<1> DEFINE q == Told(old, doc, out)
<1>1. q \in TurnRecords /\ q.step = "told" /\ q.doc = doc /\ q.out = out
  BY <1>0
<1> HIDE DEF q
<1>2. IsTold(q)
  BY <1>1 DEF IsTold
<1>3. parse' = [parse EXCEPT ![p] = q]
  BY DEF q
<1>4. QED
  BY <1>1, <1>2, <1>3, TurnMoves

LEMMA ComesSound ==
  ASSUME ParsesInv, NEW p \in Parsers, Comes(p)
  PROVE  ParsesInv'
<1>1. UNCHANGED <<parsed, plugin>>
  BY DEF Comes
<1>2. PICK engine \in Engines :
        \/ parse' = [parse EXCEPT ![p] = Told(NotParsing, "none", AsItIs)]
        \/ parse' = [parse EXCEPT ![p] = [NotParsing EXCEPT !.step = "parts", !.engine = engine]]
  BY Zenon DEF Comes
<1>3. CASE parse' = [parse EXCEPT ![p] = Told(NotParsing, "none", AsItIs)]
  <2>1. "none" \in DOMAIN Documents \cup {"none"}
    OBVIOUS
  <2>2. QED
    BY <1>1, <1>3, <2>1, NotParsingTyped, ParsesWords, TellsOne
<1>4. CASE parse' = [parse EXCEPT ![p] = [NotParsing EXCEPT !.step = "parts", !.engine = engine]]
  <2> DEFINE r1 == [NotParsing EXCEPT !.step = "parts"]
             q == [r1 EXCEPT !.engine = engine]
  <2>1. parse' = [parse EXCEPT ![p] = q]
    BY <1>4
  <2>2. q.step = "parts"
    BY DEF NotParsing
  <2>3. r1 \in TurnRecords
    BY NotParsingTyped, ParsesWords DEF TurnRecords
  <2> HIDE DEF r1
  <2>4. q \in TurnRecords
    BY <2>3 DEF TurnRecords
  <2> HIDE DEF q
  <2>5. q.step # "pages" /\ IsTold(q)
    BY <2>2 DEF IsTold
  <2>6. QED
    BY <1>1, <2>1, <2>4, <2>5, TurnMoves
<1>5. QED
  BY <1>2, <1>3, <1>4

LEMMA AttachesSound ==
  ASSUME ParsesInv, NEW p \in Parsers, Attaches(p)
  PROVE  ParsesInv'
<1> DEFINE old == parse[p]
<1>1. UNCHANGED <<parsed, plugin>> /\ old \in TurnRecords
  BY DEF Attaches, ParsesInv
<1>2. PICK doc \in DOMAIN Documents :
        \/ parse' = [parse EXCEPT ![p] = Told(old, doc, AsItIs)]
        \/ parse' = [parse EXCEPT ![p] = Told(old, doc, Unread)]
        \/ doc \in DOMAIN parsed /\ parse' = [parse EXCEPT ![p] = Told(old, doc, parsed[doc])]
        \/ parse' = [parse EXCEPT ![p].step = "pages", ![p].doc = doc, ![p].out = <<>>,
                                  ![p].complete = TRUE]
  BY Zenon DEF Attaches
<1>3. doc \in DOMAIN Documents \cup {"none"}
  OBVIOUS
<1>4. ASSUME NEW out \in {Unread, AsItIs}, parse' = [parse EXCEPT ![p] = Told(old, doc, out)]
      PROVE  ParsesInv'
  <2>1. out \in Seq(Sentences)
    BY ParsesWords
  <2> HIDE DEF old
  <2>2. QED
    BY <1>1, <1>3, <1>4, <2>1, TellsOne
<1>5. CASE doc \in DOMAIN parsed /\ parse' = [parse EXCEPT ![p] = Told(old, doc, parsed[doc])]
  <2>1. PICK e \in Engines, reads \in BOOLEAN, limit \in PageLimits :
          parsed[doc] = Faultless(doc, e, reads, limit)
    BY <1>5 DEF ParsesInv, KeepsFaultless
  <2>2. TellsAll(doc, parsed[doc]) /\ parsed[doc] \in Seq(Sentences)
    BY <2>1, FaultlessTells
  <2> HIDE DEF old
  <2>3. QED
    BY <1>1, <1>3, <1>5, <2>2, TellsOne
<1>6. CASE parse' = [parse EXCEPT ![p].step = "pages", ![p].doc = doc, ![p].out = <<>>,
                                  ![p].complete = TRUE]
  <2> DEFINE r1 == [old EXCEPT !.step = "pages"]
             r2 == [r1 EXCEPT !.doc = doc]
             r3 == [r2 EXCEPT !.out = <<>>]
             q == [r3 EXCEPT !.complete = TRUE]
  <2>1. q.step = "pages" /\ q.doc = doc /\ q.out = <<>>
    BY <1>1 DEF TurnRecords
  <2>2. parse' = [parse EXCEPT ![p] = q]
    BY <1>6 DEF ParsesInv
  <2> HIDE DEF old
  <2>3. r1 \in TurnRecords
    BY <1>1, ParsesWords DEF TurnRecords
  <2> HIDE DEF r1
  <2>4. r2 \in TurnRecords
    BY <2>3 DEF TurnRecords
  <2> HIDE DEF r2
  <2>5. r3 \in TurnRecords
    BY <2>4, ParsesWords DEF TurnRecords
  <2> HIDE DEF r3
  <2>6. q \in TurnRecords
    BY <2>5 DEF TurnRecords
  <2> HIDE DEF q
  <2>7. UnderWay(q)
    <3>1. Taken(doc, plugin.pages) \in Nat
      BY PagesTaken, PluginLimit
    <3>2. Len(q.out) = 0
      BY <2>1
    <3>3. QED
      BY <2>1, <3>1, <3>2 DEF UnderWay
  <2>8. IsTold(q)
    BY <2>1 DEF IsTold
  <2>9. QED
    BY <1>1, <2>2, <2>6, <2>7, <2>8, TurnMoves
<1>7. QED
  BY <1>2, <1>4, <1>5, <1>6

LEMMA FailsSound ==
  ASSUME ParsesInv, NEW p \in Parsers, Fails(p)
  PROVE  ParsesInv'
<1> DEFINE old == parse[p]
           doc == old.doc
<1>1. /\ UNCHANGED <<parsed, plugin>> /\ old \in TurnRecords
      /\ parse' = [parse EXCEPT ![p] = Told(old, doc, Unread)]
  BY DEF Fails, ParsesInv
<1>2. doc \in DOMAIN Documents \cup {"none"}
  BY <1>1 DEF TurnRecords
<1> HIDE DEF old, doc
<1>3. QED
  BY <1>1, <1>2, ParsesWords, TellsOne

LEMMA ReadsPageSound ==
  ASSUME ParsesInv, NEW p \in Parsers, ReadsPage(p)
  PROVE  ParsesInv'
<1> DEFINE old == parse[p]
           page == Documents[old.doc][Len(old.out) + 1]
           taken == Taken(old.doc, plugin.pages)
<1>1. PICK section \in Sections(old.engine, page) :
        parse' = [parse EXCEPT ![p].out = Append(@, section[1]), ![p].complete = @ /\ section[2]]
  BY DEF ReadsPage
<1>2. /\ old \in TurnRecords /\ old.step = "pages" /\ UnderWay(old)
      /\ Len(old.out) < taken /\ UNCHANGED <<parsed, plugin>>
  BY DEF ReadsPage, ParsesInv
<1>3. /\ old.out \in Seq(Sentences) /\ old.complete \in BOOLEAN /\ old.doc \in DOMAIN Documents
      /\ Len(old.out) \in Nat /\ taken \in Nat
  BY <1>2, PagesTaken, PluginLimit DEF TurnRecords, UnderWay
<1>4. /\ section[1] \in Sentences /\ section[1] \in {"read", Extracted(page)}
      /\ section[2] \in BOOLEAN
      /\ section[2] =>
           section[1] = IF plugin.reader /\ Wants(old.engine, page) THEN "read" ELSE Extracted(page)
  <2> DEFINE wanted == Wants(old.engine, page)
             text == Extracted(page)
             reader == plugin.reader
  <2>1. \/ wanted /\ reader /\ section = <<"read", TRUE>>
        \/ section = <<text, FALSE>>
        \/ ~(wanted /\ reader) /\ section = <<text, TRUE>>
    BY DEF Sections
  <2>2. text \in Sentences /\ "read" \in Sentences
    BY DEF Sentences, Extracted
  <2> HIDE DEF wanted, text, reader
  <2>3. /\ section[1] \in Sentences /\ section[1] \in {"read", text}
        /\ section[2] \in BOOLEAN
        /\ section[2] => section[1] = IF reader /\ wanted THEN "read" ELSE text
    <3>1. CASE wanted /\ reader /\ section = <<"read", TRUE>>
      <4>1. section[1] = "read" /\ section[2] = TRUE
        BY <3>1
      <4>2. QED
        BY <2>2, <3>1, <4>1, Zenon
    <3>2. CASE section = <<text, FALSE>>
      <4>1. section[1] = text /\ section[2] = FALSE
        BY <3>2
      <4>2. QED
        BY <2>2, <4>1, Zenon
    <3>3. CASE ~(wanted /\ reader) /\ section = <<text, TRUE>>
      <4>1. section[1] = text /\ section[2] = TRUE
        BY <3>3
      <4>2. QED
        BY <2>2, <3>3, <4>1, Zenon
    <3>4. QED
      BY <2>1, <3>1, <3>2, <3>3
  <2>4. QED
    BY <2>3 DEF wanted, text, reader
<1> DEFINE r == [old EXCEPT !.out = Append(@, section[1])]
<1> DEFINE q == [r EXCEPT !.complete = @ /\ section[2]]
<1>5. parse' = [parse EXCEPT ![p] = q]
  BY <1>1 DEF ParsesInv
<1>6. /\ q.step = "pages" /\ q.doc = old.doc /\ q.engine = old.engine
      /\ q.out = Append(old.out, section[1]) /\ q.complete = (old.complete /\ section[2])
  BY <1>2 DEF TurnRecords
<1>7. Append(old.out, section[1]) \in Seq(Sentences)
  BY <1>3, <1>4
<1>8. r \in TurnRecords
  BY <1>2, <1>7 DEF TurnRecords
<1>9. r.complete \in BOOLEAN
  BY <1>2 DEF TurnRecords
<1> HIDE DEF r
<1>10. q \in TurnRecords
  BY <1>4, <1>8, <1>9 DEF TurnRecords
<1> HIDE DEF q
<1>11. UnderWay(q)
  <2>1. Len(q.out) = Len(old.out) + 1 /\ Len(q.out) <= Taken(q.doc, plugin.pages)
    BY <1>2, <1>3, <1>4, <1>6
  <2>2. ASSUME NEW n \in 1 .. Len(q.out)
        PROVE  /\ q.out[n] \in {"read", Extracted(Documents[q.doc][n])}
               /\ q.complete => q.out[n] = Line(q.doc, q.engine, plugin.reader, n)
    <3>1. CASE n = Len(q.out)
      <4>1. q.out[n] = section[1] /\ n = Len(old.out) + 1
        BY <1>3, <1>4, <1>6, <2>1, <3>1
      <4>2. QED
        BY <1>4, <1>6, <4>1 DEF Line
    <3>2. CASE n # Len(q.out)
      <4>1. q.out[n] = old.out[n] /\ n \in 1 .. Len(old.out)
        BY <1>3, <1>4, <1>6, <2>1, <3>2
      <4>2. QED
        BY <1>2, <1>6, <4>1 DEF UnderWay
    <3>3. QED
      BY <3>1, <3>2
  <2>3. QED
    BY <1>3, <1>6, <2>1, <2>2 DEF UnderWay
<1>12. IsTold(q)
  BY <1>6 DEF IsTold
<1>13. QED
  BY <1>2, <1>5, <1>10, <1>11, <1>12, TurnMoves

\* A parse that is over has a line for each page: the faultless ones, if it is complete.
LEMMA EndsSound ==
  ASSUME ParsesInv, NEW p \in Parsers, Ends(p)
  PROVE  ParsesInv'
<1> DEFINE old == parse[p]
           doc == old.doc
           limit == plugin.pages
           reader == plugin.reader
           cut == Cut(doc, limit)
           out == old.out \o cut
<1>1. /\ parse' = [parse EXCEPT ![p] = Told(old, doc, out)] /\ plugin' = plugin
      /\ (old.complete /\ parsed' = Keeping(doc, out)) \/ UNCHANGED parsed
      /\ Len(old.out) = Taken(doc, limit)
  BY DEF Ends, IsKept
<1>2. old \in TurnRecords /\ UnderWay(old)
  BY DEF Ends, ParsesInv
<1>3. limit \in PageLimits /\ reader \in BOOLEAN
  BY PluginLimit
<1>4. /\ old.out \in Seq(Sentences) /\ old.complete \in BOOLEAN /\ doc \in DOMAIN Documents
      /\ old.engine \in Engines /\ Len(old.out) \in Nat /\ Taken(doc, limit) \in Nat
      /\ cut \in Seq(Sentences) /\ Len(cut) \in Nat
  BY <1>2, <1>3, PagesTaken DEF TurnRecords, UnderWay
<1>5. \A n \in 1 .. Len(old.out) :
        /\ old.out[n] \in {"read", Extracted(Documents[doc][n])}
        /\ old.complete => old.out[n] = Line(doc, old.engine, reader, n)
  BY <1>2 DEF UnderWay
<1> HIDE DEF old, doc, limit, reader, cut
<1>6. /\ out \in Seq(Sentences) /\ Len(out) = Taken(doc, limit) + Len(cut)
      /\ \A n \in 1 .. Taken(doc, limit) : out[n] = old.out[n]
  BY <1>1, <1>4
<1>7. TellsAll(doc, out)
  <2> HIDE DEF out
  <2>1. TellsUpTo(doc, out, limit)
    BY <1>1, <1>5, <1>6 DEF TellsUpTo, cut
  <2>2. QED
    BY <1>3, <2>1, Zenon DEF TellsAll, TellsUpTo
<1>8. old.complete => out = Faultless(doc, old.engine, reader, limit)
  <2> SUFFICES ASSUME old.complete PROVE out = Faultless(doc, old.engine, reader, limit)
    OBVIOUS
  <2> DEFINE body == [n \in 1 .. Taken(doc, limit) |-> Line(doc, old.engine, reader, n)]
  <2>1. Faultless(doc, old.engine, reader, limit) = body \o cut
    BY Zenon DEF Faultless, Line, cut
  <2>2. body \in Seq(Sentences) /\ Len(body) = Taken(doc, limit)
    BY <1>4, LineIsOne
  <2>3. \A n \in 1 .. Taken(doc, limit) : body[n] = old.out[n]
    BY <1>1, <1>5
  <2> HIDE DEF body
  <2>4. body = old.out
    <3>1. Len(old.out) = Taken(doc, limit)
      BY <1>1
    <3>2. \A n \in 1 .. Len(old.out) : body[n] = old.out[n]
      BY <2>3, <3>1
    <3>3. old.out \in Seq(Sentences) /\ Len(body) = Len(old.out)
      BY <1>4, <2>2, <3>1
    <3> DEFINE u == old.out
    <3> HIDE DEF u
    <3>4. body \in Seq(Sentences) /\ u \in Seq(Sentences) /\ Len(body) = Len(u)
          /\ \A n \in 1 .. Len(u) : body[n] = u[n]
      BY <2>2, <3>2, <3>3 DEF u
    <3>5. body = u
      BY <3>4
    <3>6. QED
      BY <3>5 DEF u
  <2>5. QED
    BY <2>1, <2>4
<1> HIDE DEF out
<1> DEFINE q == Told(old, doc, out)
<1>9. q \in TurnRecords /\ q.step = "told" /\ q.doc = doc /\ q.out = out
  <2>1. doc \in DOMAIN Documents \cup {"none"}
    BY <1>4
  <2>2. old \in TurnRecords /\ out \in Seq(Sentences)
    BY <1>2, <1>6
  <2>3. QED
    BY ONLY <2>1, <2>2, ToldRecord DEF q
<1> HIDE DEF q
<1>10. IsTold(q)
  BY <1>7, <1>9 DEF IsTold
<1>11. parse' = [parse EXCEPT ![p] = q]
  BY <1>1 DEF q
<1>12. /\ DOMAIN parsed' \subseteq DOMAIN Documents
       /\ \A d \in DOMAIN parsed' :
            \/ d \in DOMAIN parsed /\ parsed'[d] = parsed[d]
            \/ d = doc /\ parsed'[d] = out /\ old.complete
  BY <1>1, <1>4 DEF ParsesInv, Keeping
<1>13. KeepsFaultless'
  <2> SUFFICES ASSUME NEW d \in DOMAIN parsed'
               PROVE  \E engine \in Engines, reads \in BOOLEAN, most \in PageLimits :
                        parsed'[d] = Faultless(d, engine, reads, most)
    BY DEF KeepsFaultless
  <2>1. CASE d \in DOMAIN parsed /\ parsed'[d] = parsed[d]
    BY <2>1 DEF ParsesInv, KeepsFaultless
  <2>2. CASE d = doc /\ parsed'[d] = out /\ old.complete
    BY <1>3, <1>4, <1>8, <2>2
  <2>3. QED
    BY <1>12, <2>1, <2>2
<1>14. parse' \in [Parsers -> TurnRecords]
  BY <1>9, <1>11 DEF ParsesInv
<1>15. \A r \in Parsers : parse'[r] = IF r = p THEN q ELSE parse[r]
  BY <1>11 DEF ParsesInv
<1>16. ASSUME NEW r PROVE UnderWay(r) => UnderWay(r)'
  BY <1>1 DEF UnderWay
<1>17. plugin' \in Plugins
  BY <1>1 DEF ParsesInv
<1>18. ASSUME NEW r \in Parsers
       PROVE  (parse'[r].step = "pages" => UnderWay(parse[r])') /\ IsTold(parse[r])'
  <2>1. CASE r = p
    BY <1>9, <1>10, <1>15, <2>1 DEF IsTold
  <2>2. CASE r # p
    <3>1. parse'[r] = parse[r]
      BY <1>15, <2>2
    <3>2. IsTold(parse[r]) /\ (parse[r].step = "pages" => UnderWay(parse[r]))
      BY DEF ParsesInv
    <3>3. QED
      BY <1>16, <3>1, <3>2 DEF IsTold
  <2>3. QED
    BY <2>1, <2>2
<1>19. QED
  BY <1>12, <1>13, <1>14, <1>17, <1>18 DEF ParsesInv

LEMMA ReconfiguresSound ==
  ASSUME ParsesInv, Reconfigures
  PROVE  ParsesInv'
<1>1. /\ parse' = [p \in Parsers |-> NotParsing] /\ plugin' \in Plugins /\ parsed' = parsed
  BY DEF Reconfigures
<1>2. NotParsing \in TurnRecords /\ NotParsing.step = "idle"
  BY NotParsingTyped DEF NotParsing
<1>3. QED
  BY <1>1, <1>2 DEF ParsesInv, KeepsFaultless, IsTold

LEMMA ParsesStart == Init => ParsesInv
<1> SUFFICES ASSUME Init PROVE ParsesInv
  OBVIOUS
<1>1. /\ parse = [p \in Parsers |-> NotParsing] /\ plugin \in Plugins
      /\ parsed = <<>>
  BY DEF Init, ParsesInit
<1>2. NotParsing \in TurnRecords /\ NotParsing.step = "idle"
  BY NotParsingTyped DEF NotParsing
<1>3. DOMAIN parsed = {}
  BY <1>1
<1>4. QED
  BY <1>1, <1>2, <1>3 DEF ParsesInv, KeepsFaultless, IsTold

LEMMA ParsesStep == ParsesInv /\ [Next]_vars => ParsesInv'
<1> SUFFICES ASSUME ParsesInv, [Next]_vars PROVE ParsesInv'
  OBVIOUS
<1>1. CASE UNCHANGED parsesVars
  BY <1>1 DEF parsesVars, ParsesInv, KeepsFaultless, UnderWay, IsTold
<1>2. CASE ParsesNext
  BY <1>2, ComesSound, AttachesSound, FailsSound, ReadsPageSound, EndsSound, ReconfiguresSound DEF ParsesNext
<1>3. QED
  BY <1>1, <1>2, ParsesSteps DEF vars

-----------------------------------------------------------------------------
(* DocsFresh follows of both. *)

LEMMA DocsInvIsFresh ==
  ASSUME DocsInv, ParsesInv
  PROVE  DocsFresh
<1>1. ParsesKept
  BY DEF ParsesInv, ParsesKept, ToldOfAll, IsTold
<1>2. ASSUME NEW f \in Finders, find[f].step = "told"
      PROVE  LET d == find[f]
                 fresh(said, fetches) == d.at - said <= Ttl + fetches * FetchTime + back
             IN  /\ d.answer = "text" => fresh(d.text, 1) /\ (d.search >= 0 => fresh(d.search, 2))
                 /\ d.answer = "text" /\ d.text < Written => d.text >= d.began
                 /\ d.answer = "no library" => d.search >= d.began
  <2>1. TextFresh(find[f]) /\ (find[f].answer = "no library" => find[f].search >= find[f].began)
    BY <1>2 DEF DocsInv, CallSound
  <2>2. 1 * FetchTime = FetchTime /\ Ttl + 1 * FetchTime + back = Ttl + FetchTime + back
    BY SpansAreNaturals DEF DocsInv, DocsTyped
  <2>3. QED
    BY <2>1, <2>2 DEF TextFresh
<1>3. QED
  BY <1>1, <1>2 DEF DocsFresh

\* docs.rs, pdf.rs: a text of the documentation cache is no older than the time to live and a
\* fetch allow, the search it rests on than another fetch, and as much as the clock was set
\* back; what was not found was not there after the call began; what is kept of a document is
\* a faultless parse, and what is told of it is all of it.
THEOREM AnswersAreFresh == Spec => []DocsFresh
<1>1. Init => DocsInv /\ ParsesInv
  BY DocsInit, ParsesStart
<1>2. DocsInv /\ ParsesInv /\ [Next]_vars => (DocsInv /\ ParsesInv)'
  BY DocsStep, ParsesStep
<1>3. DocsInv /\ ParsesInv => DocsFresh
  BY DocsInvIsFresh
<1>4. QED
  BY <1>1, <1>2, <1>3, PTL DEF Spec

-----------------------------------------------------------------------------
(* capture.rs: what pruning leaves. *)

CaptureSteps == {"idle", "finished", "pruning", "removing", "over"}

AttemptRecords == [step : CaptureSteps, added : Int, listed : SUBSET Artifacts, failed : BOOLEAN]

CaptureTyped ==
  /\ moment \in Int /\ back \in Nat
  /\ files \in [Artifacts -> [on : BOOLEAN, at : Int, seq : Int]]
  /\ attempt \in [Attempts -> AttemptRecords]

Newer(a) == {b \in Captured : Before(a, b)}

\* May be removed.
Doomed(a) == moment - files[a].at > MaxAge \/ Cardinality(Newer(a)) >= MaxFiles

\* Was written, or will not be.
Spent(a) ==
  /\ a[2] <= attempt[a[1]].added
  /\ OnError => attempt[a[1]].step # "idle"

\* The inductive invariant: an artifact is written once; what a pruning has listed may still be
\* removed when it comes to it, whatever the others wrote and removed in between.
CaptureInv ==
  /\ CaptureTyped
  /\ \A a \in Artifacts : files[a].on => Spent(a)
  /\ \A t \in Attempts : \A a \in attempt[t].listed : Spent(a) /\ (files[a].on => Doomed(a))

LEMMA LimitsAreNaturals == MaxFiles \in Nat /\ MaxAge \in Nat /\ IsFiniteSet(Artifacts)
<1>1. IsFiniteSet(1 .. 2)
  <2>1. 1 \in Int /\ 2 \in Int
    OBVIOUS
  <2>2. QED
    BY <2>1, FS_Interval
<1>2. QED
  BY <1>1, FS_Product, StoresAssumption DEF Artifacts

LEMMA SomeArtifacts ==
  ASSUME NEW S, S \subseteq Artifacts
  PROVE  /\ IsFiniteSet(S) /\ Cardinality(S) \in Nat
         /\ \A T : T \subseteq S => Cardinality(T) <= Cardinality(S) /\ Cardinality(T) \in Nat
<1>1. IsFiniteSet(S)
  BY LimitsAreNaturals, FS_Subset
<1>2. QED
  BY <1>1, FS_Subset, FS_CardinalityType

LEMMA BeforeIsTransitive ==
  ASSUME CaptureTyped, NEW a \in Artifacts, NEW b \in Artifacts, NEW c \in Artifacts,
         Before(a, b), Before(b, c)
  PROVE  Before(a, c) /\ a # b /\ files[a].at <= files[b].at
<1>1. \A d \in Artifacts : files[d].at \in Int /\ files[d].seq \in Int
  BY DEF CaptureTyped
<1>2. QED
  BY <1>1 DEF Before

LEMMA CapturesStep ==
  ASSUME Next
  PROVE  \/ CaptureNext /\ UNCHANGED <<store, clockVars>>
         \/ UNCHANGED <<store, captureVars>> /\ (UNCHANGED clockVars \/ Tick \/ SetBack)
         \/ /\ attempt' = [t \in Attempts |-> [attempt[t] EXCEPT !.step = "over"]]
            /\ UNCHANGED <<store, clockVars, files>>
  BY DEF Next, Crash, captureVars, clockVars, Tick, SetBack

\* What is on disk is not written again.
Rewrites(a) == ~Spent(a) /\ Spent(a)'

\* A step of one attempt that removes nothing.
LEMMA AttemptMoves ==
  ASSUME CaptureInv, UNCHANGED <<store, clockVars>>, NEW t \in Attempts, NEW q \in AttemptRecords,
         attempt' = [attempt EXCEPT ![t] = q],
         q.added >= attempt[t].added, attempt[t].step # "idle" => q.step # "idle",
         files' \in [Artifacts -> [on : BOOLEAN, at : Int, seq : Int]],
         \A a \in Artifacts : files'[a] = files[a] \/ Rewrites(a),
         \A a \in q.listed : Spent(a) /\ (files[a].on => Doomed(a))
  PROVE  CaptureInv'
<1>1. attempt' \in [Attempts -> AttemptRecords]
  BY DEF CaptureInv, CaptureTyped
<1>2. moment' = moment /\ back' = back /\ store' = store
  BY DEF clockVars
<1>3. CaptureTyped'
  BY <1>1, <1>2 DEF CaptureInv, CaptureTyped
<1>4. \A u \in Attempts : attempt'[u] = IF u = t THEN q ELSE attempt[u]
  BY DEF CaptureInv, CaptureTyped
<1>5. ASSUME NEW a \in Artifacts, Spent(a) PROVE Spent(a)' /\ files'[a] = files[a]
  <2>1. a[1] \in Attempts /\ a[2] \in Int
    BY DEF Artifacts
  <2>2. attempt[a[1]].added \in Int /\ attempt'[a[1]].added \in Int
    BY <1>1, <2>1 DEF AttemptRecords, CaptureInv, CaptureTyped
  <2>3. attempt'[a[1]].added >= attempt[a[1]].added
    BY <1>4, <2>1, <2>2
  <2>4. attempt[a[1]].step # "idle" => attempt'[a[1]].step # "idle"
    BY <1>4, <2>1
  <2>5. a[2] <= attempt'[a[1]].added
    BY <1>5, <2>1, <2>2, <2>3 DEF Spent
  <2>6. Spent(a)'
    BY <1>2, <1>5, <2>4, <2>5 DEF Spent, OnError
  <2>7. QED
    BY <1>5, <2>6 DEF Rewrites
<1>6. ASSUME NEW a \in Artifacts, files[a].on, Doomed(a) PROVE Doomed(a)'
  <2>1. \A b \in Artifacts : files[b].on => files'[b] = files[b]
    BY <1>5 DEF CaptureInv
  <2>2. Newer(a) \subseteq Newer(a)'
    BY <1>6, <2>1 DEF Newer, Captured, Before
  <2>3. Newer(a)' \subseteq Artifacts
    BY DEF Newer, Captured
  <2>4. Cardinality(Newer(a)) <= Cardinality(Newer(a)') /\ Cardinality(Newer(a)) \in Nat
        /\ Cardinality(Newer(a)') \in Nat
    BY <2>2, <2>3, SomeArtifacts
  <2>5. QED
    BY <1>2, <1>6, <2>1, <2>4, LimitsAreNaturals DEF Doomed
<1>7. ASSUME NEW a \in Artifacts, files'[a].on PROVE Spent(a)'
  BY <1>5, <1>7 DEF CaptureInv, Rewrites
<1>8. ASSUME NEW u \in Attempts, NEW a \in attempt'[u].listed
      PROVE  Spent(a)' /\ (files'[a].on => Doomed(a)')
  <2>1. Spent(a) /\ (files[a].on => Doomed(a))
    BY <1>4 DEF CaptureInv
  <2>2. a \in Artifacts
    BY <1>1 DEF AttemptRecords
  <2>3. QED
    BY <1>5, <1>6, <2>1, <2>2
<1>9. QED
  BY <1>3, <1>7, <1>8 DEF CaptureInv

\* An artifact that is written now was not before.
LEMMA WrittenTyped ==
  ASSUME CaptureTyped, NEW as
  PROVE  WrittenNow(as) \in [Artifacts -> [on : BOOLEAN, at : Int, seq : Int]]
<1> DEFINE sofar == Cardinality({a \in Artifacts : files[a].seq > 0})
<1>1. sofar \in Nat
  BY SomeArtifacts
<1>2. Now \in Int
  BY DEF Now, CaptureTyped
<1>3. WrittenNow(as) = [a \in Artifacts |->
         IF a \in as THEN [on |-> TRUE, at |-> Now, seq |-> 2 * sofar + a[2]] ELSE files[a]]
  BY DEF WrittenNow
<1> HIDE DEF sofar
<1>4. ASSUME NEW a \in Artifacts
      PROVE  [on |-> TRUE, at |-> Now, seq |-> 2 * sofar + a[2]] \in [on : BOOLEAN, at : Int, seq : Int]
  <2>1. a[2] \in Int
    BY DEF Artifacts
  <2>2. 2 * sofar + a[2] \in Int
    BY <1>1, <2>1
  <2>3. QED
    BY <1>2, <2>2
<1>5. QED
  BY <1>3, <1>4 DEF CaptureTyped

LEMMA AttemptFields ==
  ASSUME NEW r \in AttemptRecords
  PROVE  /\ \A v \in CaptureSteps :
              /\ [r EXCEPT !.step = v] \in AttemptRecords /\ [r EXCEPT !.step = v].step = v
              /\ [r EXCEPT !.step = v].added = r.added /\ [r EXCEPT !.step = v].listed = r.listed
         /\ \A v \in Int :
              /\ [r EXCEPT !.added = v] \in AttemptRecords /\ [r EXCEPT !.added = v].step = r.step
              /\ [r EXCEPT !.added = v].added = v /\ [r EXCEPT !.added = v].listed = r.listed
         /\ \A v \in SUBSET Artifacts :
              /\ [r EXCEPT !.listed = v] \in AttemptRecords /\ [r EXCEPT !.listed = v].step = r.step
              /\ [r EXCEPT !.listed = v].added = r.added /\ [r EXCEPT !.listed = v].listed = v
         /\ \A v \in BOOLEAN :
              /\ [r EXCEPT !.failed = v] \in AttemptRecords /\ [r EXCEPT !.failed = v].step = r.step
              /\ [r EXCEPT !.failed = v].added = r.added /\ [r EXCEPT !.failed = v].listed = r.listed
<1>1. \A v \in CaptureSteps :
        /\ [r EXCEPT !.step = v] \in AttemptRecords /\ [r EXCEPT !.step = v].step = v
        /\ [r EXCEPT !.step = v].added = r.added /\ [r EXCEPT !.step = v].listed = r.listed
  BY DEF AttemptRecords
<1>2. \A v \in Int :
        /\ [r EXCEPT !.added = v] \in AttemptRecords /\ [r EXCEPT !.added = v].step = r.step
        /\ [r EXCEPT !.added = v].added = v /\ [r EXCEPT !.added = v].listed = r.listed
  BY DEF AttemptRecords
<1>3. \A v \in SUBSET Artifacts :
        /\ [r EXCEPT !.listed = v] \in AttemptRecords /\ [r EXCEPT !.listed = v].step = r.step
        /\ [r EXCEPT !.listed = v].added = r.added /\ [r EXCEPT !.listed = v].listed = v
  BY DEF AttemptRecords
<1>4. \A v \in BOOLEAN :
        /\ [r EXCEPT !.failed = v] \in AttemptRecords /\ [r EXCEPT !.failed = v].step = r.step
        /\ [r EXCEPT !.failed = v].added = r.added /\ [r EXCEPT !.failed = v].listed = r.listed
  BY DEF AttemptRecords
<1>5. QED
  BY <1>1, <1>2, <1>3, <1>4

LEMMA CaptureWords ==
  /\ "idle" \in CaptureSteps /\ "finished" \in CaptureSteps /\ "pruning" \in CaptureSteps
  /\ "removing" \in CaptureSteps /\ "over" \in CaptureSteps
  BY DEF CaptureSteps

LEMMA AddsSound ==
  ASSUME CaptureInv, UNCHANGED <<store, clockVars>>, NEW t \in Attempts, Adds(t)
  PROVE  CaptureInv'
<1> DEFINE r == attempt[t]
<1> DEFINE q == [r EXCEPT !.added = r.added + 1]
<1>1. r \in AttemptRecords /\ r.added \in Int /\ \A a \in r.listed : Spent(a) /\ (files[a].on => Doomed(a))
  BY DEF CaptureInv, CaptureTyped, AttemptRecords
<1>2. /\ attempt' = [attempt EXCEPT ![t] = q] /\ r.step = "idle"
      /\ files' = IF OnError THEN files ELSE WrittenNow({<<t, r.added + 1>>})
  BY DEF Adds, CaptureInv, CaptureTyped
<1>3. q \in AttemptRecords /\ q.step = r.step /\ q.added = r.added + 1 /\ q.listed = r.listed
  <2>1. r.added + 1 \in Int
    BY <1>1
  <2>2. QED
    BY <1>1, <2>1, AttemptFields
<1>4. files' \in [Artifacts -> [on : BOOLEAN, at : Int, seq : Int]]
  BY <1>2, WrittenTyped DEF CaptureInv, CaptureTyped
<1> HIDE DEF q, r
<1>5. ASSUME NEW a \in Artifacts PROVE files'[a] = files[a] \/ Rewrites(a)
  <2>1. CASE OnError \/ a # <<t, r.added + 1>>
    BY <1>2, <2>1 DEF WrittenNow
  <2>2. CASE ~OnError /\ a = <<t, r.added + 1>>
    <3>1. a[1] = t /\ a[2] = r.added + 1
      BY <2>2
    <3>2. attempt[t].added = r.added /\ attempt'[t].added = r.added + 1
      BY <1>2, <1>3 DEF r, CaptureInv, CaptureTyped
    <3>3. ~OnError'
      BY <2>2 DEF OnError
    <3>4. QED
      BY <1>1, <3>1, <3>2, <3>3 DEF Rewrites, Spent
  <2>3. QED
    BY <2>1, <2>2
<1>6. q.added >= attempt[t].added /\ (attempt[t].step # "idle" => q.step # "idle")
  BY <1>1, <1>2, <1>3 DEF r
<1>7. \A a \in q.listed : Spent(a) /\ (files[a].on => Doomed(a))
  BY <1>1, <1>3
<1>8. QED
  BY <1>2, <1>3, <1>4, <1>5, <1>6, <1>7, AttemptMoves

LEMMA FinishesSound ==
  ASSUME CaptureInv, UNCHANGED <<store, clockVars>>, NEW t \in Attempts, Finishes(t)
  PROVE  CaptureInv'
<1> DEFINE r == attempt[t]
<1> DEFINE as == {<<t, n>> : n \in 1 .. r.added}
<1>1. r \in AttemptRecords /\ r.added \in Int /\ \A a \in r.listed : Spent(a) /\ (files[a].on => Doomed(a))
  BY DEF CaptureInv, CaptureTyped, AttemptRecords
<1>2. PICK failed \in BOOLEAN :
        /\ files' = IF OnError /\ failed THEN WrittenNow(as) ELSE files
        /\ attempt' = [attempt EXCEPT ![t].step = "finished", ![t].failed = failed]
  BY DEF Finishes
<1> DEFINE q1 == [r EXCEPT !.step = "finished"]
<1> DEFINE q == [q1 EXCEPT !.failed = failed]
<1>3. attempt' = [attempt EXCEPT ![t] = q]
  BY <1>2 DEF CaptureInv, CaptureTyped
<1>4. /\ q1 \in AttemptRecords /\ q1.step = "finished" /\ q1.added = r.added
      /\ q1.listed = r.listed
  BY <1>1, AttemptFields, CaptureWords
<1> HIDE DEF q1
<1>5. q \in AttemptRecords /\ q.step = "finished" /\ q.added = r.added /\ q.listed = r.listed
  BY <1>4, AttemptFields
<1> HIDE DEF q
<1>6. files' \in [Artifacts -> [on : BOOLEAN, at : Int, seq : Int]]
  BY <1>2, WrittenTyped DEF CaptureInv, CaptureTyped
<1>7. ASSUME NEW a \in Artifacts PROVE files'[a] = files[a] \/ Rewrites(a)
  <2>1. CASE ~OnError \/ a \notin as
    BY <1>2, <2>1 DEF WrittenNow
  <2>2. CASE OnError /\ a \in as
    <3>1. a[1] = t /\ a[2] <= r.added
      BY <1>1, <2>2
    <3>2. attempt[t].step = "idle" /\ attempt'[t] = q
      BY <1>3 DEF Finishes, CaptureInv, CaptureTyped
    <3>3. ~Spent(a)
      BY <2>2, <3>1, <3>2 DEF Spent
    <3>4. Spent(a)'
      BY <1>5, <3>1, <3>2 DEF Spent
    <3>5. QED
      BY <3>3, <3>4 DEF Rewrites
  <2>3. QED
    BY <2>1, <2>2
<1>8. q.added >= attempt[t].added /\ (attempt[t].step # "idle" => q.step # "idle")
  BY <1>1, <1>5
<1>9. \A a \in q.listed : Spent(a) /\ (files[a].on => Doomed(a))
  BY <1>1, <1>5
<1>10. QED
  BY <1>3, <1>5, <1>6, <1>7, <1>8, <1>9, AttemptMoves

LEMMA PassesSound ==
  ASSUME CaptureInv, UNCHANGED <<store, clockVars>>, NEW t \in Attempts, Passes(t)
  PROVE  CaptureInv'
<1> DEFINE r == attempt[t]
<1> DEFINE step == IF Due THEN "pruning" ELSE "over"
<1> DEFINE q == [r EXCEPT !.step = step]
<1>1. r \in AttemptRecords /\ r.added \in Int /\ \A a \in r.listed : Spent(a) /\ (files[a].on => Doomed(a))
  BY DEF CaptureInv, CaptureTyped, AttemptRecords
<1>2. attempt' = [attempt EXCEPT ![t] = q] /\ files' = files
  BY DEF Passes, CaptureInv, CaptureTyped
<1>3. step \in CaptureSteps /\ step # "idle"
  BY CaptureWords
<1>4. q \in AttemptRecords /\ q.step = step /\ q.added = r.added /\ q.listed = r.listed
  BY <1>1, <1>3, AttemptFields
<1> HIDE DEF q, step
<1>5. files' \in [Artifacts -> [on : BOOLEAN, at : Int, seq : Int]]
  BY <1>2 DEF CaptureInv, CaptureTyped
<1>6. q.added >= attempt[t].added /\ (attempt[t].step # "idle" => q.step # "idle")
  BY <1>1, <1>3, <1>4
<1>7. \A a \in q.listed : Spent(a) /\ (files[a].on => Doomed(a))
  BY <1>1, <1>4
<1>8. \A a \in Artifacts : files'[a] = files[a] \/ Rewrites(a)
  BY <1>2
<1>9. QED
  BY <1>2, <1>4, <1>5, <1>6, <1>7, <1>8, AttemptMoves

LEMMA ExcessIsDoomed ==
  ASSUME CaptureTyped, NEW a \in Excess(Captured)
  PROVE  a \in Artifacts /\ files[a].on /\ Doomed(a)
<1> DEFINE live == {b \in Captured : ~Older(b)}
<1> DEFINE newer == {b \in live : Before(a, b)}
<1>1. a \in Captured /\ (a \notin live \/ Cardinality(newer) >= MaxFiles)
  BY DEF Excess
<1>2. a \in Artifacts /\ files[a].on /\ files[a].at \in Int
  BY <1>1 DEF Captured, CaptureTyped
<1>3. CASE a \notin live
  <2>1. Now - files[a].at > MaxAge
    BY <1>1, <1>3 DEF Older
  <2>2. QED
    BY <1>2, <2>1, LimitsAreNaturals DEF Doomed, Now, CaptureTyped
<1>4. CASE Cardinality(newer) >= MaxFiles
  <2>1. newer \subseteq Newer(a) /\ Newer(a) \subseteq Artifacts
    BY DEF Newer, Captured
  <2> HIDE DEF newer
  <2>2. /\ Cardinality(newer) <= Cardinality(Newer(a)) /\ Cardinality(newer) \in Nat
        /\ Cardinality(Newer(a)) \in Nat
    BY <2>1, SomeArtifacts
  <2>3. Cardinality(Newer(a)) >= MaxFiles
    BY <1>4, <2>2, LimitsAreNaturals
  <2>4. QED
    BY <1>2, <2>3 DEF Doomed
<1>5. QED
  BY <1>1, <1>3, <1>4

LEMMA ListsSound ==
  ASSUME CaptureInv, UNCHANGED <<store, clockVars>>, NEW t \in Attempts, Lists(t)
  PROVE  CaptureInv'
<1> DEFINE r == attempt[t]
<1> DEFINE listed == Excess(Captured)
<1> DEFINE q1 == [r EXCEPT !.step = "removing"]
<1> DEFINE q == [q1 EXCEPT !.listed = listed]
<1>1. r \in AttemptRecords /\ r.added \in Int
  BY DEF CaptureInv, CaptureTyped, AttemptRecords
<1>2. attempt' = [attempt EXCEPT ![t] = q] /\ files' = files
  BY DEF Lists, CaptureInv, CaptureTyped
<1>3. \A a \in listed : a \in Artifacts /\ files[a].on /\ Doomed(a)
  BY ExcessIsDoomed DEF CaptureInv
<1> HIDE DEF listed
<1>4. listed \in SUBSET Artifacts
  BY <1>3
<1>5. q1 \in AttemptRecords /\ q1.step = "removing" /\ q1.added = r.added
  BY <1>1, AttemptFields, CaptureWords
<1> HIDE DEF q1
<1>6. q \in AttemptRecords /\ q.step = "removing" /\ q.added = r.added /\ q.listed = listed
  BY <1>4, <1>5, AttemptFields
<1> HIDE DEF q
<1>7. files' \in [Artifacts -> [on : BOOLEAN, at : Int, seq : Int]]
  BY <1>2 DEF CaptureInv, CaptureTyped
<1>8. q.added >= attempt[t].added /\ (attempt[t].step # "idle" => q.step # "idle")
  BY <1>1, <1>6
<1>9. \A a \in q.listed : Spent(a) /\ (files[a].on => Doomed(a))
  BY <1>3, <1>4, <1>6 DEF CaptureInv
<1>10. \A a \in Artifacts : files'[a] = files[a] \/ Rewrites(a)
  BY <1>2
<1>11. QED
  BY <1>2, <1>6, <1>7, <1>8, <1>9, <1>10, AttemptMoves

\* An artifact that may be removed may still be when another one that might was.
LEMMA DoomedStays ==
  ASSUME CaptureInv, UNCHANGED <<store, clockVars>>,
         NEW b \in Artifacts, files[b].on => Doomed(b),
         files' = [files EXCEPT ![b].on = FALSE],
         NEW a \in Artifacts, files[a].on, a # b, Doomed(a)
  PROVE  Doomed(a)'
<1>1. /\ moment' = moment /\ moment \in Int
      /\ \A c \in Artifacts : /\ files[c].at \in Int /\ files'[c].at = files[c].at
                             /\ files'[c].seq = files[c].seq
                             /\ files'[c].on = IF c = b THEN FALSE ELSE files[c].on
  BY DEF clockVars, CaptureInv, CaptureTyped
<1>2. Newer(a)' = Newer(a) \ {b}
  BY <1>1 DEF Newer, Captured, Before
<1>3. Newer(a) \subseteq Artifacts
  BY DEF Newer, Captured
<1>4. /\ Cardinality(Newer(a)) \in Nat /\ Cardinality(Newer(a)') \in Nat
  <2>1. Newer(a)' \subseteq Artifacts
    BY <1>2, <1>3
  <2>2. QED
    BY <1>3, <2>1, SomeArtifacts
<1>5. CASE moment - files[a].at > MaxAge
  BY <1>1, <1>5 DEF Doomed
<1>6. CASE b \notin Newer(a)
  BY <1>1, <1>2, <1>6 DEF Doomed
<1>7. CASE b \in Newer(a) /\ ~(moment - files[a].at > MaxAge)
  <2>1. files[b].on /\ Before(a, b) /\ Doomed(b)
    BY <1>7 DEF Newer, Captured
  <2> DEFINE atA == files[a].at
  <2> DEFINE atB == files[b].at
  <2>2. atA \in Int /\ atB \in Int /\ moment \in Int /\ MaxAge \in Int
    BY LimitsAreNaturals DEF CaptureInv, CaptureTyped
  <2>3. ~(moment - atB > MaxAge)
    <3>1. atA < atB \/ atA = atB
      BY <2>1 DEF Before
    <3>2. ~(moment - atA > MaxAge)
      BY <1>7
    <3> HIDE DEF atA, atB
    <3>3. QED
      BY <2>2, <3>1, <3>2
  <2>4. Cardinality(Newer(b)) >= MaxFiles
    BY <2>1, <2>3 DEF Doomed
  <2>5. Newer(b) \subseteq Newer(a) \ {b}
    <3>1. ASSUME NEW c \in Newer(b) PROVE c \in Newer(a) /\ c # b
      <4>1. c \in Captured /\ c \in Artifacts /\ Before(b, c)
        BY <3>1 DEF Newer, Captured
      <4>2. Before(a, c) /\ b # c
        BY <2>1, <4>1, BeforeIsTransitive, <1>1 DEF CaptureInv, Before, CaptureTyped
      <4>3. QED
        BY <4>1, <4>2 DEF Newer
    <3>2. QED
      BY <3>1
  <2>6. Newer(a) \ {b} \subseteq Artifacts
    BY <1>3
  <2>7. Cardinality(Newer(b)) <= Cardinality(Newer(a) \ {b}) /\ Cardinality(Newer(b)) \in Nat
    BY <2>5, <2>6, SomeArtifacts
  <2>8. Cardinality(Newer(a)') >= MaxFiles
    BY <1>2, <1>4, <2>4, <2>7, LimitsAreNaturals
  <2>9. QED
    BY <2>8 DEF Doomed
<1>8. QED
  BY <1>5, <1>6, <1>7

\* The other artifacts stay as they are.
LEMMA RemovesSound ==
  ASSUME CaptureInv, UNCHANGED <<store, clockVars>>, NEW t \in Attempts, Removes(t)
  PROVE  CaptureInv'
<1> DEFINE r == attempt[t]
<1>1. r \in AttemptRecords /\ r.added \in Int /\ r.step = "removing"
  BY DEF Removes, CaptureInv, CaptureTyped, AttemptRecords
<1>2. CASE /\ attempt' = [attempt EXCEPT ![t].step = "over"] /\ UNCHANGED files
  <2> DEFINE q == [r EXCEPT !.step = "over"]
  <2>1. attempt' = [attempt EXCEPT ![t] = q] /\ files' = files
    BY <1>2 DEF CaptureInv, CaptureTyped
  <2>2. q \in AttemptRecords /\ q.step = "over" /\ q.added = r.added /\ q.listed = r.listed
    BY <1>1, AttemptFields, CaptureWords
  <2> HIDE DEF q
  <2>3. files' \in [Artifacts -> [on : BOOLEAN, at : Int, seq : Int]]
    BY <2>1 DEF CaptureInv, CaptureTyped
  <2>4. q.added >= attempt[t].added /\ (attempt[t].step # "idle" => q.step # "idle")
    BY <1>1, <2>2
  <2>5. \A a \in q.listed : Spent(a) /\ (files[a].on => Doomed(a))
    BY <2>2 DEF CaptureInv
  <2>6. \A a \in Artifacts : files'[a] = files[a] \/ Rewrites(a)
    BY <2>1
  <2>7. QED
    BY <2>1, <2>2, <2>3, <2>4, <2>5, <2>6, AttemptMoves
<1>3. ASSUME NEW b \in r.listed,
             attempt' = [attempt EXCEPT ![t].listed = @ \ {b}],
             files' = [files EXCEPT ![b].on = FALSE]
      PROVE  CaptureInv'
  <2>1. b \in Artifacts /\ (files[b].on => Doomed(b))
    BY <1>1 DEF CaptureInv, AttemptRecords
  <2> DEFINE left == r.listed \ {b}
  <2> DEFINE q == [r EXCEPT !.listed = left]
  <2>2. attempt' = [attempt EXCEPT ![t] = q]
    BY <1>3 DEF CaptureInv, CaptureTyped
  <2>3. left \in SUBSET Artifacts
    BY <1>1 DEF AttemptRecords
  <2> HIDE DEF left
  <2>4. q \in AttemptRecords /\ q.step = r.step /\ q.added = r.added /\ q.listed = left
    BY <1>1, <2>3, AttemptFields
  <2> HIDE DEF q
  <2>5. attempt' \in [Attempts -> AttemptRecords]
    BY <2>2, <2>4 DEF CaptureInv, CaptureTyped
  <2>6. \A u \in Attempts :
          /\ attempt'[u].step = attempt[u].step /\ attempt'[u].added = attempt[u].added
          /\ attempt'[u].listed \subseteq attempt[u].listed
          /\ b \in attempt'[u].listed => u # t
    BY <2>2, <2>4 DEF CaptureInv, CaptureTyped, left
  <2>7. files' \in [Artifacts -> [on : BOOLEAN, at : Int, seq : Int]]
    BY <1>3, <2>1 DEF CaptureInv, CaptureTyped
  <2>8. \A a \in Artifacts : files'[a].on => files[a].on /\ a # b
    BY <1>3, <2>1 DEF CaptureInv, CaptureTyped
  <2>9. CaptureTyped'
    BY <2>5, <2>7 DEF CaptureInv, CaptureTyped, clockVars
  <2>10. ASSUME NEW a \in Artifacts, Spent(a) PROVE Spent(a)'
    <3>1. a[1] \in Attempts
      BY DEF Artifacts
    <3>2. QED
      BY <2>6, <2>10, <3>1 DEF Spent, OnError
  <2>11. ASSUME NEW a \in Artifacts, files'[a].on PROVE Spent(a)'
    BY <2>8, <2>10, <2>11 DEF CaptureInv
  <2>12. ASSUME NEW u \in Attempts, NEW a \in attempt'[u].listed
         PROVE  Spent(a)' /\ (files'[a].on => Doomed(a)')
    <3>1. a \in Artifacts /\ Spent(a) /\ (files[a].on => Doomed(a))
      BY <2>6, <2>12 DEF CaptureInv, CaptureTyped, AttemptRecords
    <3>2. CASE files'[a].on
      BY <1>3, <2>1, <2>8, <2>10, <3>1, <3>2, DoomedStays
    <3>3. QED
      BY <2>10, <3>1, <3>2
  <2>13. QED
    BY <2>9, <2>11, <2>12 DEF CaptureInv
<1>4. QED
  BY <1>2, <1>3 DEF Removes

LEMMA CaptureStart == Init => CaptureInv
<1> SUFFICES ASSUME Init PROVE CaptureInv
  OBVIOUS
<1>1. /\ files = [a \in Artifacts |-> [on |-> FALSE, at |-> 0, seq |-> 0]]
      /\ attempt = [t \in Attempts |-> NotBegun] /\ moment = 0 /\ back = 0
  BY DEF Init
<1>2. NotBegun \in AttemptRecords /\ NotBegun.listed = {}
  BY CaptureWords DEF NotBegun, AttemptRecords
<1>3. QED
  BY <1>1, <1>2 DEF CaptureInv, CaptureTyped

LEMMA CaptureStep == CaptureInv /\ [Next]_vars => CaptureInv'
<1> SUFFICES ASSUME CaptureInv, [Next]_vars PROVE CaptureInv'
  OBVIOUS
<1>1. CASE UNCHANGED <<store, captureVars, clockVars>>
  BY <1>1 DEF captureVars, clockVars, CaptureInv, CaptureTyped, Spent, OnError, Doomed, Newer,
              Captured, Before
<1>2. CASE CaptureNext /\ UNCHANGED <<store, clockVars>>
  BY <1>2, AddsSound, FinishesSound, PassesSound, ListsSound, RemovesSound DEF CaptureNext
<1>3. CASE UNCHANGED <<store, captureVars>> /\ (Tick \/ SetBack)
  <2>1. /\ files' = files /\ attempt' = attempt /\ store' = store /\ moment \in Int
        /\ moment' \in Int /\ back' \in Nat /\ moment' >= moment
    BY <1>3 DEF captureVars, Tick, SetBack, CaptureInv, CaptureTyped
  <2>2. CaptureTyped'
    BY <2>1 DEF CaptureInv, CaptureTyped
  <2>3. ASSUME NEW a \in Artifacts PROVE Doomed(a) => Doomed(a)'
    <3>1. files[a].at \in Int
      BY DEF CaptureInv, CaptureTyped
    <3>2. Newer(a)' = Newer(a)
      BY <2>1 DEF Newer, Captured, Before
    <3>3. moment - files[a].at > MaxAge => moment' - files[a].at > MaxAge
      BY <2>1, <3>1, LimitsAreNaturals
    <3>4. QED
      BY <2>1, <3>2, <3>3 DEF Doomed
  <2>4. ASSUME NEW a PROVE Spent(a) => Spent(a)'
    BY <2>1 DEF Spent, OnError
  <2>5. \A t \in Attempts : attempt[t].listed \subseteq Artifacts
    BY DEF CaptureInv, CaptureTyped, AttemptRecords
  <2>6. QED
    BY <2>1, <2>2, <2>3, <2>4, <2>5 DEF CaptureInv
<1>4. CASE /\ attempt' = [t \in Attempts |-> [attempt[t] EXCEPT !.step = "over"]]
           /\ UNCHANGED <<store, clockVars, files>>
  <2>1. /\ files' = files /\ store' = store /\ moment' = moment /\ back' = back
    BY <1>4 DEF clockVars
  <2>2. ASSUME NEW t \in Attempts
        PROVE  /\ attempt'[t] \in AttemptRecords /\ attempt'[t].step = "over"
               /\ attempt'[t].added = attempt[t].added /\ attempt'[t].listed = attempt[t].listed
    <3>1. attempt[t] \in AttemptRecords /\ attempt'[t] = [attempt[t] EXCEPT !.step = "over"]
      BY <1>4 DEF CaptureInv, CaptureTyped
    <3>2. QED
      BY <3>1, AttemptFields, CaptureWords
  <2>3. CaptureTyped'
    BY <1>4, <2>1, <2>2 DEF CaptureInv, CaptureTyped
  <2>4. ASSUME NEW a \in Artifacts, Spent(a) PROVE Spent(a)'
    <3>1. a[1] \in Attempts
      BY DEF Artifacts
    <3>2. QED
      BY <2>2, <2>4, <3>1 DEF Spent
  <2>5. ASSUME NEW a \in Artifacts PROVE Doomed(a)' = Doomed(a)
    BY <2>1 DEF Doomed, Newer, Captured, Before
  <2>6. \A t \in Attempts : attempt[t].listed \subseteq Artifacts
    BY DEF CaptureInv, CaptureTyped, AttemptRecords
  <2>7. QED
    BY <2>1, <2>2, <2>3, <2>4, <2>5, <2>6 DEF CaptureInv
<1>5. QED
  BY <1>1, <1>2, <1>3, <1>4, CapturesStep DEF vars

LEMMA NewestStep ==
  ASSUME CaptureInv, [Next]_vars, NEW a \in Artifacts, files[a].on, ~files'[a].on
  PROVE  \/ moment - files[a].at > MaxAge
         \/ Cardinality({b \in Captured : Before(a, b)}) >= MaxFiles
<1>1. PICK t \in Attempts : Adds(t) \/ Finishes(t) \/ Removes(t)
  BY CapturesStep DEF vars, captureVars, CaptureNext, Passes, Lists
<1>2. files \in [Artifacts -> [on : BOOLEAN, at : Int, seq : Int]]
  BY DEF CaptureInv, CaptureTyped
<1>3. ~(Adds(t) \/ Finishes(t))
  <2>1. ASSUME NEW as PROVE WrittenNow(as)[a].on
    <3>1. WrittenNow(as)[a] = files[a] \/ WrittenNow(as)[a].on = TRUE
      BY DEF WrittenNow
    <3>2. QED
      BY <3>1
  <2>2. ~Adds(t)
    BY <2>1 DEF Adds
  <2>3. ~Finishes(t)
    BY <2>1 DEF Finishes
  <2>4. QED
    BY <2>2, <2>3
<1>4. a \in attempt[t].listed
  BY <1>1, <1>2, <1>3 DEF Removes
<1>5. Doomed(a)
  BY <1>4 DEF CaptureInv
<1>6. QED
  BY <1>5 DEF Doomed, Newer

\* capture.rs, prune: of any number of attempts that write and prune side by side, under any
\* limits: what is removed is too old, or max_files newer ones are there.
THEOREM NewestAreKept == Spec => NewestKept
<1>1. Init => CaptureInv
  BY CaptureStart
<1>2. CaptureInv /\ [Next]_vars => CaptureInv'
  BY CaptureStep
<1>3. CaptureInv /\ [Next]_vars =>
        [\A a \in Artifacts :
           files[a].on /\ ~files'[a].on =>
             \/ moment - files[a].at > MaxAge
             \/ Cardinality({b \in Captured : Before(a, b)}) >= MaxFiles]_vars
  BY NewestStep
<1>4. QED
  BY <1>1, <1>2, <1>3, PTL DEF Spec, NewestKept

-----------------------------------------------------------------------------
(* memory.rs: paths. *)

LEMMA PathsAreSequences ==
  /\ Root \in Paths /\ Paths \subseteq Seq(STRING)
  /\ \A p \in Paths : \A n \in 0 .. Len(p) : SubSeq(p, 1, n) \in Paths
BY MemoryAssumption

LEMMA PrefixMeans ==
  ASSUME NEW p \in Seq(STRING), NEW q \in Seq(STRING)
  PROVE  IsPrefix(p, q) <=> Len(p) <= Len(q) /\ \A i \in 1 .. Len(p) : p[i] = q[i]
<1>1. Len(p) \in Nat /\ Len(q) \in Nat
  BY LenProperties
<1>2. ASSUME Len(p) <= Len(q)
      PROVE  (SubSeq(p, 1, Len(p)) = SubSeq(q, 1, Len(p))) <=> \A i \in 1 .. Len(p) : p[i] = q[i]
  <2>1. \A i \in 1 .. Len(p) : p[i] \in STRING /\ q[i] \in STRING
    BY <1>1, <1>2, ElementOfSeq
  <2>2. /\ SubSeq(p, 1, Len(p)) = p
        /\ SubSeq(q, 1, Len(p)) \in Seq(STRING)
        /\ Len(SubSeq(q, 1, Len(p))) = Len(p)
        /\ \A i \in 1 .. Len(p) : SubSeq(q, 1, Len(p))[i] = q[i]
    <3>1. SubSeq(p, 1, Len(p)) = p
      BY SubSeqFull
    <3>2. /\ SubSeq(q, 1, Len(p)) \in Seq(STRING)
          /\ Len(SubSeq(q, 1, Len(p))) = IF 1 <= Len(p) THEN Len(p) - 1 + 1 ELSE 0
          /\ \A i \in 1 .. Len(p) - 1 + 1 : SubSeq(q, 1, Len(p))[i] = q[1 + i - 1]
      BY <1>1, <2>1, SubSeqProperties
    <3>3. QED
      BY <1>1, <3>1, <3>2
  <2>3. QED
    BY <2>2, SeqEqual
<1>3. QED
  BY <1>2 DEF IsPrefix

LEMMA PrefixOrder ==
  ASSUME NEW p \in Paths, NEW q \in Paths
  PROVE  /\ IsPrefix(p, p) /\ IsPrefix(Root, p)
         /\ IsPrefix(p, Root) => p = Root
         /\ IsPrefix(p, q) /\ IsPrefix(q, p) => p = q
         /\ \A r \in Paths : IsPrefix(p, q) /\ IsPrefix(q, r) => IsPrefix(p, r)
         /\ \A r \in Paths : IsPrefix(p, r) /\ IsPrefix(q, r) => IsPrefix(p, q) \/ IsPrefix(q, p)
<1>1. /\ Paths \subseteq Seq(STRING) /\ Root \in Paths /\ Root = <<>>
      /\ \A r \in Seq(STRING) : Len(r) \in Nat
  BY PathsAreSequences, LenProperties DEF Root
<1>2. Len(Root) = 0
  BY <1>1, EmptySeq
<1>3. IsPrefix(p, p) /\ IsPrefix(Root, p)
  BY <1>1, <1>2, PrefixMeans
<1>4. IsPrefix(p, Root) => p = Root
  BY <1>1, <1>2, PrefixMeans, SeqEqual
<1>5. IsPrefix(p, q) /\ IsPrefix(q, p) => p = q
  BY <1>1, PrefixMeans, SeqEqual
<1>6. ASSUME NEW r \in Paths, IsPrefix(p, q), IsPrefix(q, r) PROVE IsPrefix(p, r)
  BY <1>1, <1>6, PrefixMeans
<1>7. ASSUME NEW r \in Paths, IsPrefix(p, r), IsPrefix(q, r) PROVE IsPrefix(p, q) \/ IsPrefix(q, p)
  BY <1>1, <1>7, PrefixMeans
<1>8. QED
  BY <1>3, <1>4, <1>5, <1>6, <1>7

LEMMA AboveIs ==
  ASSUME NEW p \in Paths, NEW q \in Paths
  PROVE  q \in Above(p) <=> IsPrefix(q, p) /\ q # p
BY DEF Above, IsStrictPrefix

LEMMA AboveOrder ==
  ASSUME NEW p \in Paths, NEW q \in Above(p)
  PROVE  /\ q \in Paths /\ Above(q) \subseteq Above(p)
         /\ Root \in Above(p) /\ p # Root
         /\ ~IsPrefix(p, q)
<1>1. q \in Paths /\ Root \in Paths
  BY PathsAreSequences DEF Above
<1>2. IsPrefix(q, p) /\ q # p
  BY <1>1, AboveIs
<1>3. ~IsPrefix(p, q) /\ p # Root
  BY <1>1, <1>2, PrefixOrder
<1>4. ASSUME NEW r \in Above(q) PROVE r \in Above(p)
  <2>1. r \in Paths
    BY DEF Above
  <2>2. IsPrefix(r, q) /\ r # q
    BY <1>1, <2>1, AboveIs
  <2>3. IsPrefix(r, p)
    BY <1>1, <1>2, <2>1, <2>2, PrefixOrder
  <2>4. r # p
    BY <1>3, <2>2
  <2>5. QED
    BY <2>1, <2>3, <2>4, AboveIs
<1>5. QED
  BY <1>1, <1>3, <1>4, PrefixOrder, AboveIs

LEMMA CameFromIs ==
  ASSUME NEW p \in Paths, NEW q \in Paths, NEW r \in Paths, IsPrefix(q, r)
  PROVE  /\ CameFrom(p, q, r) \in Seq(STRING) /\ IsPrefix(p, CameFrom(p, q, r))
         /\ Len(CameFrom(p, q, r)) = Len(p) + Len(r) - Len(q)
         /\ \A i \in 1 .. Len(r) - Len(q) : CameFrom(p, q, r)[Len(p) + i] = r[Len(q) + i]
<1> DEFINE s == SubSeq(r, Len(q) + 1, Len(r))
<1>1. {p, q, r} \subseteq Seq(STRING) /\ Len(p) \in Nat /\ Len(q) \in Nat /\ Len(r) \in Nat
  BY PathsAreSequences, LenProperties
<1>2. Len(q) <= Len(r)
  BY <1>1, PrefixMeans
<1>3. \A i \in Len(q) + 1 .. Len(r) : r[i] \in STRING
  BY <1>1, ElementOfSeq
<1>4. /\ s \in Seq(STRING)
      /\ Len(s) = IF Len(q) + 1 <= Len(r) THEN Len(r) - (Len(q) + 1) + 1 ELSE 0
      /\ \A i \in 1 .. Len(r) - (Len(q) + 1) + 1 : s[i] = r[Len(q) + 1 + i - 1]
  BY <1>1, <1>3, SubSeqProperties
<1>5. Len(s) = Len(r) - Len(q) /\ \A i \in 1 .. Len(r) - Len(q) : s[i] = r[Len(q) + i]
  BY <1>1, <1>2, <1>4
<1>6. /\ p \o s \in Seq(STRING)
      /\ Len(p \o s) = Len(p) + Len(s)
      /\ \A i \in 1 .. Len(p) + Len(s) : (p \o s)[i] = IF i <= Len(p) THEN p[i] ELSE s[i - Len(p)]
  BY <1>1, <1>4, ConcatProperties
<1> HIDE DEF s
<1>7. IsPrefix(p, p \o s)
  <2>1. Len(p) <= Len(p \o s) /\ \A i \in 1 .. Len(p) : p[i] = (p \o s)[i]
    BY <1>1, <1>2, <1>5, <1>6
  <2>2. QED
    BY <1>1, <1>6, <2>1, PrefixMeans
<1>8. \A i \in 1 .. Len(r) - Len(q) : (p \o s)[Len(p) + i] = r[Len(q) + i]
  BY <1>1, <1>2, <1>5, <1>6
<1>9. QED
  BY <1>1, <1>5, <1>6, <1>7, <1>8 DEF CameFrom, s

LEMMA CameFromOrder ==
  ASSUME NEW p \in Paths, NEW q \in Paths, NEW r \in Paths, NEW u \in Above(r),
         IsPrefix(q, u), CameFrom(p, q, r) \in Paths
  PROVE  CameFrom(p, q, u) \in Above(CameFrom(p, q, r))
<1> DEFINE s == CameFrom(p, q, r)
           t == CameFrom(p, q, u)
<1>1. u \in Paths /\ IsPrefix(u, r) /\ u # r
  BY AboveIs DEF Above
<1>2. IsPrefix(q, r)
  BY <1>1, PrefixOrder
<1>3. {p, q, r, u} \subseteq Seq(STRING) /\ Len(p) \in Nat /\ Len(q) \in Nat /\ Len(r) \in Nat
      /\ Len(u) \in Nat
  BY <1>1, PathsAreSequences, LenProperties
<1>4. Len(q) <= Len(u) /\ Len(u) <= Len(r) /\ \A i \in 1 .. Len(u) : u[i] = r[i]
  BY <1>1, <1>3, PrefixMeans
<1>5. Len(u) < Len(r)
  BY <1>1, <1>3, <1>4, SeqEqual
<1>6. /\ s \in Seq(STRING) /\ IsPrefix(p, s) /\ Len(s) = Len(p) + Len(r) - Len(q)
      /\ \A i \in 1 .. Len(r) - Len(q) : s[Len(p) + i] = r[Len(q) + i]
  BY <1>2, CameFromIs
<1>7. /\ t \in Seq(STRING) /\ IsPrefix(p, t) /\ Len(t) = Len(p) + Len(u) - Len(q)
      /\ \A i \in 1 .. Len(u) - Len(q) : t[Len(p) + i] = u[Len(q) + i]
  BY <1>1, CameFromIs
<1> HIDE DEF s, t
<1>8. \A i \in 1 .. Len(p) : p[i] = s[i] /\ p[i] = t[i]
  BY <1>3, <1>6, <1>7, PrefixMeans
<1>9. ASSUME NEW i \in 1 .. Len(t) PROVE t[i] = s[i]
  <2>1. CASE i <= Len(p)
    BY <1>3, <1>7, <1>8, <2>1
  <2>2. CASE i > Len(p)
    <3>1. PICK j \in 1 .. Len(u) - Len(q) : i = Len(p) + j
      <4>1. i - Len(p) \in 1 .. Len(u) - Len(q) /\ i = Len(p) + (i - Len(p))
        BY <1>3, <1>4, <1>7, <2>2
      <4>2. QED
        BY <4>1
    <3>2. t[i] = u[Len(q) + j] /\ s[i] = r[Len(q) + j] /\ u[Len(q) + j] = r[Len(q) + j]
      BY <1>3, <1>4, <1>6, <1>7, <3>1
    <3>3. QED
      BY <3>2
  <2>3. QED
    BY <1>3, <1>7, <2>1, <2>2
<1>10. IsPrefix(t, s) /\ t # s
  BY <1>3, <1>4, <1>5, <1>6, <1>7, <1>9, PrefixMeans
<1>11. t \in Paths
  <2>1. Len(t) \in 0 .. Len(s)
    BY <1>3, <1>4, <1>6, <1>7
  <2>2. SubSeq(s, 1, Len(t)) \in Paths /\ s \in Paths
    BY <2>1, PathsAreSequences DEF s
  <2>3. t = SubSeq(s, 1, Len(t))
    BY <1>7, <1>10, SubSeqFull DEF IsPrefix
  <2>4. QED
    BY <2>2, <2>3
<1>12. QED
  BY <1>10, <1>11, AboveIs DEF s, t

-----------------------------------------------------------------------------
(* Trees. *)

LEMMA KindsOfNodes ==
  /\ None # Dir /\ Dir.kind = "dir" /\ None.kind = "none" /\ None.text = <<>>
  /\ \A text : File(text).kind = "file" /\ File(text).text = text /\ File(text) \notin {None, Dir}
<1>1. ASSUME NEW text PROVE File(text).kind = "file" /\ File(text).text = text
  BY DEF File
<1>2. None # Dir /\ Dir.kind = "dir" /\ None.kind = "none" /\ None.text = <<>>
  BY DEF None, Dir
<1>3. ASSUME NEW text PROVE File(text) \notin {None, Dir}
  BY <1>1, <1>2
<1>4. QED
  BY <1>1, <1>2, <1>3

LEMMA NodeOf ==
  ASSUME NEW tree, IsTree(tree), NEW p \in Paths
  PROVE  /\ tree[p] = None \/ tree[p] = Dir \/ tree[p].kind = "file"
         /\ tree[p].kind = "dir" <=> tree[p] = Dir
         /\ tree[p].kind = "none" <=> tree[p] = None
         /\ tree[p] # None => \A q \in Above(p) : tree[q] = Dir
         /\ tree[p] # Dir => \A q \in Paths : p \in Above(q) => tree[q] = None
<1>1. tree[p] = None \/ tree[p] = Dir \/ tree[p].kind = "file"
  BY DEF IsTree
<1>2. /\ tree[p].kind = "dir" <=> tree[p] = Dir
      /\ tree[p].kind = "none" <=> tree[p] = None
  BY <1>1, KindsOfNodes
<1>3. \A q \in Paths : tree[q] # None => \A r \in Above(q) : tree[r] = Dir
  BY DEF IsTree
<1>4. QED
  BY <1>1, <1>2, <1>3

LEMMA RootIsAbove ==
  /\ Root \in Paths /\ Above(Root) = {}
  /\ \A p \in Paths : p # Root => Root \in Above(p)
<1>1. Root \in Paths
  BY PathsAreSequences
<1>2. Above(Root) = {}
  BY <1>1, AboveOrder
<1>3. QED
  BY <1>1, <1>2, PrefixOrder, AboveIs

LEMMA WithRootTree ==
  ASSUME NEW tree, IsTree(tree)
  PROVE  /\ IsTree(WithRoot(tree))
         /\ \A r \in Paths :
              WithRoot(tree)[r] = IF r = Root /\ tree[Root].kind # "file" THEN Dir ELSE tree[r]
<1> DEFINE t == WithRoot(tree)
<1>1. Root \in Paths /\ DOMAIN tree = Paths
  BY PathsAreSequences DEF IsTree
<1>2. DOMAIN t = Paths /\ \A r \in Paths : t[r] = IF r = Root /\ tree[Root].kind # "file" THEN Dir ELSE tree[r]
  BY <1>1 DEF WithRoot
<1> HIDE DEF t
<1>3. \A r \in Paths : t[r] \in {None, Dir} \/ t[r].kind = "file"
  BY <1>2 DEF IsTree
<1>4. ASSUME NEW p \in Paths, t[p] # None, NEW q \in Above(p) PROVE t[q] = Dir
  <2>1. q \in Paths /\ p # Root
    BY <1>4, AboveOrder
  <2>2. tree[p] # None
    BY <1>2, <1>4, <2>1
  <2>3. tree[q] = Dir
    BY <2>2, NodeOf
  <2>4. QED
    BY <1>2, <2>1, <2>3
<1>5. IsTree(t)
  BY <1>2, <1>3, <1>4 DEF IsTree
<1>6. QED
  BY <1>2, <1>5 DEF t

LEMMA WithParentsTree ==
  ASSUME NEW tree, IsTree(tree), NEW p \in Paths, CanMakeParents(tree, p)
  PROVE  IsTree(WithParents(tree, p))
<1> DEFINE t == WithParents(tree, p)
<1>1. DOMAIN t = Paths /\ \A r \in Paths : t[r] = IF r \in Above(p) THEN Dir ELSE tree[r]
  BY DEF WithParents
<1> HIDE DEF t
<1>2. \A r \in Paths : t[r] \in {None, Dir} \/ t[r].kind = "file"
  BY <1>1 DEF IsTree
<1>3. ASSUME NEW r \in Paths, t[r] # None, NEW q \in Above(r) PROVE t[q] = Dir
  <2>1. q \in Paths
    BY DEF Above
  <2>2. CASE r \in Above(p)
    BY <1>1, <2>1, <2>2, AboveOrder
  <2>3. CASE r \notin Above(p)
    <3>1. tree[r] # None
      BY <1>1, <1>3, <2>3
    <3>2. QED
      BY <1>1, <2>1, <3>1, NodeOf
  <2>4. QED
    BY <2>2, <2>3
<1>4. QED
  BY <1>1, <1>2, <1>3 DEF IsTree, t

LEMMA WithoutTree ==
  ASSUME NEW tree, IsTree(tree), NEW p \in Paths
  PROVE  IsTree(Without(tree, p))
<1> DEFINE t == Without(tree, p)
<1>1. DOMAIN t = Paths /\ \A r \in Paths : t[r] = IF IsPrefix(p, r) THEN None ELSE tree[r]
  BY DEF Without
<1> HIDE DEF t
<1>2. \A r \in Paths : t[r] \in {None, Dir} \/ t[r].kind = "file"
  BY <1>1 DEF IsTree
<1>3. ASSUME NEW r \in Paths, t[r] # None, NEW q \in Above(r) PROVE t[q] = Dir
  <2>1. q \in Paths /\ IsPrefix(q, r)
    BY AboveIs DEF Above
  <2>2. ~IsPrefix(p, r) /\ tree[r] # None
    BY <1>1, <1>3
  <2>3. ~IsPrefix(p, q)
    BY <2>1, <2>2, PrefixOrder
  <2>4. QED
    BY <1>1, <2>1, <2>2, <2>3, NodeOf
<1>4. QED
  BY <1>1, <1>2, <1>3 DEF IsTree, t

LEMMA MovedTree ==
  ASSUME NEW tree, IsTree(tree), NEW p \in Paths, NEW q \in Paths, ~IsPrefix(p, q),
         \A r \in Above(q) : tree[r] = Dir
  PROVE  IsTree(Moved(tree, p, q))
<1> DEFINE t == Moved(tree, p, q)
<1>1. /\ DOMAIN t = Paths
      /\ \A r \in Paths : t[r] = IF IsPrefix(q, r)
                                 THEN IF CameFrom(p, q, r) \in Paths THEN tree[CameFrom(p, q, r)] ELSE None
                                 ELSE IF IsPrefix(p, r) THEN None ELSE tree[r]
  BY DEF Moved
<1> HIDE DEF t
<1>2. \A r \in Paths : t[r] \in {None, Dir} \/ t[r].kind = "file"
  BY <1>1 DEF IsTree
<1>3. ASSUME NEW r \in Paths, t[r] # None, NEW u \in Above(r) PROVE t[u] = Dir
  <2>1. u \in Paths /\ IsPrefix(u, r) /\ u # r
    BY AboveIs DEF Above
  <2>2. CASE IsPrefix(q, u)
    <3>1. IsPrefix(q, r)
      BY <2>1, <2>2, PrefixOrder
    <3>2. CameFrom(p, q, r) \in Paths /\ tree[CameFrom(p, q, r)] # None
      BY <1>1, <1>3, <3>1
    <3>3. CameFrom(p, q, u) \in Above(CameFrom(p, q, r))
      BY <2>2, <3>2, CameFromOrder
    <3>4. CameFrom(p, q, u) \in Paths /\ tree[CameFrom(p, q, u)] = Dir
      BY <3>2, <3>3, NodeOf, AboveOrder
    <3>5. QED
      BY <1>1, <2>1, <2>2, <3>4
  <2>3. CASE ~IsPrefix(q, u) /\ IsPrefix(q, r)
    <3>1. IsPrefix(u, q) /\ u # q
      BY <2>1, <2>3, PrefixOrder
    <3>2. u \in Above(q) /\ ~IsPrefix(p, u)
      BY <2>1, <3>1, PrefixOrder, AboveIs
    <3>3. QED
      BY <1>1, <2>1, <2>3, <3>2
  <2>4. CASE ~IsPrefix(q, r)
    <3>1. ~IsPrefix(p, r) /\ tree[r] # None
      BY <1>1, <1>3, <2>4
    <3>2. ~IsPrefix(p, u) /\ ~IsPrefix(q, u)
      BY <2>1, <2>4, <3>1, PrefixOrder
    <3>3. QED
      BY <1>1, <2>1, <3>1, <3>2, NodeOf
  <2>5. QED
    BY <2>2, <2>3, <2>4
<1>4. QED
  BY <1>1, <1>2, <1>3 DEF IsTree, t

LEMMA FilePut ==
  ASSUME NEW tree, IsTree(tree), NEW p \in Paths, NEW text, tree[p].kind # "dir",
         \A r \in Above(p) : tree[r] = Dir, NEW t, DOMAIN t = Paths,
         \A r \in Paths : t[r] = IF r = p THEN File(text) ELSE tree[r]
  PROVE  IsTree(t)
<1>1. \A r \in Paths : t[r] \in {None, Dir} \/ t[r].kind = "file"
  BY KindsOfNodes DEF IsTree
<1>2. ASSUME NEW r \in Paths, t[r] # None, NEW u \in Above(r) PROVE t[u] = Dir
  <2>1. u \in Paths /\ IsPrefix(u, r) /\ u # r
    BY AboveIs DEF Above
  <2>2. CASE r = p
    BY <2>1, <2>2
  <2>3. CASE r # p
    <3>1. tree[r] # None /\ tree[p] # Dir
      BY <1>2, <2>3, KindsOfNodes
    <3>2. u # p
      BY <3>1, NodeOf
    <3>3. tree[u] = Dir
      BY <3>1, NodeOf
    <3>4. QED
      BY <2>1, <3>2, <3>3
  <2>4. QED
    BY <2>2, <2>3
<1>3. QED
  BY <1>1, <1>2 DEF IsTree

LEMMA FileTree ==
  ASSUME NEW tree, IsTree(tree), NEW p \in Paths, NEW text, tree[p].kind # "dir",
         \A r \in Above(p) : tree[r] = Dir
  PROVE  /\ IsTree([tree EXCEPT ![p] = File(text)])
         /\ \A r \in Paths : [tree EXCEPT ![p] = File(text)][r] = IF r = p THEN File(text) ELSE tree[r]
<1> DEFINE t == [tree EXCEPT ![p] = File(text)]
<1>1. DOMAIN t = Paths /\ \A r \in Paths : t[r] = IF r = p THEN File(text) ELSE tree[r]
  BY DEF IsTree
<1> HIDE DEF t
<1>2. IsTree(t)
  BY <1>1, FilePut
<1>3. QED
  BY <1>1, <1>2 DEF t

-----------------------------------------------------------------------------
(* Commands, one after the other. *)

LEMMA SpellingOf ==
  ASSUME NEW s \in Spellings
  PROVE  s.path \in Paths /\ s.as \in {"plain", "slash", "outside"} /\ (s.as # "plain" => s.path = Root)
BY PathsAreSequences DEF Spellings

LEMMA CommandOf ==
  ASSUME NEW cmd \in Commands
  PROVE  /\ cmd.cmd \in {"view", "create", "str_replace", "insert", "delete", "rename"}
         /\ Names(cmd) \subseteq Spellings /\ cmd.p \in Names(cmd) /\ cmd.p.path \in Paths
         /\ cmd.cmd = "rename" => cmd.q \in Names(cmd) /\ cmd.q.path \in Paths
<1>1. /\ cmd.cmd \in {"view", "create", "str_replace", "insert", "delete", "rename"}
      /\ cmd.p \in Spellings /\ (cmd.cmd = "rename" => cmd.q \in Spellings)
  BY DEF Commands
<1>2. QED
  BY <1>1, SpellingOf DEF Names

LEMMA AimsOf ==
  ASSUME NEW cmd \in Commands
  PROVE  /\ Aims(cmd) \subseteq Paths /\ Reach(cmd) \subseteq Paths
         /\ cmd.p.as # "outside" => cmd.p.path \in Aims(cmd)
         /\ cmd.cmd = "rename" /\ cmd.q.as # "outside" => cmd.q.path \in Aims(cmd)
         /\ Aims(cmd) # {} => Root \in Reach(cmd)
         /\ Aims(cmd) = {} => Reach(cmd) = {} /\ cmd.p.as = "outside"
         /\ \A a \in Aims(cmd), r \in Paths : IsPrefix(a, r) \/ r \in Above(a) => r \in Reach(cmd)
<1>1. Aims(cmd) \subseteq Paths
  BY CommandOf, SpellingOf DEF Aims
<1>2. /\ cmd.p.as # "outside" => cmd.p.path \in Aims(cmd)
      /\ cmd.cmd = "rename" /\ cmd.q.as # "outside" => cmd.q.path \in Aims(cmd)
  BY CommandOf DEF Aims
<1>3. Aims(cmd) # {} => Root \in Reach(cmd)
  BY <1>1, RootIsAbove, PrefixOrder DEF Reach
<1>4. Aims(cmd) = {} => Reach(cmd) = {} /\ cmd.p.as = "outside"
  BY <1>2 DEF Reach
<1>5. \A a \in Aims(cmd), r \in Paths : IsPrefix(a, r) \/ r \in Above(a) => r \in Reach(cmd)
  BY <1>1, AboveIs DEF Reach
<1>6. QED
  BY <1>1, <1>2, <1>3, <1>4, <1>5 DEF Reach

LEMMA RefusedIs ==
  ASSUME NEW tree
  PROVE  Refused(tree).tree = tree /\ Refused(tree).ok = FALSE /\ Refused(tree).shows = <<>>
BY DEF Refused

LEMMA ViewedIs ==
  ASSUME NEW tree, NEW cmd PROVE Viewed(tree, cmd).tree = tree
BY DEF Viewed, Achieved, Refused

LEMMA CreatedIs ==
  ASSUME NEW tree, IsTree(tree), NEW cmd \in Commands
  PROVE  LET p == cmd.p.path
             done == Created(tree, cmd)
         IN  /\ IsTree(done.tree)
             /\ \/ done = Refused(tree)
                \/ /\ done.ok = TRUE /\ done.shows = <<>>
                   /\ \A r \in Paths : done.tree[r] = IF r = p THEN File(cmd.text)
                                                      ELSE IF r \in Above(p) THEN Dir ELSE tree[r]
<1> DEFINE p == cmd.p.path
           t == WithParents(tree, p)
<1>1. CASE Created(tree, cmd) = Refused(tree)
  BY <1>1 DEF Refused
<1>2. CASE tree[p].kind # "dir" /\ CanMakeParents(tree, p) /\ Len(cmd.text) <= MaxSize
  <2>1. p \in Paths /\ p \notin Above(p)
    BY CommandOf, AboveIs
  <2>2. IsTree(t) /\ (\A r \in Paths : t[r] = IF r \in Above(p) THEN Dir ELSE tree[r])
    BY <1>2, <2>1, WithParentsTree DEF WithParents
  <2>3. t[p].kind # "dir" /\ \A r \in Above(p) : t[r] = Dir
    BY <1>2, <2>1, <2>2 DEF Above
  <2>4. Created(tree, cmd) = Achieved([t EXCEPT ![p] = File(cmd.text)])
    BY <1>2 DEF Created
  <2> HIDE DEF t, p
  <2>5. /\ IsTree([t EXCEPT ![p] = File(cmd.text)])
        /\ \A r \in Paths : [t EXCEPT ![p] = File(cmd.text)][r] = IF r = p THEN File(cmd.text) ELSE t[r]
    BY <2>1, <2>2, <2>3, FileTree
  <2>6. QED
    BY <2>2, <2>4, <2>5 DEF Achieved, p
<1>3. QED
  BY <1>1, <1>2 DEF Created

LEMMA EditedIs ==
  ASSUME NEW tree, IsTree(tree), NEW cmd \in Commands
  PROVE  LET p == cmd.p.path
             done == Edited(tree, cmd)
         IN  /\ IsTree(done.tree)
             /\ \/ done = Refused(tree)
                \/ /\ done.ok = TRUE /\ done.shows = <<>>
                   /\ \A r \in Paths : r # p => done.tree[r] = tree[r]
<1> DEFINE p == cmd.p.path
           new == IF cmd.cmd = "insert" THEN Insertion(Lines(tree[p].text), cmd)
                  ELSE Replacement(tree[p].text, cmd)
<1>1. Edited(tree, cmd) = Holding(tree, p, new)
  BY DEF Edited
<1> HIDE DEF new
<1>2. CASE Edited(tree, cmd) = Refused(tree)
  BY <1>2 DEF Refused
<1>3. CASE tree[p].kind = "file" /\ Edited(tree, cmd) = Achieved([tree EXCEPT ![p] = File(new.text)])
  <2>1. p \in Paths /\ tree[p] # None /\ tree[p].kind # "dir"
    BY <1>3, CommandOf, KindsOfNodes
  <2>2. \A r \in Above(p) : tree[r] = Dir
    BY <2>1, NodeOf
  <2>3. /\ IsTree([tree EXCEPT ![p] = File(new.text)])
        /\ \A r \in Paths : [tree EXCEPT ![p] = File(new.text)][r] = IF r = p THEN File(new.text) ELSE tree[r]
    BY <2>1, <2>2, FileTree
  <2>4. QED
    BY <1>3, <2>3 DEF Achieved
<1>4. QED
  BY <1>1, <1>2, <1>3 DEF Holding

LEMMA DeletedIs ==
  ASSUME NEW tree, IsTree(tree), NEW cmd \in Commands
  PROVE  LET p == cmd.p.path
             done == Deleted(tree, cmd)
         IN  /\ IsTree(done.tree)
             /\ \/ done = Refused(tree)
                \/ /\ done.ok = TRUE /\ done.shows = <<>>
                   /\ \A r \in Paths : done.tree[r] = IF IsPrefix(p, r) THEN None ELSE tree[r]
BY CommandOf, WithoutTree DEF Deleted, Refused, Achieved, Without

LEMMA RenamedIs ==
  ASSUME NEW tree, IsTree(tree), NEW cmd \in Commands, cmd.cmd = "rename"
  PROVE  LET p == cmd.p.path
             q == cmd.q.path
             done == Renamed(tree, cmd)
         IN  /\ IsTree(done.tree)
             /\ \A r \in Paths : \/ done.tree[r] = tree[r] \/ IsPrefix(p, r) \/ IsPrefix(q, r)
                                 \/ r \in Above(q)
<1> DEFINE p == cmd.p.path
           q == cmd.q.path
           t == WithParents(tree, q)
<1>1. p \in Paths /\ q \in Paths
  BY CommandOf
<1>2. CASE Renamed(tree, cmd) = Refused(tree)
  BY <1>2 DEF Refused
<1>3. CASE Renamed(tree, cmd) # Refused(tree)
  <2>1. CanMakeParents(tree, q)
    BY <1>3 DEF Renamed
  <2>2. IsTree(t) /\ \A r \in Paths : t[r] = IF r \in Above(q) THEN Dir ELSE tree[r]
    BY <1>1, <2>1, WithParentsTree DEF WithParents
  <2>3. Renamed(tree, cmd) = IF IsPrefix(p, q) THEN Refused(t) ELSE Achieved(Moved(t, p, q))
    BY <1>3 DEF Renamed
  <2> HIDE DEF t, p, q
  <2>4. CASE IsPrefix(p, q)
    BY <2>2, <2>3, <2>4 DEF Refused, p, q
  <2>5. CASE ~IsPrefix(p, q)
    <3>1. IsTree(Moved(t, p, q))
      BY <1>1, <2>2, <2>5, MovedTree DEF Above
    <3>2. \A r \in Paths : IsPrefix(p, r) \/ IsPrefix(q, r) \/ Moved(t, p, q)[r] = t[r]
      BY DEF Moved
    <3>3. QED
      BY <2>2, <2>3, <2>5, <3>1, <3>2 DEF Achieved, p, q
  <2>6. QED
    BY <2>4, <2>5
<1>4. QED
  BY <1>2, <1>3

\* Whichever command: what it does, of the directory as it is found.
LEMMA DoneIs ==
  ASSUME NEW tree, IsTree(tree), NEW cmd \in Commands
  PROVE  LET t == WithRoot(tree)
             stops == tree[Root].kind = "file" \/ \E s \in Names(cmd) : s.as = "outside"
         IN  /\ cmd.p.as = "outside" => Done(tree, cmd) = Refused(tree)
             /\ cmd.p.as # "outside" /\ stops => Done(tree, cmd) = Refused(t)
             /\ cmd.p.as # "outside" /\ ~stops =>
                  /\ cmd.cmd = "view" => Done(tree, cmd) = Viewed(t, cmd)
                  /\ cmd.cmd = "create" => Done(tree, cmd) = Created(t, cmd)
                  /\ cmd.cmd \in {"str_replace", "insert"} => Done(tree, cmd) = Edited(t, cmd)
                  /\ cmd.cmd = "delete" => Done(tree, cmd) = Deleted(t, cmd)
                  /\ cmd.cmd = "rename" => Done(tree, cmd) = Renamed(t, cmd)
<1> DEFINE t == WithRoot(tree)
<1>1. t[Root].kind = "file" <=> tree[Root].kind = "file"
  BY WithRootTree, PathsAreSequences, KindsOfNodes
<1>2. Done(tree, cmd) =
        IF cmd.p.as = "outside" THEN Refused(tree)
        ELSE IF t[Root].kind = "file" \/ \E s \in Names(cmd) : s.as = "outside" THEN Refused(t)
        ELSE CASE cmd.cmd = "view" -> Viewed(t, cmd)
               [] cmd.cmd = "create" -> Created(t, cmd)
               [] cmd.cmd \in {"str_replace", "insert"} -> Edited(t, cmd)
               [] cmd.cmd = "delete" -> Deleted(t, cmd)
               [] cmd.cmd = "rename" -> Renamed(t, cmd)
  BY DEF Done
<1> HIDE DEF t
<1>3. /\ cmd.p.as = "outside" => Done(tree, cmd) = Refused(tree)
      /\ cmd.p.as # "outside" /\ (t[Root].kind = "file" \/ \E s \in Names(cmd) : s.as = "outside") =>
           Done(tree, cmd) = Refused(t)
  BY <1>2
<1>4. ASSUME cmd.p.as # "outside", t[Root].kind # "file", ~\E s \in Names(cmd) : s.as = "outside"
      PROVE  /\ cmd.cmd = "view" => Done(tree, cmd) = Viewed(t, cmd)
             /\ cmd.cmd = "create" => Done(tree, cmd) = Created(t, cmd)
             /\ cmd.cmd \in {"str_replace", "insert"} => Done(tree, cmd) = Edited(t, cmd)
             /\ cmd.cmd = "delete" => Done(tree, cmd) = Deleted(t, cmd)
             /\ cmd.cmd = "rename" => Done(tree, cmd) = Renamed(t, cmd)
  BY <1>2, <1>4
<1>5. QED
  BY <1>1, <1>3, <1>4 DEF t

LEMMA DoneReaches ==
  ASSUME NEW tree, IsTree(tree), NEW cmd \in Commands
  PROVE  /\ IsTree(Done(tree, cmd).tree)
         /\ \A r \in Paths : \/ Done(tree, cmd).tree[r] = tree[r]
                             \/ Aims(cmd) # {} /\ r = Root
                             \/ cmd.cmd # "view" /\ r \in Reach(cmd)
<1> DEFINE t == WithRoot(tree)
           done == Done(tree, cmd)
           p == cmd.p.path
<1>1. IsTree(t) /\ \A r \in Paths : t[r] = tree[r] \/ r = Root
  BY WithRootTree
<1>2. CASE cmd.p.as = "outside"
  <2>1. done = Refused(tree)
    BY <1>2, DoneIs
  <2>2. QED
    BY <2>1 DEF Refused
<1>3. CASE cmd.p.as # "outside" /\ (tree[Root].kind = "file" \/ \E s \in Names(cmd) : s.as = "outside")
  <2>1. done = Refused(t)
    BY <1>3, DoneIs
  <2>2. done.tree = t /\ Aims(cmd) # {}
    BY <1>3, <2>1, AimsOf DEF Refused
  <2>3. QED
    BY <1>1, <2>2
<1>4. CASE cmd.p.as # "outside" /\ ~(tree[Root].kind = "file" \/ \E s \in Names(cmd) : s.as = "outside")
  <2>1. /\ cmd.cmd = "view" => done = Viewed(t, cmd)
        /\ cmd.cmd = "create" => done = Created(t, cmd)
        /\ cmd.cmd \in {"str_replace", "insert"} => done = Edited(t, cmd)
        /\ cmd.cmd = "delete" => done = Deleted(t, cmd)
        /\ cmd.cmd = "rename" => done = Renamed(t, cmd)
    BY <1>4, DoneIs
  <2>2. p \in Aims(cmd) /\ p \in Paths
    BY <1>4, AimsOf, CommandOf
  <2>3. \A r \in Paths : IsPrefix(p, r) \/ r \in Above(p) => r \in Reach(cmd)
    BY <2>2, AimsOf
  <2>4. IsPrefix(p, p)
    BY <2>2, PrefixOrder
  <2> HIDE DEF t, done
  <2> SUFFICES IsTree(done.tree) /\ \A r \in Paths :
                 done.tree[r] = t[r] \/ (cmd.cmd # "view" /\ r \in Reach(cmd))
    BY <1>1, <2>2 DEF done
  <2>5. CASE cmd.cmd = "view"
    BY <1>1, <2>1, <2>5, ViewedIs
  <2>6. CASE cmd.cmd = "create"
    <3>1. done = Created(t, cmd)
      BY <2>1, <2>6
    <3>2. IsTree(done.tree)
      BY <1>1, <3>1, CreatedIs
    <3>3. ASSUME NEW r \in Paths PROVE done.tree[r] = t[r] \/ r \in Reach(cmd)
      <4>1. \/ done = Refused(t)
            \/ done.tree[r] = IF r = p THEN File(cmd.text) ELSE IF r \in Above(p) THEN Dir ELSE t[r]
        BY <1>1, <3>1, CreatedIs
      <4>2. done.tree[r] = t[r] \/ r = p \/ r \in Above(p)
        BY <4>1, RefusedIs
      <4>3. QED
        BY <2>3, <2>4, <4>2
    <3>4. QED
      BY <2>6, <3>2, <3>3
  <2>7. CASE cmd.cmd \in {"str_replace", "insert"}
    <3>1. done = Edited(t, cmd)
      BY <2>1, <2>7
    <3>2. IsTree(done.tree)
      BY <1>1, <3>1, EditedIs
    <3>3. ASSUME NEW r \in Paths PROVE done.tree[r] = t[r] \/ r \in Reach(cmd)
      <4>1. done = Refused(t) \/ r = p \/ done.tree[r] = t[r]
        BY <1>1, <3>1, EditedIs
      <4>2. done.tree[r] = t[r] \/ r = p
        BY <4>1, RefusedIs
      <4>3. QED
        BY <2>3, <2>4, <4>2
    <3>4. QED
      BY <2>7, <3>2, <3>3
  <2>8. CASE cmd.cmd = "delete"
    <3>1. done = Deleted(t, cmd)
      BY <2>1, <2>8
    <3>2. IsTree(done.tree)
      BY <1>1, <3>1, DeletedIs
    <3>3. ASSUME NEW r \in Paths PROVE done.tree[r] = t[r] \/ r \in Reach(cmd)
      <4>1. done = Refused(t) \/ IsPrefix(p, r) \/ done.tree[r] = t[r]
        BY <1>1, <3>1, DeletedIs
      <4>2. done.tree[r] = t[r] \/ IsPrefix(p, r)
        BY <4>1, RefusedIs
      <4>3. QED
        BY <2>3, <2>4, <4>2
    <3>4. QED
      BY <2>8, <3>2, <3>3
  <2>9. CASE cmd.cmd = "rename"
    <3>1. done = Renamed(t, cmd)
      BY <2>1, <2>9
    <3>2. IsTree(done.tree)
      BY <1>1, <2>9, <3>1, RenamedIs
    <3>3. cmd.q.path \in Aims(cmd)
      BY <1>4, <2>9, CommandOf, AimsOf
    <3>4. ASSUME NEW r \in Paths PROVE done.tree[r] = t[r] \/ r \in Reach(cmd)
      <4>1. done.tree[r] = t[r] \/ IsPrefix(p, r) \/ IsPrefix(cmd.q.path, r) \/ r \in Above(cmd.q.path)
        BY <1>1, <2>9, <3>1, RenamedIs
      <4>2. QED
        BY <2>3, <3>3, <4>1, AimsOf
    <3>5. QED
      BY <2>9, <3>2, <3>4
  <2>10. QED
    BY <2>5, <2>6, <2>7, <2>8, <2>9, CommandOf
<1>5. QED
  BY <1>2, <1>3, <1>4

-----------------------------------------------------------------------------
(* Edits: the places of a text and the hits that are looked for. *)

LEMMA PlacesAreNaturals ==
  ASSUME NEW text, NEW old PROVE Places(text, old) \subseteq Nat
BY DEF Places

LEMMA LeastExists ==
  ASSUME NEW S \in SUBSET Nat, S # {}
  PROVE  \E x \in S : \A y \in S : x <= y
<1>1. PICK x \in S : \A y \in S : ~(<<y, x>> \in OpToRel(<, Nat))
  BY WFMin, NatLessThanWellFounded
<1>2. \A y \in S : ~(y < x)
  BY <1>1 DEF OpToRel
<1> QED
  BY <1>2

LEMMA FirstPlace ==
  ASSUME NEW text, NEW old, Places(text, old) # {}
  PROVE  \E n \in Places(text, old) : \A m \in Places(text, old) : n <= m
BY PlacesAreNaturals, LeastExists

LEMMA OneHit ==
  ASSUME NEW text, NEW old \in Sought
  PROVE  LET one == {hit \in FirstHits(text, old) : NextHits(text, old, hit) = {}}
             n == CHOOSE n \in Places(text, old) : \A m \in Places(text, old) : n <= m
         IN  one = IF OnePlace(text, old) THEN {n} ELSE {}
<1> DEFINE P == Places(text, old)
           one == {hit \in FirstHits(text, old) : NextHits(text, old, hit) = {}}
           n == CHOOSE n \in P : \A m \in P : n <= m
           step == IF old = <<>> THEN 1 ELSE Len(old)
<1>1. P \subseteq Nat
  BY PlacesAreNaturals
<1>2. Len(old) \in Nat /\ step \in Nat /\ (old # <<>> => Len(old) > 0) /\ (old = <<>> => Len(old) = 0)
  <2>1. old \in Seq(STRING)
    BY MemoryAssumption
  <2>2. Len(old) \in Nat /\ (old # <<>> => Len(old) \in Nat \ {0}) /\ Len(<<>>) = 0
    BY <2>1, LenProperties, EmptySeq
  <2>3. QED
    BY <2>2
<1>3. \A hit : hit \in FirstHits(text, old) <=> hit \in P /\ hit >= 0 /\ \A m \in P : m >= 0 => hit <= m
  BY DEF FirstHits, HitsFrom
<1>4. \A hit : NextHits(text, old, hit) =
                 {k \in P : k >= hit + step /\ \A m \in P : m >= hit + step => k <= m}
  BY DEF NextHits, HitsFrom
<1>5. OnePlace(text, old) <=> P # {} /\ \A k, m \in P : k < m => m - k < Len(old)
  BY DEF OnePlace
<1>6. CASE P = {}
  BY <1>3, <1>5, <1>6
<1>7. CASE P # {}
  <2>1. n \in P /\ \A m \in P : n <= m
    BY <1>7, FirstPlace
  <2> HIDE DEF n
  <2>2. \A hit : hit \in FirstHits(text, old) <=> hit = n
    BY <1>1, <1>3, <2>1
  <2> DEFINE Q == {k \in P : k >= n + step}
  <2>3. NextHits(text, old, n) = {} <=> Q = {}
    <3>1. ASSUME Q # {} PROVE NextHits(text, old, n) # {}
      <4>1. PICK k \in Q : \A m \in Q : k <= m
        BY <1>1, <3>1, LeastExists
      <4>2. k \in NextHits(text, old, n)
        BY <1>4, <4>1
      <4>3. QED
        BY <4>2
    <3>2. ASSUME Q = {} PROVE NextHits(text, old, n) = {}
      BY <1>4, <3>2
    <3>3. QED
      BY <3>1, <3>2
  <2>4. OnePlace(text, old) <=> \A m \in P : m < n + step
    <3>1. ASSUME \A k, m \in P : k < m => m - k < Len(old), NEW m \in P PROVE m < n + step
      BY <1>1, <1>2, <2>1, <3>1
    <3>2. ASSUME \A m \in P : m < n + step, NEW k \in P, NEW m \in P, k < m PROVE m - k < Len(old)
      <4>1. {k, m, n} \subseteq Nat /\ n <= k /\ m < n + step
        BY <1>1, <2>1, <3>2
      <4>2. CASE old = <<>>
        BY <1>2, <3>2, <4>1, <4>2
      <4>3. CASE old # <<>>
        BY <1>2, <3>2, <4>1, <4>3
      <4>4. QED
        BY <4>2, <4>3
    <3>3. QED
      BY <1>5, <1>7, <3>1, <3>2
  <2>5. Q = {} <=> \A m \in P : m < n + step
    BY <1>1, <1>2, <2>1
  <2>6. QED
    BY <2>2, <2>3, <2>4, <2>5 DEF n
<1>8. QED
  BY <1>6, <1>7

Edits == {"str_replace", "insert"}

\* What an edit works out is what it is to work out.
LEMMA NewTextIs ==
  ASSUME NEW cmd \in Commands, cmd.cmd \in Edits, NEW text
  PROVE  LET new == IF cmd.cmd = "insert" THEN Insertion(Lines(text), cmd) ELSE Replacement(text, cmd)
         IN  NewText(cmd, text) = IF new.fits THEN {new.text} ELSE {}
<1>1. CASE cmd.cmd = "insert"
  <2>1. NewText(cmd, text) =
          IF cmd.at \in 0 .. Len(Lines(text)) THEN {Joined(Inserted(Lines(text), cmd.at, Lines(cmd.text)))}
          ELSE {}
    BY <1>1 DEF NewText
  <2>2. Insertion(Lines(text), cmd) =
          IF cmd.at \in 0 .. Len(Lines(text))
          THEN [fits |-> TRUE, text |-> Joined(Inserted(Lines(text), cmd.at, Lines(cmd.text)))]
          ELSE Nowhere
    BY DEF Insertion, Inserted
  <2>3. CASE cmd.at \in 0 .. Len(Lines(text))
    BY <1>1, <2>1, <2>2, <2>3
  <2>4. CASE cmd.at \notin 0 .. Len(Lines(text))
    BY <1>1, <2>1, <2>2, <2>4 DEF Nowhere
  <2>5. QED
    BY <2>3, <2>4
<1>2. CASE cmd.cmd = "str_replace"
  <2> DEFINE one == {hit \in FirstHits(text, cmd.old) : NextHits(text, cmd.old, hit) = {}}
             n == CHOOSE n \in Places(text, cmd.old) : \A m \in Places(text, cmd.old) : n <= m
  <2>1. cmd.old \in Sought
    BY <1>2 DEF Commands
  <2>2. one = IF OnePlace(text, cmd.old) THEN {n} ELSE {}
    BY <2>1, OneHit
  <2>3. NewText(cmd, text) = {Replaced(text, hit, cmd.old, cmd.text) : hit \in one}
    BY <1>2 DEF NewText
  <2>4. Replacement(text, cmd) =
          IF OnePlace(text, cmd.old) THEN [fits |-> TRUE, text |-> Replaced(text, n, cmd.old, cmd.text)]
          ELSE Nowhere
    BY DEF Replacement, Replaced
  <2> HIDE DEF one, n
  <2>5. QED
    BY <1>2, <2>2, <2>3, <2>4 DEF Nowhere
<1>3. QED
  BY <1>1, <1>2 DEF Edits

LEMMA EditedTells ==
  ASSUME NEW tree, IsTree(tree), NEW cmd \in Commands, cmd.cmd \in Edits
  PROVE  LET p == cmd.p.path
             new == {text \in NewText(cmd, tree[p].text) : Len(text) <= MaxSize}
         IN  /\ \A text \in new : tree[p].kind = "file" =>
                  Edited(tree, cmd) = Achieved([tree EXCEPT ![p] = File(text)])
             /\ tree[p].kind # "file" \/ new = {} => Edited(tree, cmd) = Refused(tree)
<1> DEFINE p == cmd.p.path
           new == IF cmd.cmd = "insert" THEN Insertion(Lines(tree[p].text), cmd)
                  ELSE Replacement(tree[p].text, cmd)
<1>1. Edited(tree, cmd) = Holding(tree, p, new)
  BY DEF Edited
<1>2. NewText(cmd, tree[p].text) = IF new.fits THEN {new.text} ELSE {}
  BY NewTextIs
<1> HIDE DEF new, p
<1>3. QED
  BY <1>1, <1>2 DEF Holding, p

-----------------------------------------------------------------------------
(* memory.rs: what holds while commands of one agent are under way. *)

\* What a command may take away or put there.
Zone(c) ==
  {r \in Paths : /\ call[c].c.cmd # "view" /\ call[c].step \notin {"readonly", "barred"}
                 /\ \E p \in Aims(call[c].c) : IsPrefix(p, r)}

\* The directories a command has made already, whatever becomes of it.
Makes(c) ==
  LET cmd == call[c].c
      resolved == call[c].step \in {"asked", "write", "fill", "move"} /\ cmd.p.as # "outside"
  IN  (IF resolved THEN {Root} ELSE {})
      \cup (IF call[c].step \in {"write", "fill"} THEN Above(cmd.p.path) ELSE {})
      \cup (IF call[c].step = "move" THEN Above(cmd.q.path) ELSE {})

Filled(c) == IF call[c].step = "fill" THEN {call[c].c.p.path} ELSE {}

\* The disk is what it is due to be, but for what commands under way have begun.
Close ==
  \A r \in Paths :
    \/ disk[r] = ideal[r]
    \/ disk[r] = Dir /\ ideal[r] = None /\ \E c \in InFlight : r \in Makes(c)
    \/ \E c \in InFlight : r \in Filled(c)

\* A command has the text its file is due to have.
HasText(c) ==
  LET cmd == call[c].c
      node == ideal[cmd.p.path]
  IN  /\ Len(call[c].text) <= MaxSize
      /\ IF cmd.cmd = "create" THEN node.kind # "dir" \/ call[c].step = "write" ELSE node.kind = "file"
      /\ IF cmd.cmd = "create" THEN call[c].text = cmd.text
         ELSE call[c].text \in NewText(cmd, node.text)

\* What a command has found still stands.
Ready(c) ==
  LET cmd == call[c].c
      step == call[c].step
  IN  /\ cmd.p.as # "outside" /\ step # "readonly" =>
           IF step = "barred" THEN disk[Root].kind = "file" ELSE disk[Root] = Dir
      /\ step \in {"write", "fill"} => HasText(c) /\ \A r \in Above(cmd.p.path) : disk[r] = Dir
      /\ step = "fill" => disk[cmd.p.path].kind = "file"
      /\ step = "move" =>
           /\ ~IsRoot(cmd.p) /\ disk[cmd.p.path] # None /\ disk[cmd.q.path] = None
           /\ cmd.p.path = Root \/ ideal[cmd.p.path] # None
           /\ \A r \in Above(cmd.q.path) : disk[r] = Dir

Calm ==
  /\ \A c, d \in InFlight : c # d /\ Meet(call[c].c, call[d].c) =>
       call[c].c.cmd = "view" /\ call[d].c.cmd = "view"
  /\ \A c \in InFlight : (call[c].clean \/ call[c].c.cmd = "view") /\ Ready(c)
  /\ Close

\* Commands got in each other's way: what they may have touched is unsure.
Loose ==
  /\ Root \in raced
  /\ \A r \in Paths :
       \/ disk[r] = ideal[r]
       \/ r \in raced
       \/ \E c \in InFlight :
            call[c].step # "readonly" /\ call[c].c.cmd # "view" /\ r \in Reach(call[c].c)

\* How far a command of each kind may be.
Flight(f) ==
  /\ f = [step |-> f.step, c |-> f.c, text |-> f.text, clean |-> f.clean]
  /\ f.c \in Commands /\ f.clean \in BOOLEAN
  /\ f.step \in {"readonly", "barred", "asked", "write", "fill", "move"}
  /\ f.step = "readonly" => f.c.cmd # "view"
  /\ f.step = "barred" => f.c.p.as # "outside"
  /\ f.step \in {"write", "fill"} => f.c.cmd \in {"create", "str_replace", "insert"}
  /\ f.step = "move" => f.c.cmd = "rename"
  /\ f.step \in {"write", "fill", "move"} => \A s \in Names(f.c) : s.as # "outside"

MemoryInv ==
  /\ DOMAIN call = Callers /\ \A c \in InFlight : Flight(call[c])
  /\ IsTree(disk) /\ IsTree(ideal)
  /\ agreed = TRUE
  /\ raced \subseteq Paths
  /\ IF raced = {} THEN Calm ELSE Loose

-----------------------------------------------------------------------------
(* What commands under way can rely on, while none gets in another's way. *)

LEMMA FlightOf ==
  ASSUME MemoryInv, NEW c \in InFlight
  PROVE  c \in Callers /\ Flight(call[c]) /\ call[c].c \in Commands
BY DEF MemoryInv, InFlight, Flight

LEMMA CalmIs ==
  ASSUME MemoryInv, raced = {}
  PROVE  Calm
BY DEF MemoryInv

LEMMA MadeIsDir ==
  ASSUME MemoryInv, raced = {}, NEW c \in InFlight, NEW r \in Makes(c)
  PROVE  /\ r \in Paths /\ disk[r] = Dir
         /\ r = Root \/ (call[c].c.cmd # "view" /\ \E a \in Aims(call[c].c) : r \in Above(a))
         /\ Aims(call[c].c) # {}
<1> DEFINE cmd == call[c].c
           step == call[c].step
<1>1. /\ cmd \in Commands /\ Flight(call[c]) /\ Ready(c) /\ IsTree(disk)
  BY FlightOf, CalmIs DEF Calm, MemoryInv
<1>2. CASE step \in {"asked", "write", "fill", "move"} /\ cmd.p.as # "outside" /\ r = Root
  BY <1>1, <1>2, PathsAreSequences, AimsOf DEF Ready
<1>3. CASE step \in {"write", "fill"} /\ r \in Above(cmd.p.path)
  <2>1. cmd.p.as # "outside" /\ cmd.cmd # "view"
    BY <1>1, <1>3, CommandOf DEF Flight
  <2>2. r \in Paths /\ cmd.p.path \in Aims(cmd)
    BY <1>1, <1>3, <2>1, AimsOf DEF Above
  <2>3. disk[r] = Dir
    BY <1>1, <1>3 DEF Ready
  <2>4. QED
    BY <1>3, <2>1, <2>2, <2>3
<1>4. CASE step = "move" /\ r \in Above(cmd.q.path)
  <2>1. cmd.q.as # "outside" /\ cmd.cmd = "rename"
    BY <1>1, <1>4, CommandOf DEF Flight
  <2>2. r \in Paths /\ cmd.q.path \in Aims(cmd)
    BY <1>1, <1>4, <2>1, AimsOf DEF Above
  <2>3. disk[r] = Dir
    BY <1>1, <1>4 DEF Ready
  <2>4. QED
    BY <1>4, <2>1, <2>2, <2>3
<1>5. QED
  BY <1>2, <1>3, <1>4 DEF Makes

LEMMA FilledIsFile ==
  ASSUME MemoryInv, raced = {}, NEW c \in InFlight, NEW r \in Filled(c)
  PROVE  /\ r \in Paths /\ disk[r].kind = "file" /\ r \in Aims(call[c].c) /\ r \in Zone(c)
         /\ r # Root /\ r = call[c].c.p.path /\ r \notin Makes(c)
<1> DEFINE cmd == call[c].c
<1>1. cmd \in Commands /\ Flight(call[c]) /\ Ready(c)
  BY FlightOf, CalmIs DEF Calm
<1>2. call[c].step = "fill" /\ r = cmd.p.path
  BY DEF Filled
<1>3. cmd.p.as # "outside" /\ cmd.cmd # "view" /\ r \in Aims(cmd) /\ r \in Paths
  BY <1>1, <1>2, CommandOf, AimsOf DEF Flight
<1>4. disk[r].kind = "file" /\ disk[Root] = Dir
  BY <1>1, <1>2, <1>3 DEF Ready
<1>5. r \in Zone(c)
  BY <1>2, <1>3, PrefixOrder DEF Zone
<1>6. r # Root /\ r \notin Makes(c)
  BY <1>4, KindsOfNodes, MadeIsDir
<1>7. QED
  BY <1>2, <1>3, <1>4, <1>5, <1>6

LEMMA MadeWas ==
  ASSUME MemoryInv, raced = {}, NEW c \in InFlight, NEW r \in Makes(c)
  PROVE  ideal[r] \in {None, Dir}
<1>1. r \in Paths /\ disk[r] = Dir
  BY MadeIsDir
<1>2. \A d \in InFlight : r \notin Filled(d)
  BY <1>1, FilledIsFile, KindsOfNodes
<1>3. QED
  BY <1>1, <1>2, CalmIs DEF Calm, Close

LEMMA Apart ==
  ASSUME MemoryInv, raced = {}, NEW c \in InFlight, NEW d \in InFlight, c # d,
         NEW a \in Aims(call[c].c), NEW b \in Aims(call[d].c), IsPrefix(a, b) \/ IsPrefix(b, a)
  PROVE  call[c].c.cmd = "view" /\ call[d].c.cmd = "view"
BY CalmIs DEF Calm, Meet

LEMMA Undisturbed ==
  ASSUME MemoryInv, raced = {}, NEW c \in InFlight, NEW d \in InFlight, c # d,
         NEW b \in Aims(call[d].c), NEW r \in Zone(c)
  PROVE  ~IsPrefix(r, b)
<1>1. PICK a \in Aims(call[c].c) : IsPrefix(a, r)
  BY DEF Zone
<1>2. r \in Paths /\ a \in Paths /\ b \in Paths
  BY FlightOf, AimsOf DEF Zone
<1>3. IsPrefix(r, b) => IsPrefix(a, b)
  BY <1>1, <1>2, PrefixOrder
<1>4. call[c].c.cmd # "view"
  BY DEF Zone
<1>5. QED
  BY <1>3, <1>4, Apart

\* Where a command aims, the disk is what it is due to be, but for what it has begun itself.
LEMMA OwnIsClose ==
  ASSUME MemoryInv, raced = {}, NEW c \in InFlight, NEW a \in Aims(call[c].c),
         NEW r \in Paths, IsPrefix(a, r)
  PROVE  \/ disk[r] = ideal[r]
         \/ disk[r] = Dir /\ ideal[r] = None /\ r \in Makes(c)
         \/ r \in Filled(c)
<1> DEFINE cmd == call[c].c
<1>1. cmd \in Commands /\ Flight(call[c]) /\ Ready(c) /\ a \in Paths
  BY FlightOf, CalmIs, AimsOf DEF Calm
<1>2. ASSUME NEW d \in InFlight, d # c, r \in Filled(d) PROVE FALSE
  <2>1. r \in Aims(call[d].c) /\ call[d].c.cmd # "view"
    BY <1>2, FilledIsFile DEF Zone
  <2>2. QED
    BY <1>2, <2>1, Apart
<1>3. ASSUME NEW d \in InFlight, d # c, r \in Makes(d), ideal[r] = None PROVE r \in Makes(c)
  <2>1. disk[r] = Dir /\ r \in Paths
    BY <1>3, MadeIsDir
  <2>2. CASE \E b \in Aims(call[d].c) : r \in Above(b) /\ call[d].c.cmd # "view"
    <3>1. PICK b \in Aims(call[d].c) : r \in Above(b) /\ call[d].c.cmd # "view"
      BY <2>2
    <3>2. b \in Paths
      BY FlightOf, AimsOf
    <3>3. IsPrefix(a, b)
      BY <1>1, <2>1, <3>1, <3>2, AboveIs, PrefixOrder
    <3>4. QED
      BY <1>3, <3>1, <3>3, Apart
  <2>3. CASE r = Root
    <3>1. a = Root
      BY <1>1, <2>3, PrefixOrder
    <3>2. PICK b \in Aims(call[d].c) : TRUE
      BY <1>3, MadeIsDir
    <3>3. b \in Paths /\ IsPrefix(a, b)
      BY <3>1, <3>2, FlightOf, AimsOf, PrefixOrder
    <3>4. cmd.cmd = "view"
      BY <1>3, <3>3, Apart
    <3>5. Names(cmd) = {cmd.p} /\ call[c].step \in {"asked", "barred"}
      BY <1>1, <3>4 DEF Names, Flight
    <3>6. cmd.p.as # "outside"
      BY <3>5 DEF Aims
    <3>7. call[c].step # "barred"
      BY <1>1, <2>1, <2>3, <3>6, KindsOfNodes DEF Ready
    <3>8. QED
      BY <2>3, <3>5, <3>6, <3>7 DEF Makes
  <2>4. QED
    BY <1>3, <2>2, <2>3, MadeIsDir
<1>4. QED
  BY <1>2, <1>3, CalmIs DEF Calm, Close

\* What a step of one command makes is no matter to another.
LEMMA ReadyKept ==
  ASSUME MemoryInv, raced = {}, NEW c \in InFlight, NEW d \in InFlight, c # d, call'[d] = call[d],
         NEW M \in SUBSET Paths,
         \A r \in M : r = Root \/ (call[c].c.cmd # "view" /\ \E a \in Aims(call[c].c) : r \in Above(a)),
         \A r \in Paths : \/ r \in Zone(c)
                          \/ disk'[r] = disk[r]
                          \/ disk[r] = None /\ disk'[r] = Dir /\ r \in M,
         \A r \in Paths : \/ r \in Zone(c)
                          \/ ideal'[r] = ideal[r]
                          \/ ideal[r] = None /\ ideal'[r] = Dir /\ r \in M
  PROVE  Ready(d)'
<1> DEFINE cmd == call[d].c
           step == call[d].step
<1>1. cmd \in Commands /\ Flight(call[d]) /\ Ready(d) /\ call[c].c \in Commands
  BY FlightOf, CalmIs DEF Calm
<1>2. ASSUME NEW b \in Aims(cmd), NEW r \in Paths, IsPrefix(r, b)
      PROVE  /\ disk'[r] = disk[r] \/ (disk[r] = None /\ disk'[r] = Dir)
             /\ ideal'[r] = ideal[r] \/ (ideal[r] = None /\ ideal'[r] = Dir)
  BY <1>2, Undisturbed
<1>3. ASSUME NEW b \in Aims(cmd), b # Root
      PROVE  disk'[b] = disk[b] /\ ideal'[b] = ideal[b]
  <2>1. b \in Paths /\ IsPrefix(b, b)
    BY <1>1, AimsOf, PrefixOrder
  <2>2. b \notin Zone(c)
    BY <2>1, Undisturbed
  <2>3. b \notin M
    <3>1. ASSUME b \in M PROVE FALSE
      <4>1. PICK a \in Aims(call[c].c) : b \in Above(a) /\ call[c].c.cmd # "view"
        BY <1>3, <3>1
      <4>2. a \in Paths /\ IsPrefix(b, a)
        BY <1>1, <2>1, <4>1, AimsOf, AboveIs
      <4>3. QED
        BY <4>1, <4>2, Apart
    <3>2. QED
      BY <3>1
  <2>4. QED
    BY <2>1, <2>2, <2>3
<1>4. cmd.p.as # "outside" => cmd.p.path \in Aims(cmd) /\ cmd.p.path \in Paths
  BY <1>1, AimsOf
<1>5. cmd.p.as # "outside" => disk'[Root] = disk[Root] \/ (disk[Root] = None /\ disk'[Root] = Dir)
  BY <1>2, <1>4, PrefixOrder, PathsAreSequences
<1>6. cmd.p.as # "outside" /\ step # "readonly" =>
        IF step = "barred" THEN disk'[Root].kind = "file" ELSE disk'[Root] = Dir
  BY <1>1, <1>5, KindsOfNodes DEF Ready
<1>7. ASSUME NEW b \in Aims(cmd), \A r \in Above(b) : disk[r] = Dir
      PROVE  \A r \in Above(b) : disk'[r] = Dir
  <2>1. b \in Paths
    BY <1>1, AimsOf
  <2>2. QED
    BY <1>2, <1>7, <2>1, AboveIs, KindsOfNodes DEF Above
<1>8. ASSUME step \in {"write", "fill"}
      PROVE  HasText(d)' /\ \A r \in Above(cmd.p.path) : disk'[r] = Dir
  <2>1. cmd.p.as # "outside" /\ HasText(d) /\ \A r \in Above(cmd.p.path) : disk[r] = Dir
    BY <1>1, <1>8, CommandOf DEF Flight, Ready
  <2>2. \A r \in Above(cmd.p.path) : disk'[r] = Dir
    BY <1>4, <1>7, <2>1
  <2>3. step = "fill" => cmd.p.path # Root
    BY <1>1, <2>1, KindsOfNodes DEF Ready
  <2>4. \/ ideal'[cmd.p.path] = ideal[cmd.p.path]
        \/ ideal[cmd.p.path] = None /\ step = "write"
    BY <1>2, <1>3, <1>4, <1>8, <2>1, <2>3, PrefixOrder
  <2>5. CASE ideal'[cmd.p.path] = ideal[cmd.p.path]
    BY <2>1, <2>2, <2>5 DEF HasText
  <2>6. CASE ideal[cmd.p.path] = None /\ step = "write"
    <3>1. cmd.cmd = "create"
      BY <2>1, <2>6, KindsOfNodes DEF HasText
    <3>2. QED
      BY <2>1, <2>2, <2>6, <3>1 DEF HasText
  <2>7. QED
    BY <2>4, <2>5, <2>6
<1>9. ASSUME step = "fill" PROVE disk'[cmd.p.path].kind = "file"
  <2>1. cmd.p.as # "outside" /\ disk[cmd.p.path].kind = "file" /\ disk[Root] = Dir
    BY <1>1, <1>9, CommandOf DEF Flight, Ready
  <2>2. cmd.p.path # Root
    BY <2>1, KindsOfNodes
  <2>3. QED
    BY <1>3, <1>4, <2>1, <2>2
<1>10. ASSUME step = "move"
       PROVE  /\ ~IsRoot(cmd.p) /\ disk'[cmd.p.path] # None /\ disk'[cmd.q.path] = None
              /\ cmd.p.path = Root \/ ideal'[cmd.p.path] # None
              /\ \A r \in Above(cmd.q.path) : disk'[r] = Dir
  <2>1. /\ cmd.cmd = "rename" /\ cmd.p.as # "outside" /\ cmd.q.as # "outside"
        /\ ~IsRoot(cmd.p) /\ disk[cmd.p.path] # None /\ disk[cmd.q.path] = None /\ disk[Root] = Dir
        /\ cmd.p.path = Root \/ ideal[cmd.p.path] # None
        /\ \A r \in Above(cmd.q.path) : disk[r] = Dir
    BY <1>1, <1>10, CommandOf DEF Flight, Ready
  <2>2. cmd.q.path \in Aims(cmd) /\ cmd.q.path # Root
    BY <1>1, <2>1, AimsOf, KindsOfNodes
  <2>3. disk'[cmd.q.path] = None /\ \A r \in Above(cmd.q.path) : disk'[r] = Dir
    BY <1>3, <1>7, <2>1, <2>2
  <2>4. disk'[cmd.p.path] # None /\ (cmd.p.path = Root \/ ideal'[cmd.p.path] # None)
    BY <1>2, <1>4, <2>1, PrefixOrder, KindsOfNodes
  <2>5. QED
    BY <2>1, <2>3, <2>4
<1>11. QED
  BY <1>6, <1>8, <1>9, <1>10 DEF Ready

-----------------------------------------------------------------------------
(* A step of one command, as the others see it. *)

LEMMA FlightWith ==
  ASSUME NEW S, NEW C, NEW T, NEW E, NEW f \in [step : S, c : C, text : T, clean : E],
         NEW s \in S, NEW t \in T, NEW e \in E
  PROVE  /\ [f EXCEPT !.step = s, !.text = t] \in [step : S, c : C, text : T, clean : E]
         /\ [f EXCEPT !.step = s, !.text = t].step = s /\ [f EXCEPT !.step = s, !.text = t].c = f.c
         /\ [f EXCEPT !.step = s, !.text = t].text = t
         /\ [f EXCEPT !.step = s, !.text = t].clean = f.clean
         /\ [f EXCEPT !.clean = e] \in [step : S, c : C, text : T, clean : E]
         /\ [f EXCEPT !.clean = e].step = f.step /\ [f EXCEPT !.clean = e].c = f.c
         /\ [f EXCEPT !.clean = e].text = f.text /\ [f EXCEPT !.clean = e].clean = e
  OBVIOUS

LEMMA FlightFields ==
  ASSUME NEW S, NEW C, NEW T, NEW E, NEW f \in [step : S, c : C, text : T, clean : E]
  PROVE  f = [step |-> f.step, c |-> f.c, text |-> f.text, clean |-> f.clean]
OBVIOUS

LEMMA FlightStep ==
  ASSUME NEW f, Flight(f), NEW step, NEW text
  PROVE  [f EXCEPT !.step = step, !.text = text] = [step |-> step, c |-> f.c, text |-> text, clean |-> f.clean]
<1> DEFINE S == {f.step, step}
           T == {f.text, text}
           g == [f EXCEPT !.step = step, !.text = text]
<1>1. f \in [step : S, c : {f.c}, text : T, clean : {f.clean}]
  BY DEF Flight
<1>2. /\ g \in [step : S, c : {f.c}, text : T, clean : {f.clean}]
      /\ g.step = step /\ g.c = f.c /\ g.text = text /\ g.clean = f.clean
  BY <1>1, FlightWith
<1> HIDE DEF g
<1>3. g = [step |-> g.step, c |-> g.c, text |-> g.text, clean |-> g.clean]
  BY <1>2, FlightFields
<1>4. QED
  BY <1>2, <1>3 DEF g

LEMMA FlightNotClean ==
  ASSUME NEW f, Flight(f)
  PROVE  /\ [f EXCEPT !.clean = FALSE] = [step |-> f.step, c |-> f.c, text |-> f.text, clean |-> FALSE]
         /\ Flight([f EXCEPT !.clean = FALSE])
<1> DEFINE E == {f.clean, FALSE}
           g == [f EXCEPT !.clean = FALSE]
<1>1. f \in [step : {f.step}, c : {f.c}, text : {f.text}, clean : E]
  BY DEF Flight
<1>2. /\ g \in [step : {f.step}, c : {f.c}, text : {f.text}, clean : E]
      /\ g.step = f.step /\ g.c = f.c /\ g.text = f.text /\ g.clean = FALSE
  BY <1>1, FlightWith
<1> HIDE DEF g
<1>3. g = [step |-> g.step, c |-> g.c, text |-> g.text, clean |-> g.clean]
  BY <1>2, FlightFields
<1>4. Flight(g)
  BY <1>2, <1>3 DEF Flight
<1>5. QED
  BY <1>2, <1>3, <1>4 DEF g

LEMMA NotIdle ==
  /\ \A f : Flight(f) => f # Idle
  /\ \A s, k, t, e : s # "idle" => [step |-> s, c |-> k, text |-> t, clean |-> e] # Idle
<1>1. Idle.step = "idle"
  BY DEF Idle
<1>2. \A s, k, t, e : [step |-> s, c |-> k, text |-> t, clean |-> e].step = s
  OBVIOUS
<1>3. QED
  BY <1>1, <1>2 DEF Flight

Onward == {"write", "fill", "move"}

LEMMA MovesTo ==
  ASSUME MemoryInv, NEW c \in InFlight, NEW step \in Onward, NEW text, Moves(c, step, text)
  PROVE  /\ DOMAIN call' = Callers /\ InFlight' = InFlight
         /\ call'[c] = [step |-> step, c |-> call[c].c, text |-> text, clean |-> call[c].clean]
         /\ call'[c].step = step /\ call'[c].c = call[c].c /\ call'[c].text = text
         /\ call'[c].clean = call[c].clean
         /\ \A d \in Callers : d # c => call'[d] = call[d]
<1>1. DOMAIN call = Callers /\ c \in Callers /\ Flight(call[c])
  BY FlightOf DEF MemoryInv
<1>2. /\ DOMAIN call' = Callers
      /\ call'[c] = [call[c] EXCEPT !.step = step, !.text = text]
      /\ \A d \in Callers : d # c => call'[d] = call[d]
  BY <1>1 DEF Moves
<1>3. call'[c] = [step |-> step, c |-> call[c].c, text |-> text, clean |-> call[c].clean]
  BY <1>1, <1>2, FlightStep
<1>4. call'[c] # Idle /\ call[c] # Idle
  BY <1>1, <1>3, NotIdle DEF Onward
<1>5. InFlight' = InFlight
  BY <1>1, <1>2, <1>4 DEF InFlight
<1>6. QED
  BY <1>2, <1>3, <1>5

LEMMA EndsTo ==
  ASSUME MemoryInv, NEW c \in InFlight, call' = [call EXCEPT ![c] = Idle]
  PROVE  /\ DOMAIN call' = Callers /\ InFlight' = InFlight \ {c}
         /\ \A d \in InFlight' : call'[d] = call[d] /\ d \in InFlight /\ d # c
<1>1. DOMAIN call = Callers /\ c \in Callers
  BY FlightOf DEF MemoryInv
<1>2. DOMAIN call' = Callers /\ call'[c] = Idle /\ \A d \in Callers : d # c => call'[d] = call[d]
  BY <1>1
<1>3. InFlight' = InFlight \ {c}
  BY <1>2 DEF InFlight
<1>4. QED
  BY <1>2, <1>3 DEF InFlight

LEMMA MoveCalm ==
  ASSUME MemoryInv, raced = {}, NEW c \in InFlight, NEW step \in Onward, NEW text, Moves(c, step, text),
         call[c].step \in {"asked", "write"}, call[c].c.cmd # "view",
         Flight(call'[c]), IsTree(disk'), Ready(c)', Makes(c) \subseteq Makes(c)',
         \A r \in Makes(c)' : r = Root \/ \E a \in Aims(call[c].c) : r \in Above(a),
         \A r \in Paths : \/ disk'[r] = disk[r]
                          \/ disk[r] = None /\ disk'[r] = Dir /\ r \in Makes(c)'
                          \/ r \in Filled(c)' /\ r \in Aims(call[c].c)
  PROVE  MemoryInv'
<1>1. /\ DOMAIN call' = Callers /\ InFlight' = InFlight
      /\ call'[c].step = step /\ call'[c].c = call[c].c /\ call'[c].clean = call[c].clean
      /\ \A d \in Callers : d # c => call'[d] = call[d]
  BY MovesTo
<1>2. ideal' = ideal /\ raced' = raced /\ agreed' = agreed
  BY DEF Moves
<1>3. call[c].c \in Commands
  BY FlightOf
<1>4. ASSUME NEW d \in InFlight PROVE Flight(call'[d])
  BY <1>1, <1>4, FlightOf
<1>5. ASSUME NEW d \in InFlight PROVE Ready(d)' /\ (call'[d].clean \/ call'[d].c.cmd = "view")
  <2>1. call[d].clean \/ call[d].c.cmd = "view"
    BY CalmIs DEF Calm
  <2>2. CASE d = c
    BY <1>1, <2>1, <2>2
  <2>3. CASE d # c
    <3>1. call'[d] = call[d]
      BY <1>1, <2>3, FlightOf
    <3> DEFINE M == Makes(c)' \cap Paths
    <3>2. \A r \in Paths : r \in Zone(c) \/ disk'[r] = disk[r] \/ (disk[r] = None /\ disk'[r] = Dir /\ r \in M)
      <4>1. \A r \in Aims(call[c].c) : r \in Zone(c)
        BY <1>3, AimsOf, PrefixOrder DEF Zone
      <4>2. QED
        BY <4>1
    <3>3. \A r \in M : r = Root \/ (call[c].c.cmd # "view" /\ \E a \in Aims(call[c].c) : r \in Above(a))
      OBVIOUS
    <3>4. M \in SUBSET Paths
      OBVIOUS
    <3> HIDE DEF M
    <3>5. Ready(d)'
      BY <1>2, <2>3, <3>1, <3>2, <3>3, <3>4, ReadyKept
    <3>6. QED
      BY <2>1, <3>1, <3>5
  <2>4. QED
    BY <2>2, <2>3
<1>6. ASSUME NEW d \in InFlight, NEW e \in InFlight, d # e, Meet(call'[d].c, call'[e].c)
      PROVE  call'[d].c.cmd = "view" /\ call'[e].c.cmd = "view"
  <2>1. call'[d].c = call[d].c /\ call'[e].c = call[e].c
    BY <1>1, FlightOf
  <2>2. QED
    BY <1>6, <2>1, CalmIs DEF Calm
<1>7. ASSUME NEW r \in Paths
      PROVE  \/ disk'[r] = ideal[r]
             \/ disk'[r] = Dir /\ ideal[r] = None /\ \E d \in InFlight : r \in Makes(d)'
             \/ \E d \in InFlight : r \in Filled(d)'
  <2>1. \A d \in InFlight : d # c => Makes(d)' = Makes(d) /\ Filled(d)' = Filled(d)
    BY <1>1, FlightOf DEF Makes, Filled
  <2>2. Filled(c) = {}
    BY DEF Filled
  <2>3. CASE disk'[r] = disk[r]
    BY <2>1, <2>2, <2>3, CalmIs DEF Calm, Close
  <2>4. CASE disk[r] = None /\ disk'[r] = Dir /\ r \in Makes(c)'
    <3>1. \A d \in InFlight : r \notin Filled(d)
      BY <2>4, FilledIsFile, KindsOfNodes
    <3>2. ideal[r] = None
      BY <2>4, <3>1, CalmIs, KindsOfNodes DEF Calm, Close
    <3>3. QED
      BY <2>4, <3>2
  <2>5. QED
    BY <2>3, <2>4
<1>8. Close'
  BY <1>1, <1>2, <1>7 DEF Close
<1>9. Calm'
  BY <1>1, <1>2, <1>5, <1>6, <1>8, CalmIs DEF Calm
<1>10. IsTree(ideal)'
  BY <1>2 DEF MemoryInv, IsTree, Above
<1>11. QED
  BY <1>1, <1>2, <1>4, <1>9, <1>10 DEF MemoryInv

LEMMA AnswerCalm ==
  ASSUME MemoryInv, raced = {}, NEW c \in InFlight, NEW ok, NEW shows, Answers(c, ok, shows),
         IsTree(disk'), IsTree(Owed(c).tree),
         call[c].clean => ok = Owed(c).ok /\ shows = Owed(c).shows,
         \A r \in Zone(c) : disk'[r] = Owed(c).tree[r],
         \A r \in Paths : r \notin Zone(c) =>
           disk'[r] = disk[r] /\ Owed(c).tree[r] = IF r \in Makes(c) THEN Dir ELSE ideal[r]
  PROVE  MemoryInv'
<1> DEFINE due == Owed(c)
<1>1. call[c].clean \/ call[c].c.cmd = "view"
  BY CalmIs DEF Calm
<1>2. (call[c].clean /\ Reach(call[c].c) \cap raced = {}) = call[c].clean
  <2>1. call[c].clean \in BOOLEAN
    BY FlightOf DEF Flight
  <2>2. Reach(call[c].c) \cap raced = {}
    OBVIOUS
  <2>3. QED
    BY <2>1, <2>2
<1>3. /\ call' = [call EXCEPT ![c] = Idle]
      /\ ideal' = [p \in Paths |-> due.tree[p]]
      /\ raced' = {}
      /\ agreed' = (call[c].clean => ok = due.ok /\ shows = due.shows)
  <2>1. Settles(c, ok, shows, due, call[c].clean, {}, InFlight = {c})
    BY <1>1, <1>2 DEF Answers
  <2> HIDE DEF due
  <2>2. QED
    BY <2>1 DEF Settles
<1>4. agreed' = TRUE
  BY <1>3
<1>5. DOMAIN due.tree = Paths
  BY DEF IsTree
<1> HIDE DEF due
<1>6. DOMAIN ideal' = Paths /\ \A r \in Paths : ideal'[r] = due.tree[r]
  BY <1>3
<1>7. IsTree(ideal)'
  BY <1>6 DEF IsTree, due, Above
<1>8. /\ DOMAIN call' = Callers /\ InFlight' = InFlight \ {c}
      /\ \A d \in InFlight' : call'[d] = call[d] /\ d \in InFlight /\ d # c
  BY <1>3, EndsTo
<1>9. \A d \in InFlight' : Flight(call'[d])
  BY <1>8, FlightOf
<1>10. ASSUME NEW d \in InFlight' PROVE Ready(d)' /\ (call'[d].clean \/ call'[d].c.cmd = "view")
  <2>1. call'[d] = call[d] /\ d \in InFlight /\ d # c
    BY <1>8
  <2> DEFINE M == Makes(c)
  <2>2. M \in SUBSET Paths
    BY MadeIsDir
  <2>3. \A r \in M : r = Root \/ (call[c].c.cmd # "view" /\ \E a \in Aims(call[c].c) : r \in Above(a))
    BY MadeIsDir
  <2>4. \A r \in Paths : r \in Zone(c) \/ disk'[r] = disk[r] \/ (disk[r] = None /\ disk'[r] = Dir /\ r \in M)
    OBVIOUS
  <2>5. \A r \in Paths : r \in Zone(c) \/ ideal'[r] = ideal[r] \/ (ideal[r] = None /\ ideal'[r] = Dir /\ r \in M)
    BY <1>6, MadeWas DEF due
  <2> HIDE DEF M
  <2>6. Ready(d)'
    BY <2>1, <2>2, <2>3, <2>4, <2>5, ReadyKept
  <2>7. QED
    BY <2>1, <2>6, CalmIs DEF Calm
<1>11. ASSUME NEW d \in InFlight', NEW e \in InFlight', d # e, Meet(call'[d].c, call'[e].c)
       PROVE  call'[d].c.cmd = "view" /\ call'[e].c.cmd = "view"
  BY <1>8, <1>11, CalmIs DEF Calm
<1>12. ASSUME NEW r \in Paths
       PROVE  \/ disk'[r] = ideal'[r]
              \/ disk'[r] = Dir /\ ideal'[r] = None /\ \E d \in InFlight' : r \in Makes(d)'
              \/ \E d \in InFlight' : r \in Filled(d)'
  <2>1. \A d \in InFlight : d # c => d \in InFlight' /\ Makes(d)' = Makes(d) /\ Filled(d)' = Filled(d)
    BY <1>8 DEF Makes, Filled
  <2>2. CASE r \in Zone(c)
    BY <1>6, <2>2 DEF due
  <2>3. CASE r \notin Zone(c) /\ r \in Makes(c)
    BY <1>6, <2>3, MadeIsDir DEF due
  <2>4. CASE r \notin Zone(c) /\ r \notin Makes(c)
    <3>1. disk'[r] = disk[r] /\ ideal'[r] = ideal[r]
      BY <1>6, <2>4 DEF due
    <3>2. r \notin Filled(c)
      BY <2>4, FilledIsFile
    <3>3. QED
      BY <2>1, <2>4, <3>1, <3>2, CalmIs DEF Calm, Close
  <2>5. QED
    BY <2>2, <2>3, <2>4
<1>13. Close'
  BY <1>12 DEF Close
<1>14. Calm'
  BY <1>10, <1>11, <1>13 DEF Calm
<1>15. raced' = {} /\ (raced \subseteq Paths)'
  BY <1>3
<1>16. QED
  BY <1>4, <1>7, <1>8, <1>9, <1>14, <1>15 DEF MemoryInv

\* What a command under way may touch in a race.
Touches(c) ==
  IF call[c].step = "readonly" \/ call[c].c.cmd = "view" THEN {} ELSE Reach(call[c].c)

LEMMA LooseIs ==
  ASSUME MemoryInv, raced # {}
  PROVE  /\ Root \in raced
         /\ \A r \in Paths : disk[r] = ideal[r] \/ r \in raced \/ \E c \in InFlight : r \in Touches(c)
<1>1. Loose
  BY DEF MemoryInv
<1>2. QED
  BY <1>1 DEF Loose, Touches

LEMMA MoveLoose ==
  ASSUME MemoryInv, raced # {}, NEW c \in InFlight, NEW step \in Onward, NEW text, Moves(c, step, text),
         call[c].c.cmd # "view", call[c].step # "readonly", Flight(call'[c]), IsTree(disk'),
         \A r \in Paths : disk'[r] = disk[r] \/ r \in Reach(call[c].c)
  PROVE  MemoryInv'
<1>1. /\ DOMAIN call' = Callers /\ InFlight' = InFlight
      /\ call'[c].step = step /\ call'[c].c = call[c].c
      /\ \A d \in Callers : d # c => call'[d] = call[d]
  BY MovesTo
<1>2. ideal' = ideal /\ raced' = raced /\ agreed' = agreed
  BY DEF Moves
<1>3. ASSUME NEW d \in InFlight PROVE Flight(call'[d])
  BY <1>1, <1>3, FlightOf
<1>4. ASSUME NEW r \in Paths PROVE disk'[r] = ideal'[r] \/ r \in raced' \/ \E d \in InFlight' : r \in Touches(d)'
  <2>1. \A d \in InFlight : d # c => Touches(d)' = Touches(d)
    BY <1>1, FlightOf DEF Touches, Reach, Aims, Names
  <2>2. Touches(c)' = Reach(call[c].c)
    BY <1>1 DEF Touches, Reach, Aims, Names, Onward
  <2>3. Touches(c) = Reach(call[c].c)
    BY DEF Touches
  <2>4. CASE r \in Reach(call[c].c)
    BY <1>1, <2>2, <2>4
  <2>5. CASE r \notin Reach(call[c].c)
    BY <1>1, <1>2, <2>1, <2>3, <2>5, LooseIs
  <2>6. QED
    BY <2>4, <2>5
<1>5. Loose'
  BY <1>2, <1>4, LooseIs DEF Loose, Touches
<1>6. IsTree(ideal)'
  BY <1>2 DEF MemoryInv, IsTree, Above
<1>7. QED
  BY <1>1, <1>2, <1>3, <1>5, <1>6 DEF MemoryInv

LEMMA AnswerLoose ==
  ASSUME MemoryInv, raced # {}, NEW c \in InFlight, NEW ok, NEW shows, Answers(c, ok, shows),
         IsTree(disk'), IsTree(Owed(c).tree),
         Aims(call[c].c) = {} => ok = Owed(c).ok /\ shows = Owed(c).shows,
         \A r \in Paths : Owed(c).tree[r] = ideal[r] \/ r \in raced \/ r \in Touches(c),
         \A r \in Paths : disk'[r] = disk[r] \/ r \in raced \/ r \in Touches(c)
  PROVE  MemoryInv'
<1> DEFINE due == Owed(c)
           clean == call[c].clean /\ Reach(call[c].c) \cap raced = {}
           harmless == clean \/ call[c].step = "readonly" \/ call[c].c.cmd = "view"
           unsure == IF harmless THEN raced ELSE raced \cup Reach(call[c].c)
           isLast == InFlight = {c}
<1>1. call[c].c \in Commands /\ Flight(call[c])
  BY FlightOf
<1>2. /\ call' = [call EXCEPT ![c] = Idle]
      /\ ideal' = [p \in Paths |-> IF isLast /\ p \in unsure THEN disk'[p] ELSE due.tree[p]]
      /\ raced' = IF isLast THEN {} ELSE unsure
      /\ agreed' = (clean => ok = due.ok /\ shows = due.shows)
  <2>1. Settles(c, ok, shows, due, clean, unsure, isLast)
    BY DEF Answers
  <2> HIDE DEF due, clean, unsure, isLast
  <2>2. QED
    BY <2>1 DEF Settles
<1>3. clean => Aims(call[c].c) = {}
  BY <1>1, AimsOf, LooseIs
<1>4. agreed' = TRUE
  BY <1>2, <1>3
<1>5. raced \subseteq unsure /\ unsure \subseteq Paths /\ Touches(c) \subseteq unsure
  <2>1. raced \subseteq Paths /\ Reach(call[c].c) \subseteq Paths
    BY <1>1, AimsOf DEF MemoryInv
  <2>2. clean => Reach(call[c].c) = {}
    BY <1>1, <1>3, AimsOf
  <2> HIDE DEF clean
  <2>3. Touches(c) \subseteq unsure
    <3>1. CASE call[c].step = "readonly" \/ call[c].c.cmd = "view"
      BY <3>1 DEF Touches
    <3>2. CASE clean
      BY <2>2, <3>2 DEF Touches
    <3>3. CASE ~harmless
      BY <3>3 DEF Touches
    <3>4. QED
      BY <3>1, <3>2, <3>3
  <2>4. QED
    BY <2>1, <2>3
<1> HIDE DEF due, clean, harmless, unsure
<1>6. /\ DOMAIN call' = Callers /\ InFlight' = InFlight \ {c}
      /\ \A d \in InFlight' : call'[d] = call[d] /\ d \in InFlight /\ d # c
  BY <1>2, EndsTo
<1>7. \A d \in InFlight' : Flight(call'[d])
  BY <1>6, FlightOf
<1>8. ASSUME NEW r \in Paths
      PROVE  disk'[r] = due.tree[r] \/ r \in unsure \/ \E d \in InFlight' : r \in Touches(d)'
  <2>1. \A d \in InFlight : d # c => d \in InFlight' /\ Touches(d)' = Touches(d)
    BY <1>6 DEF Touches, Reach, Aims, Names
  <2>2. disk[r] = ideal[r] \/ r \in raced \/ \E d \in InFlight : r \in Touches(d)
    BY LooseIs
  <2>3. due.tree[r] = ideal[r] \/ r \in raced \/ r \in Touches(c)
    BY DEF due
  <2>4. disk'[r] = disk[r] \/ r \in raced \/ r \in Touches(c)
    OBVIOUS
  <2>5. QED
    BY <1>5, <2>1, <2>2, <2>3, <2>4
<1>9. DOMAIN ideal' = Paths
  BY <1>2
<1>10. CASE isLast
  <2>1. InFlight' = {} /\ raced' = {}
    BY <1>2, <1>6, <1>10
  <2>2. \A r \in Paths : ideal'[r] = disk'[r]
    BY <1>2, <1>8, <1>10, <2>1
  <2>3. IsTree(ideal)'
    BY <1>9, <2>2 DEF IsTree, Above
  <2>4. Close'
    BY <2>2 DEF Close
  <2>5. Calm'
    BY <2>1, <2>4 DEF Calm
  <2>6. QED
    BY <1>4, <1>6, <1>7, <2>1, <2>3, <2>5 DEF MemoryInv
<1>11. CASE ~isLast
  <2>1. raced' = unsure /\ \A r \in Paths : ideal'[r] = due.tree[r]
    BY <1>2, <1>11
  <2>2. Root \in raced' /\ raced' # {}
    BY <1>5, <2>1, LooseIs
  <2>3. \A r \in Paths : disk'[r] = ideal'[r] \/ r \in raced' \/ \E d \in InFlight' : r \in Touches(d)'
    BY <1>8, <2>1
  <2>4. Loose'
    BY <2>2, <2>3 DEF Loose, Touches
  <2>5. IsTree(ideal)'
    BY <1>9, <2>1 DEF IsTree, Above, due
  <2>6. QED
    BY <1>4, <1>5, <1>6, <1>7, <2>1, <2>2, <2>4, <2>5 DEF MemoryInv
<1>12. QED
  BY <1>10, <1>11

-----------------------------------------------------------------------------
(* Commands begin; the process ends. *)

LEMMA MeetHaveAims ==
  ASSUME NEW cmd \in Commands, NEW d \in Commands, Meet(cmd, d)
  PROVE  Root \in Reach(cmd) /\ Root \in Reach(d)
BY AimsOf DEF Meet

\* The root is made: what the others have found still stands.
LEMMA ReadyWithRoot ==
  ASSUME MemoryInv, raced = {}, NEW d \in InFlight, ideal' = ideal,
         call'[d].c = call[d].c, call'[d].step = call[d].step, call'[d].text = call[d].text,
         \A r \in Paths : disk'[r] = disk[r] \/ (r = Root /\ disk[r] = None /\ disk'[r] = Dir)
  PROVE  Ready(d)'
<1> DEFINE cmd == call[d].c
           step == call[d].step
<1>1. Ready(d) /\ Flight(call[d]) /\ cmd \in Commands
  BY CalmIs, FlightOf DEF Calm
<1>2. Root \in Paths /\ cmd.p.path \in Paths /\ (step = "move" => cmd.q.path \in Paths)
  BY <1>1, PathsAreSequences, CommandOf DEF Flight
<1>3. step \in {"write", "fill", "move"} => cmd.p.as # "outside"
  BY <1>1, CommandOf DEF Flight
<1>4. \A r \in Paths : disk[r] # None => disk'[r] = disk[r]
  OBVIOUS
<1>5. /\ disk[Root] = Dir => disk'[Root] = Dir
      /\ disk[Root].kind = "file" => disk'[Root].kind = "file"
  BY <1>2, <1>4, KindsOfNodes
<1>6. cmd.p.as # "outside" /\ step # "readonly" =>
        IF step = "barred" THEN disk'[Root].kind = "file" ELSE disk'[Root] = Dir
  BY <1>1, <1>5 DEF Ready
<1>7. step \in {"write", "fill"} => HasText(d)' /\ \A r \in Above(cmd.p.path) : disk'[r] = Dir
  <2>1. step \in {"write", "fill"} => HasText(d)'
    BY <1>1 DEF Ready, HasText
  <2>2. step \in {"write", "fill"} => \A r \in Above(cmd.p.path) : disk'[r] = Dir
    BY <1>1, <1>4, KindsOfNodes DEF Ready, Above
  <2>3. QED
    BY <2>1, <2>2
<1>8. step = "fill" => disk'[cmd.p.path].kind = "file"
  BY <1>1, <1>2, <1>4, KindsOfNodes DEF Ready
<1>9. ASSUME step = "move"
      PROVE  /\ ~IsRoot(cmd.p) /\ disk'[cmd.p.path] # None /\ disk'[cmd.q.path] = None
             /\ cmd.p.path = Root \/ ideal'[cmd.p.path] # None
             /\ \A r \in Above(cmd.q.path) : disk'[r] = Dir
  <2>1. /\ ~IsRoot(cmd.p) /\ disk[cmd.p.path] # None /\ disk[cmd.q.path] = None /\ disk[Root] = Dir
        /\ cmd.p.path = Root \/ ideal[cmd.p.path] # None
        /\ \A r \in Above(cmd.q.path) : disk[r] = Dir
    BY <1>1, <1>3, <1>9 DEF Ready
  <2>2. disk'[cmd.p.path] # None
    BY <1>2, <1>4, <2>1
  <2>3. cmd.q.path # Root
    BY <2>1, KindsOfNodes
  <2>4. disk'[cmd.q.path] = None
    BY <1>2, <1>9, <2>1, <2>3
  <2>5. \A r \in Above(cmd.q.path) : disk'[r] = Dir
    BY <1>4, <2>1, KindsOfNodes DEF Above
  <2>6. QED
    BY <2>1, <2>2, <2>4, <2>5
<1>10. QED
  BY <1>6, <1>7, <1>8, <1>9 DEF Ready

LEMMA AskKeeps ==
  ASSUME MemoryInv, NEW c \in Callers, Ask(c)
  PROVE  MemoryInv'
<1>1. PICK cmd \in Commands, readonly \in BOOLEAN :
        LET others == {call[d].c : d \in {d \in InFlight : Meet(cmd, call[d].c)}}
            changes == {d \in others \cup {cmd} : d.cmd # "view"}
            resolves == ~readonly /\ cmd.p.as # "outside"
            barred == resolves /\ disk[Root].kind = "file"
        IN  /\ readonly => cmd.cmd # "view"
            /\ call' = [d \in Callers |->
                 IF d = c THEN [step |-> IF readonly THEN "readonly" ELSE IF barred THEN "barred" ELSE "asked",
                                c |-> cmd, text |-> <<>>, clean |-> others = {}]
                 ELSE IF call[d] # Idle /\ call[d].c \in others
                 THEN [call[d] EXCEPT !.clean = FALSE]
                 ELSE call[d]]
            /\ raced' = IF others = {} THEN raced ELSE raced \cup UNION {Reach(d) : d \in changes}
            /\ disk' = IF resolves THEN WithRoot(disk) ELSE disk
  BY DEF Ask
<1> DEFINE others == {call[d].c : d \in {d \in InFlight : Meet(cmd, call[d].c)}}
           changes == {d \in others \cup {cmd} : d.cmd # "view"}
           resolves == ~readonly /\ cmd.p.as # "outside"
           barred == resolves /\ disk[Root].kind = "file"
           step == IF readonly THEN "readonly" ELSE IF barred THEN "barred" ELSE "asked"
<1>2. call[c] = Idle /\ c \notin InFlight /\ ideal' = ideal /\ agreed' = agreed
  BY DEF Ask, InFlight
<1>3. readonly => cmd.cmd # "view"
  BY <1>1
<1>4. call' = [d \in Callers |-> IF d = c THEN [step |-> step, c |-> cmd, text |-> <<>>, clean |-> others = {}]
                                 ELSE IF call[d] # Idle /\ call[d].c \in others
                                 THEN [call[d] EXCEPT !.clean = FALSE]
                                 ELSE call[d]]
  BY <1>1
<1>5. raced' = IF others = {} THEN raced ELSE raced \cup UNION {Reach(d) : d \in changes}
  BY <1>1
<1>6. disk' = IF resolves THEN WithRoot(disk) ELSE disk
  BY <1>1
<1>7. \A k \in others : k \in Commands /\ Root \in Reach(k) /\ Root \in Reach(cmd)
  BY FlightOf, MeetHaveAims
<1>8. others # {} => \A k \in changes : k \in Commands /\ Root \in Reach(k)
  BY <1>7
<1>9. \A d \in InFlight : call[d].c \in others <=> Meet(cmd, call[d].c)
  <2>1. ASSUME NEW d \in InFlight, NEW e \in InFlight, Meet(cmd, call[e].c), call[d].c = call[e].c
        PROVE  Meet(cmd, call[d].c)
    BY <2>1
  <2>2. QED
    BY <2>1
<1> HIDE DEF others, changes, step
<1>10. /\ DOMAIN call' = Callers
       /\ call'[c] = [step |-> step, c |-> cmd, text |-> <<>>, clean |-> others = {}]
       /\ call'[c].step = step /\ call'[c].c = cmd /\ call'[c].clean = (others = {})
  BY <1>4
<1>11. step \in {"readonly", "barred", "asked"} /\ (step = "readonly" <=> readonly)
       /\ (step = "barred" <=> barred)
  BY DEF step
<1>12. Flight(call'[c])
  BY <1>3, <1>10, <1>11 DEF Flight
<1>13. ASSUME NEW d \in InFlight
       PROVE  /\ d \in InFlight' /\ d # c /\ Flight(call'[d])
              /\ call'[d].step = call[d].step /\ call'[d].c = call[d].c /\ call'[d].text = call[d].text
              /\ call'[d].clean = IF Meet(cmd, call[d].c) THEN FALSE ELSE call[d].clean
  <2>1. d # c /\ d \in Callers /\ Flight(call[d]) /\ call[d] # Idle
    BY <1>2, FlightOf, NotIdle
  <2>2. call'[d] = IF Meet(cmd, call[d].c) THEN [call[d] EXCEPT !.clean = FALSE] ELSE call[d]
    BY <1>4, <1>9, <2>1
  <2>3. CASE Meet(cmd, call[d].c)
    <3>1. /\ call'[d] = [step |-> call[d].step, c |-> call[d].c, text |-> call[d].text, clean |-> FALSE]
          /\ Flight(call'[d])
      BY <2>1, <2>2, <2>3, FlightNotClean
    <3>2. d \in InFlight'
      BY <2>1, <3>1, NotIdle DEF InFlight
    <3>3. QED
      BY <2>1, <2>3, <3>1, <3>2
  <2>4. CASE ~Meet(cmd, call[d].c)
    <3>1. call'[d] = call[d]
      BY <2>2, <2>4
    <3>2. QED
      BY <2>1, <2>4, <3>1 DEF InFlight
  <2>5. QED
    BY <2>3, <2>4
<1>14. InFlight' = InFlight \cup {c}
  <2>1. c \in InFlight'
    BY <1>12, NotIdle DEF InFlight
  <2>2. ASSUME NEW d \in Callers, d # c, call[d] = Idle PROVE d \notin InFlight'
    BY <1>4, <2>2 DEF InFlight
  <2>3. QED
    BY <1>13, <2>1, <2>2 DEF InFlight
<1>15. IsTree(ideal)'
  BY <1>2 DEF MemoryInv, IsTree, Above
<1>16. /\ IsTree(disk) /\ IsTree(disk')
       /\ \A r \in Paths : disk'[r] = disk[r] \/ (r = Root /\ disk[r] = None /\ disk'[r] = Dir)
       /\ resolves => IF barred THEN disk'[Root].kind = "file" ELSE disk'[Root] = Dir
  <2>1. IsTree(disk) /\ Root \in Paths
    BY PathsAreSequences DEF MemoryInv
  <2>2. /\ IsTree(WithRoot(disk))
        /\ \A r \in Paths : WithRoot(disk)[r] = IF r = Root /\ disk[Root].kind # "file" THEN Dir ELSE disk[r]
    BY <2>1, WithRootTree
  <2>3. disk[Root] = None \/ disk[Root] = Dir \/ disk[Root].kind = "file"
    BY <2>1, NodeOf
  <2>4. CASE resolves
    BY <1>6, <2>1, <2>2, <2>3, <2>4
  <2>5. CASE ~resolves
    BY <1>6, <2>1, <2>5
  <2>6. QED
    BY <2>4, <2>5
<1>17. \A r \in Paths : disk'[r] # disk[r] => r = Root /\ disk[r] = None /\ disk'[r] = Dir /\ resolves /\ ~barred
  BY <1>6, <1>16, KindsOfNodes
<1>18. raced' \subseteq Paths
  BY <1>5, <1>8, AimsOf DEF MemoryInv
<1>19. CASE raced' = {}
  <2>1. raced = {} /\ (others # {} => changes = {})
    BY <1>5, <1>8, <1>19
  <2>2. \A d \in InFlight : Meet(cmd, call[d].c) => cmd.cmd = "view" /\ call[d].c.cmd = "view"
    BY <1>9, <2>1 DEF changes
  <2>3. Calm
    BY <2>1, CalmIs
  <2>4. ASSUME NEW d \in InFlight', NEW e \in InFlight', d # e, Meet(call'[d].c, call'[e].c)
        PROVE  call'[d].c.cmd = "view" /\ call'[e].c.cmd = "view"
    <3>1. CASE d = c
      BY <1>10, <1>13, <1>14, <2>2, <2>4, <3>1
    <3>2. CASE e = c
      <4>1. call'[d].c = call[d].c /\ d \in InFlight /\ call'[e].c = cmd
        BY <1>10, <1>13, <1>14, <2>4, <3>2
      <4>2. call[d].c \in Commands /\ Meet(call[d].c, cmd)
        BY <2>4, <4>1, FlightOf
      <4>3. Meet(cmd, call[d].c)
        BY <4>2 DEF Meet
      <4>4. QED
        BY <2>2, <4>1, <4>3
    <3>3. CASE d # c /\ e # c
      BY <1>13, <1>14, <2>3, <2>4, <3>3 DEF Calm
    <3>4. QED
      BY <3>1, <3>2, <3>3
  <2>5. ASSUME NEW d \in InFlight PROVE Ready(d)' /\ (call'[d].clean \/ call'[d].c.cmd = "view")
    <3>1. Ready(d)'
      BY <1>2, <1>13, <1>16, <2>1, ReadyWithRoot
    <3>2. call'[d].clean \/ call'[d].c.cmd = "view"
      BY <1>13, <2>2, <2>3 DEF Calm
    <3>3. QED
      BY <3>1, <3>2
  <2>6. Ready(c)' /\ (call'[c].clean \/ call'[c].c.cmd = "view")
    <3>1. call'[c].clean \/ call'[c].c.cmd = "view"
      BY <1>10, <2>1 DEF changes
    <3>2. Ready(c)'
      BY <1>10, <1>11, <1>16 DEF Ready
    <3>3. QED
      BY <3>1, <3>2
  <2>7. ASSUME NEW r \in Paths
        PROVE  \/ disk'[r] = ideal'[r]
               \/ disk'[r] = Dir /\ ideal'[r] = None /\ \E d \in InFlight' : r \in Makes(d)'
               \/ \E d \in InFlight' : r \in Filled(d)'
    <3>1. \A d \in InFlight : d \in InFlight' /\ Makes(d)' = Makes(d) /\ Filled(d)' = Filled(d)
      BY <1>13 DEF Makes, Filled
    <3>2. CASE disk'[r] = disk[r]
      BY <1>2, <2>3, <3>1, <3>2 DEF Calm, Close
    <3>3. CASE disk'[r] # disk[r]
      <4>1. r = Root /\ disk[r] = None /\ disk'[r] = Dir /\ resolves /\ ~barred
        BY <1>17, <3>3
      <4>2. \A d \in InFlight : r \notin Filled(d) /\ r \notin Makes(d)
        BY <2>1, <4>1, FilledIsFile, MadeIsDir, KindsOfNodes
      <4>3. ideal[r] = None
        BY <2>3, <4>1, <4>2 DEF Calm, Close
      <4>4. call'[c].step = "asked" /\ call'[c].c.p.as # "outside"
        BY <1>10, <1>11, <4>1
      <4>5. r \in Makes(c)'
        BY <4>1, <4>4 DEF Makes
      <4>6. QED
        BY <1>2, <1>14, <4>1, <4>3, <4>5
    <3>4. QED
      BY <3>2, <3>3
  <2>8. Close'
    BY <2>7 DEF Close
  <2>9. Calm'
    BY <1>14, <2>4, <2>5, <2>6, <2>8 DEF Calm
  <2>10. QED
    BY <1>2, <1>10, <1>12, <1>13, <1>14, <1>16, <1>19, <1>15, <2>9 DEF MemoryInv
<1>20. CASE raced' # {}
  <2>1. Root \in raced' /\ raced \subseteq raced'
    <3>1. raced \subseteq raced'
      BY <1>5
    <3>2. CASE raced # {}
      BY <3>1, <3>2, LooseIs
    <3>3. CASE raced = {}
      BY <1>5, <1>8, <1>20, <3>3
    <3>4. QED
      BY <3>1, <3>2, <3>3
  <2>2. ASSUME NEW r \in Paths
        PROVE  disk'[r] = ideal'[r] \/ r \in raced' \/ \E d \in InFlight' : r \in Touches(d)'
    <3>1. \A d \in InFlight : d \in InFlight' /\ Touches(d)' = Touches(d)
      BY <1>13 DEF Touches, Reach, Aims, Names
    <3>2. CASE r = Root
      BY <2>1, <3>2
    <3>3. CASE r # Root /\ raced # {}
      BY <1>2, <1>16, <2>1, <3>1, <3>3, LooseIs
    <3>4. CASE r # Root /\ raced = {}
      <4>1. disk'[r] = disk[r]
        BY <1>16, <3>4
      <4>2. ASSUME NEW d \in InFlight, r \in Makes(d) PROVE r \in Touches(d)
        <5>1. call[d].c.cmd # "view" /\ \E a \in Aims(call[d].c) : r \in Above(a)
          BY <3>4, <4>2, MadeIsDir
        <5>2. r \in Reach(call[d].c)
          BY <5>1, FlightOf, AimsOf
        <5>3. call[d].step # "readonly"
          BY <4>2 DEF Makes
        <5>4. QED
          BY <5>1, <5>2, <5>3 DEF Touches
      <4>3. ASSUME NEW d \in InFlight, r \in Filled(d) PROVE r \in Touches(d)
        <5>1. r \in Aims(call[d].c) /\ r \in Zone(d) /\ IsPrefix(r, r)
          BY <3>4, <4>3, FilledIsFile, PrefixOrder
        <5>2. r \in Reach(call[d].c)
          BY <5>1, FlightOf, AimsOf
        <5>3. QED
          BY <5>1, <5>2 DEF Touches, Zone
      <4>4. QED
        BY <1>2, <3>1, <3>4, <4>1, <4>2, <4>3, CalmIs DEF Calm, Close
    <3>5. QED
      BY <3>2, <3>3, <3>4
  <2>3. Loose'
    BY <2>1, <2>2 DEF Loose, Touches
  <2>4. QED
    BY <1>2, <1>10, <1>12, <1>13, <1>14, <1>16, <1>18, <1>20, <1>15, <2>3 DEF MemoryInv
<1>21. QED
  BY <1>19, <1>20

LEMMA InvGivesKept ==
  ASSUME MemoryInv
  PROVE  CommandsKept
<1>1. CASE raced = {}
  <2>1. ASSUME NEW r \in Paths, NEW c \in InFlight, r \in Makes(c) \/ r \in Filled(c)
        PROVE  r \in Reach(call[c].c)
    <3>1. CASE r \in Makes(c)
      <4>1. Aims(call[c].c) # {} /\ (r = Root \/ \E a \in Aims(call[c].c) : r \in Above(a))
        BY <1>1, <3>1, MadeIsDir
      <4>2. QED
        BY <4>1, FlightOf, AimsOf
    <3>2. CASE r \in Filled(c)
      <4>1. r \in Aims(call[c].c) /\ IsPrefix(r, r)
        BY <1>1, <3>2, FilledIsFile, PrefixOrder
      <4>2. QED
        BY <4>1, FlightOf, AimsOf
    <3>3. QED
      BY <2>1, <3>1, <3>2
  <2>2. \A r \in Paths : disk[r] = ideal[r] \/ \E c \in InFlight : r \in Reach(call[c].c)
    BY <1>1, <2>1, CalmIs DEF Calm, Close
  <2>3. QED
    BY <2>2 DEF CommandsKept, MemoryInv
<1>2. CASE raced # {}
  BY <1>2, LooseIs DEF CommandsKept, MemoryInv, Touches
<1>3. QED
  BY <1>1, <1>2

LEMMA CrashKeeps ==
  ASSUME MemoryInv, MemoryCrash
  PROVE  MemoryInv'
<1> DEFINE unsure == raced \cup UNION {Reach(call[c].c) : c \in InFlight}
<1>1. /\ call' = [c \in Callers |-> Idle] /\ raced' = {} /\ agreed' = TRUE /\ disk' = disk
      /\ ideal' = [p \in Paths |-> IF p \in unsure THEN disk[p] ELSE ideal[p]]
  BY DEF MemoryCrash
<1>2. \A r \in Paths : disk[r] = ideal[r] \/ r \in unsure
  BY InvGivesKept DEF CommandsKept
<1> HIDE DEF unsure
<1>3. DOMAIN ideal' = Paths /\ \A r \in Paths : ideal'[r] = disk'[r]
  BY <1>1, <1>2
<1>4. DOMAIN call' = Callers /\ InFlight' = {}
  BY <1>1 DEF InFlight
<1>5. IsTree(disk') /\ IsTree(ideal)'
  BY <1>1, <1>3 DEF MemoryInv, IsTree, Above
<1>6. Close'
  BY <1>3 DEF Close
<1>7. Calm'
  BY <1>4, <1>5, <1>6 DEF Calm
<1>8. QED
  BY <1>1, <1>4, <1>5, <1>7 DEF MemoryInv

LEMMA MemoryStart ==
  ASSUME MemoryInit
  PROVE  MemoryInv
<1>1. /\ IsTree(disk) /\ call = [c \in Callers |-> Idle] /\ ideal = disk /\ raced = {} /\ agreed = TRUE
  BY TreesAssumption DEF MemoryInit
<1>2. InFlight = {} /\ DOMAIN call = Callers
  BY <1>1 DEF InFlight
<1>3. Calm
  BY <1>1, <1>2 DEF Calm, Close
<1>4. QED
  BY <1>1, <1>2, <1>3 DEF MemoryInv

-----------------------------------------------------------------------------
(* What each command is due to do, and what it does. *)

LEMMA OwedIs ==
  ASSUME MemoryInv, NEW c \in InFlight
  PROVE  /\ IsTree(Owed(c).tree)
         /\ Owed(c) = IF call[c].step = "readonly" THEN Refused(ideal) ELSE Done(ideal, call[c].c)
         /\ \A r \in Paths : \/ Owed(c).tree[r] = ideal[r]
                             \/ Aims(call[c].c) # {} /\ r = Root
                             \/ r \in Touches(c)
         /\ Aims(call[c].c) = {} => Owed(c) = Refused(ideal)
<1>1. call[c].c \in Commands /\ IsTree(ideal)
  BY FlightOf DEF MemoryInv
<1>2. CASE call[c].step = "readonly"
  BY <1>1, <1>2, RefusedIs DEF Owed
<1>3. CASE call[c].step # "readonly"
  <2>1. Owed(c) = Done(ideal, call[c].c)
    BY <1>3 DEF Owed
  <2>2. Aims(call[c].c) = {} => Owed(c) = Refused(ideal)
    BY <1>1, <2>1, AimsOf, DoneIs
  <2>3. QED
    BY <1>1, <1>3, <2>1, <2>2, DoneReaches DEF Touches
<1>4. QED
  BY <1>2, <1>3

LEMMA AnswerInARace ==
  ASSUME MemoryInv, raced # {}, NEW c \in InFlight, NEW ok, NEW shows, Answers(c, ok, shows),
         Aims(call[c].c) # {} \/ (ok = FALSE /\ shows = <<>>),
         IsTree(disk'), \A r \in Paths : disk'[r] = disk[r] \/ r \in raced \/ r \in Touches(c)
  PROVE  MemoryInv'
<1>1. IsTree(Owed(c).tree)
  BY OwedIs
<1>2. Aims(call[c].c) = {} => ok = Owed(c).ok /\ shows = Owed(c).shows
  BY OwedIs, RefusedIs
<1>3. \A r \in Paths : Owed(c).tree[r] = ideal[r] \/ r \in raced \/ r \in Touches(c)
  BY OwedIs, LooseIs
<1>4. QED
  BY <1>1, <1>2, <1>3, AnswerLoose

LEMMA SameDisk ==
  ASSUME MemoryInv, UNCHANGED disk
  PROVE  IsTree(disk') /\ \A r \in Paths : disk'[r] = disk[r]
BY DEF MemoryInv

\* A command whose paths lead into the directory finds the root.
LEMMA Within ==
  ASSUME MemoryInv, raced = {}, NEW c \in InFlight,
         call[c].step \in {"asked", "write", "fill", "move"}, call[c].c.p.as # "outside"
  PROVE  LET t == WithRoot(ideal)
         IN  /\ IsTree(t) /\ disk[Root] = Dir /\ t[Root] = Dir /\ ideal[Root].kind # "file"
             /\ Root \in Makes(c)
             /\ \A r \in Paths : t[r] = IF r = Root THEN Dir ELSE ideal[r]
             /\ \A a \in Aims(call[c].c), r \in Paths : IsPrefix(a, r) =>
                  \/ disk[r] = t[r]
                  \/ disk[r] = Dir /\ t[r] = None /\ r \in Makes(c) /\ r # Root
                  \/ r \in Filled(c)
             /\ \A r \in Makes(c) : t[r] \in {None, Dir}
<1> DEFINE t == WithRoot(ideal)
<1>1. Root \in Makes(c)
  BY DEF Makes
<1>2. disk[Root] = Dir /\ ideal[Root] \in {None, Dir} /\ Root \in Paths
  BY <1>1, MadeIsDir, MadeWas
<1>3. ideal[Root].kind # "file"
  BY <1>2, KindsOfNodes
<1>4. IsTree(t) /\ \A r \in Paths : t[r] = IF r = Root THEN Dir ELSE ideal[r]
  BY <1>3, WithRootTree DEF MemoryInv
<1> HIDE DEF t
<1>5. ASSUME NEW a \in Aims(call[c].c), NEW r \in Paths, IsPrefix(a, r)
      PROVE  \/ disk[r] = t[r]
             \/ disk[r] = Dir /\ t[r] = None /\ r \in Makes(c) /\ r # Root
             \/ r \in Filled(c)
  <2>1. CASE r = Root
    BY <1>2, <1>4, <2>1
  <2>2. CASE r # Root
    BY <1>4, <1>5, <2>2, OwnIsClose
  <2>3. QED
    BY <2>1, <2>2
<1>6. \A r \in Makes(c) : t[r] \in {None, Dir}
  BY <1>4, MadeIsDir, MadeWas
<1>7. QED
  BY <1>1, <1>2, <1>3, <1>4, <1>5, <1>6 DEF t

\* On the way to where a command aims there is a file or there is none.
LEMMA FilesAbove ==
  ASSUME MemoryInv, raced = {}, NEW c \in InFlight, NEW a \in Aims(call[c].c), call[c].c.cmd # "view",
         call[c].step \in {"asked", "write", "fill", "move"}, call[c].c.p.as # "outside",
         NEW r \in Above(a)
  PROVE  disk[r].kind = "file" <=> WithRoot(ideal)[r].kind = "file"
<1> DEFINE t == WithRoot(ideal)
<1>1. a \in Paths /\ r \in Paths /\ IsPrefix(r, a)
  BY FlightOf, AimsOf, AboveIs DEF Above
<1>2. disk[Root] = Dir /\ t[Root] = Dir /\ \A u \in Paths : t[u] = IF u = Root THEN Dir ELSE ideal[u]
  BY Within
<1> HIDE DEF t
<1>3. CASE r = Root
  BY <1>2, <1>3 DEF t
<1>4. CASE r # Root
  <2>1. ASSUME NEW d \in InFlight, r \in Filled(d) PROVE FALSE
    <3>1. r \in Aims(call[d].c) /\ call[d].c.cmd # "view"
      BY <2>1, FilledIsFile DEF Zone
    <3>2. d = c
      BY <1>1, <3>1, Apart
    <3>3. a # r
      BY <1>1, AboveIs
    <3>4. r = call[c].c.p.path /\ call[c].step = "fill"
      BY <2>1, <3>2 DEF Filled
    <3>5. call[c].c.cmd # "rename" /\ a \in Aims(call[c].c)
      BY <3>4, FlightOf DEF Flight
    <3>6. a = call[c].c.p.path
      BY <3>5 DEF Aims, Names
    <3>7. QED
      BY <3>3, <3>4, <3>6
  <2>2. disk[r] = ideal[r] \/ (disk[r] = Dir /\ ideal[r] = None)
    BY <1>1, <2>1, CalmIs DEF Calm, Close
  <2>3. QED
    BY <1>1, <1>2, <1>4, <2>2, KindsOfNodes DEF t
<1>5. QED
  BY <1>3, <1>4

LEMMA OwedWithin ==
  ASSUME MemoryInv, raced = {}, NEW c \in InFlight,
         call[c].step \in {"asked", "write", "fill", "move"},
         \A s \in Names(call[c].c) : s.as # "outside"
  PROVE  LET t == WithRoot(ideal)
             cmd == call[c].c
         IN  /\ cmd.cmd = "view" => Owed(c) = Viewed(t, cmd)
             /\ cmd.cmd = "create" => Owed(c) = Created(t, cmd)
             /\ cmd.cmd \in Edits => Owed(c) = Edited(t, cmd)
             /\ cmd.cmd = "delete" => Owed(c) = Deleted(t, cmd)
             /\ cmd.cmd = "rename" => Owed(c) = Renamed(t, cmd)
<1> DEFINE cmd == call[c].c
<1>1. cmd \in Commands /\ IsTree(ideal) /\ cmd.p.as # "outside"
  BY FlightOf, CommandOf DEF MemoryInv
<1>2. ideal[Root].kind # "file"
  BY <1>1, Within
<1>3. Owed(c) = Done(ideal, cmd)
  BY OwedIs
<1>4. QED
  BY <1>1, <1>2, <1>3, DoneIs DEF Edits

\* The directory is left as it is, but for the root.
LEMMA LeavesAll ==
  ASSUME MemoryInv, raced = {}, NEW c \in InFlight, NEW ok, NEW shows, Answers(c, ok, shows),
         UNCHANGED disk, call[c].step = "asked", call[c].c.p.as # "outside",
         Owed(c).tree = WithRoot(ideal), ok = Owed(c).ok, shows = Owed(c).shows
  PROVE  MemoryInv'
<1> DEFINE t == WithRoot(ideal)
<1>1. /\ IsTree(t) /\ t[Root] = Dir /\ \A r \in Paths : t[r] = IF r = Root THEN Dir ELSE ideal[r]
      /\ \A a \in Aims(call[c].c), r \in Paths : IsPrefix(a, r) =>
           \/ disk[r] = t[r]
           \/ disk[r] = Dir /\ t[r] = None /\ r \in Makes(c) /\ r # Root
           \/ r \in Filled(c)
  BY Within
<1>2. Makes(c) = {Root} /\ Filled(c) = {}
  BY DEF Makes, Filled
<1> HIDE DEF t
<1>3. IsTree(disk') /\ \A r \in Paths : disk'[r] = disk[r]
  BY SameDisk
<1>4. Owed(c).tree = t
  BY DEF t
<1>5. \A r \in Zone(c) : disk'[r] = Owed(c).tree[r]
  BY <1>1, <1>2, <1>3, <1>4 DEF Zone
<1>6. \A r \in Paths : r \notin Zone(c) =>
        disk'[r] = disk[r] /\ Owed(c).tree[r] = IF r \in Makes(c) THEN Dir ELSE ideal[r]
  BY <1>1, <1>2, <1>3, <1>4
<1>7. QED
  BY <1>1, <1>3, <1>4, <1>5, <1>6, AnswerCalm

LEMMA RefusesAtOnceKeeps ==
  ASSUME MemoryInv, NEW c \in InFlight, RefusesAtOnce(c)
  PROVE  MemoryInv'
<1> DEFINE cmd == call[c].c
           step == call[c].step
<1>1. UNCHANGED disk /\ Answers(c, FALSE, <<>>) /\ cmd \in Commands /\ Flight(call[c]) /\ IsTree(ideal)
  BY FlightOf DEF RefusesAtOnce, Refuses, MemoryInv
<1>2. IsTree(disk') /\ \A r \in Paths : disk'[r] = disk[r]
  BY <1>1, SameDisk
<1>3. CASE raced # {}
  BY <1>1, <1>2, <1>3, AnswerInARace
<1>4. ASSUME raced = {}, Owed(c) = Refused(ideal), Makes(c) = {}, Filled(c) = {} PROVE MemoryInv'
  <2>1. Owed(c).tree = ideal /\ Owed(c).ok = FALSE /\ Owed(c).shows = <<>>
    BY <1>4, RefusedIs
  <2>2. \A r \in Zone(c) : disk'[r] = Owed(c).tree[r]
    BY <1>2, <1>4, <2>1, OwnIsClose DEF Zone
  <2>3. \A r \in Paths : r \notin Zone(c) =>
          disk'[r] = disk[r] /\ Owed(c).tree[r] = IF r \in Makes(c) THEN Dir ELSE ideal[r]
    BY <1>2, <1>4, <2>1
  <2>4. QED
    BY <1>1, <1>2, <1>4, <2>1, <2>2, <2>3, AnswerCalm
<1>5. CASE raced = {} /\ step = "readonly"
  <2>1. Owed(c) = Refused(ideal) /\ Makes(c) = {} /\ Filled(c) = {}
    BY <1>5, OwedIs DEF Makes, Filled
  <2>2. QED
    BY <1>4, <1>5, <2>1
<1>6. CASE raced = {} /\ step = "barred"
  <2>1. Makes(c) = {} /\ Filled(c) = {} /\ cmd.p.as # "outside" /\ Root \in Paths
    BY <1>1, <1>6, PathsAreSequences DEF Makes, Filled, Flight
  <2>2. disk[Root].kind = "file"
    BY <1>6, <2>1, CalmIs DEF Calm, Ready
  <2>3. \A d \in InFlight : Root \notin Filled(d)
    BY <1>6, FilledIsFile
  <2>4. ideal[Root].kind = "file"
    BY <1>6, <2>1, <2>2, <2>3, CalmIs, KindsOfNodes DEF Calm, Close
  <2>5. Owed(c) = Refused(WithRoot(ideal)) /\ WithRoot(ideal) = ideal
    BY <1>1, <1>6, <2>1, <2>4, OwedIs, DoneIs DEF WithRoot
  <2>6. QED
    BY <1>4, <1>6, <2>1, <2>5
<1>7. CASE raced = {} /\ step = "asked" /\ cmd.p.as = "outside"
  <2>1. Owed(c) = Refused(ideal) /\ Makes(c) = {} /\ Filled(c) = {}
    BY <1>1, <1>7, OwedIs, DoneIs DEF Makes, Filled
  <2>2. QED
    BY <1>4, <1>7, <2>1
<1>8. CASE raced = {} /\ step = "asked" /\ cmd.p.as # "outside"
  <2>1. \E s \in Names(cmd) : s.as = "outside"
    BY <1>8 DEF RefusesAtOnce
  <2>2. Owed(c) = Refused(WithRoot(ideal))
    BY <1>1, <1>8, <2>1, OwedIs, DoneIs
  <2>3. QED
    BY <1>1, <1>8, <2>2, RefusedIs, LeavesAll
<1>9. QED
  BY <1>3, <1>5, <1>6, <1>7, <1>8 DEF RefusesAtOnce

\* A command that runs leads into the directory with all its names.
LEMMA RunsIs ==
  ASSUME MemoryInv, NEW c \in InFlight, NEW kind, Runs(c, kind)
  PROVE  /\ call[c].c \in Commands /\ Flight(call[c]) /\ call[c].step = "asked" /\ call[c].c.cmd = kind
         /\ \A s \in Names(call[c].c) : s.as # "outside"
         /\ call[c].c.p.as # "outside" /\ call[c].c.p.path \in Paths
         /\ call[c].c.p.path \in Aims(call[c].c) /\ IsPrefix(call[c].c.p.path, call[c].c.p.path)
BY FlightOf, CommandOf, AimsOf, PrefixOrder DEF Runs

\* Where a command aims first, when it has not begun to change it.
LEMMA AimIsClose ==
  ASSUME MemoryInv, raced = {}, NEW c \in InFlight, call[c].step = "asked",
         call[c].c.p.as # "outside", NEW a \in Aims(call[c].c)
  PROVE  disk[a] = WithRoot(ideal)[a]
<1>1. a \in Paths /\ IsPrefix(a, a)
  BY FlightOf, AimsOf, PrefixOrder
<1>2. Makes(c) = {Root} /\ Filled(c) = {}
  BY DEF Makes, Filled
<1>3. QED
  BY <1>1, <1>2, Within

LEMMA RefusalKeeps ==
  ASSUME MemoryInv, NEW c \in InFlight, Refuses(c), call[c].step = "asked", call[c].c.p.as # "outside",
         raced = {} => Owed(c) = Refused(WithRoot(ideal))
  PROVE  MemoryInv'
<1>1. UNCHANGED disk /\ Answers(c, FALSE, <<>>) /\ Aims(call[c].c) # {}
  BY FlightOf, AimsOf DEF Refuses
<1>2. IsTree(disk') /\ \A r \in Paths : disk'[r] = disk[r]
  BY <1>1, SameDisk
<1>3. CASE raced # {}
  BY <1>1, <1>2, <1>3, AnswerInARace
<1>4. CASE raced = {}
  BY <1>1, <1>4, RefusedIs, LeavesAll
<1>5. QED
  BY <1>3, <1>4

LEMMA ViewedTells ==
  ASSUME NEW tree, NEW cmd, NEW node, node = tree[cmd.p.path]
  PROVE  LET shown == node.kind = "file" /\ InRange(cmd.range, Lines(node.text))
             seen == Viewed(tree, cmd)
         IN  /\ node.kind = "dir" => seen.ok = TRUE /\ seen.shows = <<>>
             /\ shown => seen.ok = TRUE /\ seen.shows = Shown(cmd.range, Lines(node.text))
             /\ node.kind # "dir" /\ ~shown => seen.ok = FALSE /\ seen.shows = <<>>
BY DEF Viewed, Achieved, Refused

LEMMA ViewKeeps ==
  ASSUME MemoryInv, NEW c \in InFlight, View(c)
  PROVE  MemoryInv'
<1> DEFINE cmd == call[c].c
           node == disk[cmd.p.path]
           lines == Lines(node.text)
           shown == node.kind = "file" /\ InRange(cmd.range, lines)
           t == WithRoot(ideal)
           seen == Viewed(t, cmd)
<1>1. /\ cmd \in Commands /\ call[c].step = "asked" /\ cmd.cmd = "view" /\ cmd.p.as # "outside"
      /\ \A s \in Names(cmd) : s.as # "outside"
      /\ cmd.p.path \in Aims(cmd)
  BY RunsIs DEF View
<1>2. UNCHANGED disk /\ IsTree(disk') /\ \A r \in Paths : disk'[r] = disk[r]
  BY SameDisk DEF View
<1>3. raced = {} => Owed(c) = seen /\ t[cmd.p.path] = node
  BY <1>1, OwedWithin, AimIsClose
<1>4. ASSUME NEW ok, NEW shows, Answers(c, ok, shows), raced = {} => seen.ok = ok /\ seen.shows = shows
      PROVE  MemoryInv'
  <2>1. CASE raced # {}
    BY <1>1, <1>2, <1>4, <2>1, AnswerInARace
  <2>2. CASE raced = {}
    <3>1. Owed(c).tree = t /\ ok = Owed(c).ok /\ shows = Owed(c).shows
      BY <1>3, <1>4, <2>2, ViewedIs
    <3>2. QED
      BY <1>1, <1>2, <1>4, <2>2, <3>1, LeavesAll
  <2>3. QED
    BY <2>1, <2>2
<1>5. raced = {} => /\ node.kind = "dir" => seen.ok = TRUE /\ seen.shows = <<>>
                    /\ shown => seen.ok = TRUE /\ seen.shows = Shown(cmd.range, lines)
                    /\ node.kind # "dir" /\ ~shown => seen.ok = FALSE /\ seen.shows = <<>>
  <2> HIDE DEF t
  <2>1. SUFFICES ASSUME raced = {} 
                 PROVE  /\ node.kind = "dir" => seen.ok = TRUE /\ seen.shows = <<>>
                        /\ shown => seen.ok = TRUE /\ seen.shows = Shown(cmd.range, lines)
                        /\ node.kind # "dir" /\ ~shown => seen.ok = FALSE /\ seen.shows = <<>>
    OBVIOUS
  <2>2. node = t[cmd.p.path]
    BY <1>3, <2>1
  <2>3. QED
    BY <2>2, ViewedTells
<1> HIDE DEF seen, t
<1>6. CASE node.kind = "dir"
  <2>1. Answers(c, TRUE, <<>>)
    BY <1>6 DEF View
  <2>2. QED
    BY <1>4, <1>5, <1>6, <2>1
<1>7. CASE node.kind # "dir" /\ shown
  <2>1. Answers(c, TRUE, Shown(cmd.range, lines))
    BY <1>7 DEF View
  <2>2. QED
    BY <1>4, <1>5, <1>7, <2>1
<1>8. CASE node.kind # "dir" /\ ~shown
  <2>1. Answers(c, FALSE, <<>>)
    BY <1>8 DEF View
  <2>2. QED
    BY <1>4, <1>5, <1>8, <2>1
<1>9. QED
  BY <1>6, <1>7, <1>8

LEMMA DeleteKeeps ==
  ASSUME MemoryInv, NEW c \in InFlight, Delete(c)
  PROVE  MemoryInv'
<1> DEFINE cmd == call[c].c
           p == cmd.p.path
           t == WithRoot(ideal)
<1>1. /\ cmd \in Commands /\ call[c].step = "asked" /\ cmd.cmd = "delete" /\ cmd.p.as # "outside"
      /\ \A s \in Names(cmd) : s.as # "outside"
      /\ p \in Aims(cmd) /\ p \in Paths
  BY RunsIs DEF Delete
<1>2. raced = {} => Owed(c) = Deleted(t, cmd) /\ t[p] = disk[p]
  BY <1>1, OwedWithin, AimIsClose
<1>3. CASE IsRoot(cmd.p) \/ disk[p] = None
  <2>1. Refuses(c)
    BY <1>3 DEF Delete
  <2>2. raced = {} => Owed(c) = Refused(t)
    BY <1>2, <1>3 DEF Deleted, IsRoot
  <2>3. QED
    BY <1>1, <2>1, <2>2, RefusalKeeps
<1>4. CASE ~(IsRoot(cmd.p) \/ disk[p] = None)
  <2>1. disk' = Without(disk, p) /\ Answers(c, TRUE, <<>>)
    BY <1>4 DEF Delete
  <2>2. IsTree(disk') /\ \A r \in Paths : disk'[r] = IF IsPrefix(p, r) THEN None ELSE disk[r]
    BY <1>1, <2>1, WithoutTree DEF MemoryInv, Without
  <2>3. CASE raced # {}
    <3>1. \A r \in Paths : IsPrefix(p, r) => r \in Touches(c)
      BY <1>1, AimsOf DEF Touches
    <3>2. QED
      BY <1>1, <2>1, <2>2, <2>3, <3>1, AnswerInARace
  <2>4. CASE raced = {}
    <3>1. Owed(c) = Achieved(Without(t, p))
      BY <1>2, <1>4, <2>4 DEF Deleted, IsRoot
    <3>2. Owed(c).ok = TRUE /\ Owed(c).shows = <<>> /\ Owed(c).tree = Without(t, p)
      BY <3>1 DEF Achieved
    <3>3. IsTree(t) /\ \A r \in Paths : t[r] = IF r = Root THEN Dir ELSE ideal[r]
      BY <1>1, <2>4, Within
    <3> HIDE DEF t
    <3>4. IsTree(Owed(c).tree) /\ \A r \in Paths : Owed(c).tree[r] = IF IsPrefix(p, r) THEN None ELSE t[r]
      BY <1>1, <3>2, <3>3, WithoutTree DEF Without
    <3>5. \A r \in Paths : r \in Zone(c) <=> IsPrefix(p, r)
      <4>1. Aims(cmd) = {p}
        BY <1>1 DEF Aims, Names
      <4>2. QED
        BY <1>1, <4>1 DEF Zone
    <3>6. Makes(c) = {Root}
      BY <1>1 DEF Makes
    <3>7. \A r \in Zone(c) : disk'[r] = Owed(c).tree[r]
      BY <2>2, <3>4, <3>5 DEF Zone
    <3>8. \A r \in Paths : r \notin Zone(c) =>
            disk'[r] = disk[r] /\ Owed(c).tree[r] = IF r \in Makes(c) THEN Dir ELSE ideal[r]
      BY <2>2, <3>3, <3>4, <3>5, <3>6
    <3>9. QED
      BY <2>1, <2>2, <2>4, <3>2, <3>4, <3>7, <3>8, AnswerCalm
  <2>5. QED
    BY <2>3, <2>4
<1>5. QED
  BY <1>3, <1>4

\* The directories on the way are made.
LEMMA ParentsMade ==
  ASSUME NEW tree, IsTree(tree), NEW p \in Paths, CanMakeParents(tree, p)
  PROVE  \A r \in Paths :
           /\ r \in Above(p) => tree[r] \in {None, Dir} /\ WithParents(tree, p)[r] = Dir
           /\ r \notin Above(p) => WithParents(tree, p)[r] = tree[r]
<1>1. ASSUME NEW r \in Paths, r \in Above(p) PROVE tree[r] \in {None, Dir}
  BY <1>1, NodeOf DEF CanMakeParents
<1>2. QED
  BY <1>1 DEF WithParents

LEMMA CreateKeeps ==
  ASSUME MemoryInv, NEW c \in InFlight, Create(c)
  PROVE  MemoryInv'
<1> DEFINE cmd == call[c].c
           p == cmd.p.path
           t == WithRoot(ideal)
<1>1. /\ cmd \in Commands /\ call[c].step = "asked" /\ cmd.cmd = "create" /\ cmd.p.as # "outside"
      /\ \A s \in Names(cmd) : s.as # "outside"
      /\ p \in Aims(cmd) /\ p \in Paths /\ Flight(call[c])
  BY RunsIs DEF Create
<1>2. CASE ~(Len(cmd.text) <= MaxSize /\ CanMakeParents(disk, p))
  <2>1. Refuses(c)
    BY <1>2 DEF Create
  <2>2. ASSUME raced = {} PROVE Owed(c) = Refused(t)
    <3>1. Owed(c) = Created(t, cmd)
      BY <1>1, <2>2, OwedWithin
    <3>2. \A r \in Above(p) : disk[r].kind = "file" <=> t[r].kind = "file"
      BY <1>1, <2>2, FilesAbove
    <3>3. CanMakeParents(t, p) => CanMakeParents(disk, p)
      BY <3>2 DEF CanMakeParents
    <3>4. QED
      BY <1>2, <3>1, <3>3 DEF Created
  <2>3. QED
    BY <1>1, <2>1, <2>2, RefusalKeeps
<1>3. CASE Len(cmd.text) <= MaxSize /\ CanMakeParents(disk, p)
  <2>1. disk' = WithParents(disk, p) /\ Moves(c, "write", cmd.text)
    BY <1>3 DEF Create
  <2>2. /\ IsTree(disk) /\ IsTree(disk')
        /\ \A r \in Paths : /\ r \in Above(p) => disk[r] \in {None, Dir} /\ disk'[r] = Dir
                            /\ r \notin Above(p) => disk'[r] = disk[r]
    BY <1>1, <1>3, <2>1, WithParentsTree, ParentsMade DEF MemoryInv
  <2>3. /\ call'[c].step = "write" /\ call'[c].c = cmd /\ call'[c].text = cmd.text
        /\ call'[c].clean = call[c].clean
        /\ call'[c] = [step |-> "write", c |-> cmd, text |-> cmd.text, clean |-> call[c].clean]
    BY <2>1, MovesTo DEF Onward
  <2>4. Flight(call'[c])
    BY <1>1, <2>3 DEF Flight
  <2>5. CASE raced # {}
    <3>1. \A r \in Above(p) : r \in Paths /\ r \in Reach(cmd)
      BY <1>1, AimsOf DEF Above
    <3>2. QED
      BY <1>1, <2>1, <2>2, <2>4, <2>5, <3>1, MoveLoose DEF Onward
  <2>6. CASE raced = {}
    <3>1. disk[Root] = Dir /\ Root \in Paths
      BY <1>1, <2>6, Within, PathsAreSequences
    <3>2. Makes(c) = {Root} /\ Makes(c)' = {Root} \cup Above(p) /\ Filled(c)' = {}
      BY <1>1, <2>3 DEF Makes, Filled
    <3>3. disk'[Root] = Dir /\ \A r \in Above(p) : r \in Paths /\ disk'[r] = Dir
      BY <2>2, <3>1 DEF Above
    <3>4. HasText(c)'
      BY <1>1, <1>3, <2>3 DEF HasText
    <3>5. Ready(c)'
      BY <1>1, <2>3, <3>3, <3>4 DEF Ready
    <3>6. \A r \in Makes(c)' : r = Root \/ \E a \in Aims(cmd) : r \in Above(a)
      BY <1>1, <3>2
    <3>7. \A r \in Paths : disk'[r] = disk[r] \/ (disk[r] = None /\ disk'[r] = Dir /\ r \in Makes(c)')
      BY <2>2, <3>2
    <3>8. QED
      BY <1>1, <2>1, <2>2, <2>4, <2>6, <3>2, <3>5, <3>6, <3>7, MoveCalm DEF Onward
  <2>7. QED
    BY <2>5, <2>6
<1>4. QED
  BY <1>2, <1>3

LEMMA EditKeeps ==
  ASSUME MemoryInv, NEW c \in InFlight, Edit(c)
  PROVE  MemoryInv'
<1> DEFINE cmd == call[c].c
           p == cmd.p.path
           t == WithRoot(ideal)
           new == {text \in NewText(cmd, disk[p].text) : Len(text) <= MaxSize}
<1>1. /\ cmd \in Commands /\ call[c].step = "asked" /\ cmd.cmd \in Edits /\ cmd.p.as # "outside"
      /\ \A s \in Names(cmd) : s.as # "outside"
      /\ p \in Aims(cmd) /\ p \in Paths /\ Flight(call[c])
  BY RunsIs DEF Edit, Edits
<1>2. cmd.cmd \notin {"view", "create", "rename"}
  BY <1>1 DEF Edits
<1>3. CASE ~(disk[p].kind = "file" /\ new # {})
  <2>1. Refuses(c)
    BY <1>3 DEF Edit
  <2>2. ASSUME raced = {} PROVE Owed(c) = Refused(t)
    <3>1. Owed(c) = Edited(t, cmd) /\ t[p] = disk[p] /\ IsTree(t)
      BY <1>1, <2>2, OwedWithin, AimIsClose, Within
    <3> HIDE DEF t
    <3>2. t[p].kind # "file" \/ {text \in NewText(cmd, t[p].text) : Len(text) <= MaxSize} = {}
      BY <1>3, <3>1
    <3>3. QED
      BY <1>1, <3>1, <3>2, EditedTells
  <2>3. QED
    BY <1>1, <2>1, <2>2, RefusalKeeps
<1>4. CASE disk[p].kind = "file" /\ new # {}
  <2>1. PICK text \in new : Moves(c, "write", text) /\ UNCHANGED disk
    BY <1>4 DEF Edit
  <2>2. IsTree(disk) /\ IsTree(disk') /\ \A r \in Paths : disk'[r] = disk[r]
    BY <2>1, SameDisk DEF MemoryInv
  <2>3. /\ call'[c].step = "write" /\ call'[c].c = cmd /\ call'[c].text = text
        /\ call'[c].clean = call[c].clean
        /\ call'[c] = [step |-> "write", c |-> cmd, text |-> text, clean |-> call[c].clean]
    BY <2>1, MovesTo DEF Onward
  <2>4. Flight(call'[c])
    BY <1>1, <2>3 DEF Flight, Edits
  <2>5. CASE raced # {}
    BY <1>1, <1>2, <2>1, <2>2, <2>4, <2>5, MoveLoose DEF Onward
  <2>6. CASE raced = {}
    <3>1. disk[Root] = Dir /\ Root \in Paths /\ t[p] = disk[p] /\ t[p] = IF p = Root THEN Dir ELSE ideal[p]
      BY <1>1, <2>6, Within, AimIsClose, PathsAreSequences
    <3>2. p # Root /\ ideal[p] = disk[p]
      BY <1>4, <3>1, KindsOfNodes
    <3>3. \A r \in Above(p) : r \in Paths /\ disk[r] = Dir
      BY <1>1, <1>4, <2>2, NodeOf, KindsOfNodes DEF Above
    <3>4. Makes(c) = {Root} /\ Makes(c)' = {Root} \cup Above(p) /\ Filled(c)' = {}
      BY <1>1, <1>2, <2>3 DEF Makes, Filled
    <3>5. disk'[Root] = Dir /\ \A r \in Above(p) : disk'[r] = Dir
      BY <2>2, <3>1, <3>3
    <3>6. ideal' = ideal
      BY <2>1 DEF Moves
    <3>7. HasText(c)'
      BY <1>2, <1>4, <2>1, <2>3, <3>2, <3>6 DEF HasText
    <3>8. Ready(c)'
      BY <1>1, <2>3, <3>5, <3>7 DEF Ready
    <3>9. \A r \in Makes(c)' : r = Root \/ \E a \in Aims(cmd) : r \in Above(a)
      BY <1>1, <3>4
    <3>10. QED
      BY <1>1, <1>2, <2>1, <2>2, <2>4, <2>6, <3>4, <3>8, <3>9, MoveCalm DEF Onward
  <2>7. QED
    BY <2>5, <2>6
<1>5. QED
  BY <1>3, <1>4

LEMMA AchievedIs ==
  ASSUME NEW tree
  PROVE  Achieved(tree).tree = tree /\ Achieved(tree).ok = TRUE /\ Achieved(tree).shows = <<>>
BY DEF Achieved

\* A write or a fill, of a command that makes or edits a file.
LEMMA WritesIs ==
  ASSUME MemoryInv, NEW c \in InFlight, call[c].step \in {"write", "fill"}
  PROVE  LET cmd == call[c].c
         IN  /\ cmd \in Commands /\ Flight(call[c]) /\ cmd.cmd \in {"create"} \cup Edits
             /\ cmd.cmd \notin {"view", "rename"}
             /\ cmd.p.as # "outside" /\ \A s \in Names(cmd) : s.as # "outside"
             /\ cmd.p.path \in Paths /\ cmd.p.path \in Aims(cmd) /\ Aims(cmd) = {cmd.p.path}
             /\ \A r \in Paths : r \in Zone(c) <=> IsPrefix(cmd.p.path, r)
             /\ Makes(c) = {Root} \cup Above(cmd.p.path)
<1> DEFINE cmd == call[c].c
<1>1. cmd \in Commands /\ Flight(call[c]) /\ cmd.cmd \in {"create"} \cup Edits
  BY FlightOf DEF Flight, Edits
<1>2. cmd.cmd \notin {"view", "rename"}
  BY <1>1 DEF Edits
<1>3. /\ \A s \in Names(cmd) : s.as # "outside"
      /\ cmd.p.as # "outside" /\ cmd.p.path \in Paths /\ cmd.p.path \in Aims(cmd)
  BY <1>1, CommandOf, AimsOf DEF Flight
<1>4. Aims(cmd) = {cmd.p.path}
  BY <1>2, <1>3 DEF Aims, Names
<1>5. \A r \in Paths : r \in Zone(c) <=> IsPrefix(cmd.p.path, r)
  BY <1>2, <1>4 DEF Zone
<1>6. Makes(c) = {Root} \cup Above(cmd.p.path)
  BY <1>3 DEF Makes
<1>7. QED
  BY <1>1, <1>2, <1>3, <1>4, <1>5, <1>6

LEMMA OpensKeeps ==
  ASSUME MemoryInv, NEW c \in InFlight, Opens(c)
  PROVE  MemoryInv'
<1> DEFINE cmd == call[c].c
           p == cmd.p.path
           t == WithRoot(ideal)
<1>1. /\ call[c].step = "write" /\ cmd \in Commands /\ Flight(call[c])
      /\ cmd.cmd \in {"create"} \cup Edits /\ cmd.cmd \notin {"view", "rename"}
      /\ cmd.p.as # "outside" /\ p \in Paths /\ p \in Aims(cmd)
      /\ \A s \in Names(cmd) : s.as # "outside"
      /\ \A r \in Paths : r \in Zone(c) <=> IsPrefix(p, r)
      /\ Makes(c) = {Root} \cup Above(p) /\ Filled(c) = {}
  BY WritesIs DEF Opens, Filled
<1>2. /\ IsTree(disk)
      /\ \A r \in Paths : disk[r].kind = "dir" <=> disk[r] = Dir
  BY NodeOf DEF MemoryInv
<1>3. ASSUME raced = {}
      PROVE  /\ HasText(c) /\ (\A r \in Above(p) : disk[r] = Dir) /\ disk[p] = t[p] /\ IsTree(t)
             /\ disk[Root] = Dir /\ \A r \in Paths : t[r] = IF r = Root THEN Dir ELSE ideal[r]
  <2>1. Ready(c)
    BY <1>3, CalmIs DEF Calm
  <2>2. p \notin Above(p) /\ IsPrefix(p, p)
    BY <1>1, AboveIs, PrefixOrder
  <2>3. disk[p] = t[p]
    BY <1>1, <1>3, <2>2, Within
  <2>4. QED
    BY <1>1, <1>3, <2>1, <2>3, Within DEF Ready
<1>4. CASE disk[p].kind # "dir" /\ \A q \in Above(p) : disk[q].kind = "dir"
  <2>1. disk' = [disk EXCEPT ![p] = File(<<>>)] /\ Moves(c, "fill", call[c].text)
    BY <1>4 DEF Opens
  <2>2. \A q \in Above(p) : q \in Paths /\ disk[q] = Dir
    BY <1>2, <1>4 DEF Above
  <2>3. IsTree(disk') /\ \A r \in Paths : disk'[r] = IF r = p THEN File(<<>>) ELSE disk[r]
    <3>1. IsTree(disk) /\ disk[p].kind # "dir" /\ p \in Paths
      BY <1>1, <1>2, <1>4
    <3>2. DOMAIN disk' = Paths /\ \A r \in Paths : disk'[r] = IF r = p THEN File(<<>>) ELSE disk[r]
      BY <2>1, <3>1 DEF IsTree
    <3>3. QED
      BY <2>2, <3>1, <3>2, FilePut
  <2>4. /\ call'[c].step = "fill" /\ call'[c].c = cmd /\ call'[c].text = call[c].text
        /\ call'[c].clean = call[c].clean
        /\ call'[c] = [step |-> "fill", c |-> cmd, text |-> call[c].text, clean |-> call[c].clean]
    BY <2>1, MovesTo DEF Onward
  <2>5. Flight(call'[c])
    BY <1>1, <2>4 DEF Flight
  <2>6. CASE raced # {}
    <3>1. p \in Reach(cmd)
      BY <1>1, AimsOf, PrefixOrder
    <3>2. QED
      BY <1>1, <2>1, <2>3, <2>5, <2>6, <3>1, MoveLoose DEF Onward
  <2>7. CASE raced = {}
    <3>1. p # Root /\ ideal[p] = disk[p] /\ Root \in Paths
      BY <1>1, <1>3, <1>4, <2>7, KindsOfNodes, PathsAreSequences
    <3>2. Makes(c)' = {Root} \cup Above(p) /\ Filled(c)' = {p}
      BY <1>1, <2>4 DEF Makes, Filled
    <3>3. p \notin Above(p)
      BY <1>1, AboveIs
    <3>4. disk'[Root] = Dir /\ (\A r \in Above(p) : disk'[r] = Dir) /\ disk'[p].kind = "file"
      BY <1>1, <1>3, <2>2, <2>3, <2>7, <3>1, <3>3, KindsOfNodes
    <3>5. ideal' = ideal
      BY <2>1 DEF Moves
    <3>6. HasText(c)'
      BY <1>3, <1>4, <2>4, <2>7, <3>1, <3>5 DEF HasText
    <3>7. Ready(c)'
      BY <1>1, <2>4, <3>4, <3>6 DEF Ready
    <3>8. \A r \in Makes(c)' : r = Root \/ \E a \in Aims(cmd) : r \in Above(a)
      BY <1>1, <3>2
    <3>9. \A r \in Paths : disk'[r] = disk[r] \/ (r \in Filled(c)' /\ r \in Aims(cmd))
      BY <1>1, <2>3, <3>2
    <3>10. QED
      BY <1>1, <2>1, <2>3, <2>5, <2>7, <3>2, <3>7, <3>8, <3>9, MoveCalm DEF Onward
  <2>8. QED
    BY <2>6, <2>7
<1>5. CASE ~(disk[p].kind # "dir" /\ \A q \in Above(p) : disk[q].kind = "dir")
  <2>1. UNCHANGED disk /\ Answers(c, FALSE, <<>>)
    BY <1>5 DEF Opens, Refuses
  <2>2. IsTree(disk') /\ \A r \in Paths : disk'[r] = disk[r]
    BY <2>1, SameDisk
  <2>3. CASE raced # {}
    BY <1>1, <2>1, <2>2, <2>3, AnswerInARace
  <2>4. CASE raced = {}
    <3>1. t[p] = Dir /\ p \notin Above(p)
      <4>1. \A q \in Above(p) : disk[q].kind = "dir"
        BY <1>3, <2>4, KindsOfNodes
      <4>2. QED
        BY <1>1, <1>2, <1>3, <1>5, <2>4, <4>1, AboveIs
    <3>2. cmd.cmd = "create"
      <4>1. p # Root => ideal[p].kind = "dir"
        BY <1>1, <1>3, <2>4, <3>1, KindsOfNodes
      <4>2. CASE p # Root
        BY <1>1, <1>3, <2>4, <4>1, <4>2, KindsOfNodes DEF HasText, Edits
      <4>3. CASE p = Root
        <5>1. ideal[Root].kind # "file"
          BY <1>1, <2>4, Within
        <5>2. QED
          BY <1>1, <1>3, <2>4, <4>3, <5>1 DEF HasText
      <4>4. QED
        BY <4>2, <4>3
    <3>3. Owed(c) = Refused(t)
      <4>1. Owed(c) = Created(t, cmd)
        BY <1>1, <2>4, <3>2, OwedWithin
      <4>2. QED
        BY <3>1, <4>1, KindsOfNodes DEF Created
    <3>4. Owed(c).tree = t /\ Owed(c).ok = FALSE /\ Owed(c).shows = <<>>
      BY <3>3, RefusedIs
    <3>5. \A r \in Above(p) : t[r] = Dir
      BY <1>1, <1>3, <2>4, <3>1, NodeOf, KindsOfNodes
    <3>6. ASSUME NEW r \in Zone(c) PROVE disk'[r] = Owed(c).tree[r]
      <4>1. r \in Paths /\ IsPrefix(p, r)
        BY <1>1, <3>6 DEF Zone
      <4>2. r \notin Above(p)
        BY <1>1, <4>1, AboveOrder
      <4>3. disk[r] = t[r]
        BY <1>1, <2>4, <4>1, <4>2, Within
      <4>4. QED
        BY <2>2, <3>4, <4>1, <4>3
    <3>7. ASSUME NEW r \in Paths, r \notin Zone(c)
          PROVE  disk'[r] = disk[r] /\ Owed(c).tree[r] = IF r \in Makes(c) THEN Dir ELSE ideal[r]
      <4>1. t[r] = IF r \in {Root} \cup Above(p) THEN Dir ELSE ideal[r]
        BY <1>3, <2>4, <3>5
      <4>2. QED
        BY <1>1, <2>2, <3>4, <4>1
    <3>8. QED
      BY <1>3, <2>1, <2>2, <2>4, <3>4, <3>6, <3>7, AnswerCalm
  <2>5. QED
    BY <2>3, <2>4
<1>6. QED
  BY <1>4, <1>5

\* What a file that is filled is due to be.
LEMMA OwedOfAFill ==
  ASSUME MemoryInv, raced = {}, NEW c \in InFlight, call[c].step = "fill"
  PROVE  LET p == call[c].c.p.path
             t == WithRoot(ideal)
         IN  /\ p # Root /\ disk[p].kind = "file" /\ \A r \in Above(p) : disk[r] = Dir
             /\ Owed(c).ok = TRUE /\ Owed(c).shows = <<>>
             /\ \A r \in Paths : Owed(c).tree[r] = IF r = p THEN File(call[c].text)
                                                   ELSE IF r \in Above(p) THEN Dir ELSE t[r]
<1> DEFINE cmd == call[c].c
           p == cmd.p.path
           t == WithRoot(ideal)
<1>1. /\ cmd \in Commands /\ cmd.cmd \in {"create"} \cup Edits /\ cmd.cmd \notin {"view", "rename"}
      /\ cmd.p.as # "outside" /\ p \in Paths
      /\ \A s \in Names(cmd) : s.as # "outside"
      /\ Makes(c) = {Root} \cup Above(p)
  BY WritesIs
<1>2. HasText(c) /\ disk[p].kind = "file" /\ \A r \in Above(p) : disk[r] = Dir
  BY CalmIs DEF Calm, Ready
<1>3. /\ IsTree(t) /\ disk[Root] = Dir /\ \A r \in Paths : t[r] = IF r = Root THEN Dir ELSE ideal[r]
      /\ \A r \in Makes(c) : t[r] \in {None, Dir}
  BY <1>1, Within
<1>4. p # Root
  BY <1>2, <1>3, KindsOfNodes
<1>5. t[p] = ideal[p]
  BY <1>1, <1>3, <1>4
<1>6. /\ cmd.cmd = "create" => Owed(c) = Created(t, cmd)
      /\ cmd.cmd \in Edits => Owed(c) = Edited(t, cmd)
  BY <1>1, OwedWithin
<1> HIDE DEF t
<1> DEFINE AsDue == /\ Owed(c).ok = TRUE /\ Owed(c).shows = <<>>
                  /\ \A r \in Paths : Owed(c).tree[r] = IF r = p THEN File(call[c].text)
                                                        ELSE IF r \in Above(p) THEN Dir ELSE t[r]
<1>7. ASSUME cmd.cmd = "create" PROVE AsDue
  <2>1. t[p].kind # "dir" /\ Len(cmd.text) <= MaxSize /\ call[c].text = cmd.text
    BY <1>2, <1>5, <1>7 DEF HasText
  <2>2. CanMakeParents(t, p)
    BY <1>1, <1>3, KindsOfNodes DEF CanMakeParents
  <2>3. Created(t, cmd).ok = TRUE
    BY <2>1, <2>2 DEF Created, Achieved
  <2>4. Created(t, cmd) # Refused(t)
    BY <2>3, RefusedIs
  <2>5. /\ Created(t, cmd).ok = TRUE /\ Created(t, cmd).shows = <<>>
        /\ \A r \in Paths : Created(t, cmd).tree[r] = IF r = p THEN File(cmd.text)
                                                      ELSE IF r \in Above(p) THEN Dir ELSE t[r]
    BY <1>1, <1>3, <2>4, CreatedIs
  <2>6. Owed(c) = Created(t, cmd) /\ call[c].text = cmd.text
    BY <1>6, <1>7, <2>1
  <2> HIDE DEF p, cmd
  <2>7. QED
    BY <2>5, <2>6
<1>8. ASSUME cmd.cmd \in Edits PROVE AsDue
  <2>1. cmd.cmd # "create"
    BY <1>8 DEF Edits
  <2>2. t[p].kind = "file" /\ Len(call[c].text) <= MaxSize /\ call[c].text \in NewText(cmd, t[p].text)
    BY <1>2, <1>5, <2>1 DEF HasText
  <2>3. Edited(t, cmd) = Achieved([t EXCEPT ![p] = File(call[c].text)])
    BY <1>1, <1>3, <1>8, <2>2, EditedTells
  <2>4. Owed(c).ok = TRUE /\ Owed(c).shows = <<>> /\ Owed(c).tree = [t EXCEPT ![p] = File(call[c].text)]
    BY <1>6, <1>8, <2>3, AchievedIs
  <2>5. \A r \in Above(p) : r \in Paths /\ t[r] = Dir
    BY <1>1, <1>3, <2>2, NodeOf, KindsOfNodes DEF Above
  <2>6. \A r \in Paths : Owed(c).tree[r] = IF r = p THEN File(call[c].text) ELSE t[r]
    BY <1>1, <1>3, <2>4 DEF IsTree
  <2>7. QED
    BY <2>4, <2>5, <2>6
<1>9. QED
  BY <1>1, <1>2, <1>4, <1>7, <1>8 DEF t

LEMMA FillsKeeps ==
  ASSUME MemoryInv, NEW c \in InFlight, Fills(c)
  PROVE  MemoryInv'
<1> DEFINE cmd == call[c].c
           p == cmd.p.path
           t == WithRoot(ideal)
<1>1. /\ call[c].step = "fill" /\ cmd \in Commands /\ Flight(call[c])
      /\ cmd.cmd \notin {"view", "rename"}
      /\ cmd.p.as # "outside" /\ p \in Paths /\ p \in Aims(cmd)
      /\ \A r \in Paths : r \in Zone(c) <=> IsPrefix(p, r)
      /\ Makes(c) = {Root} \cup Above(p) /\ Filled(c) = {p}
      /\ Answers(c, TRUE, <<>>)
  BY WritesIs DEF Fills, Filled
<1>2. CASE raced # {}
  <2>1. IsTree(disk') /\ \A r \in Paths : disk'[r] = disk[r] \/ r \in raced \/ r = p
    <3>1. CASE UNCHANGED disk
      BY <3>1, SameDisk
    <3>2. CASE \E q \in {p} \cup raced : disk[q].kind = "file" /\ disk' = [disk EXCEPT ![q] = File(call[c].text)]
      <4>1. PICK q \in {p} \cup raced : disk[q].kind = "file" /\ disk' = [disk EXCEPT ![q] = File(call[c].text)]
        BY <3>2
      <4>2. q \in Paths /\ IsTree(disk)
        BY <1>1 DEF MemoryInv
      <4>3. \A r \in Above(q) : disk[r] = Dir
        BY <4>1, <4>2, NodeOf, KindsOfNodes
      <4>4. IsTree(disk') /\ \A r \in Paths : r # q => disk'[r] = disk[r]
        <5>1. disk[q].kind # "dir"
          BY <4>1
        <5>2. DOMAIN disk' = Paths /\ \A r \in Paths : disk'[r] = IF r = q THEN File(call[c].text) ELSE disk[r]
          BY <4>1, <4>2 DEF IsTree
        <5>3. QED
          BY <4>2, <4>3, <5>1, <5>2, FilePut
      <4>5. QED
        BY <4>1, <4>4
    <3>3. QED
      BY <3>1, <3>2 DEF Fills
  <2>2. p \in Touches(c)
    BY <1>1, AimsOf, PrefixOrder DEF Touches
  <2>3. QED
    BY <1>1, <1>2, <2>1, <2>2, AnswerInARace
<1>3. CASE raced = {}
  <2>1. /\ p # Root /\ disk[p].kind = "file" /\ \A r \in Above(p) : disk[r] = Dir
        /\ Owed(c).ok = TRUE /\ Owed(c).shows = <<>>
        /\ \A r \in Paths : Owed(c).tree[r] = IF r = p THEN File(call[c].text)
                                              ELSE IF r \in Above(p) THEN Dir ELSE t[r]
    BY <1>1, <1>3, OwedOfAFill
  <2>2. call[c].clean
    BY <1>1, <1>3, CalmIs DEF Calm
  <2>3. disk' = [disk EXCEPT ![p] = File(call[c].text)]
    BY <2>2 DEF Fills
  <2>4. IsTree(disk') /\ \A r \in Paths : disk'[r] = IF r = p THEN File(call[c].text) ELSE disk[r]
    <3>1. IsTree(disk) /\ disk[p].kind # "dir" /\ p \in Paths
      BY <1>1, <2>1 DEF MemoryInv
    <3>2. DOMAIN disk' = Paths /\ \A r \in Paths : disk'[r] = IF r = p THEN File(call[c].text) ELSE disk[r]
      BY <2>3, <3>1 DEF IsTree
    <3>3. QED
      BY <2>1, <3>1, <3>2, FilePut
  <2>5. ASSUME NEW r \in Zone(c) PROVE disk'[r] = Owed(c).tree[r]
    <3>1. r \in Paths /\ IsPrefix(p, r)
      BY <1>1, <2>5 DEF Zone
    <3>2. r \notin Above(p)
      BY <1>1, <3>1, AboveOrder
    <3>3. r = p \/ disk[r] = t[r]
      BY <1>1, <1>3, <3>1, <3>2, Within
    <3>4. QED
      BY <2>1, <2>4, <3>1, <3>2, <3>3
  <2>6. ASSUME NEW r \in Paths, r \notin Zone(c)
        PROVE  disk'[r] = disk[r] /\ Owed(c).tree[r] = IF r \in Makes(c) THEN Dir ELSE ideal[r]
    <3>1. r # p
      BY <1>1, <2>6, PrefixOrder
    <3>2. Root \in Above(p)
      BY <1>1, <2>1, RootIsAbove
    <3>3. t[r] = IF r = Root THEN Dir ELSE ideal[r]
      BY <1>1, <1>3, Within
    <3>4. Owed(c).tree[r] = IF r \in Above(p) THEN Dir ELSE t[r]
      BY <2>1, <3>1
    <3>5. QED
      BY <1>1, <2>4, <3>1, <3>2, <3>3, <3>4
  <2>7. IsTree(Owed(c).tree)
    BY OwedIs
  <2>8. QED
    BY <1>1, <1>3, <2>1, <2>4, <2>5, <2>6, <2>7, AnswerCalm
<1>4. QED
  BY <1>2, <1>3

LEMMA RenamesIs ==
  ASSUME MemoryInv, NEW c \in InFlight, call[c].c.cmd = "rename", call[c].step \in {"asked", "move"},
         \A s \in Names(call[c].c) : s.as # "outside"
  PROVE  LET cmd == call[c].c
             p == cmd.p.path
             q == cmd.q.path
         IN  /\ cmd \in Commands /\ Flight(call[c]) /\ cmd.p.as # "outside"
             /\ p \in Paths /\ q \in Paths /\ Aims(cmd) = {p, q}
             /\ \A r \in Paths : r \in Zone(c) <=> IsPrefix(p, r) \/ IsPrefix(q, r)
             /\ Filled(c) = {} /\ Makes(c) = {Root} \cup IF call[c].step = "move" THEN Above(q) ELSE {}
             /\ \A r \in Paths : IsPrefix(p, r) \/ IsPrefix(q, r) \/ r \in Above(q) =>
                  r \in Reach(cmd) /\ r \in Touches(c)
<1> DEFINE cmd == call[c].c
           p == cmd.p.path
           q == cmd.q.path
<1>1. /\ cmd \in Commands /\ Flight(call[c]) /\ cmd.p.as # "outside" /\ cmd.q.as # "outside"
      /\ p \in Paths /\ q \in Paths
  BY FlightOf, CommandOf
<1>2. Aims(cmd) = {p, q}
  BY <1>1 DEF Aims, Names
<1>3. \A r \in Paths : r \in Zone(c) <=> IsPrefix(p, r) \/ IsPrefix(q, r)
  BY <1>2 DEF Zone
<1>4. Filled(c) = {} /\ Makes(c) = {Root} \cup IF call[c].step = "move" THEN Above(q) ELSE {}
  BY <1>1 DEF Makes, Filled
<1>5. \A r \in Paths : IsPrefix(p, r) \/ IsPrefix(q, r) \/ r \in Above(q) => r \in Reach(cmd)
  BY <1>1, <1>2, AimsOf
<1>6. Touches(c) = Reach(cmd)
  BY DEF Touches
<1>7. QED
  BY <1>1, <1>2, <1>3, <1>4, <1>5, <1>6

LEMMA RenameKeeps ==
  ASSUME MemoryInv, NEW c \in InFlight, Rename(c)
  PROVE  MemoryInv'
<1> DEFINE cmd == call[c].c
           p == cmd.p.path
           q == cmd.q.path
           t == WithRoot(ideal)
<1>1. /\ call[c].step = "asked" /\ cmd.cmd = "rename" /\ cmd \in Commands /\ Flight(call[c])
      /\ cmd.p.as # "outside" /\ p \in Paths /\ q \in Paths /\ Aims(cmd) = {p, q}
      /\ \A s \in Names(cmd) : s.as # "outside"
      /\ Makes(c) = {Root}
      /\ \A r \in Paths : r \in Above(q) => r \in Reach(cmd)
  BY RunsIs, RenamesIs DEF Rename
<1>2. ASSUME raced = {}
      PROVE  /\ disk[p] = t[p] /\ disk[q] = t[q] /\ disk[Root] = Dir
             /\ CanMakeParents(t, q) => CanMakeParents(disk, q)
             /\ \A r \in Paths : t[r] = IF r = Root THEN Dir ELSE ideal[r]
  <2>1. \A r \in Above(q) : disk[r].kind = "file" <=> t[r].kind = "file"
    BY <1>1, <1>2, FilesAbove
  <2>2. disk[p] = t[p] /\ disk[q] = t[q]
    BY <1>1, <1>2, AimIsClose
  <2>3. QED
    BY <1>1, <1>2, <2>1, <2>2, Within DEF CanMakeParents
<1>3. CASE ~(~IsRoot(cmd.p) /\ disk[p] # None /\ disk[q] = None /\ CanMakeParents(disk, q))
  <2>1. Refuses(c)
    BY <1>3 DEF Rename
  <2>2. ASSUME raced = {} PROVE Owed(c) = Refused(t)
    <3>1. Owed(c) = Renamed(t, cmd)
      BY <1>1, <2>2, OwedWithin
    <3>2. \/ cmd.p = [path |-> Root, as |-> "plain"] \/ t[p] = None \/ t[q] # None
          \/ ~CanMakeParents(t, q)
      BY <1>2, <1>3, <2>2 DEF IsRoot
    <3>3. QED
      BY <3>1, <3>2 DEF Renamed
  <2>3. QED
    BY <1>1, <2>1, <2>2, RefusalKeeps
<1>4. CASE ~IsRoot(cmd.p) /\ disk[p] # None /\ disk[q] = None /\ CanMakeParents(disk, q)
  <2>1. disk' = WithParents(disk, q) /\ Moves(c, "move", <<>>)
    BY <1>4 DEF Rename
  <2>2. /\ IsTree(disk')
        /\ \A r \in Paths : /\ r \in Above(q) => disk[r] \in {None, Dir} /\ disk'[r] = Dir
                            /\ r \notin Above(q) => disk'[r] = disk[r]
    BY <1>1, <1>4, <2>1, WithParentsTree, ParentsMade DEF MemoryInv
  <2>3. /\ call'[c].step = "move" /\ call'[c].c = cmd /\ call'[c].text = <<>>
        /\ call'[c].clean = call[c].clean
        /\ call'[c] = [step |-> "move", c |-> cmd, text |-> <<>>, clean |-> call[c].clean]
    BY <2>1, MovesTo DEF Onward
  <2>4. Flight(call'[c])
    BY <1>1, <2>3 DEF Flight
  <2>5. CASE raced # {}
    BY <1>1, <2>1, <2>2, <2>4, <2>5, MoveLoose DEF Onward
  <2>6. CASE raced = {}
    <3>1. Makes(c)' = {Root} \cup Above(q) /\ Filled(c)' = {}
      BY <1>1, <2>3 DEF Makes, Filled
    <3>2. q \notin Above(q) /\ Root \in Paths
      BY <1>1, AboveIs, PathsAreSequences
    <3>3. /\ disk'[Root] = Dir /\ (\A r \in Above(q) : disk'[r] = Dir)
          /\ disk'[p] # None /\ disk'[q] = None
      BY <1>1, <1>2, <1>4, <2>2, <2>6, <3>2, KindsOfNodes DEF Above
    <3>4. p = Root \/ ideal[p] # None
      BY <1>1, <1>2, <1>4, <2>6
    <3>5. ideal' = ideal
      BY <2>1 DEF Moves
    <3>6. Ready(c)'
      BY <1>1, <1>4, <2>3, <3>3, <3>4, <3>5 DEF Ready
    <3>7. \A r \in Makes(c)' : r = Root \/ \E a \in Aims(cmd) : r \in Above(a)
      BY <1>1, <3>1
    <3>8. \A r \in Paths : disk'[r] = disk[r] \/ (disk[r] = None /\ disk'[r] = Dir /\ r \in Makes(c)')
      BY <2>2, <3>1
    <3>9. QED
      BY <1>1, <2>1, <2>2, <2>4, <2>6, <3>1, <3>6, <3>7, <3>8, MoveCalm DEF Onward
  <2>7. QED
    BY <2>5, <2>6
<1>5. QED
  BY <1>3, <1>4

\* What a move under way finds, if nothing raced.
LEMMA MoveFinds ==
  ASSUME MemoryInv, raced = {}, NEW c \in InFlight, call[c].step = "move"
  PROVE  LET cmd == call[c].c
             p == cmd.p.path
             q == cmd.q.path
             w == WithParents(WithRoot(ideal), q)
         IN  /\ disk[p] # None /\ disk[q] = None /\ \A r \in Above(q) : disk[r] = Dir
             /\ Owed(c) = IF IsPrefix(p, q) THEN Refused(w) ELSE Achieved(Moved(w, p, q))
             /\ \A r \in Paths : IsPrefix(p, r) \/ IsPrefix(q, r) => disk[r] = w[r]
             /\ \A r \in Paths : ~IsPrefix(p, r) /\ ~IsPrefix(q, r) =>
                  w[r] = IF r \in Makes(c) THEN Dir ELSE ideal[r]
<1> DEFINE cmd == call[c].c
           p == cmd.p.path
           q == cmd.q.path
           t == WithRoot(ideal)
           w == WithParents(t, q)
<1>0. cmd.cmd = "rename" /\ \A s \in Names(cmd) : s.as # "outside"
  BY FlightOf DEF Flight
<1>1. /\ cmd.p.as # "outside" /\ p \in Paths /\ q \in Paths /\ Aims(cmd) = {p, q}
      /\ Filled(c) = {} /\ Makes(c) = {Root} \cup Above(q)
  BY <1>0, RenamesIs
<1>2. /\ ~IsRoot(cmd.p) /\ disk[p] # None /\ disk[q] = None
      /\ p = Root \/ ideal[p] # None
      /\ \A r \in Above(q) : disk[r] = Dir
  BY CalmIs DEF Calm, Ready
<1>3. /\ IsTree(t) /\ disk[Root] = Dir
      /\ \A r \in Paths : t[r] = IF r = Root THEN Dir ELSE ideal[r]
      /\ \A r \in Makes(c) : t[r] \in {None, Dir}
      /\ \A r \in Paths : IsPrefix(p, r) \/ IsPrefix(q, r) =>
           disk[r] = t[r] \/ (disk[r] = Dir /\ r \in Makes(c) /\ r # Root)
  BY <1>1, Within
<1>4. Owed(c) = Renamed(t, cmd)
  BY <1>0, OwedWithin
<1> HIDE DEF t
<1>5. t[p] # None
  BY <1>1, <1>2, <1>3, KindsOfNodes
<1>6. t[q] = None
  BY <1>1, <1>2, <1>3, PrefixOrder, KindsOfNodes
<1>7. CanMakeParents(t, q)
  BY <1>1, <1>3, KindsOfNodes DEF CanMakeParents
<1>8. Owed(c) = IF IsPrefix(p, q) THEN Refused(w) ELSE Achieved(Moved(w, p, q))
  BY <1>2, <1>4, <1>5, <1>6, <1>7 DEF Renamed, IsRoot
<1>9. \A r \in Paths : w[r] = IF r \in Above(q) THEN Dir ELSE t[r]
  BY DEF WithParents
<1>10. \A r \in Paths : IsPrefix(p, r) \/ IsPrefix(q, r) => disk[r] = w[r]
  BY <1>1, <1>2, <1>3, <1>9
<1>11. \A r \in Paths : ~IsPrefix(p, r) /\ ~IsPrefix(q, r) =>
         w[r] = IF r \in Makes(c) THEN Dir ELSE ideal[r]
  BY <1>1, <1>3, <1>9
<1>12. QED
  BY <1>2, <1>8, <1>10, <1>11 DEF t

LEMMA MovedIs ==
  ASSUME NEW tree, NEW p, NEW q, NEW r \in Paths
  PROVE  Moved(tree, p, q)[r] =
           IF IsPrefix(q, r) THEN IF CameFrom(p, q, r) \in Paths THEN tree[CameFrom(p, q, r)] ELSE None
           ELSE IF IsPrefix(p, r) THEN None ELSE tree[r]
BY DEF Moved

LEMMA CarryKeeps ==
  ASSUME MemoryInv, NEW c \in InFlight, Carry(c)
  PROVE  MemoryInv'
<1> DEFINE cmd == call[c].c
           p == cmd.p.path
           q == cmd.q.path
           w == WithParents(WithRoot(ideal), q)
<1>0. call[c].step = "move" /\ cmd.cmd = "rename" /\ \A s \in Names(cmd) : s.as # "outside"
  BY FlightOf DEF Flight, Carry
<1>1. /\ p \in Paths /\ q \in Paths /\ Aims(cmd) = {p, q}
      /\ \A r \in Paths : r \in Zone(c) <=> IsPrefix(p, r) \/ IsPrefix(q, r)
      /\ \A r \in Paths : IsPrefix(p, r) \/ IsPrefix(q, r) => r \in Touches(c)
  BY <1>0, RenamesIs
<1>2. IsTree(disk) /\ \A r \in Paths : disk[r].kind = "dir" <=> disk[r] = Dir
  BY NodeOf DEF MemoryInv
<1>3. /\ CanMove(p, q) => disk' = Moved(disk, p, q) /\ Answers(c, TRUE, <<>>)
      /\ ~CanMove(p, q) => UNCHANGED disk /\ Answers(c, FALSE, <<>>)
  BY DEF Carry, Refuses
<1>4. ASSUME CanMove(p, q) PROVE IsTree(disk')
  <2>1. ~IsPrefix(p, q) /\ \A r \in Above(q) : disk[r] = Dir
    BY <1>2, <1>4 DEF CanMove, Above
  <2>2. QED
    BY <1>1, <1>2, <1>3, <1>4, <2>1, MovedTree
<1>5. CASE raced # {}
  <2>1. CASE CanMove(p, q)
    <3>1. \A r \in Paths : disk'[r] = disk[r] \/ r \in Touches(c)
      BY <1>1, <1>3, <2>1, MovedIs
    <3>2. QED
      BY <1>1, <1>3, <1>4, <1>5, <2>1, <3>1, AnswerInARace
  <2>2. CASE ~CanMove(p, q)
    <3>1. IsTree(disk') /\ \A r \in Paths : disk'[r] = disk[r]
      BY <1>3, <2>2, SameDisk
    <3>2. QED
      BY <1>1, <1>3, <1>5, <2>2, <3>1, AnswerInARace
  <2>3. QED
    BY <2>1, <2>2
<1>6. CASE raced = {}
  <2>1. /\ disk[p] # None /\ disk[q] = None /\ \A r \in Above(q) : disk[r] = Dir
        /\ Owed(c) = IF IsPrefix(p, q) THEN Refused(w) ELSE Achieved(Moved(w, p, q))
        /\ \A r \in Paths : IsPrefix(p, r) \/ IsPrefix(q, r) => disk[r] = w[r]
        /\ \A r \in Paths : ~IsPrefix(p, r) /\ ~IsPrefix(q, r) =>
             w[r] = IF r \in Makes(c) THEN Dir ELSE ideal[r]
    BY <1>0, <1>6, MoveFinds
  <2> HIDE DEF w
  <2>2. IsTree(Owed(c).tree)
    BY OwedIs
  <2>3. CASE IsPrefix(p, q)
    <3>1. ~CanMove(p, q)
      BY <2>3 DEF CanMove
    <3>2. UNCHANGED disk /\ Answers(c, FALSE, <<>>) /\ IsTree(disk') /\ \A r \in Paths : disk'[r] = disk[r]
      BY <1>3, <3>1, SameDisk
    <3>3. Owed(c).tree = w /\ Owed(c).ok = FALSE /\ Owed(c).shows = <<>>
      <4>1. Owed(c) = Refused(w)
        BY <2>1, <2>3
      <4>2. QED
        BY <4>1, RefusedIs
    <3>4. \A r \in Zone(c) : disk'[r] = Owed(c).tree[r]
      BY <1>1, <2>1, <3>2, <3>3 DEF Zone
    <3>5. \A r \in Paths : r \notin Zone(c) =>
            disk'[r] = disk[r] /\ Owed(c).tree[r] = IF r \in Makes(c) THEN Dir ELSE ideal[r]
      BY <1>1, <2>1, <3>2, <3>3
    <3>6. QED
      BY <1>6, <2>2, <3>2, <3>3, <3>4, <3>5, AnswerCalm
  <2>4. CASE ~IsPrefix(p, q)
    <3>1. Under(q, disk) = {}
      <4>1. \A r \in Paths : IsPrefix(q, r) => disk[r] = None
        BY <1>1, <1>2, <2>1, NodeOf, KindsOfNodes, AboveIs
      <4>2. QED
        BY <4>1 DEF Under
    <3>2. CanMove(p, q)
      BY <2>1, <2>4, <3>1, KindsOfNodes DEF CanMove
    <3>3. disk' = Moved(disk, p, q) /\ Answers(c, TRUE, <<>>) /\ IsTree(disk')
      BY <1>3, <1>4, <3>2
    <3>4. Owed(c).tree = Moved(w, p, q) /\ Owed(c).ok = TRUE /\ Owed(c).shows = <<>>
      <4>1. Owed(c) = Achieved(Moved(w, p, q))
        BY <2>1, <2>4
      <4>2. QED
        BY <4>1, AchievedIs
    <3>5. ASSUME NEW r \in Zone(c) PROVE disk'[r] = Owed(c).tree[r]
      <4>1. r \in Paths /\ (IsPrefix(p, r) \/ IsPrefix(q, r))
        BY <1>1, <3>5 DEF Zone
      <4>2. /\ disk'[r] = IF IsPrefix(q, r)
                          THEN IF CameFrom(p, q, r) \in Paths THEN disk[CameFrom(p, q, r)] ELSE None
                          ELSE None
            /\ Owed(c).tree[r] = IF IsPrefix(q, r)
                                 THEN IF CameFrom(p, q, r) \in Paths THEN w[CameFrom(p, q, r)] ELSE None
                                 ELSE None
        BY <3>3, <3>4, <4>1, MovedIs
      <4>3. IsPrefix(q, r) => IsPrefix(p, CameFrom(p, q, r))
        BY <1>1, <4>1, CameFromIs
      <4>4. QED
        BY <2>1, <4>2, <4>3
    <3>6. ASSUME NEW r \in Paths, r \notin Zone(c)
          PROVE  disk'[r] = disk[r] /\ Owed(c).tree[r] = IF r \in Makes(c) THEN Dir ELSE ideal[r]
      <4>1. ~IsPrefix(p, r) /\ ~IsPrefix(q, r)
        BY <1>1, <3>6
      <4>2. disk'[r] = disk[r] /\ Owed(c).tree[r] = w[r]
        BY <3>3, <3>4, <4>1, MovedIs
      <4>3. QED
        BY <2>1, <4>1, <4>2
    <3>7. QED
      BY <1>6, <2>2, <3>3, <3>4, <3>5, <3>6, AnswerCalm
  <2>5. QED
    BY <2>3, <2>4
<1>7. QED
  BY <1>5, <1>6

\* Whatever a caller does, and a crash.
LEMMA MemoryStep ==
  ASSUME MemoryInv, [MemoryNext]_memoryVars
  PROVE  MemoryInv'
<1>1. ASSUME UNCHANGED memoryVars PROVE MemoryInv'
  BY <1>1 DEF memoryVars, MemoryInv, Calm, Loose, Close, Ready, HasText, Makes, Filled, InFlight
<1>2. ASSUME NEW c \in Callers, call[c].step # "idle" PROVE c \in InFlight
  BY <1>2 DEF InFlight, Idle
<1>3. ASSUME NEW c \in Callers, Ask(c) PROVE MemoryInv'
  BY <1>3, AskKeeps
<1>4. ASSUME NEW c \in Callers, RefusesAtOnce(c) PROVE MemoryInv'
  <2>1. call[c].step # "idle"
    BY <1>4 DEF RefusesAtOnce
  <2>2. QED
    BY <1>2, <1>4, <2>1, RefusesAtOnceKeeps
<1>5. ASSUME NEW c \in Callers, View(c) PROVE MemoryInv'
  <2>1. call[c].step # "idle"
    BY <1>5 DEF View, Runs
  <2>2. QED
    BY <1>2, <1>5, <2>1, ViewKeeps
<1>6. ASSUME NEW c \in Callers, Create(c) PROVE MemoryInv'
  <2>1. call[c].step # "idle"
    BY <1>6 DEF Create, Runs
  <2>2. QED
    BY <1>2, <1>6, <2>1, CreateKeeps
<1>7. ASSUME NEW c \in Callers, Edit(c) PROVE MemoryInv'
  <2>1. call[c].step # "idle"
    BY <1>7 DEF Edit, Runs
  <2>2. QED
    BY <1>2, <1>7, <2>1, EditKeeps
<1>8. ASSUME NEW c \in Callers, Opens(c) PROVE MemoryInv'
  <2>1. call[c].step # "idle"
    BY <1>8 DEF Opens
  <2>2. QED
    BY <1>2, <1>8, <2>1, OpensKeeps
<1>9. ASSUME NEW c \in Callers, Fills(c) PROVE MemoryInv'
  <2>1. call[c].step # "idle"
    BY <1>9 DEF Fills
  <2>2. QED
    BY <1>2, <1>9, <2>1, FillsKeeps
<1>10. ASSUME NEW c \in Callers, Delete(c) PROVE MemoryInv'
  <2>1. call[c].step # "idle"
    BY <1>10 DEF Delete, Runs
  <2>2. QED
    BY <1>2, <1>10, <2>1, DeleteKeeps
<1>11. ASSUME NEW c \in Callers, Rename(c) PROVE MemoryInv'
  <2>1. call[c].step # "idle"
    BY <1>11 DEF Rename, Runs
  <2>2. QED
    BY <1>2, <1>11, <2>1, RenameKeeps
<1>12. ASSUME NEW c \in Callers, Carry(c) PROVE MemoryInv'
  <2>1. call[c].step # "idle"
    BY <1>12 DEF Carry
  <2>2. QED
    BY <1>2, <1>12, <2>1, CarryKeeps
<1>13. QED
  BY <1>1, <1>3, <1>4, <1>5, <1>6, <1>7, <1>8, <1>9, <1>10, <1>11, <1>12, CrashKeeps DEF MemoryNext

LEMMA MemorySteps ==
  ASSUME Next
  PROVE  MemoryNext \/ UNCHANGED memoryVars
  BY DEF Next, Crash

\* memory.rs, run: a command no other gets in the way of does to the directory, and answers,
\* what the commands done one by one would, for every tree of paths, every text and any number
\* of callers; where commands do get in each other's way, only what they name is unsure.
THEOREM CommandsAreKept == Spec => []CommandsKept
<1>1. Init => MemoryInv
  BY MemoryStart DEF Init
<1>2. MemoryInv /\ [Next]_vars => MemoryInv'
  BY MemorySteps, MemoryStep DEF vars
<1>3. MemoryInv => CommandsKept
  BY InvGivesKept
<1>4. QED
  BY <1>1, <1>2, <1>3, PTL DEF Spec
=============================================================================
