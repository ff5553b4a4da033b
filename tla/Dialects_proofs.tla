--------------------------- MODULE Dialects_proofs ---------------------------
(***************************************************************************)
(* What the streamed path sends an Anthropic client implements the turn    *)
(* such a client relies on (ClientTurn), for any number of pieces, calls,  *)
(* served searches and routes.                                             *)
(***************************************************************************)
EXTENDS Dialects, FiniteSetTheorems, WellFoundedInduction, TLAPS

-----------------------------------------------------------------------------
(* Least and greatest numbers; induction, and recursion, up to a number.   *)

LEMMA LeastExists ==
  ASSUME NEW S \in SUBSET Nat, S # {}
  PROVE  \E x \in S : \A y \in S : x <= y
<1>1. PICK x \in S : \A y \in S : ~(<<y, x>> \in OpToRel(<, Nat))
  BY WFMin, NatLessThanWellFounded
<1>2. \A y \in S : ~(y < x)
  BY <1>1 DEF OpToRel
<1> QED
  BY <1>2

LEMMA GreatestExists ==
  ASSUME NEW b \in Nat, NEW S \in SUBSET (0 .. b), S # {}
  PROVE  \E x \in S : \A y \in S : y <= x
<1> DEFINE D == {b - x : x \in S}
<1>1. D \in SUBSET Nat /\ D # {}
  <2>1. PICK x \in S : TRUE
    OBVIOUS
  <2>2. b - x \in D
    BY <2>1
  <2> QED
    BY <2>2
<1>2. PICK d \in D : \A e \in D : d <= e
  BY <1>1, LeastExists
<1>3. PICK x \in S : d = b - x
  BY <1>2
<1>4. \A y \in S : b - x <= b - y
  BY <1>2, <1>3
<1> QED
  BY <1>3, <1>4

LEMMA MinMember ==
  ASSUME NEW S \in SUBSET Nat, S # {}
  PROVE  Min(S) \in S /\ \A y \in S : Min(S) <= y
<1>1. \E x \in S : \A y \in S : x <= y
  BY LeastExists
<1> QED
  BY <1>1 DEF Min

LEMMA MaxMember ==
  ASSUME NEW b \in Nat, NEW S \in SUBSET (0 .. b), S # {}
  PROVE  Max(S) \in S /\ \A y \in S : y <= Max(S)
<1>1. \E x \in S : \A y \in S : x >= y
  BY GreatestExists
<1> QED
  BY <1>1 DEF Max

LEMMA UpTo ==
  ASSUME NEW N \in Nat, NEW S, 0 \in S, \A n \in 1 .. N : n - 1 \in S => n \in S
  PROVE  0 .. N \subseteq S
<1> DEFINE Bad == (0 .. N) \ S
<1> SUFFICES ASSUME Bad # {} PROVE FALSE
  OBVIOUS
<1>0. Bad \in SUBSET Nat
  OBVIOUS
<1>1. PICK k \in Bad : \A j \in Bad : k <= j
  <2> HIDE DEF Bad
  <2> QED
    BY <1>0, LeastExists
<1>2. k \in 1 .. N /\ k - 1 \notin Bad /\ k - 1 \in 0 .. N
  BY <1>1
<1> QED
  BY <1>2

LEMMA SameFunction ==
  ASSUME NEW D, NEW f, NEW h, f = [n \in D |-> f[n]], h = [n \in D |-> h[n]],
         \A n \in D : f[n] = h[n]
  PROVE  f = h
<1>1. [n \in D |-> f[n]] = [n \in D |-> h[n]]
  OBVIOUS
<1> QED
  BY <1>1

\* A function on 0 .. N given by its first value and by a step that keeps to the sets T[n].
Unfolds(f, N, a, F) == f = [n \in 0 .. N |-> IF n = 0 THEN a ELSE F[n][f[n - 1]]]

LEMMA Recursion ==
  ASSUME NEW N \in Nat, NEW T, NEW F, NEW a \in T[0],
         \A n \in 1 .. N : \A x \in T[n - 1] : F[n][x] \in T[n]
  PROVE  \E f : Unfolds(f, N, a, F) /\ \A n \in 0 .. N : f[n] \in T[n]
<1> DEFINE Is(m, f) == /\ f = [n \in 0 .. m |-> IF n = 0 THEN a ELSE F[n][f[n - 1]]]
                       /\ \A n \in 0 .. m : f[n] \in T[n]
           S == {m \in 0 .. N : \E f : Is(m, f)}
<1>1. 0 \in S
  <2> DEFINE f == [n \in 0 .. 0 |-> a]
  <2>0. 0 .. 0 = {0} /\ f[0] = a
    OBVIOUS
  <2>1. f = [n \in 0 .. 0 |-> IF n = 0 THEN a ELSE F[n][f[n - 1]]]
    <3> DEFINE g == [n \in 0 .. 0 |-> IF n = 0 THEN a ELSE F[n][f[n - 1]]]
    <3>1. \A n \in 0 .. 0 : f[n] = g[n]
      BY <2>0
    <3> QED
      BY <3>1
  <2>2. \A n \in 0 .. 0 : f[n] \in T[n]
    OBVIOUS
  <2>3. Is(0, f)
    BY <2>1, <2>2
  <2>4. \E g : Is(0, g)
    <3> HIDE DEF Is, f
    <3> QED
      BY <2>3
  <2> QED
    BY <2>4
<1>2. ASSUME NEW m \in 1 .. N, m - 1 \in S PROVE m \in S
  <2>1. PICK g : Is(m - 1, g)
    BY <1>2
  <2> DEFINE f == [n \in 0 .. m |-> IF n = m THEN F[m][g[m - 1]] ELSE g[n]]
  <2>2. \A n \in 0 .. m - 1 : f[n] = g[n] /\ g[n] \in T[n]
    BY <2>1
  <2>3. m - 1 \in 0 .. m - 1 /\ f[m] = F[m][g[m - 1]]
    OBVIOUS
  <2>4. \A n \in 0 .. m : f[n] = IF n = 0 THEN a ELSE F[n][f[n - 1]]
    <3> TAKE n \in 0 .. m
    <3>1. CASE n = m
      BY <2>2, <2>3, <3>1
    <3>2. CASE n # m
      <4>1. n \in 0 .. m - 1 /\ (n # 0 => n - 1 \in 0 .. m - 1)
        BY <3>2
      <4>2. g[n] = IF n = 0 THEN a ELSE F[n][g[n - 1]]
        BY <2>1, <4>1
      <4> QED
        BY <2>2, <4>1, <4>2
    <3> QED
      BY <3>1, <3>2
  <2>5. f = [n \in 0 .. m |-> IF n = 0 THEN a ELSE F[n][f[n - 1]]]
    <3> DEFINE h == [n \in 0 .. m |-> IF n = 0 THEN a ELSE F[n][f[n - 1]]]
    <3>1. \A n \in 0 .. m : f[n] = h[n]
      BY <2>4
    <3>2. f = [n \in 0 .. m |-> f[n]] /\ h = [n \in 0 .. m |-> h[n]]
      OBVIOUS
    <3> HIDE DEF f
    <3>3. f = h
      BY <3>1, <3>2, SameFunction
    <3> QED
      BY <3>3
  <2>6. \A n \in 0 .. m : f[n] \in T[n]
    <3> TAKE n \in 0 .. m
    <3>1. F[m][g[m - 1]] \in T[m]
      BY <2>2, <2>3
    <3>2. n = m \/ n \in 0 .. m - 1
      OBVIOUS
    <3> HIDE DEF f
    <3> QED
      BY <2>2, <2>3, <3>1, <3>2
  <2>7. Is(m, f)
    BY <2>5, <2>6
  <2>8. \E h : Is(m, h)
    <3> HIDE DEF Is, f
    <3> QED
      BY <2>7
  <2> QED
    BY <2>8
<1>3. N \in S
  <2> HIDE DEF S
  <2> QED
    BY <1>1, <1>2, UpTo
<1>4. PICK f : Is(N, f)
  BY <1>3
<1>5. Unfolds(f, N, a, F)
  BY <1>4 DEF Unfolds
<1> QED
  BY <1>4, <1>5

-----------------------------------------------------------------------------
(* What a client knows of a turn, and what events lead from there to where *)
(* the translator is.                                                      *)

Reasons == {"none", "stop", "length", "calls", "filter", "error", "other"}

Events ==
  [e : {"start"}]
    \cup [e : {"open"}, i : Nat, what : Int]
    \cup [e : {"piece"}, i : Nat, what : Int, ps : Seq(Int)]
    \cup [e : {"close"}, i : Nat, what : Int, ps : Seq(Int)]
    \cup [e : {"end"}, why : {AReason(why) : why \in Reasons} \cup {"failed", "completed"}]

\* The stage of the turn, the items begun and the items closed.
Known(stage, begun, closed) == [stage |-> stage, begun |-> begun, closed |-> closed]

Allowed(strict, s, e) ==
  \/ e.e = "start" /\ s.stage = "before"
  \/ e.e = "open" /\ s.stage = "open" /\ e.i \notin s.begun /\ (strict => s.begun = 0 .. e.i - 1)
  \/ e.e = "piece" /\ s.stage = "open" /\ e.i \in s.begun /\ (strict => e.i \notin s.closed)
  \/ e.e = "close" /\ s.stage = "open" /\ e.i \notin s.closed /\ (strict => e.i \in s.begun)
  \/ e.e = "end" /\ s.stage = "open" /\ s.closed = s.begun

After(s, e) ==
  IF e.e = "start" THEN Known("open", s.begun, s.closed)
  ELSE IF e.e = "open" THEN Known(s.stage, s.begun \cup {e.i}, s.closed)
  ELSE IF e.e = "close" THEN Known(s.stage, s.begun \cup {e.i}, s.closed \cup {e.i})
  ELSE IF e.e = "end" THEN Known("ended", s.begun, s.closed)
  ELSE s

Path(strict, s, es, t, p) ==
  /\ p[0] = s
  /\ p[Len(es)] = t
  /\ \A n \in 1 .. Len(es) : Allowed(strict, p[n - 1], es[n]) /\ p[n] = After(p[n - 1], es[n])

Leads(strict, s, es, t) == \E p : Path(strict, s, es, t, p)

LEMMA LeadsNone ==
  ASSUME NEW strict, NEW s
  PROVE  Leads(strict, s, <<>>, s)
<1> DEFINE p == [n \in {0} |-> s]
<1>1. Path(strict, s, <<>>, s, p)
  BY DEF Path
<1> HIDE DEF p
<1> QED
  BY <1>1 DEF Leads

LEMMA LeadsOne ==
  ASSUME NEW strict, NEW s, NEW e, Allowed(strict, s, e)
  PROVE  Leads(strict, s, <<e>>, After(s, e))
<1> DEFINE p == [n \in {0, 1} |-> IF n = 0 THEN s ELSE After(s, e)]
<1>1. p[0] = s /\ p[1] = After(s, e)
  OBVIOUS
<1> HIDE DEF p
<1>2. Len(<<e>>) = 1 /\ <<e>>[1] = e /\ 1 .. 1 = {1}
  OBVIOUS
<1>3. Path(strict, s, <<e>>, After(s, e), p)
  BY <1>1, <1>2 DEF Path
<1> QED
  BY <1>3 DEF Leads

LEMMA LeadsOn ==
  ASSUME NEW strict, NEW s, NEW t, NEW u, NEW es \in Seq(Events), NEW fs \in Seq(Events),
         Leads(strict, s, es, t), Leads(strict, t, fs, u)
  PROVE  Leads(strict, s, es \o fs, u)
<1>1. PICK p : Path(strict, s, es, t, p)
  BY DEF Leads
<1>2. PICK q : Path(strict, t, fs, u, q)
  BY DEF Leads
<1> DEFINE k == Len(es)
           r == [n \in 0 .. k + Len(fs) |-> IF n <= k THEN p[n] ELSE q[n - k]]
<1>3. k \in Nat /\ Len(fs) \in Nat /\ Len(es \o fs) = k + Len(fs)
  OBVIOUS
<1>4. p[0] = s /\ p[k] = t /\ q[0] = t /\ q[Len(fs)] = u
  BY <1>1, <1>2 DEF Path
<1>5. \A n \in 0 .. k : r[n] = p[n]
  BY <1>3
<1>6. \A n \in 0 .. Len(fs) : r[k + n] = q[n]
  BY <1>3, <1>4
<1>7. r[0] = s /\ r[Len(es \o fs)] = u
  BY <1>3, <1>4, <1>5, <1>6
<1>8. ASSUME NEW n \in 1 .. Len(es \o fs)
      PROVE  Allowed(strict, r[n - 1], (es \o fs)[n]) /\ r[n] = After(r[n - 1], (es \o fs)[n])
  <2>1. CASE n <= k
    <3>1. (es \o fs)[n] = es[n] /\ n \in 1 .. k /\ n - 1 \in 0 .. k /\ n \in 0 .. k
      BY <2>1
    <3>2. Allowed(strict, p[n - 1], es[n]) /\ p[n] = After(p[n - 1], es[n])
      BY <1>1, <3>1 DEF Path
    <3> HIDE DEF r, k
    <3> QED
      BY <1>5, <3>1, <3>2
  <2>2. CASE n > k
    <3> DEFINE m == n - k
    <3>1. (es \o fs)[n] = fs[m] /\ m \in 1 .. Len(fs) /\ m - 1 \in 0 .. Len(fs) /\ m \in 0 .. Len(fs)
      BY <1>3, <2>2
    <3>2. Allowed(strict, q[m - 1], fs[m]) /\ q[m] = After(q[m - 1], fs[m])
      BY <1>2, <3>1 DEF Path
    <3>3. n = k + m /\ n - 1 = k + (m - 1)
      BY <1>3
    <3>4. r[n] = q[m] /\ r[n - 1] = q[m - 1]
      <4> HIDE DEF r, k, m
      <4> QED
        BY <1>6, <3>1, <3>3
    <3> HIDE DEF r, k, m
    <3> QED
      BY <3>1, <3>2, <3>4
  <2> QED
    BY <2>1, <2>2, <1>3
<1> HIDE DEF r
<1>9. Path(strict, s, es \o fs, u, r)
  BY <1>7, <1>8 DEF Path
<1> QED
  BY <1>9 DEF Leads

LEMMA LeadsHead ==
  ASSUME NEW strict, NEW s, NEW t, NEW es \in Seq(Events), es # <<>>, Leads(strict, s, es, t)
  PROVE  /\ Head(es) \in Events /\ Tail(es) \in Seq(Events)
         /\ Allowed(strict, s, Head(es))
         /\ Leads(strict, After(s, Head(es)), Tail(es), t)
<1>1. PICK p : Path(strict, s, es, t, p)
  BY DEF Leads
<1> DEFINE k == Len(es)
           q == [n \in 0 .. k - 1 |-> p[n + 1]]
<1>2. /\ k \in Nat \ {0} /\ Head(es) = es[1] /\ Head(es) \in Events
      /\ Tail(es) \in Seq(Events) /\ Len(Tail(es)) = k - 1
      /\ \A n \in 1 .. k - 1 : Tail(es)[n] = es[n + 1]
  OBVIOUS
<1>3. /\ p[0] = s /\ p[k] = t
      /\ \A n \in 1 .. k : Allowed(strict, p[n - 1], es[n]) /\ p[n] = After(p[n - 1], es[n])
  BY <1>1 DEF Path
<1>4. Allowed(strict, s, Head(es)) /\ p[1] = After(s, Head(es))
  <2> HIDE DEF k
  <2>1. 1 \in 1 .. k /\ 1 - 1 = 0
    BY <1>2
  <2> QED
    BY <1>2, <1>3, <2>1
<1>5. \A n \in 0 .. k - 1 : q[n] = p[n + 1]
  OBVIOUS
<1> HIDE DEF q, k
<1>6. 0 \in 0 .. k - 1 /\ k - 1 \in 0 .. k - 1 /\ (k - 1) + 1 = k
  BY <1>2
<1>7. q[0] = p[1] /\ q[k - 1] = t
  BY <1>3, <1>5, <1>6
<1>8. ASSUME NEW n \in 1 .. k - 1
      PROVE  Allowed(strict, q[n - 1], Tail(es)[n]) /\ q[n] = After(q[n - 1], Tail(es)[n])
  <2>1. /\ n - 1 \in 0 .. k - 1 /\ n \in 0 .. k - 1 /\ n + 1 \in 1 .. k /\ (n + 1) - 1 = n
        /\ (n - 1) + 1 = n
    BY <1>2
  <2>2. q[n - 1] = p[n] /\ q[n] = p[n + 1] /\ Tail(es)[n] = es[n + 1]
    BY <1>2, <1>5, <2>1
  <2>3. Allowed(strict, p[n], es[n + 1]) /\ p[n + 1] = After(p[n], es[n + 1])
    BY <1>3, <2>1
  <2> QED
    BY <2>2, <2>3
<1>9. Path(strict, After(s, Head(es)), Tail(es), t, q)
  BY <1>2, <1>4, <1>7, <1>8 DEF Path
<1> QED
  BY <1>2, <1>4, <1>9 DEF Leads

-----------------------------------------------------------------------------
(* The client's side: a step it takes on an event that is allowed.         *)

HasFields(v) == {"stage", "body", "closed", "message"} \subseteq DOMAIN v

LEMMA SeenStart ==
  ASSUME NEW e, e.e = "start"
  PROVE  Seen(e) = [view EXCEPT !.stage = "open"]
BY Zenon DEF Seen

LEMMA SeenOpen ==
  ASSUME NEW e, e.e = "open"
  PROVE  Seen(e) = [view EXCEPT !.body = Grown(@, e.i, <<>>), !.what = Grown(@, e.i, e.what),
                                !.calls = IF e.what \in Calls THEN @ \cup {e.what} ELSE @]
BY Zenon DEF Seen

LEMMA SeenPiece ==
  ASSUME NEW e, e.e = "piece"
  PROVE  Seen(e) = [view EXCEPT !.body = Grown(@, e.i, Body(e.i) \o e.ps), !.read[e.what] = @ \o e.ps]
BY Zenon DEF Seen

LEMMA SeenClose ==
  ASSUME NEW e, e.e = "close"
  PROVE  Seen(e) = [view EXCEPT !.body = Grown(@, e.i, Body(e.i)), !.closed = @ \cup {e.i},
                                !.told = Grown(@, e.i, e.ps), !.what = Grown(@, e.i, e.what)]
BY Zenon DEF Seen

LEMMA SeenEnd ==
  ASSUME NEW e, e.e = "end"
  PROVE  Seen(e) = [view EXCEPT !.stage = "ended", !.why = e.why]
BY Zenon DEF Seen

\* The parts of the view a turn is read from, after each event.
LEMMA SeenFields ==
  ASSUME NEW e \in Events, HasFields(view)
  PROVE  LET v == Seen(e)
         IN  /\ HasFields(v)
             /\ v.stage = IF e.e = "start" THEN "open" ELSE IF e.e = "end" THEN "ended" ELSE view.stage
             /\ v.body = IF e.e = "open" THEN Grown(view.body, e.i, <<>>)
                         ELSE IF e.e = "piece" THEN Grown(view.body, e.i, Body(e.i) \o e.ps)
                         ELSE IF e.e = "close" THEN Grown(view.body, e.i, Body(e.i))
                         ELSE view.body
             /\ v.closed = IF e.e = "close" THEN view.closed \cup {e.i} ELSE view.closed
<1>1. e.e \in {"start", "open", "piece", "close", "end"}
  BY DEF Events
<1>2. CASE e.e = "start"
  BY <1>2, SeenStart DEF HasFields
<1>3. CASE e.e = "open"
  BY <1>3, SeenOpen DEF HasFields
<1>4. CASE e.e = "piece"
  <2> DEFINE v == Seen(e)
             b == Body(e.i) \o e.ps
             g == Grown(view.body, e.i, b)
  <2>1. DOMAIN v = DOMAIN view
    BY <1>4, SeenPiece
  <2>2. v.stage = view.stage
    BY <1>4, SeenPiece DEF HasFields
  <2>3. v.body = g
    BY <1>4, SeenPiece DEF HasFields
  <2>4. v.closed = view.closed
    BY <1>4, SeenPiece DEF HasFields
  <2> HIDE DEF v, b, g
  <2> QED
    BY <1>4, <2>1, <2>2, <2>3, <2>4 DEF HasFields, v, b, g
<1>5. CASE e.e = "close"
  <2> DEFINE v == Seen(e)
             b == Body(e.i)
             g == Grown(view.body, e.i, b)
  <2>1. DOMAIN v = DOMAIN view
    BY <1>5, SeenClose
  <2>2. v.stage = view.stage
    BY <1>5, SeenClose DEF HasFields
  <2>3. v.body = g
    BY <1>5, SeenClose DEF HasFields
  <2>4. v.closed = view.closed \cup {e.i}
    BY <1>5, SeenClose DEF HasFields
  <2>5. e.e # "start" /\ e.e # "end" /\ e.e # "open" /\ e.e # "piece"
    BY <1>5
  <2>6. HasFields(v)
    BY <2>1 DEF HasFields
  <2> HIDE DEF v
  <2> QED
    BY <1>5, <2>2, <2>3, <2>4, <2>5, <2>6 DEF v
<1>6. CASE e.e = "end"
  <2> DEFINE v == Seen(e)
  <2>1. DOMAIN v = DOMAIN view
    BY <1>6, SeenEnd
  <2>0. "stage" \in DOMAIN view /\ "body" \in DOMAIN view /\ "closed" \in DOMAIN view
    BY DEF HasFields
  <2> DEFINE u == [view EXCEPT !.stage = "ended", !.why = e.why]
  <2>2. u.stage = "ended" /\ u.body = view.body /\ u.closed = view.closed
    BY <2>0
  <2>4. v = u
    BY <1>6, SeenEnd
  <2>3. HasFields(v)
    BY <2>1 DEF HasFields
  <2> HIDE DEF v, u
  <2> QED
    BY <1>6, <2>2, <2>3, <2>4 DEF v
<1> QED
  BY <1>1, <1>2, <1>3, <1>4, <1>5, <1>6

ViewOK(v) ==
  /\ HasFields(v)
  /\ v.stage \in {"before", "open", "ended"}
  /\ v.body \in [DOMAIN v.body -> Seq(Int)]
  /\ DOMAIN v.body \subseteq Nat
  /\ v.closed \subseteq DOMAIN v.body

KnownTo(v) == Known(v.stage, DOMAIN v.body, v.closed)

\* What the body of a turn is after an event that is allowed.
LEMMA BodyAfter ==
  ASSUME NEW e \in Events, ViewOK(view), NEW strict \in BOOLEAN, Allowed(strict, KnownTo(view), e)
  PROVE  LET b == Seen(e).body
         IN  /\ DOMAIN b = After(KnownTo(view), e).begun
             /\ b \in [DOMAIN b -> Seq(Int)]
             /\ e.e \in {"start", "end"} => b = view.body
             /\ e.e = "open" \/ (e.e = "close" /\ e.i \notin DOMAIN view.body) =>
                  b = [j \in DOMAIN view.body \cup {e.i} |-> IF j = e.i THEN <<>> ELSE view.body[j]]
             /\ e.e = "close" /\ e.i \in DOMAIN view.body => b = view.body
             /\ e.e = "piece" =>
                  /\ \A j \in DOMAIN view.body \ {e.i} : b[j] = view.body[j]
                  /\ b[e.i] = view.body[e.i] \o e.ps
<1> DEFINE b == Seen(e).body
           o == view.body
<1>1. /\ HasFields(view) /\ o \in [DOMAIN o -> Seq(Int)]
  BY DEF ViewOK
<1>2. b = IF e.e = "open" THEN Grown(o, e.i, <<>>)
          ELSE IF e.e = "piece" THEN Grown(o, e.i, Body(e.i) \o e.ps)
          ELSE IF e.e = "close" THEN Grown(o, e.i, Body(e.i))
          ELSE o
  BY <1>1, SeenFields
<1>3. e.e \in {"start", "open", "piece", "close", "end"}
  BY DEF Events
<1>4. KnownTo(view).begun = DOMAIN o
  BY DEF KnownTo, Known
<1>5. Body(e.i) = IF e.i \in DOMAIN o THEN o[e.i] ELSE <<>>
  BY DEF Body
<1>6. <<>> \in Seq(Int)
  OBVIOUS
<1> HIDE DEF b, o
<1>7. CASE e.e \in {"start", "end"}
  <2>1. b = o
    BY <1>2, <1>7
  <2>2. After(KnownTo(view), e).begun = DOMAIN o
    BY <1>4, <1>7 DEF After, Known
  <2> QED
    BY <1>1, <1>7, <2>1, <2>2 DEF b, o
<1>8. CASE e.e = "open"
  <2>1. b = [j \in DOMAIN o \cup {e.i} |-> IF j = e.i THEN <<>> ELSE o[j]]
    BY <1>2, <1>8 DEF Grown
  <2>2. After(KnownTo(view), e).begun = DOMAIN o \cup {e.i}
    BY <1>4, <1>8 DEF After, Known
  <2>3. DOMAIN b = DOMAIN o \cup {e.i} /\ b \in [DOMAIN b -> Seq(Int)]
    BY <1>1, <1>6, <2>1
  <2> QED
    BY <1>8, <2>1, <2>2, <2>3 DEF b, o
<1>9. CASE e.e = "piece"
  <2>1. e.i \in DOMAIN o /\ e.ps \in Seq(Int)
    BY <1>4, <1>9 DEF Allowed, Events
  <2>2. b = [j \in DOMAIN o \cup {e.i} |-> IF j = e.i THEN o[e.i] \o e.ps ELSE o[j]]
    BY <1>2, <1>5, <1>9, <2>1 DEF Grown
  <2>3. o[e.i] \o e.ps \in Seq(Int)
    BY <1>1, <2>1
  <2>4. DOMAIN o \cup {e.i} = DOMAIN o
    BY <2>1
  <2>5. DOMAIN b = DOMAIN o /\ b \in [DOMAIN b -> Seq(Int)]
    BY <1>1, <2>2, <2>3, <2>4
  <2>6. After(KnownTo(view), e).begun = DOMAIN o
    BY <1>4, <1>9 DEF After, Known
  <2>7. \A j \in DOMAIN o \ {e.i} : b[j] = o[j]
    BY <2>2
  <2>8. b[e.i] = o[e.i] \o e.ps
    BY <2>2
  <2> QED
    BY <1>9, <2>5, <2>6, <2>7, <2>8 DEF b, o
<1>10. CASE e.e = "close" /\ e.i \in DOMAIN o
  <2>1. b = [j \in DOMAIN o \cup {e.i} |-> IF j = e.i THEN o[e.i] ELSE o[j]]
    BY <1>2, <1>5, <1>10 DEF Grown
  <2>2. DOMAIN o \cup {e.i} = DOMAIN o
    BY <1>10
  <2>3. b = [j \in DOMAIN o |-> o[j]]
    BY <2>1, <2>2
  <2>4. b = o
    BY <1>1, <2>3
  <2>5. After(KnownTo(view), e).begun = DOMAIN o
    BY <1>4, <1>10, <2>2 DEF After, Known
  <2> QED
    BY <1>1, <1>10, <2>4, <2>5 DEF b, o
<1>11. CASE e.e = "close" /\ e.i \notin DOMAIN o
  <2>1. b = [j \in DOMAIN o \cup {e.i} |-> IF j = e.i THEN <<>> ELSE o[j]]
    BY <1>2, <1>5, <1>11 DEF Grown
  <2>2. After(KnownTo(view), e).begun = DOMAIN o \cup {e.i}
    BY <1>4, <1>11 DEF After, Known
  <2>3. DOMAIN b = DOMAIN o \cup {e.i} /\ b \in [DOMAIN b -> Seq(Int)]
    BY <1>1, <1>6, <2>1
  <2> QED
    BY <1>11, <2>1, <2>2, <2>3 DEF b, o
<1> QED
  BY <1>3, <1>7, <1>8, <1>9, <1>10, <1>11

\* The view stays well formed and knows what the event told it.
LEMMA ViewAfter ==
  ASSUME NEW e \in Events, ViewOK(view), NEW strict \in BOOLEAN, Allowed(strict, KnownTo(view), e)
  PROVE  ViewOK(Seen(e)) /\ KnownTo(Seen(e)) = After(KnownTo(view), e)
<1> DEFINE v == Seen(e)
           k == KnownTo(view)
           a == After(k, e)
<1>1. /\ HasFields(v)
      /\ v.stage = IF e.e = "start" THEN "open" ELSE IF e.e = "end" THEN "ended" ELSE view.stage
      /\ v.closed = IF e.e = "close" THEN view.closed \cup {e.i} ELSE view.closed
  BY SeenFields DEF ViewOK
<1>2. DOMAIN v.body = a.begun /\ v.body \in [DOMAIN v.body -> Seq(Int)]
  BY BodyAfter
<1>3. k.stage = view.stage /\ k.begun = DOMAIN view.body /\ k.closed = view.closed
  BY DEF KnownTo, Known
<1>4. e.e \in {"start", "open", "piece", "close", "end"} /\ (e.e \in {"open", "close"} => e.i \in Nat)
  BY DEF Events
<1>5. view.stage \in {"before", "open", "ended"} /\ k.begun \subseteq Nat /\ k.closed \subseteq k.begun
  BY <1>3 DEF ViewOK
<1>6. /\ a.stage = v.stage
      /\ a.closed = v.closed
      /\ a.begun = IF e.e \in {"open", "close"} THEN k.begun \cup {e.i} ELSE k.begun
  BY <1>1, <1>3, <1>4 DEF After, Known
<1>7. a = Known(a.stage, a.begun, a.closed)
  BY DEF After, Known, KnownTo
<1> HIDE DEF v, k, a
<1>8. v.closed \subseteq DOMAIN v.body /\ DOMAIN v.body \subseteq Nat
  BY <1>1, <1>2, <1>3, <1>4, <1>5, <1>6
<1>9. v.stage \in {"before", "open", "ended"}
  BY <1>1, <1>5
<1>10. ViewOK(v)
  BY <1>1, <1>2, <1>8, <1>9 DEF ViewOK
<1>11. KnownTo(v) = a
  BY <1>2, <1>6, <1>7 DEF KnownTo
<1> QED
  BY <1>10, <1>11 DEF v, a, k

\* Reads, on the parts of the view a turn is read from.
LEMMA ReadsView ==
  ASSUME Reads, HasFields(Seen(Head(out)))
  PROVE  /\ HasFields(view')
         /\ view'.stage = Seen(Head(out)).stage
         /\ view'.body = Seen(Head(out)).body
         /\ view'.closed = Seen(Head(out)).closed
<1> DEFINE v == Seen(Head(out))
           m == IF route.client = "anthropic" THEN MOn(v.message, Head(out)) ELSE v.message
<1>1. view' = [v EXCEPT !.message = m]
  BY DEF Reads
<1> HIDE DEF v, m
<1>2. {"stage", "body", "closed", "message"} \subseteq DOMAIN v
  BY DEF HasFields, v
<1>3. /\ DOMAIN view' = DOMAIN v
      /\ view'.stage = v.stage /\ view'.body = v.body /\ view'.closed = v.closed
  BY <1>1, <1>2
<1> QED
  BY <1>2, <1>3 DEF HasFields, v

LEMMA Longer ==
  ASSUME NEW s \in Seq(Int), NEW r \in Seq(Int), r # <<>>
  PROVE  Len(s \o r) > Len(s) /\ SubSeq(s \o r, 1, Len(s)) = s
<1> DEFINE w == s \o r
<1>1. /\ Len(r) \in Nat \ {0} /\ Len(s) \in Nat /\ w \in Seq(Int) /\ Len(w) = Len(s) + Len(r)
      /\ \A n \in 1 .. Len(s) : w[n] = s[n]
  OBVIOUS
<1> HIDE DEF w
<1>2. /\ SubSeq(w, 1, Len(s)) \in Seq(Int) /\ Len(SubSeq(w, 1, Len(s))) = Len(s)
      /\ \A n \in 1 .. Len(s) : SubSeq(w, 1, Len(s))[n] = w[n]
  BY <1>1
<1>3. SubSeq(w, 1, Len(s)) = s
  BY <1>1, <1>2
<1>4. Len(w) > Len(s)
  BY <1>1
<1> QED
  BY <1>3, <1>4 DEF w

\* What a client of this dialect reads is a step of its turn, or none.
LEMMA AnthropicReads ==
  ASSUME Reads, route.client = "anthropic", ViewOK(view), Head(out) \in Events,
         Allowed(TRUE, KnownTo(view), Head(out))
  PROVE  [AnthropicTurn!TurnNext]_(AnthropicTurn!turnVars)
<1> DEFINE e == Head(out)
           b == view.body
<1>0. route' = route
  BY DEF Reads
<1>1. /\ Of("anthropic", view.stage, "before") = view.stage
      /\ Of("anthropic", view.body, NoItems) = b
      /\ Of("anthropic", view.closed, {}) = view.closed
      /\ Of("anthropic", view.stage, "before")' = view'.stage
      /\ Of("anthropic", view.body, NoItems)' = view'.body
      /\ Of("anthropic", view.closed, {})' = view'.closed
  BY <1>0 DEF Of
<1>2. e \in Events /\ e.e \in {"start", "open", "piece", "close", "end"}
  BY DEF Events
<1>3. /\ view'.stage = IF e.e = "start" THEN "open" ELSE IF e.e = "end" THEN "ended" ELSE view.stage
      /\ view'.closed = IF e.e = "close" THEN view.closed \cup {e.i} ELSE view.closed
      /\ view'.body = Seen(e).body
  BY SeenFields, ReadsView DEF ViewOK
<1>4. /\ DOMAIN view'.body = After(KnownTo(view), e).begun
      /\ e.e \in {"start", "end"} => view'.body = b
      /\ e.e = "open" \/ (e.e = "close" /\ e.i \notin DOMAIN b) =>
           view'.body = [j \in DOMAIN b \cup {e.i} |-> IF j = e.i THEN <<>> ELSE b[j]]
      /\ e.e = "close" /\ e.i \in DOMAIN b => view'.body = b
      /\ e.e = "piece" =>
           /\ \A j \in DOMAIN b \ {e.i} : view'.body[j] = b[j]
           /\ view'.body[e.i] = b[e.i] \o e.ps
  BY <1>3, BodyAfter
<1>5. /\ KnownTo(view).stage = view.stage /\ KnownTo(view).begun = DOMAIN b
      /\ KnownTo(view).closed = view.closed
  BY DEF KnownTo, Known
<1>6. b \in [DOMAIN b -> Seq(Int)] /\ view.closed \subseteq DOMAIN b
  BY DEF ViewOK
<1>7. Allowed(TRUE, KnownTo(view), e)
  OBVIOUS
<1> HIDE DEF e, b
<1>8. CASE e.e = "start"
  <2>1. view.stage = "before" /\ view'.stage = "open" /\ view'.body = b /\ view'.closed = view.closed
    BY <1>3, <1>4, <1>5, <1>7, <1>8 DEF Allowed
  <2>2. AnthropicTurn!Begin
    BY <1>1, <2>1 DEF AnthropicTurn!Begin
  <2> QED
    BY <2>2 DEF AnthropicTurn!TurnNext
<1>9. CASE e.e = "open"
  <2>1. /\ view.stage = "open" /\ view'.stage = "open" /\ view'.closed = view.closed
        /\ e.i \notin DOMAIN b
        /\ view'.body = [j \in DOMAIN b \cup {e.i} |-> IF j = e.i THEN <<>> ELSE b[j]]
    BY <1>3, <1>4, <1>5, <1>7, <1>9 DEF Allowed
  <2>2. e.i = AnthropicTurn!Cardinality(DOMAIN b)
    <3>1. DOMAIN b = 0 .. e.i - 1 /\ e.i \in Nat
      BY <1>2, <1>5, <1>7, <1>9 DEF Allowed, Events
    <3>2. Cardinality(0 .. e.i - 1) = e.i
      BY <3>1, FS_Interval
    <3> QED
      BY <3>1, <3>2 DEF Cardinality, AnthropicTurn!Cardinality
  <2>3. e.i \in DOMAIN view'.body
    BY <2>1
  <2>4. AnthropicTurn!OpenItem(e.i)
    BY <1>1, <2>1, <2>2 DEF AnthropicTurn!OpenItem, AnthropicTurn!With
  <2> QED
    BY <1>1, <2>3, <2>4 DEF AnthropicTurn!TurnNext
<1>10. CASE e.e = "piece"
  <2>1. /\ view.stage = "open" /\ view'.stage = "open" /\ view'.closed = view.closed
        /\ e.i \in DOMAIN b /\ e.i \notin view.closed
        /\ e.ps \in Seq(Int)
    BY <1>2, <1>3, <1>5, <1>7, <1>10 DEF Allowed, Events
  <2>2. DOMAIN view'.body = DOMAIN b
    BY <1>4, <1>5, <1>10 DEF After
  <2>3. /\ \A j \in DOMAIN b \ {e.i} : view'.body[j] = b[j]
        /\ view'.body[e.i] = b[e.i] \o e.ps
    BY <1>4, <1>10
  <2>4. b[e.i] \in Seq(Int)
    BY <1>6, <2>1
  <2>5. CASE e.ps = <<>>
    <3>1. view'.body[e.i] = b[e.i]
      BY <2>3, <2>4, <2>5
    <3>2. \A j \in DOMAIN b : view'.body[j] = b[j]
      BY <2>3, <3>1
    <3>3. Seen(e).body \in [DOMAIN Seen(e).body -> Seq(Int)]
      BY <1>2, <1>7, BodyAfter
    <3>4. view'.body = b
      BY <1>3, <1>6, <2>2, <3>2, <3>3
    <3> QED
      BY <1>1, <2>1, <3>4 DEF AnthropicTurn!turnVars
  <2>6. CASE e.ps # <<>>
    <3>1. /\ Len(b[e.i] \o e.ps) > Len(b[e.i])
          /\ SubSeq(b[e.i] \o e.ps, 1, Len(b[e.i])) = b[e.i]
      BY <2>1, <2>4, <2>6, Longer
    <3>2. AnthropicTurn!Grows(e.i)
      BY <1>1, <2>2, <2>3, <3>1 DEF AnthropicTurn!Grows
    <3>3. AnthropicTurn!FillItem(e.i)
      BY <1>1, <2>1, <3>2 DEF AnthropicTurn!FillItem
    <3> QED
      BY <1>1, <2>1, <2>2, <3>3 DEF AnthropicTurn!TurnNext
  <2> QED
    BY <2>5, <2>6
<1>11. CASE e.e = "close"
  <2>1. /\ view.stage = "open" /\ view'.stage = "open" /\ view'.closed = view.closed \cup {e.i}
        /\ e.i \notin view.closed /\ e.i \in DOMAIN b
    BY <1>3, <1>5, <1>7, <1>11 DEF Allowed
  <2>2. view'.body = b
    BY <1>4, <1>11, <2>1
  <2>3. AnthropicTurn!CloseItem(e.i)
    BY <1>1, <2>1, <2>2 DEF AnthropicTurn!CloseItem
  <2> QED
    BY <1>1, <2>1, <2>2, <2>3 DEF AnthropicTurn!TurnNext
<1>12. CASE e.e = "end"
  <2>1. /\ view.stage = "open" /\ view'.stage = "ended" /\ view'.body = b
        /\ view'.closed = view.closed /\ view.closed = DOMAIN b
    BY <1>3, <1>4, <1>5, <1>7, <1>12 DEF Allowed
  <2>2. AnthropicTurn!End
    BY <1>1, <2>1 DEF AnthropicTurn!End
  <2> QED
    BY <2>2 DEF AnthropicTurn!TurnNext
<1> QED
  BY <1>2, <1>8, <1>9, <1>10, <1>11, <1>12

\* What a client of this dialect reads is a step of its turn, or none.
LEMMA ResponsesReads ==
  ASSUME Reads, route.client = "responses", ViewOK(view), Head(out) \in Events,
         Allowed(FALSE, KnownTo(view), Head(out))
  PROVE  [ResponsesTurn!TurnNext]_(ResponsesTurn!turnVars)
<1> DEFINE e == Head(out)
           b == view.body
<1>0. route' = route
  BY DEF Reads
<1>1. /\ Of("responses", view.stage, "before") = view.stage
      /\ Of("responses", view.body, NoItems) = b
      /\ Of("responses", view.closed, {}) = view.closed
      /\ Of("responses", view.stage, "before")' = view'.stage
      /\ Of("responses", view.body, NoItems)' = view'.body
      /\ Of("responses", view.closed, {})' = view'.closed
  BY <1>0 DEF Of
<1>2. e \in Events /\ e.e \in {"start", "open", "piece", "close", "end"}
  BY DEF Events
<1>3. /\ view'.stage = IF e.e = "start" THEN "open" ELSE IF e.e = "end" THEN "ended" ELSE view.stage
      /\ view'.closed = IF e.e = "close" THEN view.closed \cup {e.i} ELSE view.closed
      /\ view'.body = Seen(e).body
  BY SeenFields, ReadsView DEF ViewOK
<1>4. /\ DOMAIN view'.body = After(KnownTo(view), e).begun
      /\ e.e \in {"start", "end"} => view'.body = b
      /\ e.e = "open" \/ (e.e = "close" /\ e.i \notin DOMAIN b) =>
           view'.body = [j \in DOMAIN b \cup {e.i} |-> IF j = e.i THEN <<>> ELSE b[j]]
      /\ e.e = "close" /\ e.i \in DOMAIN b => view'.body = b
      /\ e.e = "piece" =>
           /\ \A j \in DOMAIN b \ {e.i} : view'.body[j] = b[j]
           /\ view'.body[e.i] = b[e.i] \o e.ps
  BY <1>3, BodyAfter
<1>5. /\ KnownTo(view).stage = view.stage /\ KnownTo(view).begun = DOMAIN b
      /\ KnownTo(view).closed = view.closed
  BY DEF KnownTo, Known
<1>6. b \in [DOMAIN b -> Seq(Int)] /\ view.closed \subseteq DOMAIN b
  BY DEF ViewOK
<1>7. Allowed(FALSE, KnownTo(view), e)
  OBVIOUS
<1> HIDE DEF e, b
<1>8. CASE e.e = "start"
  <2>1. view.stage = "before" /\ view'.stage = "open" /\ view'.body = b /\ view'.closed = view.closed
    BY <1>3, <1>4, <1>5, <1>7, <1>8 DEF Allowed
  <2>2. ResponsesTurn!Begin
    BY <1>1, <2>1 DEF ResponsesTurn!Begin
  <2> QED
    BY <2>2 DEF ResponsesTurn!TurnNext
<1>9. CASE e.e = "open"
  <2>1. /\ view.stage = "open" /\ view'.stage = "open" /\ view'.closed = view.closed
        /\ e.i \notin DOMAIN b
        /\ view'.body = [j \in DOMAIN b \cup {e.i} |-> IF j = e.i THEN <<>> ELSE b[j]]
    BY <1>3, <1>4, <1>5, <1>7, <1>9 DEF Allowed
  <2>3. e.i \in DOMAIN view'.body
    BY <2>1
  <2>4. ResponsesTurn!OpenItem(e.i)
    BY <1>1, <2>1 DEF ResponsesTurn!OpenItem, ResponsesTurn!With
  <2> QED
    BY <1>1, <2>3, <2>4 DEF ResponsesTurn!TurnNext
<1>10. CASE e.e = "piece"
  <2>1. /\ view.stage = "open" /\ view'.stage = "open" /\ view'.closed = view.closed
        /\ e.i \in DOMAIN b 
        /\ e.ps \in Seq(Int)
    BY <1>2, <1>3, <1>5, <1>7, <1>10 DEF Allowed, Events
  <2>2. DOMAIN view'.body = DOMAIN b
    BY <1>4, <1>5, <1>10 DEF After
  <2>3. /\ \A j \in DOMAIN b \ {e.i} : view'.body[j] = b[j]
        /\ view'.body[e.i] = b[e.i] \o e.ps
    BY <1>4, <1>10
  <2>4. b[e.i] \in Seq(Int)
    BY <1>6, <2>1
  <2>5. CASE e.ps = <<>>
    <3>1. view'.body[e.i] = b[e.i]
      BY <2>3, <2>4, <2>5
    <3>2. \A j \in DOMAIN b : view'.body[j] = b[j]
      BY <2>3, <3>1
    <3>3. Seen(e).body \in [DOMAIN Seen(e).body -> Seq(Int)]
      BY <1>2, <1>7, BodyAfter
    <3>4. view'.body = b
      BY <1>3, <1>6, <2>2, <3>2, <3>3
    <3> QED
      BY <1>1, <2>1, <3>4 DEF ResponsesTurn!turnVars
  <2>6. CASE e.ps # <<>>
    <3>1. /\ Len(b[e.i] \o e.ps) > Len(b[e.i])
          /\ SubSeq(b[e.i] \o e.ps, 1, Len(b[e.i])) = b[e.i]
      BY <2>1, <2>4, <2>6, Longer
    <3>2. ResponsesTurn!Grows(e.i)
      BY <1>1, <2>2, <2>3, <3>1 DEF ResponsesTurn!Grows
    <3>3. ResponsesTurn!FillItem(e.i) \/ ResponsesTurn!Late(e.i)
      BY <1>1, <2>1, <3>2 DEF ResponsesTurn!FillItem, ResponsesTurn!Late
    <3> QED
      BY <1>1, <2>1, <2>2, <3>3 DEF ResponsesTurn!TurnNext
  <2> QED
    BY <2>5, <2>6
<1>11. CASE e.e = "close"
  <2>1. /\ view.stage = "open" /\ view'.stage = "open" /\ view'.closed = view.closed \cup {e.i}
        /\ e.i \notin view.closed
    BY <1>3, <1>5, <1>7, <1>11 DEF Allowed
  <2>2. CASE e.i \in DOMAIN b
    <3>1. view'.body = b
      BY <1>4, <1>11, <2>2
    <3>2. ResponsesTurn!CloseItem(e.i)
      BY <1>1, <2>1, <2>2, <3>1 DEF ResponsesTurn!CloseItem
    <3> QED
      BY <1>1, <2>2, <3>1, <3>2 DEF ResponsesTurn!TurnNext
  <2>3. CASE e.i \notin DOMAIN b
    <3>1. view'.body = [j \in DOMAIN b \cup {e.i} |-> IF j = e.i THEN <<>> ELSE b[j]]
      BY <1>4, <1>11, <2>3
    <3>2. e.i \in DOMAIN view'.body
      BY <3>1
    <3>3. ResponsesTurn!Unheard(e.i)
      BY <1>1, <2>1, <2>3, <3>1 DEF ResponsesTurn!Unheard, ResponsesTurn!With
    <3> QED
      BY <1>1, <3>2, <3>3 DEF ResponsesTurn!TurnNext
  <2> QED
    BY <2>2, <2>3
<1>12. CASE e.e = "end"
  <2>1. /\ view.stage = "open" /\ view'.stage = "ended" /\ view'.body = b
        /\ view'.closed = view.closed /\ view.closed = DOMAIN b
    BY <1>3, <1>4, <1>5, <1>7, <1>12 DEF Allowed
  <2>2. ResponsesTurn!End
    BY <1>1, <2>1 DEF ResponsesTurn!End
  <2> QED
    BY <2>2 DEF ResponsesTurn!TurnNext
<1> QED
  BY <1>2, <1>8, <1>9, <1>10, <1>11, <1>12

-----------------------------------------------------------------------------
(* InOrder names every member of a finite set of numbers once.             *)

LEMMA InOrderNames ==
  ASSUME NEW S \in SUBSET Nat, IsFiniteSet(S)
  PROVE  /\ Cardinality(S) \in Nat
         /\ InOrder(S) \in [1 .. Cardinality(S) -> S]
         /\ \A m, n \in 1 .. Cardinality(S) : m # n => InOrder(S)[m] # InOrder(S)[n]
         /\ \A i \in S : \E n \in 1 .. Cardinality(S) : InOrder(S)[n] = i
<1> DEFINE k == Cardinality(S)
           below(i) == {j \in S : j < i}
           T == 0 .. k - 1
           rank == [i \in S |-> Cardinality(below(i))]
<1>1. k \in Nat /\ IsFiniteSet(T) /\ Cardinality(T) = k
  <2>1. k \in Nat
    BY FS_CardinalityType
  <2> HIDE DEF k
  <2>2. IsFiniteSet(T) /\ Cardinality(T) = IF 0 > k - 1 THEN 0 ELSE (k - 1) - 0 + 1
    <3>1. 0 \in Int /\ k - 1 \in Int
      BY <2>1
    <3> QED
      BY <3>1, FS_Interval
  <2>3. (IF 0 > k - 1 THEN 0 ELSE (k - 1) - 0 + 1) = k
    BY <2>1
  <2> QED
    BY <2>1, <2>2, <2>3
<1>2. ASSUME NEW i \in S PROVE IsFiniteSet(below(i)) /\ rank[i] \in T
  <2>1. IsFiniteSet(below(i)) /\ Cardinality(below(i)) \in Nat
    BY FS_Subset, FS_CardinalityType
  <2>2. below(i) \in SUBSET (S \ {i})
    OBVIOUS
  <2>3. IsFiniteSet(S \ {i}) /\ Cardinality(S \ {i}) = k - 1
    BY FS_RemoveElement
  <2>4. Cardinality(below(i)) <= k - 1
    BY <2>2, <2>3, FS_Subset
  <2> QED
    BY <1>1, <2>1, <2>4
<1>3. ASSUME NEW i \in S, NEW j \in S, i < j PROVE rank[i] < rank[j]
  <2>0. i \in Nat /\ j \in Nat
    OBVIOUS
  <2>1. below(i) \cup {i} \in SUBSET below(j) /\ i \notin below(i)
    <3>1. i \in below(j) /\ i \notin below(i)
      BY <1>3, <2>0
    <3>2. ASSUME NEW x \in below(i) PROVE x \in below(j)
      <4>1. x \in S /\ x \in Nat /\ x < i
        OBVIOUS
      <4>2. x < j
        BY <1>3, <2>0, <4>1
      <4> QED
        BY <4>1, <4>2
    <3> QED
      BY <3>1, <3>2
  <2>2. Cardinality(below(i) \cup {i}) = Cardinality(below(i)) + 1
    BY <1>2, <2>1, FS_AddElement
  <2>3. Cardinality(below(i) \cup {i}) <= Cardinality(below(j))
    BY <1>2, <2>1, FS_Subset
  <2>4. Cardinality(below(i)) \in Nat /\ Cardinality(below(j)) \in Nat
    BY <1>2, FS_CardinalityType
  <2> QED
    BY <2>2, <2>3, <2>4
<1>4. \A i, j \in S : i # j => rank[i] # rank[j]
  <2> SUFFICES ASSUME NEW i \in S, NEW j \in S, i # j PROVE rank[i] # rank[j]
    OBVIOUS
  <2>1. i \in Nat /\ j \in Nat /\ rank[i] \in Nat /\ rank[j] \in Nat
    <3>1. rank[i] \in T /\ rank[j] \in T
      BY <1>2
    <3> HIDE DEF rank, k
    <3> QED
      BY <1>1, <3>1
  <2>2. i < j \/ j < i
    BY <2>1
  <2> HIDE DEF rank
  <2> QED
    BY <1>3, <2>1, <2>2
<1>5. rank \in Injection(S, T)
  BY <1>2, <1>4 DEF Injection, IsInjective
<1>6. rank \in Surjection(S, T)
  <2> HIDE DEF rank, T, k
  <2>1. Cardinality(S) = Cardinality(T)
    BY <1>1 DEF k
  <2> QED
    BY <1>1, <1>5, <2>1, FS_Injection
<1>7. ASSUME NEW n \in 1 .. k
      PROVE  InOrder(S)[n] \in S /\ rank[InOrder(S)[n]] = n - 1
  <2>1. n - 1 \in T
    BY <1>1
  <2>2. \E i \in S : rank[i] = n - 1
    BY <1>6, <2>1 DEF Surjection
  <2>3. \E i \in S : Cardinality(below(i)) = n - 1
    BY <2>2
  <2>4. InOrder(S)[n] = CHOOSE i \in S : Cardinality(below(i)) = n - 1
    BY DEF InOrder
  <2>5. InOrder(S)[n] \in S /\ Cardinality(below(InOrder(S)[n])) = n - 1
    BY <2>3, <2>4
  <2> QED
    BY <2>5
<1>8. InOrder(S) \in [1 .. k -> S]
  <2> DEFINE f == [n \in 1 .. k |-> CHOOSE i \in S : Cardinality(below(i)) = n - 1]
  <2>1. InOrder(S) = f
    BY DEF InOrder
  <2>2. \A n \in 1 .. k : f[n] \in S
    BY <1>7, <2>1
  <2>3. f \in [1 .. k -> S]
    BY <2>2
  <2> QED
    BY <2>1, <2>3
<1>9. \A m, n \in 1 .. k : m # n => InOrder(S)[m] # InOrder(S)[n]
  <2> SUFFICES ASSUME NEW m \in 1 .. k, NEW n \in 1 .. k, m # n
               PROVE  InOrder(S)[m] # InOrder(S)[n]
    OBVIOUS
  <2>1. rank[InOrder(S)[m]] = m - 1 /\ rank[InOrder(S)[n]] = n - 1
    BY <1>7
  <2>2. m - 1 # n - 1
    <3> HIDE DEF k
    <3> QED
      BY <1>1
  <2> HIDE DEF rank
  <2> QED
    BY <2>1, <2>2
<1>10. ASSUME NEW i \in S PROVE \E n \in 1 .. k : InOrder(S)[n] = i
  <2> DEFINE n == rank[i] + 1
  <2>1. n \in 1 .. k /\ n - 1 = rank[i]
    BY <1>1, <1>2
  <2> HIDE DEF n
  <2>2. InOrder(S)[n] \in S /\ rank[InOrder(S)[n]] = rank[i]
    <3> HIDE DEF rank
    <3> QED
      BY <1>7, <2>1
  <2>3. InOrder(S)[n] = i
    <3> HIDE DEF rank
    <3> QED
      BY <1>4, <2>2
  <2> QED
    BY <2>1, <2>3
<1> QED
  BY <1>1, <1>8, <1>9, <1>10

-----------------------------------------------------------------------------
(* An Anthropic client's turn: M blocks were begun and those of O are open. *)

Dense(M, O) == Known("open", 0 .. M - 1, (0 .. M - 1) \ O)

LEMMA DenseOpen ==
  ASSUME NEW M \in Nat, NEW O \in SUBSET (0 .. M - 1), NEW w \in Int
  PROVE  /\ Open(M, w) \in Events
         /\ Leads(TRUE, Dense(M, O), <<Open(M, w)>>, Dense(M + 1, O \cup {M}))
<1> DEFINE e == Open(M, w)
<1>1. e \in Events /\ e.e = "open" /\ e.i = M
  BY DEF Open, Events
<1>2. Allowed(TRUE, Dense(M, O), e)
  BY <1>1 DEF Allowed, Dense, Known
<1>3. /\ (0 .. M - 1) \cup {M} = 0 .. (M + 1) - 1
      /\ (0 .. M - 1) \ O = (0 .. (M + 1) - 1) \ (O \cup {M})
  OBVIOUS
<1>4. After(Dense(M, O), e) = Dense(M + 1, O \cup {M})
  BY <1>1, <1>3 DEF After, Dense, Known
<1> HIDE DEF e
<1>5. Leads(TRUE, Dense(M, O), <<e>>, After(Dense(M, O), e))
  BY <1>2, LeadsOne
<1> QED
  BY <1>1, <1>4, <1>5 DEF e

LEMMA DensePiece ==
  ASSUME NEW M \in Nat, NEW O \in SUBSET (0 .. M - 1), NEW i \in O, NEW w \in Int, NEW ps \in Seq(Int)
  PROVE  /\ Piece(i, w, ps) \in Events
         /\ Leads(TRUE, Dense(M, O), <<Piece(i, w, ps)>>, Dense(M, O))
<1> DEFINE e == Piece(i, w, ps)
<1>1. e \in Events /\ e.e = "piece" /\ e.i = i
  BY DEF Piece, Events
<1>2. Allowed(TRUE, Dense(M, O), e)
  BY <1>1 DEF Allowed, Dense, Known
<1>3. After(Dense(M, O), e) = Dense(M, O)
  BY <1>1 DEF After
<1> HIDE DEF e
<1>4. Leads(TRUE, Dense(M, O), <<e>>, After(Dense(M, O), e))
  BY <1>2, LeadsOne
<1> QED
  BY <1>1, <1>3, <1>4 DEF e

LEMMA DenseCloses ==
  ASSUME NEW M \in Nat, NEW O \in SUBSET (0 .. M - 1), NEW i \in O, NEW w \in Int, NEW ps \in Seq(Int)
  PROVE  Close(i, w, ps) \in Events
BY DEF Close, Events

LEMMA DenseLets ==
  ASSUME NEW M \in Nat, NEW O \in SUBSET (0 .. M - 1), NEW i \in O, NEW w \in Int, NEW ps \in Seq(Int)
  PROVE  Allowed(TRUE, Dense(M, O), Close(i, w, ps))
<1> DEFINE e == Close(i, w, ps)
<1>1. e.e = "close" /\ e.i = i
  BY DEF Close
<1>2. Allowed(TRUE, Dense(M, O), e)
  BY <1>1 DEF Allowed, Dense, Known
<1> QED
  BY <1>2 DEF e

LEMMA DenseClosed ==
  ASSUME NEW M \in Nat, NEW O \in SUBSET (0 .. M - 1), NEW i \in O, NEW w \in Int, NEW ps \in Seq(Int),
         NEW P, \A j : j \in P <=> j \in O /\ j # i
  PROVE  After(Dense(M, O), Close(i, w, ps)) = Dense(M, P)
<1> DEFINE e == Close(i, w, ps)
<1>1. e.e = "close" /\ e.i = i
  BY DEF Close
<1>2. (0 .. M - 1) \cup {i} = 0 .. M - 1 /\ ((0 .. M - 1) \ O) \cup {i} = (0 .. M - 1) \ P
  OBVIOUS
<1>3. After(Dense(M, O), e) = Dense(M, P)
  BY <1>1, <1>2 DEF After, Dense, Known
<1> QED
  BY <1>3 DEF e

LEMMA DenseClose ==
  ASSUME NEW M \in Nat, NEW O \in SUBSET (0 .. M - 1), NEW i \in O, NEW w \in Int, NEW ps \in Seq(Int)
  PROVE  /\ Close(i, w, ps) \in Events
         /\ Leads(TRUE, Dense(M, O), <<Close(i, w, ps)>>, Dense(M, O \ {i}))
<1> DEFINE e == Close(i, w, ps)
           P == O \ {i}
<1>1. \A j : j \in P <=> j \in O /\ j # i
  OBVIOUS
<1> HIDE DEF P
<1>2. After(Dense(M, O), e) = Dense(M, P)
  BY <1>1, DenseClosed
<1>3. e \in Events
  BY DenseCloses
<1>4. Allowed(TRUE, Dense(M, O), e)
  BY DenseLets
<1> HIDE DEF e
<1>5. Leads(TRUE, Dense(M, O), <<e>>, After(Dense(M, O), e))
  BY <1>4, LeadsOne
<1> QED
  BY <1>2, <1>3, <1>5 DEF e, P

LEMMA DenseEnd ==
  ASSUME NEW M \in Nat, NEW why \in Reasons
  PROVE  /\ End(AReason(why)) \in Events
         /\ Leads(TRUE, Dense(M, {}), <<End(AReason(why))>>, Known("ended", 0 .. M - 1, 0 .. M - 1))
<1> DEFINE e == End(AReason(why))
<1>1. e \in Events /\ e.e = "end"
  BY DEF End, Events
<1>2. (0 .. M - 1) \ {} = 0 .. M - 1
  OBVIOUS
<1>3. Allowed(TRUE, Dense(M, {}), e) /\ After(Dense(M, {}), e) = Known("ended", 0 .. M - 1, 0 .. M - 1)
  BY <1>1, <1>2 DEF Allowed, After, Dense, Known
<1> HIDE DEF e
<1>4. Leads(TRUE, Dense(M, {}), <<e>>, After(Dense(M, {}), e))
  BY <1>3, LeadsOne
<1> QED
  BY <1>1, <1>3, <1>4 DEF e

-----------------------------------------------------------------------------
(* The translator of an Anthropic client.                                  *)

Chunks ==
  [t : {"role", "usage", "error", "done"}]
    \cup [t : {"text", "think"}, ps : Seq(Int)]
    \cup [t : {"call"}, i : Nat, id : Int, name : Int, args : Seq(Int)]
    \cup [t : {"finish"}, why : Reasons]

ASlotTypes == [openai : Nat, block : Int, id : Int, name : Int, args : Seq(Int)]

ATypes == [started : BOOLEAN, next : Nat, open : {<<>>} \cup (Nat \X Int),
           tools : Seq(ASlotTypes), reason : Reasons]

\* The blocks that are open: one of text or thought, and those of calls.
OpenText(st) == IF st.open = <<>> THEN {} ELSE {st.open[1]}
OpenTools(st) == {st.tools[n].block : n \in DOMAIN st.tools} \ {NoBlock}
AOpen(st) == OpenText(st) \cup OpenTools(st)

\* No two of them have one number, and each was given out.
AOK(st) ==
  /\ st \in ATypes
  /\ AOpen(st) \subseteq 0 .. st.next - 1
  /\ OpenText(st) \cap OpenTools(st) = {}
  /\ \A m, n \in DOMAIN st.tools :
       m # n /\ st.tools[m].block # NoBlock => st.tools[m].block # st.tools[n].block

ALeads(st, es, fin) ==
  /\ es \in Seq(Events)
  /\ Leads(TRUE, Dense(st.next, AOpen(st)), es, Dense(fin.next, AOpen(fin)))

LEMMA ALeadsNone ==
  ASSUME NEW st, NEW fin, fin.next = st.next, AOpen(fin) = AOpen(st)
  PROVE  ALeads(st, <<>>, fin)
<1>1. <<>> \in Seq(Events)
  OBVIOUS
<1>2. Dense(fin.next, AOpen(fin)) = Dense(st.next, AOpen(st))
  OBVIOUS
<1> QED
  BY <1>1, <1>2, LeadsNone DEF ALeads

LEMMA ALeadsOn ==
  ASSUME NEW st, NEW mi, NEW fin, NEW es, NEW fs, ALeads(st, es, mi), ALeads(mi, fs, fin)
  PROVE  ALeads(st, es \o fs, fin)
<1>1. es \o fs \in Seq(Events)
  BY DEF ALeads
<1> QED
  BY <1>1, LeadsOn DEF ALeads

LEMMA Two == ASSUME NEW a, NEW b PROVE <<a>> \o <<b>> = <<a, b>>
<1> DEFINE s == <<a>>
           u == <<b>>
           w == <<a, b>>
<1>1. /\ s \in Seq({a, b}) /\ u \in Seq({a, b}) /\ Len(s) = 1 /\ Len(u) = 1 /\ s[1] = a /\ u[1] = b
      /\ w \in Seq({a, b}) /\ Len(w) = 2 /\ w[1] = a /\ w[2] = b
  OBVIOUS
<1> HIDE DEF s, u, w
<1>2. /\ s \o u \in Seq({a, b}) /\ Len(s \o u) = 2 /\ (s \o u)[1] = a /\ (s \o u)[2] = b
  BY <1>1
<1>3. \A n \in 1 .. 2 : (s \o u)[n] = w[n]
  BY <1>1, <1>2
<1>4. s \o u = w
  BY <1>1, <1>2, <1>3
<1> QED
  BY <1>4 DEF s, u, w

LEMMA AShutOK ==
  ASSUME NEW st, AOK(st)
  PROVE  LET r == AShut(st)
         IN  /\ r.st = [st EXCEPT !.open = <<>>]
             /\ AOK(r.st)
             /\ ALeads(st, r.out, r.st)
             /\ AOpen(r.st) = OpenTools(st)
<1> DEFINE r == AShut(st)
           u == [st EXCEPT !.open = <<>>]
<1>1. r.st = u /\ r.out = IF st.open = <<>> THEN <<>> ELSE <<Close(st.open[1], st.open[2], <<>>)>>
  BY DEF AShut, Step
<1>2. st \in ATypes
  BY DEF AOK
<1>3. /\ u \in ATypes /\ u.next = st.next /\ u.open = <<>> /\ u.tools = st.tools
  BY <1>2 DEF ATypes
<1>4. OpenText(u) = {} /\ OpenTools(u) = OpenTools(st) /\ AOpen(u) = OpenTools(st)
  BY <1>3 DEF OpenText, OpenTools, AOpen
<1>5. AOK(u)
  BY <1>3, <1>4 DEF AOK, AOpen
<1>6. ALeads(st, r.out, u)
  <2>1. CASE st.open = <<>>
    <3>1. AOpen(st) = OpenTools(st) /\ r.out = <<>>
      BY <1>1, <2>1 DEF AOpen, OpenText
    <3> HIDE DEF r, u
    <3> QED
      BY <1>3, <1>4, <3>1, ALeadsNone
  <2>2. CASE st.open # <<>>
    <3> DEFINE i == st.open[1]
               w == st.open[2]
    <3>1. st.open \in Nat \X Int
      BY <1>2, <2>2 DEF ATypes
    <3>2. i \in Nat /\ w \in Int /\ st.next \in Nat /\ <<>> \in Seq(Int)
      BY <1>2, <3>1 DEF ATypes
    <3>3. AOpen(st) = OpenTools(st) \cup {i} /\ i \notin OpenTools(st)
      BY <2>2 DEF AOK, AOpen, OpenText
    <3>4. AOpen(st) \in SUBSET (0 .. st.next - 1) /\ i \in AOpen(st) /\ AOpen(st) \ {i} = OpenTools(st)
      BY <3>3 DEF AOK
    <3>5. r.out = <<Close(i, w, <<>>)>>
      BY <1>1, <2>2
    <3> HIDE DEF i, w, r, u
    <3>6. /\ Close(i, w, <<>>) \in Events
          /\ Leads(TRUE, Dense(st.next, AOpen(st)), <<Close(i, w, <<>>)>>, Dense(st.next, AOpen(st) \ {i}))
      BY <3>2, <3>4, DenseClose
    <3>7. <<Close(i, w, <<>>)>> \in Seq(Events)
      BY <3>6
    <3> QED
      BY <1>3, <1>4, <3>4, <3>5, <3>6, <3>7 DEF ALeads
  <2> QED
    BY <2>1, <2>2
<1> HIDE DEF r, u
<1> QED
  BY <1>1, <1>4, <1>5, <1>6 DEF r, u

\* A block is begun when none of text is open, and a piece added to it.
LEMMA ANewBlock ==
  ASSUME NEW st, AOK(st), st.open = <<>>, NEW w \in Int, NEW ps \in Seq(Int)
  PROVE  LET u == [st EXCEPT !.open = <<st.next, w>>, !.next = @ + 1]
         IN  /\ AOK(u)
             /\ ALeads(st, <<Open(st.next, w), Piece(st.next, w, ps)>>, u)
<1> DEFINE u == [st EXCEPT !.open = <<st.next, w>>, !.next = @ + 1]
           M == st.next
           O == AOpen(st)
<1>1. st \in ATypes /\ M \in Nat /\ O \in SUBSET (0 .. M - 1) /\ O = OpenTools(st)
  BY DEF AOK, ATypes, AOpen, OpenText
<1>2. u.next = M + 1 /\ u.open = <<M, w>> /\ u.tools = st.tools /\ u \in ATypes
  <2> DEFINE x == <<M, w>>
             n == M + 1
  <2>1. x \in {<<>>} \cup (Nat \X Int) /\ n \in Nat
    BY <1>1
  <2>2. u = [st EXCEPT !.open = x, !.next = n]
    BY <1>1 DEF ATypes
  <2> HIDE DEF x, n, u, M
  <2>3. u.next = n /\ u.open = x /\ u.tools = st.tools
    BY <1>1, <2>2 DEF ATypes
  <2>4. u \in ATypes
    BY <1>1, <2>1, <2>2 DEF ATypes
  <2> QED
    BY <2>3, <2>4 DEF x, n
<1>3. OpenText(u) = {M} /\ OpenTools(u) = O /\ AOpen(u) = O \cup {M}
  <2>1. u.open # <<>> /\ u.open[1] = M
    BY <1>2
  <2>2. OpenText(u) = {M}
    BY <2>1 DEF OpenText
  <2>3. OpenTools(u) = O
    BY <1>1, <1>2 DEF OpenTools
  <2> QED
    BY <2>2, <2>3 DEF AOpen
<1>4. AOK(u)
  <2>1. O \cup {M} \subseteq 0 .. (M + 1) - 1 /\ {M} \cap O = {}
    BY <1>1
  <2> HIDE DEF u
  <2> QED
    BY <1>1, <1>2, <1>3, <2>1 DEF AOK
<1>5. Open(M, w) \in Events /\ Leads(TRUE, Dense(M, O), <<Open(M, w)>>, Dense(M + 1, O \cup {M}))
  BY <1>1, DenseOpen
<1>6. /\ Piece(M, w, ps) \in Events
      /\ Leads(TRUE, Dense(M + 1, O \cup {M}), <<Piece(M, w, ps)>>, Dense(M + 1, O \cup {M}))
  <2>1. M + 1 \in Nat /\ O \cup {M} \in SUBSET (0 .. (M + 1) - 1) /\ M \in O \cup {M}
    BY <1>1
  <2> HIDE DEF M, O
  <2> QED
    BY <2>1, DensePiece
<1>7. Leads(TRUE, Dense(M, O), <<Open(M, w)>> \o <<Piece(M, w, ps)>>, Dense(M + 1, O \cup {M}))
  <2>1. <<Open(M, w)>> \in Seq(Events) /\ <<Piece(M, w, ps)>> \in Seq(Events)
    BY <1>5, <1>6
  <2> HIDE DEF M, O
  <2> QED
    BY <1>5, <1>6, <2>1, LeadsOn
<1>8. <<Open(M, w)>> \o <<Piece(M, w, ps)>> = <<Open(M, w), Piece(M, w, ps)>>
  BY Two
<1>9. <<Open(M, w), Piece(M, w, ps)>> \in Seq(Events)
  BY <1>5, <1>6
<1>10. ALeads(st, <<Open(M, w), Piece(M, w, ps)>>, u)
  <2> HIDE DEF u
  <2> QED
    BY <1>2, <1>3, <1>7, <1>8, <1>9 DEF ALeads
<1> QED
  BY <1>4, <1>10

\* The same by the numbers.
Follows(M, O, es, K, P) == es \in Seq(Events) /\ Leads(TRUE, Dense(M, O), es, Dense(K, P))

LEMMA FollowsOn ==
  ASSUME NEW M, NEW O, NEW es, NEW K, NEW P, NEW fs, NEW L, NEW Q,
         Follows(M, O, es, K, P), Follows(K, P, fs, L, Q)
  PROVE  Follows(M, O, es \o fs, L, Q)
<1>1. es \o fs \in Seq(Events)
  BY DEF Follows
<1> QED
  BY <1>1, LeadsOn DEF Follows

LEMMA FollowsNone == ASSUME NEW M, NEW O PROVE Follows(M, O, <<>>, M, O)
<1>1. <<>> \in Seq(Events)
  OBVIOUS
<1> QED
  BY <1>1, LeadsNone DEF Follows

LEMMA FollowsEvents ==
  ASSUME NEW M \in Nat, NEW O \in SUBSET (0 .. M - 1), NEW w \in Int
  PROVE  /\ Follows(M, O, <<Open(M, w)>>, M + 1, O \cup {M})
         /\ \A i \in O, ps \in Seq(Int) : Follows(M, O, <<Piece(i, w, ps)>>, M, O)
         /\ \A i \in O, ps \in Seq(Int) : Follows(M, O, <<Close(i, w, ps)>>, M, O \ {i})
<1>1. ASSUME NEW e \in Events PROVE <<e>> \in Seq(Events)
  OBVIOUS
<1> QED
  BY <1>1, DenseOpen, DensePiece, DenseClose DEF Follows

LEMMA ALeadsFollows ==
  ASSUME NEW st, NEW es, NEW fin
  PROVE  ALeads(st, es, fin) <=> Follows(st.next, AOpen(st), es, fin.next, AOpen(fin))
BY DEF ALeads, Follows

LEMMA ATextOK ==
  ASSUME NEW st, AOK(st), NEW kind \in Int, NEW ps \in Seq(Int)
  PROVE  LET r == AText(st, ps, kind)
         IN  AOK(r.st) /\ ALeads(st, r.out, r.st) /\ r.st.started = st.started
<1>1. CASE st.open # <<>> /\ st.open[2] = kind
  <2> DEFINE i == st.open[1]
  <2>1. AText(st, ps, kind) = Step(st, <<Piece(i, kind, ps)>>)
    BY <1>1 DEF AText
  <2>2. i \in AOpen(st) /\ AOpen(st) \in SUBSET (0 .. st.next - 1) /\ st.next \in Nat
    BY <1>1 DEF AOK, AOpen, OpenText, ATypes
  <2> HIDE DEF i
  <2>3. Follows(st.next, AOpen(st), <<Piece(i, kind, ps)>>, st.next, AOpen(st))
    BY <2>2, FollowsEvents
  <2> QED
    BY <2>1, <2>3, ALeadsFollows DEF Step
<1>2. CASE ~(st.open # <<>> /\ st.open[2] = kind)
  <2> DEFINE sh == AShut(st)
             u == [st EXCEPT !.open = <<>>]
             es == <<Open(st.next, kind), Piece(st.next, kind, ps)>>
             fin == [st EXCEPT !.open = <<st.next, kind>>, !.next = @ + 1]
             r == AText(st, ps, kind)
  <2>1. r = And(sh, Step(fin, es))
    BY <1>2 DEF AText
  <2>2. r.st = fin /\ r.out = sh.out \o es
    BY <2>1 DEF And, Step
  <2>3. sh.st = u /\ AOK(u) /\ ALeads(st, sh.out, u)
    BY AShutOK
  <2>4. st \in ATypes
    BY DEF AOK
  <2>5. u.open = <<>> /\ u.next = st.next /\ [u EXCEPT !.open = <<u.next, kind>>, !.next = @ + 1] = fin
    BY <2>4 DEF ATypes
  <2>6. AOK(fin) /\ ALeads(u, es, fin)
    <3> HIDE DEF u, fin
    <3> QED
      BY <2>3, <2>5, ANewBlock
  <2>7. fin.started = st.started
    BY <2>4 DEF ATypes
  <2> HIDE DEF r, sh, u, fin, es
  <2>8. ALeads(st, sh.out \o es, fin)
    BY <2>3, <2>6, ALeadsOn
  <2> QED
    BY <2>2, <2>6, <2>7, <2>8 DEF r
<1> QED
  BY <1>1, <1>2

\* A list of one kind by its entries.
LEMMA SameEntries ==
  ASSUME NEW S, NEW s \in Seq(S), NEW u \in Seq(S), Len(s) = Len(u), \A n \in 1 .. Len(s) : s[n] = u[n]
  PROVE  s = u
OBVIOUS

LEMMA Joined ==
  ASSUME NEW S, NEW s \in Seq(S), NEW u \in Seq(S)
  PROVE  /\ s \o u \in Seq(S) /\ Len(s \o u) = Len(s) + Len(u)
         /\ \A n \in 1 .. Len(s) : (s \o u)[n] = s[n]
         /\ \A n \in 1 .. Len(u) : (s \o u)[Len(s) + n] = u[n]
OBVIOUS

LEMMA Five ==
  ASSUME NEW a, NEW b, NEW c, NEW d, NEW e
  PROVE  (<<a, b>> \o <<c>>) \o <<d, e>> = <<a, b, c, d, e>>
<1> DEFINE S == {a, b, c, d, e}
           s == <<a, b>>
           u == <<c>>
           x == <<d, e>>
           w == <<a, b, c, d, e>>
<1>1. /\ s \in Seq(S) /\ Len(s) = 2 /\ s[1] = a /\ s[2] = b
      /\ u \in Seq(S) /\ Len(u) = 1 /\ u[1] = c
      /\ x \in Seq(S) /\ Len(x) = 2 /\ x[1] = d /\ x[2] = e
  OBVIOUS
<1>2. /\ w \in Seq(S) /\ Len(w) = 5
      /\ w[1] = a /\ w[2] = b /\ w[3] = c /\ w[4] = d /\ w[5] = e
  OBVIOUS
<1> HIDE DEF S, s, u, x, w
<1>3. /\ 1 \in 1 .. 1 /\ 1 \in 1 .. 2 /\ 2 \in 1 .. 2 /\ 1 \in 1 .. 3 /\ 2 \in 1 .. 3 /\ 3 \in 1 .. 3
      /\ 2 + 1 = 3 /\ 3 + 1 = 4 /\ 3 + 2 = 5
  OBVIOUS
<1> DEFINE v == s \o u
           z == v \o x
<1>4. v \in Seq(S) /\ Len(v) = 3 /\ v[1] = a /\ v[2] = b /\ v[3] = c
  <2>1. /\ v \in Seq(S) /\ Len(v) = Len(s) + Len(u)
        /\ \A n \in 1 .. Len(s) : v[n] = s[n]
        /\ \A n \in 1 .. Len(u) : v[Len(s) + n] = u[n]
    <3>1. s \in Seq(S) /\ u \in Seq(S)
      BY <1>1
    <3> QED
      BY <3>1, Joined
  <2> HIDE DEF v
  <2>2. v[1] = s[1] /\ v[2] = s[2]
    BY <1>1, <1>3, <2>1
  <2>3. v[2 + 1] = u[1]
    BY <1>1, <1>3, <2>1
  <2> QED
    BY <1>1, <1>3, <2>1, <2>2, <2>3
<1>5. z \in Seq(S) /\ Len(z) = 5 /\ z[1] = a /\ z[2] = b /\ z[3] = c /\ z[4] = d /\ z[5] = e
  <2> HIDE DEF v
  <2>1. /\ z \in Seq(S) /\ Len(z) = Len(v) + Len(x)
        /\ \A n \in 1 .. Len(v) : z[n] = v[n]
        /\ \A n \in 1 .. Len(x) : z[Len(v) + n] = x[n]
    <3>1. v \in Seq(S) /\ x \in Seq(S)
      BY <1>1, <1>4
    <3> QED
      BY <3>1, Joined
  <2> HIDE DEF z
  <2> QED
    BY <1>1, <1>3, <1>4, <2>1
<1> HIDE DEF z
<1>6. \A n \in 1 .. 5 : n = 1 \/ n = 2 \/ n = 3 \/ n = 4 \/ n = 5
  OBVIOUS
<1>7. \A n \in 1 .. 5 : z[n] = w[n]
  BY <1>2, <1>5, <1>6
<1>8. z = w
  BY <1>2, <1>5, <1>7, SameEntries
<1> QED
  BY <1>8 DEF z, v, s, u, x, w

\* A block that is opened and closed.
LEMMA FollowsClosed ==
  ASSUME NEW M \in Nat, NEW O \in SUBSET (0 .. M - 1), NEW w \in Int, NEW ps \in Seq(Int)
  PROVE  /\ Follows(M, O, <<Open(M, w), Close(M, w, <<>>)>>, M + 1, O)
         /\ Follows(M, O, <<Open(M, w), Piece(M, w, ps)>> \o <<Close(M, w, <<>>)>>, M + 1, O)
<1> DEFINE P == O \cup {M}
           K == M + 1
           a == Open(M, w)
           b == Piece(M, w, ps)
           c == Close(M, w, <<>>)
<1>1. K \in Nat /\ P \in SUBSET (0 .. K - 1) /\ M \in P /\ P \ {M} = O /\ <<>> \in Seq(Int)
  OBVIOUS
<1>2. Follows(M, O, <<a>>, K, P)
  BY FollowsEvents
<1> HIDE DEF K, P
<1>3. Follows(K, P, <<b>>, K, P) /\ Follows(K, P, <<c>>, K, P \ {M})
  BY <1>1, FollowsEvents
<1> HIDE DEF a, b, c
<1>4. Follows(M, O, <<a>> \o <<c>>, K, O)
  BY <1>1, <1>2, <1>3, FollowsOn
<1>5. Follows(M, O, <<a>> \o <<b>>, K, P)
  BY <1>2, <1>3, FollowsOn
<1>6. <<a>> \o <<c>> = <<a, c>> /\ <<a>> \o <<b>> = <<a, b>>
  BY Two
<1>7. Follows(M, O, <<a, b>> \o <<c>>, K, O)
  BY <1>1, <1>3, <1>5, <1>6, FollowsOn
<1> QED
  BY <1>4, <1>6, <1>7 DEF a, b, c, K

\* Two blocks told whole.
LEMMA ASearchOK ==
  ASSUME NEW st, AOK(st)
  PROVE  LET r == AServed(st, TRUE)
         IN  AOK(r.st) /\ ALeads(st, r.out, r.st) /\ r.st.started = st.started
<1> DEFINE i == st.next
           w == [st EXCEPT !.next = @ + 2, !.reason = "none"]
           sh == AShut(st)
           u == [st EXCEPT !.open = <<>>]
           fin == [w EXCEPT !.open = <<>>]
           a == Open(i, SERVED)
           b == Piece(i, SERVED, <<Blank>>)
           c == Close(i, SERVED, <<>>)
           d == Open(i + 1, SERVED)
           e == Close(i + 1, SERVED, <<>>)
           r == AServed(st, TRUE)
<1>1. st \in ATypes
  BY DEF AOK
<1>2. w.open = st.open
  BY <1>1 DEF ATypes
<1>3. AShut(w).out = sh.out /\ AShut(w).st = fin
  BY <1>2 DEF AShut, Step
<1>4. r.st = fin /\ r.out = sh.out \o <<a, b, c, d, e>>
  BY <1>3 DEF AServed, Step
<1>5. sh.st = u /\ AOK(u) /\ ALeads(st, sh.out, u)
  BY AShutOK
<1>6. /\ u.next = i /\ u.open = <<>> /\ u.tools = st.tools
      /\ fin.next = i + 2 /\ fin.open = <<>> /\ fin.tools = st.tools /\ fin.started = st.started
      /\ fin \in ATypes
  <2> DEFINE n == i + 2
             x == "none"
  <2>1. n \in Nat /\ x \in Reasons /\ fin = [st EXCEPT !.next = n, !.reason = x, !.open = <<>>]
    BY <1>1 DEF ATypes, Reasons
  <2>2. u.next = i /\ u.open = <<>> /\ u.tools = st.tools
    BY <1>1 DEF ATypes
  <2> HIDE DEF fin, n, x
  <2>3. fin.next = n /\ fin.open = <<>> /\ fin.tools = st.tools /\ fin.started = st.started
    BY <1>1, <2>1 DEF ATypes
  <2>4. fin \in ATypes
    BY <1>1, <2>1 DEF ATypes
  <2> QED
    BY <2>2, <2>3, <2>4 DEF n
<1> DEFINE O == AOpen(u)
<1>7. i \in Nat /\ O \in SUBSET (0 .. i - 1)
  BY <1>1, <1>5, <1>6 DEF ATypes, AOK
<1>8. OpenTools(fin) = OpenTools(u) /\ OpenText(fin) = {} /\ OpenText(u) = {} /\ AOpen(fin) = O
  <2> HIDE DEF fin, u
  <2> QED
    BY <1>6 DEF OpenTools, OpenText, AOpen
<1>9. AOK(fin)
  <2> HIDE DEF fin, u
  <2>1. O \subseteq 0 .. (i + 2) - 1
    <3> HIDE DEF O, i
    <3> QED
      BY <1>7
  <2> QED
    BY <1>5, <1>6, <1>8, <2>1 DEF AOK
<1> HIDE DEF fin, u, O, r, sh, i
<1>10. SERVED \in Int /\ <<Blank>> \in Seq(Int)
  BY DEF SERVED, Blank
<1>11. Follows(i, O, <<a, b>> \o <<c>>, i + 1, O)
  BY <1>7, <1>10, FollowsClosed
<1>12. Follows(i + 1, O, <<d, e>>, (i + 1) + 1, O)
  <2>1. i + 1 \in Nat /\ O \in SUBSET (0 .. (i + 1) - 1) /\ <<>> \in Seq(Int)
    BY <1>7
  <2> QED
    BY <1>10, <2>1, FollowsClosed
<1>13. (i + 1) + 1 = i + 2
  BY <1>7
<1> HIDE DEF a, b, c, d, e
<1>14. Follows(i, O, (<<a, b>> \o <<c>>) \o <<d, e>>, i + 2, O)
  BY <1>11, <1>12, <1>13, FollowsOn
<1>17. Follows(i, O, <<a, b, c, d, e>>, i + 2, O)
  BY <1>14, Five
<1>18. ALeads(u, <<a, b, c, d, e>>, fin)
  BY <1>6, <1>8, <1>17, ALeadsFollows DEF O
<1>19. ALeads(st, sh.out \o <<a, b, c, d, e>>, fin)
  BY <1>5, <1>18, ALeadsOn
<1> QED
  BY <1>4, <1>6, <1>9, <1>19 DEF r

\* The slots of the calls: a new one has no block.
LEMMA ASlotsOK ==
  ASSUME NEW st, AOK(st), NEW i \in Nat
  PROVE  LET s == ASlots(st, i)
             u == [st EXCEPT !.tools = s]
         IN  /\ s \in Seq(ASlotTypes)
             /\ \E n \in DOMAIN s : s[n].openai = i
             /\ AOK(u)
             /\ AOpen(u) = AOpen(st)
<1> DEFINE s == ASlots(st, i)
           u == [st EXCEPT !.tools = s]
<1>1. st \in ATypes /\ st.tools \in Seq(ASlotTypes)
  BY DEF AOK, ATypes
<1>2. CASE \E n \in DOMAIN st.tools : st.tools[n].openai = i
  <2>1. s = st.tools
    BY <1>2 DEF ASlots
  <2>2. u = st
    BY <1>1, <2>1 DEF ATypes
  <2> QED
    BY <1>1, <1>2, <2>1, <2>2
<1>3. CASE ~ \E n \in DOMAIN st.tools : st.tools[n].openai = i
  <2> DEFINE x == AFreshTool(i)
             k == Len(st.tools)
  <2>1. x \in ASlotTypes /\ x.openai = i /\ x.block = NoBlock
    <3>1. NoBlock \in Int /\ 0 \in Int /\ <<>> \in Seq(Int)
      BY DEF NoBlock
    <3> QED
      BY <3>1 DEF AFreshTool, ASlotTypes
  <2>2. s = Append(st.tools, x)
    BY <1>3 DEF ASlots
  <2> HIDE DEF x
  <2>3. /\ k \in Nat /\ s \in Seq(ASlotTypes) /\ DOMAIN s = 1 .. k + 1 /\ DOMAIN st.tools = 1 .. k
        /\ s[k + 1] = x /\ \A n \in 1 .. k : s[n] = st.tools[n]
    BY <1>1, <2>1, <2>2
  <2> HIDE DEF s
  <2>4. /\ u \in ATypes /\ u.next = st.next /\ u.open = st.open /\ u.tools = s
    BY <1>1, <2>3 DEF ATypes
  <2> HIDE DEF u, k
  <2>5. OpenText(u) = OpenText(st)
    BY <2>4 DEF OpenText
  <2>6. OpenTools(u) = OpenTools(st)
    <3>1. \A n \in 1 .. k : n \in 1 .. k + 1
      BY <2>3
    <3>2. k + 1 \in 1 .. k + 1 /\ \A n \in 1 .. k + 1 : n = k + 1 \/ n \in 1 .. k
      BY <2>3
    <3> QED
      BY <2>1, <2>3, <2>4, <3>1, <3>2 DEF OpenTools
  <2>7. AOpen(u) = AOpen(st)
    BY <2>5, <2>6 DEF AOpen
  <2>8. \A m, n \in DOMAIN u.tools :
          m # n /\ u.tools[m].block # NoBlock => u.tools[m].block # u.tools[n].block
    <3> SUFFICES ASSUME NEW m \in 1 .. k + 1, NEW n \in 1 .. k + 1, m # n, s[m].block # NoBlock
                 PROVE  s[m].block # s[n].block
      BY <2>3, <2>4
    <3>1. m \in 1 .. k
      BY <2>1, <2>3
    <3>2. CASE n \in 1 .. k
      BY <2>3, <3>1, <3>2 DEF AOK
    <3>3. CASE n = k + 1
      BY <2>1, <2>3, <3>3
    <3> QED
      BY <2>3, <3>2, <3>3
  <2>9. AOK(u)
    BY <2>4, <2>5, <2>6, <2>7, <2>8 DEF AOK
  <2>10. \E n \in DOMAIN s : s[n].openai = i
    <3>1. k + 1 \in DOMAIN s
      BY <2>3
    <3> QED
      BY <2>1, <2>3, <3>1
  <2> QED
    BY <2>3, <2>7, <2>9, <2>10 DEF s, u
<1> QED
  BY <1>2, <1>3

\* A slot that keeps its block.
LEMMA ASlotKept ==
  ASSUME NEW st, AOK(st), NEW n \in DOMAIN st.tools, NEW x \in ASlotTypes,
         x.block = st.tools[n].block
  PROVE  LET u == [st EXCEPT !.tools = [st.tools EXCEPT ![n] = x]]
         IN  AOK(u) /\ AOpen(u) = AOpen(st) /\ u.next = st.next /\ u.started = st.started
<1> DEFINE s == [st.tools EXCEPT ![n] = x]
           u == [st EXCEPT !.tools = s]
<1>1. st \in ATypes /\ st.tools \in Seq(ASlotTypes)
  BY DEF AOK, ATypes
<1>2. s \in Seq(ASlotTypes) /\ DOMAIN s = DOMAIN st.tools /\ \A m \in DOMAIN s : s[m].block = st.tools[m].block
  BY <1>1
<1> HIDE DEF s
<1>3. u \in ATypes /\ u.next = st.next /\ u.open = st.open /\ u.tools = s /\ u.started = st.started
  BY <1>1, <1>2 DEF ATypes
<1> HIDE DEF u
<1>4. OpenText(u) = OpenText(st) /\ OpenTools(u) = OpenTools(st)
  BY <1>2, <1>3 DEF OpenText, OpenTools
<1>5. AOpen(u) = AOpen(st)
  BY <1>4 DEF AOpen
<1>6. AOK(u)
  BY <1>2, <1>3, <1>4, <1>5 DEF AOK
<1> QED
  BY <1>3, <1>5, <1>6 DEF u, s

\* A slot that is given the next block.
LEMMA ASlotOpened ==
  ASSUME NEW st, AOK(st), NEW n \in DOMAIN st.tools, st.tools[n].block = NoBlock,
         NEW x \in ASlotTypes, x.block = st.next
  PROVE  LET u == [st EXCEPT !.tools = [st.tools EXCEPT ![n] = x], !.next = @ + 1]
         IN  AOK(u) /\ AOpen(u) = AOpen(st) \cup {st.next} /\ u.next = st.next + 1
             /\ u.started = st.started
<1> DEFINE s == [st.tools EXCEPT ![n] = x]
           M == st.next
           K == M + 1
           u == [st EXCEPT !.tools = s, !.next = @ + 1]
<1>1. st \in ATypes /\ st.tools \in Seq(ASlotTypes) /\ M \in Nat /\ K \in Nat /\ AOpen(st) \subseteq 0 .. M - 1
  BY DEF AOK, ATypes
<1>2. /\ s \in Seq(ASlotTypes) /\ DOMAIN s = DOMAIN st.tools /\ s[n].block = M
      /\ \A m \in DOMAIN s \ {n} : s[m].block = st.tools[m].block
  BY <1>1
<1>3. u = [st EXCEPT !.tools = s, !.next = K]
  BY <1>1 DEF ATypes
<1> HIDE DEF s, u, K
<1>4. u.next = K /\ u.open = st.open /\ u.tools = s /\ u.started = st.started
  BY <1>1, <1>3 DEF ATypes
<1>5. u \in ATypes
  BY <1>1, <1>2, <1>3 DEF ATypes
<1>6. M # NoBlock /\ M \notin AOpen(st)
  BY <1>1 DEF NoBlock
<1>7. OpenText(u) = OpenText(st)
  BY <1>4 DEF OpenText
<1>8. OpenTools(u) = OpenTools(st) \cup {M}
  <2>1. ASSUME NEW b \in OpenTools(u) PROVE b \in OpenTools(st) \cup {M}
    <3>1. PICK m \in DOMAIN s : b = s[m].block /\ b # NoBlock
      BY <1>4 DEF OpenTools
    <3> QED
      BY <1>2, <3>1 DEF OpenTools
  <2>2. ASSUME NEW b \in OpenTools(st) PROVE b \in OpenTools(u)
    <3>1. PICK m \in DOMAIN s : b = st.tools[m].block /\ b # NoBlock
      BY <1>2 DEF OpenTools
    <3>2. m # n
      BY <3>1
    <3> QED
      BY <1>2, <1>4, <3>1, <3>2 DEF OpenTools
  <2>3. M \in OpenTools(u)
    BY <1>2, <1>4, <1>6 DEF OpenTools
  <2> QED
    BY <2>1, <2>2, <2>3
<1>9. AOpen(u) = AOpen(st) \cup {M}
  BY <1>7, <1>8 DEF AOpen
<1>10. OpenText(u) \cap OpenTools(u) = {}
  BY <1>6, <1>7, <1>8 DEF AOK, AOpen
<1>11. AOpen(u) \subseteq 0 .. u.next - 1
  <2>1. (0 .. M - 1) \cup {M} \subseteq 0 .. K - 1
    BY <1>1 DEF K
  <2> QED
    BY <1>1, <1>4, <1>9, <2>1
<1>12. \A m, k \in DOMAIN u.tools :
         m # k /\ u.tools[m].block # NoBlock => u.tools[m].block # u.tools[k].block
  <2> SUFFICES ASSUME NEW m \in DOMAIN s, NEW k \in DOMAIN s, m # k, s[m].block # NoBlock
               PROVE  s[m].block # s[k].block
    BY <1>4
  <2>1. \A j \in DOMAIN s \ {n} : s[j].block # M
    <3> SUFFICES ASSUME NEW j \in DOMAIN s \ {n}, s[j].block = M PROVE FALSE
      OBVIOUS
    <3>1. st.tools[j].block = M /\ j \in DOMAIN st.tools
      BY <1>2
    <3>2. M \in OpenTools(st)
      BY <1>6, <3>1 DEF OpenTools
    <3> QED
      BY <1>6, <3>2 DEF AOpen
  <2>2. CASE m = n
    BY <1>2, <2>1, <2>2
  <2>3. CASE k = n
    BY <1>2, <2>1, <2>3
  <2>4. CASE m # n /\ k # n
    BY <1>2, <2>4 DEF AOK
  <2> QED
    BY <2>2, <2>3, <2>4
<1>13. AOK(u)
  BY <1>5, <1>10, <1>11, <1>12 DEF AOK
<1> QED
  BY <1>4, <1>9, <1>13 DEF u, s, K

LEMMA SuffixSeq ==
  ASSUME NEW known \in Seq(Int), NEW args \in Seq(Int)
  PROVE  Suffix(known, args) \in Seq(Int)
<1>1. CASE known # <<>> /\ Begins(known, args)
  <2>1. Len(known) + 1 \in 1 .. Len(args) + 1
    BY <1>1 DEF Begins
  <2>2. SubSeq(args, Len(known) + 1, Len(args)) \in Seq(Int)
    BY <2>1
  <2> QED
    BY <1>1, <2>2 DEF Suffix
<1>2. CASE ~ (known # <<>> /\ Begins(known, args))
  BY <1>2 DEF Suffix
<1> QED
  BY <1>1, <1>2

\* The slots of the calls with one of them as a chunk leaves it.
ToolChunks == [t : {"call"}, i : Nat, id : Int, name : Int, args : Seq(Int)]

LEMMA ASame ==
  ASSUME NEW st \in ATypes, NEW u \in ATypes, st.started = u.started, st.next = u.next,
         st.open = u.open, st.tools = u.tools, st.reason = u.reason
  PROVE  st = u
BY DEF ATypes

LEMMA AChanged ==
  ASSUME NEW st \in ATypes, NEW s \in Seq(ASlotTypes)
  PROVE  LET u == [st EXCEPT !.tools = s, !.next = @ + 1]
         IN  /\ u \in ATypes
             /\ u.started = st.started /\ u.next = st.next + 1 /\ u.open = st.open
             /\ u.tools = s /\ u.reason = st.reason
<1> DEFINE N == st.next + 1
           u == [st EXCEPT !.tools = s, !.next = @ + 1]
<1>1. u = [st EXCEPT !.tools = s, !.next = N]
  OBVIOUS
<1>2. N \in Nat
  BY DEF ATypes
<1> HIDE DEF N, u
<1>3. u \in ATypes /\ u.started = st.started /\ u.next = N /\ u.open = st.open
      /\ u.tools = s /\ u.reason = st.reason
  BY <1>1, <1>2 DEF ATypes
<1> QED
  BY <1>3 DEF N, u

LEMMA AToolOK ==
  ASSUME NEW st, AOK(st), NEW c \in ToolChunks
  PROVE  LET r == ATool(st, c)
         IN  AOK(r.st) /\ ALeads(st, r.out, r.st) /\ r.st.started = st.started
<1> DEFINE slots == ASlots(st, c.i)
           n == CHOOSE k \in DOMAIN slots : slots[k].openai = c.i
           old == slots[n]
           slot == [old EXCEPT !.id = IF c.id # 0 THEN c.id ELSE @,
                               !.name = IF @ = 0 THEN c.name ELSE @]
           opens == AToolOpens(slot)
           block == IF opens THEN st.next ELSE slot.block
           shut == IF opens THEN AShut(st) ELSE Step(st, <<>>)
           fresh == Suffix(slot.args, c.args)
           known == [slot EXCEPT !.block = block, !.args = @ \o fresh]
           said == IF slot.args = <<>> THEN <<>> ELSE <<Piece(block, slot.name, slot.args)>>
           started == IF ~opens THEN <<>> ELSE <<Open(block, slot.name)>> \o said
           more == IF block = NoBlock \/ fresh = <<>> THEN <<>>
                   ELSE <<Piece(block, slot.name, fresh)>>
           r == ATool(st, c)
           base == [st EXCEPT !.tools = slots]
<1>1. /\ r.st = [shut.st EXCEPT !.tools = [slots EXCEPT ![n] = known],
                                !.next = IF opens THEN @ + 1 ELSE @]
      /\ r.out = (shut.out \o started) \o more
  BY DEF ATool, Step
<1>2. /\ c.i \in Nat /\ c.id \in Int /\ c.name \in Int /\ c.args \in Seq(Int)
  BY DEF ToolChunks
<1>3. st \in ATypes
  BY DEF AOK
<1>4. /\ slots \in Seq(ASlotTypes) /\ \E k \in DOMAIN slots : slots[k].openai = c.i
      /\ AOK(base) /\ AOpen(base) = AOpen(st)
  BY <1>2, ASlotsOK
<1> HIDE DEF slots, r
<1>5. base.next = st.next /\ base.open = st.open /\ base.tools = slots /\ base.started = st.started
  BY <1>3 DEF ATypes
<1>6. n \in DOMAIN slots
  BY <1>4
<1> HIDE DEF n
<1>7. old \in ASlotTypes
  BY <1>4, <1>6
<1> HIDE DEF old
<1>8. /\ slot \in ASlotTypes /\ slot.block = old.block
  <2> DEFINE x == IF c.id # 0 THEN c.id ELSE old.id
             y == IF old.name = 0 THEN c.name ELSE old.name
  <2>1. x \in Int /\ y \in Int
    BY <1>2, <1>7 DEF ASlotTypes
  <2>2. slot = [old EXCEPT !.id = x, !.name = y]
    BY <1>7 DEF ASlotTypes
  <2> HIDE DEF x, y, slot
  <2> QED
    BY <1>7, <2>1, <2>2 DEF ASlotTypes
<1> HIDE DEF slot
<1>9. slot.args \in Seq(Int) /\ slot.name \in Int /\ slot.block \in Int
  BY <1>8 DEF ASlotTypes
<1>10. fresh \in Seq(Int)
  BY <1>2, <1>9, SuffixSeq
<1>11. st.next \in Nat /\ st.next \in Int
  BY <1>3 DEF ATypes
<1>12. block \in Int
  BY <1>9, <1>11
<1> HIDE DEF fresh
<1>13. known \in ASlotTypes /\ known.block = block
  <2> DEFINE z == slot.args \o fresh
  <2>1. z \in Seq(Int)
    BY <1>9, <1>10
  <2>2. known = [slot EXCEPT !.block = block, !.args = z]
    BY <1>8 DEF ASlotTypes
  <2> HIDE DEF block, z, known
  <2> QED
    BY <1>8, <1>12, <2>1, <2>2 DEF ASlotTypes
<1> HIDE DEF known
<1>14. CASE opens
  <2> DEFINE mi == AShut(base).st
             O == AOpen(mi)
             M == st.next
  <2>1. block = M /\ old.block = NoBlock /\ shut = AShut(st)
    BY <1>8, <1>14 DEF AToolOpens
  <2>2. /\ mi = [base EXCEPT !.open = <<>>]
        /\ AOK(mi)
        /\ ALeads(base, AShut(base).out, mi)
    BY <1>4, AShutOK
  <2>3. shut.out = AShut(base).out
    BY <1>5, <2>1 DEF AShut, Step
  <2>4. mi.next = M /\ mi.tools = slots /\ mi.started = st.started
    BY <1>3, <1>4, <1>5, <2>2 DEF AOK, ATypes
  <2>5. r.st = [mi EXCEPT !.tools = [mi.tools EXCEPT ![n] = known], !.next = @ + 1]
    <3>1. shut.st = [st EXCEPT !.open = <<>>]
      BY <2>1 DEF AShut, Step
    <3>2. mi.open = <<>> /\ mi.reason = st.reason /\ mi \in ATypes
      BY <1>3, <1>4, <2>2 DEF AOK, ATypes
    <3> DEFINE s == [slots EXCEPT ![n] = known]
    <3> HIDE DEF s, mi, opens, shut
    <3>5. r.st = [shut.st EXCEPT !.tools = s, !.next = IF opens THEN @ + 1 ELSE @]
      BY <1>1 DEF s
    <3>6. r.st = [shut.st EXCEPT !.tools = s, !.next = @ + 1]
      BY <1>14, <3>5
    <3>3. r.st = [[st EXCEPT !.open = <<>>] EXCEPT !.tools = s, !.next = @ + 1]
      BY <3>1, <3>6
    <3>7. s \in Seq(ASlotTypes)
      BY <1>4, <1>6, <1>13 DEF s
    <3> DEFINE bare == [st EXCEPT !.open = <<>>]
               x == [bare EXCEPT !.tools = s, !.next = @ + 1]
               y == [mi EXCEPT !.tools = s, !.next = @ + 1]
    <3>8. bare \in ATypes /\ bare.started = st.started /\ bare.next = st.next /\ bare.open = <<>>
          /\ bare.reason = st.reason
      BY <1>3 DEF ATypes
    <3>9. r.st = x
      BY <3>3
    <3> HIDE DEF bare
    <3>10. x \in ATypes /\ x.started = bare.started /\ x.next = bare.next + 1 /\ x.open = bare.open
           /\ x.tools = s /\ x.reason = bare.reason
      BY <3>7, <3>8, AChanged
    <3>11. y \in ATypes /\ y.started = mi.started /\ y.next = mi.next + 1 /\ y.open = mi.open
           /\ y.tools = s /\ y.reason = mi.reason
      BY <3>2, <3>7, AChanged
    <3> HIDE DEF x, y
    <3>12. x = y
      BY <2>4, <3>2, <3>8, <3>10, <3>11, ASame
    <3>4. r.st = [mi EXCEPT !.tools = s, !.next = @ + 1]
      BY <3>9, <3>12 DEF y
    <3> QED
      BY <2>4, <3>4 DEF s
  <2> HIDE DEF mi, block, shut, base
  <2>6. n \in DOMAIN mi.tools /\ mi.tools[n].block = NoBlock
    BY <1>6, <2>1, <2>4 DEF old
  <2>7. /\ AOK(r.st) /\ AOpen(r.st) = O \cup {M} /\ r.st.next = M + 1
        /\ r.st.started = mi.started
    <3>1. known.block = mi.next
      BY <1>13, <2>1, <2>4
    <3> HIDE DEF M, O
    <3> DEFINE u == [mi EXCEPT !.tools = [mi.tools EXCEPT ![n] = known], !.next = @ + 1]
    <3>2. AOK(u) /\ AOpen(u) = AOpen(mi) \cup {mi.next} /\ u.next = mi.next + 1 /\ u.started = mi.started
      <4> HIDE DEF AOK, AOpen
      <4>1. known \in ASlotTypes /\ AOK(mi)
        BY <1>13, <2>2
      <4> QED
        BY <2>6, <3>1, <4>1, ASlotOpened, Zenon
    <3> HIDE DEF u
    <3>3. r.st = u
      BY <2>5 DEF u
    <3> QED
      BY <2>4, <3>2, <3>3 DEF M, O
  <2>8. O \in SUBSET (0 .. M - 1)
    BY <2>2, <2>4 DEF AOK
  <2>9. Follows(M, AOpen(st), shut.out, M, O)
    BY <1>4, <1>5, <2>2, <2>3, <2>4, ALeadsFollows
  <2> DEFINE P == O \cup {M}
  <2>10. M + 1 \in Nat /\ P \in SUBSET (0 .. (M + 1) - 1) /\ M \in P
    BY <1>11, <2>8
  <2>11. Follows(M, O, <<Open(M, slot.name)>>, M + 1, P)
    BY <1>9, <1>11, <2>8, FollowsEvents
  <2> HIDE DEF O, P, M
  <2>12. Follows(M + 1, P, said, M + 1, P)
    <3>1. CASE slot.args = <<>>
      BY <3>1, FollowsNone
    <3>2. CASE slot.args # <<>>
      BY <1>9, <2>1, <2>10, <3>2, FollowsEvents
    <3> QED
      BY <3>1, <3>2
  <2>13. Follows(M + 1, P, more, M + 1, P)
    <3>1. CASE block = NoBlock \/ fresh = <<>>
      BY <3>1, FollowsNone
    <3>2. CASE ~ (block = NoBlock \/ fresh = <<>>)
      BY <1>9, <1>10, <2>1, <2>10, <3>2, FollowsEvents
    <3> QED
      BY <3>1, <3>2
  <2> HIDE DEF said, more
  <2>14. Follows(M, O, started, M + 1, P)
    <3>1. started = <<Open(M, slot.name)>> \o said
      BY <1>14, <2>1
    <3> QED
      BY <2>11, <2>12, <3>1, FollowsOn
  <2> HIDE DEF started
  <2>15. Follows(M, AOpen(st), shut.out \o started, M + 1, P)
    BY <2>9, <2>14, FollowsOn
  <2>16. Follows(M, AOpen(st), (shut.out \o started) \o more, M + 1, P)
    BY <2>13, <2>15, FollowsOn
  <2>17. ALeads(st, r.out, r.st)
    BY <1>1, <2>7, <2>16, ALeadsFollows DEF M, P, O
  <2> QED
    BY <2>4, <2>7, <2>17 DEF r
<1>15. CASE ~opens
  <2>1. block = old.block /\ shut.st = st /\ shut.out = <<>> /\ started = <<>>
    BY <1>8, <1>15 DEF Step
  <2>2. r.st = [base EXCEPT !.tools = [base.tools EXCEPT ![n] = known]]
    <3> DEFINE s == [slots EXCEPT ![n] = known]
    <3>1. r.st = [st EXCEPT !.tools = s, !.next = @]
      BY <1>1, <1>15, <2>1
    <3> HIDE DEF s
    <3>2. r.st = [base EXCEPT !.tools = s]
      BY <1>3, <3>1 DEF ATypes
    <3> QED
      BY <1>5, <3>2 DEF s
  <2> HIDE DEF base, block, shut, started
  <2>3. n \in DOMAIN base.tools /\ known.block = base.tools[n].block
    BY <1>5, <1>6, <1>13, <2>1 DEF old
  <2>4. /\ AOK(r.st) /\ AOpen(r.st) = AOpen(base) /\ r.st.next = base.next
        /\ r.st.started = base.started
    BY <1>4, <1>13, <2>2, <2>3, ASlotKept
  <2>5. Follows(st.next, AOpen(st), more, st.next, AOpen(st))
    <3>1. CASE block = NoBlock \/ fresh = <<>>
      BY <3>1, FollowsNone
    <3>2. CASE ~ (block = NoBlock \/ fresh = <<>>)
      <4>1. block \in AOpen(base)
        BY <1>13, <2>1, <2>3, <3>2 DEF AOpen, OpenTools
      <4>2. AOpen(base) \in SUBSET (0 .. st.next - 1)
        BY <1>4, <1>5 DEF AOK
      <4> QED
        BY <1>4, <1>9, <1>10, <1>11, <3>2, <4>1, <4>2, FollowsEvents
    <3> QED
      BY <3>1, <3>2
  <2> HIDE DEF more
  <2>6. Follows(st.next, AOpen(st), (<<>> \o <<>>) \o more, st.next, AOpen(st))
    BY <2>5, FollowsNone, FollowsOn
  <2>7. ALeads(st, r.out, r.st)
    BY <1>1, <1>4, <1>5, <2>1, <2>4, <2>6, ALeadsFollows
  <2> QED
    BY <1>5, <2>4, <2>7 DEF r
<1> QED
  BY <1>14, <1>15

\* Blocks are closed one after the other.
LEMMA FollowsStops ==
  ASSUME NEW M \in Nat, NEW k \in Nat, NEW b \in [1 .. k -> 0 .. M - 1], NEW w \in [1 .. k -> Int],
         \A i, j \in 1 .. k : i # j => b[i] # b[j]
  PROVE  Follows(M, {b[j] : j \in 1 .. k}, [j \in 1 .. k |-> Close(b[j], w[j], <<>>)], M, {})
<1> DEFINE es == [j \in 1 .. k |-> Close(b[j], w[j], <<>>)]
           O(j) == {b[i] : i \in j + 1 .. k}
           p == [j \in 0 .. k |-> Dense(M, O(j))]
<1>1. <<>> \in Seq(Int)
  OBVIOUS
<1>2. \A j \in 0 .. k : O(j) \in SUBSET (0 .. M - 1)
  OBVIOUS
<1>3. ASSUME NEW j \in 1 .. k
      PROVE  /\ es[j] \in Events
             /\ Allowed(TRUE, p[j - 1], es[j])
             /\ p[j] = After(p[j - 1], es[j])
  <2>1. j - 1 \in 0 .. k /\ j \in 0 .. k /\ b[j] \in Int /\ w[j] \in Int
    OBVIOUS
  <2>2. p[j - 1] = Dense(M, O(j - 1)) /\ p[j] = Dense(M, O(j)) /\ es[j] = Close(b[j], w[j], <<>>)
    BY <2>1
  <2>3. b[j] \in O(j - 1)
    <3>1. j \in (j - 1) + 1 .. k
      OBVIOUS
    <3> QED
      BY <3>1
  <2>4. O(j) = O(j - 1) \ {b[j]}
    <3>1. ASSUME NEW x \in O(j) PROVE x \in O(j - 1) \ {b[j]}
      <4>1. PICK i \in j + 1 .. k : x = b[i]
        OBVIOUS
      <4>2. i \in (j - 1) + 1 .. k /\ i # j /\ i \in 1 .. k
        OBVIOUS
      <4> QED
        BY <4>1, <4>2
    <3>2. ASSUME NEW x \in O(j - 1) \ {b[j]} PROVE x \in O(j)
      <4>1. PICK i \in (j - 1) + 1 .. k : x = b[i]
        OBVIOUS
      <4>2. i # j
        BY <4>1
      <4>3. i \in j + 1 .. k
        BY <4>2
      <4> QED
        BY <4>1, <4>3
    <3> HIDE DEF O
    <3> QED
      BY <3>1, <3>2
  <2>5. O(j - 1) \in SUBSET (0 .. M - 1)
    BY <1>2, <2>1
  <2> HIDE DEF O, p, es
  <2>6. /\ Close(b[j], w[j], <<>>) \in Events
        /\ Allowed(TRUE, Dense(M, O(j - 1)), Close(b[j], w[j], <<>>))
        /\ After(Dense(M, O(j - 1)), Close(b[j], w[j], <<>>)) = Dense(M, O(j))
    <3> DEFINE P == O(j - 1)
               Q == O(j)
               x == b[j]
               y == w[j]
               z == <<>>
    <3>1. P \in SUBSET (0 .. M - 1) /\ x \in P /\ y \in Int /\ z \in Seq(Int)
      BY <1>1, <2>1, <2>3, <2>5
    <3>3. \A i : i \in Q <=> i \in P /\ i # x
      <4> HIDE DEF O
      <4> QED
        BY <2>4
    <3> HIDE DEF P, Q, x, y, z
    <3>2. Close(x, y, z) \in Events
      BY <3>1, DenseCloses
    <3>5. Allowed(TRUE, Dense(M, P), Close(x, y, z))
      BY <3>1, DenseLets
    <3>4. After(Dense(M, P), Close(x, y, z)) = Dense(M, Q)
      <4> DEFINE e == Close(x, y, z)
      <4>1. e.e = "close" /\ e.i = x
        BY DEF Close
      <4>2. (0 .. M - 1) \cup {x} = 0 .. M - 1 /\ ((0 .. M - 1) \ P) \cup {x} = (0 .. M - 1) \ Q
        BY <3>1, <3>3
      <4> HIDE DEF e
      <4>3. After(Dense(M, P), e) = Dense(M, Q)
        BY <4>1, <4>2 DEF After, Dense, Known
      <4> QED
        BY <4>3 DEF e
    <3> QED
      BY <3>2, <3>4, <3>5 DEF P, Q, x, y, z
  <2> QED
    BY <2>2, <2>6
<1>4. /\ Len(es) = k /\ DOMAIN es = 1 .. k
  OBVIOUS
<1>5. p[0] = Dense(M, {b[j] : j \in 1 .. k}) /\ p[k] = Dense(M, {})
  <2>1. O(0) = {b[j] : j \in 1 .. k}
    OBVIOUS
  <2>2. O(k) = {}
    OBVIOUS
  <2>3. 0 \in 0 .. k /\ k \in 0 .. k
    OBVIOUS
  <2> HIDE DEF O
  <2> QED
    BY <2>1, <2>2, <2>3
<1>6. es \in Seq(Events)
  <2>1. es = [j \in 1 .. k |-> es[j]]
    OBVIOUS
  <2> HIDE DEF es
  <2>2. es \in [1 .. k -> Events]
    BY <1>3, <2>1
  <2> QED
    BY <2>2
<1> HIDE DEF p, es, O
<1>7. Path(TRUE, Dense(M, {b[j] : j \in 1 .. k}), es, Dense(M, {}), p)
  BY <1>3, <1>4, <1>5 DEF Path
<1> QED
  BY <1>6, <1>7 DEF Follows, Leads, es

LEMMA Associative ==
  ASSUME NEW S, NEW s \in Seq(S), NEW t \in Seq(S), NEW u \in Seq(S)
  PROVE  s \o (t \o u) = (s \o t) \o u
OBVIOUS

\* The end of a message that was begun: every block is closed before it.
LEMMA AFinishOK ==
  ASSUME NEW st, AOK(st), st.started
  PROVE  LET r == AFinish(st)
         IN  /\ r.out \in Seq(Events)
             /\ Leads(TRUE, Dense(st.next, AOpen(st)), r.out,
                      Known("ended", 0 .. st.next - 1, 0 .. st.next - 1))
             /\ r.st.started = FALSE
<1> DEFINE S == {n \in DOMAIN st.tools : st.tools[n].block # NoBlock}
           k == Cardinality(S)
           open == InOrder(S)
           b == [j \in 1 .. k |-> st.tools[open[j]].block]
           w == [j \in 1 .. k |-> st.tools[open[j]].name]
           stops == [j \in DOMAIN open |-> Close(st.tools[open[j]].block, st.tools[open[j]].name, <<>>)]
           final == End(AReason(st.reason))
           r == AFinish(st)
           M == st.next
<1>1. /\ st \in ATypes /\ st.tools \in Seq(ASlotTypes) /\ M \in Nat /\ st.reason \in Reasons
      /\ AOpen(st) \subseteq 0 .. M - 1
  BY DEF AOK, ATypes
<1>2. S \in SUBSET Nat /\ IsFiniteSet(S)
  <2>1. DOMAIN st.tools = 1 .. Len(st.tools) /\ Len(st.tools) \in Nat
    BY <1>1
  <2>2. IsFiniteSet(1 .. Len(st.tools))
    BY <2>1, FS_Interval
  <2>3. S \subseteq 1 .. Len(st.tools)
    BY <2>1
  <2> QED
    BY <2>1, <2>2, <2>3, FS_Subset
<1>3. /\ k \in Nat /\ open \in [1 .. k -> S]
      /\ \A m, n \in 1 .. k : m # n => open[m] # open[n]
      /\ \A i \in S : \E n \in 1 .. k : open[n] = i
  BY <1>2, InOrderNames
<1>4. \A n \in S : /\ st.tools[n].block \in AOpen(st) /\ st.tools[n].block \in OpenTools(st)
                   /\ st.tools[n].name \in Int
  <2> TAKE n \in S
  <2>1. n \in DOMAIN st.tools /\ st.tools[n] \in ASlotTypes /\ st.tools[n].block # NoBlock
    BY <1>1
  <2>2. st.tools[n].block \in OpenTools(st)
    BY <2>1 DEF OpenTools
  <2> QED
    BY <2>1, <2>2 DEF AOpen, ASlotTypes
<1>5. \A m, n \in S : m # n => st.tools[m].block # st.tools[n].block
  BY DEF AOK
<1>6. \A x \in OpenTools(st) : \E n \in S : x = st.tools[n].block
  BY DEF OpenTools
<1> HIDE DEF S, k, open
<1>7. b \in [1 .. k -> 0 .. M - 1] /\ w \in [1 .. k -> Int]
  BY <1>1, <1>3, <1>4
<1>8. \A i, j \in 1 .. k : i # j => b[i] # b[j]
  BY <1>3, <1>5
<1>9. {b[j] : j \in 1 .. k} = OpenTools(st)
  <2>1. ASSUME NEW x \in {b[j] : j \in 1 .. k} PROVE x \in OpenTools(st)
    BY <1>3, <1>4
  <2>2. ASSUME NEW x \in OpenTools(st) PROVE x \in {b[j] : j \in 1 .. k}
    <3>1. PICK n \in S : x = st.tools[n].block
      BY <1>6
    <3>2. PICK j \in 1 .. k : open[j] = n
      BY <1>3
    <3> QED
      BY <3>1, <3>2
  <2> QED
    BY <2>1, <2>2
<1>10. stops = [j \in 1 .. k |-> Close(b[j], w[j], <<>>)]
  BY <1>3
<1> HIDE DEF b, w, stops
<1>11. Follows(M, OpenTools(st), stops, M, {})
  <2>1. Follows(M, {b[j] : j \in 1 .. k}, [j \in 1 .. k |-> Close(b[j], w[j], <<>>)], M, {})
    BY <1>1, <1>3, <1>7, <1>8, FollowsStops, ZenonT(30)
  <2> QED
    BY <1>9, <1>10, <2>1
<1>12. /\ AShut(st).st = [st EXCEPT !.open = <<>>]
       /\ ALeads(st, AShut(st).out, AShut(st).st)
       /\ AOpen(AShut(st).st) = OpenTools(st)
  BY AShutOK
<1>13. AShut(st).st.next = M
  BY <1>1, <1>12 DEF ATypes
<1>14. Follows(M, AOpen(st), AShut(st).out, M, OpenTools(st))
  BY <1>12, <1>13, ALeadsFollows
<1>15. Follows(M, AOpen(st), AShut(st).out \o stops, M, {})
  BY <1>11, <1>14, FollowsOn
<1>16. final \in Events /\ Leads(TRUE, Dense(M, {}), <<final>>, Known("ended", 0 .. M - 1, 0 .. M - 1))
  BY <1>1, DenseEnd
<1> HIDE DEF final, M
<1>17. AShut(st).out \in Seq(Events) /\ stops \in Seq(Events) /\ <<final>> \in Seq(Events)
  BY <1>11, <1>14, <1>16 DEF Follows
<1>18. r.out = AShut(st).out \o (stops \o <<final>>) /\ r.st.started = FALSE
  <2>1. st.started = TRUE
    BY <1>1 DEF ATypes
  <2> DEFINE t == [st EXCEPT !.open = <<>>, !.started = FALSE,
                             !.tools = [n \in DOMAIN st.tools |->
                                          [st.tools[n] EXCEPT !.block = NoBlock]]]
  <2>2. r = And(AShut(st), Step(t, stops \o <<final>>))
    BY <2>1 DEF AFinish, stops, final, open, S
  <2>3. t.started = FALSE
    BY <1>1 DEF ATypes
  <2> HIDE DEF t, r
  <2> QED
    BY <2>2, <2>3 DEF And, Step
<1> HIDE DEF r
<1>19. r.out = (AShut(st).out \o stops) \o <<final>>
  <2> DEFINE x == AShut(st).out
             z == <<final>>
  <2> HIDE DEF x, z
  <2>1. x \in Seq(Events) /\ stops \in Seq(Events) /\ z \in Seq(Events)
    BY <1>17 DEF x, z
  <2>2. r.out = x \o (stops \o z)
    BY <1>18 DEF x, z
  <2>3. r.out = (x \o stops) \o z
    BY <2>1, <2>2, Associative
  <2> QED
    BY <2>3 DEF x, z
<1>20. AShut(st).out \o stops \in Seq(Events)
  BY <1>17
<1>21. r.out \in Seq(Events)
  BY <1>17, <1>19, <1>20
<1>22. Leads(TRUE, Dense(M, AOpen(st)), r.out, Known("ended", 0 .. M - 1, 0 .. M - 1))
  <2>1. Leads(TRUE, Dense(M, AOpen(st)), AShut(st).out \o stops, Dense(M, {}))
    BY <1>15 DEF Follows
  <2> HIDE DEF k
  <2> QED
    <3> DEFINE a0 == Dense(M, AOpen(st))
               b0 == Dense(M, {})
               c0 == Known("ended", 0 .. M - 1, 0 .. M - 1)
               x == AShut(st).out \o stops
               z == <<final>>
    <3>1. x \in Seq(Events) /\ z \in Seq(Events) /\ Leads(TRUE, a0, x, b0) /\ Leads(TRUE, b0, z, c0)
          /\ r.out = x \o z
      BY <1>16, <1>17, <1>19, <1>20, <2>1
    <3> HIDE DEF a0, b0, c0, x, z
    <3>2. Leads(TRUE, a0, r.out, c0)
      BY <3>1, LeadsOn
    <3> QED
      BY <3>2 DEF a0, c0
<1> QED
  BY <1>18, <1>21, <1>22 DEF r, M

\* A chunk begins the message, continues it or ends it.
LEMMA AFinishTyped ==
  ASSUME NEW st \in ATypes, st.started
  PROVE  AFinish(st).st \in ATypes
<1> DEFINE s == [n \in DOMAIN st.tools |-> [st.tools[n] EXCEPT !.block = NoBlock]]
           u == [st EXCEPT !.open = <<>>, !.started = FALSE, !.tools = s]
<1>1. st.tools \in Seq(ASlotTypes) /\ st.started = TRUE
  BY DEF ATypes
<1>2. s \in Seq(ASlotTypes)
  <2>1. \A n \in DOMAIN st.tools : [st.tools[n] EXCEPT !.block = NoBlock] \in ASlotTypes
    <3> TAKE n \in DOMAIN st.tools
    <3> DEFINE x == st.tools[n]
    <3>1. x \in ASlotTypes
      BY <1>1
    <3> HIDE DEF x
    <3>2. NoBlock \in Int
      BY DEF NoBlock
    <3>3. [x EXCEPT !.block = NoBlock] \in ASlotTypes
      BY <3>1, <3>2 DEF ASlotTypes
    <3> QED
      BY <3>3 DEF x
  <2>2. DOMAIN st.tools = 1 .. Len(st.tools) /\ Len(st.tools) \in Nat
    BY <1>1
  <2>3. s \in [1 .. Len(st.tools) -> ASlotTypes]
    BY <2>1, <2>2
  <2> QED
    BY <2>2, <2>3
<1>3. AFinish(st).st = u
  BY <1>1 DEF AFinish, And, Step
<1> HIDE DEF s
<1>4. u \in ATypes
  BY <1>2 DEF ATypes
<1> QED
  BY <1>3, <1>4

\* What the translator's state says of where the client's turn will be.
Fresh(st) == ~st.started /\ st.next = 0 /\ st.open = <<>> /\ st.tools = <<>>

AState(st, s) ==
  /\ st \in ATypes
  /\ \/ st.started /\ AOK(st) /\ s = Dense(st.next, AOpen(st))
     \/ Fresh(st) /\ s = Known("before", {}, {})
     \/ ~st.started /\ s.stage = "ended"

LEMMA AOnDone == ASSUME NEW st, NEW c, c.t = "done" PROVE AOn(st, c) = AFinish(st)
BY DEF AOn

Begun(st) == [st EXCEPT !.started = TRUE]
Opening(st) == Step(Begun(st), IF st.started THEN <<>> ELSE <<Start>>)

LEMMA AOnText ==
  ASSUME NEW st, NEW c, c.t = "text" PROVE AOn(st, c) = And(Opening(st), AText(Begun(st), c.ps, TEXT))
BY Zenon DEF AOn, Opening, Begun

LEMMA AOnThink ==
  ASSUME NEW st, NEW c, c.t = "think" PROVE AOn(st, c) = And(Opening(st), AText(Begun(st), c.ps, THINK))
BY Zenon DEF AOn, Opening, Begun

LEMMA AOnCall ==
  ASSUME NEW st, NEW c, c.t = "call" PROVE AOn(st, c) = And(Opening(st), ATool(Begun(st), c))
BY Zenon DEF AOn, Opening, Begun

LEMMA AOnFinish ==
  ASSUME NEW st, NEW c, c.t = "finish"
  PROVE  AOn(st, c) = And(Opening(st), Step([Begun(st) EXCEPT !.reason = c.why], <<>>))
BY Zenon DEF AOn, Opening, Begun

LEMMA AOnOther ==
  ASSUME NEW st, NEW c, c.t \notin {"text", "think", "call", "finish", "done"}
  PROVE  AOn(st, c) = And(Opening(st), Step(Begun(st), <<>>))
<1>1. c.t # "text" /\ c.t # "think" /\ c.t # "call" /\ c.t # "finish" /\ c.t # "done"
  OBVIOUS
<1> QED
  BY <1>1, Zenon DEF AOn, Opening, Begun

\* The message is begun.
LEMMA OpeningOK ==
  ASSUME NEW st, NEW s, AState(st, s), s.stage # "ended"
  PROVE  LET u == Begun(st)
         IN  /\ Opening(st).st = u /\ AOK(u) /\ u.started
             /\ Opening(st).out \in Seq(Events)
             /\ Leads(TRUE, s, Opening(st).out, Dense(u.next, AOpen(u)))
<1> DEFINE u == Begun(st)
<1>1. st \in ATypes
  BY DEF AState
<1>2. /\ u \in ATypes /\ u.started = TRUE /\ u.next = st.next /\ u.open = st.open
      /\ u.tools = st.tools /\ u.reason = st.reason
  BY <1>1 DEF ATypes, Begun
<1>3. Opening(st).st = u /\ Opening(st).out = IF st.started THEN <<>> ELSE <<Start>>
  BY DEF Opening, Step
<1> HIDE DEF u
<1>4. AOpen(u) = AOpen(st) /\ OpenText(u) = OpenText(st) /\ OpenTools(u) = OpenTools(st)
  BY <1>2 DEF AOpen, OpenText, OpenTools
<1>5. CASE st.started
  <2>1. AOK(st) /\ s = Dense(st.next, AOpen(st))
    BY <1>5 DEF AState, Fresh
  <2>2. AOK(u)
    BY <1>2, <1>4, <2>1 DEF AOK
  <2>3. Opening(st).out = <<>>
    BY <1>3, <1>5
  <2>4. <<>> \in Seq(Events)
    OBVIOUS
  <2>5. Leads(TRUE, s, <<>>, s)
    BY LeadsNone
  <2>6. s = Dense(u.next, AOpen(u))
    BY <1>2, <1>4, <2>1
  <2> QED
    BY <1>2, <1>3, <2>2, <2>3, <2>4, <2>5, <2>6 DEF u
<1>6. CASE ~st.started
  <2>1. Fresh(st) /\ s = Known("before", {}, {})
    BY <1>6 DEF AState
  <2>2. AOpen(u) = {} /\ u.next = 0 /\ u.tools = <<>> /\ OpenText(u) = {} /\ OpenTools(u) = {}
    BY <1>2, <1>4, <2>1 DEF Fresh, AOpen, OpenText, OpenTools
  <2>3. AOK(u)
    BY <1>2, <2>2 DEF AOK
  <2> DEFINE t == Known("open", {}, {})
  <2>4. Dense(u.next, AOpen(u)) = t
    <3>1. 0 .. 0 - 1 = {} /\ (0 .. 0 - 1) \ {} = {}
      OBVIOUS
    <3> QED
      BY <2>2, <3>1 DEF Dense
  <2>5. Start.e = "start" /\ Start \in Events
    BY DEF Start, Events
  <2>6. Allowed(TRUE, s, Start)
    BY <2>1, <2>5 DEF Allowed, Known
  <2>7. After(s, Start) = t
    BY <2>1, <2>5 DEF After, Known
  <2>8. Leads(TRUE, s, <<Start>>, After(s, Start))
    BY <2>6, LeadsOne
  <2>9. Leads(TRUE, s, <<Start>>, Dense(u.next, AOpen(u)))
    BY <2>4, <2>7, <2>8
  <2>10. <<Start>> \in Seq(Events)
    BY <2>5
  <2>11. Opening(st).out = <<Start>>
    BY <1>3, <1>6
  <2> QED
    BY <1>2, <1>3, <2>3, <2>9, <2>10, <2>11 DEF u
<1> QED
  BY <1>5, <1>6

\* What is said once the message is begun.
Goes(st, s, r) ==
  LET t == Dense(r.st.next, AOpen(r.st))
  IN  /\ r.out \in Seq(Events)
      /\ Leads(TRUE, s, r.out, t)
      /\ AState(r.st, t)
      /\ r.st.started

LEMMA AOnward ==
  ASSUME NEW st, NEW s, AState(st, s), s.stage # "ended",
         NEW x, AOK(x.st), x.st.started, ALeads(Begun(st), x.out, x.st)
  PROVE  Goes(st, s, And(Opening(st), x))
<1> DEFINE u == Begun(st)
           o == Opening(st).out
           t == Dense(x.st.next, AOpen(x.st))
           v == Dense(u.next, AOpen(u))
           r == And(Opening(st), x)
<1>1. o \in Seq(Events) /\ Leads(TRUE, s, o, v)
  BY OpeningOK
<1>2. x.out \in Seq(Events) /\ Leads(TRUE, v, x.out, t)
  BY DEF ALeads
<1>3. r.st = x.st /\ r.out = o \o x.out
  BY DEF And
<1> HIDE DEF t, v, o, r
<1>4. Leads(TRUE, s, o \o x.out, t)
  BY <1>1, <1>2, LeadsOn
<1>5. o \o x.out \in Seq(Events)
  BY <1>1, <1>2
<1>6. AState(x.st, t)
  BY DEF AState, AOK, t
<1> QED
  BY <1>3, <1>4, <1>5, <1>6 DEF Goes, t, r

LEMMA AReasoned ==
  ASSUME NEW st, AOK(st), NEW why \in Reasons
  PROVE  LET u == [st EXCEPT !.reason = why]
         IN  AOK(u) /\ ALeads(st, <<>>, u) /\ u.started = st.started
<1> DEFINE u == [st EXCEPT !.reason = why]
<1>1. st \in ATypes
  BY DEF AOK
<1>2. /\ u \in ATypes /\ u.started = st.started /\ u.next = st.next /\ u.open = st.open
      /\ u.tools = st.tools
  BY <1>1 DEF ATypes
<1> HIDE DEF u
<1>3. AOpen(u) = AOpen(st) /\ OpenText(u) = OpenText(st) /\ OpenTools(u) = OpenTools(st)
  BY <1>2 DEF AOpen, OpenText, OpenTools
<1>4. AOK(u)
  BY <1>2, <1>3 DEF AOK
<1>5. ALeads(st, <<>>, u)
  BY <1>2, <1>3, ALeadsNone
<1> QED
  BY <1>2, <1>4, <1>5 DEF u

\* A tool is served: a search is told, of another the reason is forgotten.
LEMMA AServedOK ==
  ASSUME NEW st, AOK(st), NEW search \in BOOLEAN
  PROVE  LET r == AServed(st, search)
         IN  AOK(r.st) /\ ALeads(st, r.out, r.st) /\ r.st.started = st.started
<1> DEFINE r == AServed(st, search)
           u == [st EXCEPT !.reason = "none"]
<1>1. CASE search
  <2>1. r = AServed(st, TRUE)
    BY <1>1
  <2> QED
    BY <2>1, ASearchOK
<1>2. CASE ~search
  <2>1. r.st = u /\ r.out = <<>>
    BY <1>2 DEF AServed, Step
  <2>2. AOK(u) /\ ALeads(st, <<>>, u) /\ u.started = st.started
    BY AReasoned DEF Reasons
  <2> HIDE DEF u, r
  <2>3. QED
    BY <2>1, <2>2 DEF r
<1> QED
  BY <1>1, <1>2

LEMMA ChunkKinds ==
  ASSUME NEW c \in Chunks
  PROVE  \/ c.t \in {"role", "usage", "error"}
         \/ c.t = "done"
         \/ c.t \in {"text", "think"} /\ c.ps \in Seq(Int)
         \/ c.t = "call" /\ c \in ToolChunks
         \/ c.t = "finish" /\ c.why \in Reasons
BY DEF Chunks, ToolChunks

LEMMA AOnGoes ==
  ASSUME NEW st, NEW s, AState(st, s), s.stage # "ended", NEW c \in Chunks, c.t # "done"
  PROVE  Goes(st, s, AOn(st, c))
<1> DEFINE u == Begun(st)
<1>1. AOK(u) /\ u.started = TRUE
  <2>1. AOK(u) /\ u.started
    BY OpeningOK
  <2>2. u.started \in BOOLEAN
    BY <2>1 DEF AOK, ATypes
  <2> QED
    BY <2>1, <2>2
<1> HIDE DEF u
<1>2. TEXT \in Int /\ THINK \in Int
  BY DEF TEXT, THINK
<1>3. CASE c.t \in {"role", "usage", "error"}
  <2> DEFINE x == Step(u, <<>>)
  <2>1. x.st = u /\ x.out = <<>>
    BY DEF Step
  <2>2. AOn(st, c) = And(Opening(st), x)
    BY <1>3, AOnOther DEF u
  <2>3. ALeads(u, <<>>, u)
    BY ALeadsNone
  <2> HIDE DEF x
  <2>4. ALeads(Begun(st), x.out, x.st)
    BY <2>1, <2>3 DEF u
  <2> QED
    BY <1>1, <2>1, <2>2, <2>4, AOnward
<1>4. CASE c.t = "text" /\ c.ps \in Seq(Int)
  <2> DEFINE x == AText(u, c.ps, TEXT)
  <2>1. AOK(x.st) /\ ALeads(u, x.out, x.st) /\ x.st.started = u.started
    BY <1>1, <1>2, <1>4, ATextOK
  <2>2. AOn(st, c) = And(Opening(st), x)
    BY <1>4, AOnText DEF u
  <2> HIDE DEF x
  <2>3. ALeads(Begun(st), x.out, x.st)
    BY <2>1 DEF u
  <2> QED
    BY <1>1, <2>1, <2>2, <2>3, AOnward
<1>5. CASE c.t = "think" /\ c.ps \in Seq(Int)
  <2> DEFINE x == AText(u, c.ps, THINK)
  <2>1. AOK(x.st) /\ ALeads(u, x.out, x.st) /\ x.st.started = u.started
    BY <1>1, <1>2, <1>5, ATextOK
  <2>2. AOn(st, c) = And(Opening(st), x)
    BY <1>5, AOnThink DEF u
  <2> HIDE DEF x
  <2>3. ALeads(Begun(st), x.out, x.st)
    BY <2>1 DEF u
  <2> QED
    BY <1>1, <2>1, <2>2, <2>3, AOnward
<1>6. CASE c.t = "call" /\ c \in ToolChunks
  <2> DEFINE x == ATool(u, c)
  <2>1. AOK(x.st) /\ ALeads(u, x.out, x.st) /\ x.st.started = u.started
    BY <1>1, <1>6, AToolOK
  <2>2. AOn(st, c) = And(Opening(st), x)
    BY <1>6, AOnCall DEF u
  <2> HIDE DEF x
  <2>3. ALeads(Begun(st), x.out, x.st)
    BY <2>1 DEF u
  <2> QED
    BY <1>1, <2>1, <2>2, <2>3, AOnward
<1>7. CASE c.t = "finish" /\ c.why \in Reasons
  <2> DEFINE y == [u EXCEPT !.reason = c.why]
             x == Step(y, <<>>)
  <2>1. AOK(y) /\ ALeads(u, <<>>, y) /\ y.started = u.started
    BY <1>1, <1>7, AReasoned
  <2>2. AOn(st, c) = And(Opening(st), x)
    BY <1>7, AOnFinish DEF u
  <2> HIDE DEF y
  <2>3. x.st = y /\ x.out = <<>>
    BY DEF Step
  <2> HIDE DEF x
  <2>4. ALeads(Begun(st), x.out, x.st) /\ AOK(x.st) /\ x.st.started
    BY <1>1, <2>1, <2>3 DEF u
  <2> QED
    BY <2>2, <2>4, AOnward
<1> QED
  BY <1>3, <1>4, <1>5, <1>6, <1>7, ChunkKinds

\* What a step of the translator leads to.
AGoes(st, s, c, r, t) ==
  /\ r.out \in Seq(Events)
  /\ Leads(TRUE, s, r.out, t)
  /\ AState(r.st, t)
  /\ t.stage = "ended" => s.stage = "ended" \/ c.t = "done"
  /\ c.t # "done" => r.st.started

LEMMA AOnOK ==
  ASSUME NEW st, NEW s, AState(st, s), NEW c \in Chunks, s.stage = "ended" => c.t = "done"
  PROVE  \E t : AGoes(st, s, c, AOn(st, c), t)
<1> DEFINE r == AOn(st, c)
<1>1. CASE c.t # "done"
  <2> DEFINE t == Dense(r.st.next, AOpen(r.st))
  <2>1. s.stage # "ended"
    BY <1>1
  <2>2. Goes(st, s, r)
    BY <1>1, <2>1, AOnGoes
  <2> HIDE DEF r
  <2>3. t.stage # "ended"
    BY DEF Dense, Known
  <2>4. AGoes(st, s, c, r, t)
    <3>1. r.out \in Seq(Events) /\ AState(r.st, t) /\ r.st.started
      BY <2>2 DEF Goes
    <3>2. Leads(TRUE, s, r.out, t)
      BY <2>2 DEF Goes
    <3> HIDE DEF t
    <3> QED
      BY <2>3, <3>1, <3>2 DEF AGoes
  <2> QED
    BY <2>4 DEF r
<1>2. CASE c.t = "done"
  <2>1. r = AFinish(st)
    BY <1>2, AOnDone
  <2>2. st \in ATypes
    BY DEF AState
  <2> HIDE DEF r
  <2>3. CASE st.started
    <3>1. AOK(st) /\ s = Dense(st.next, AOpen(st))
      BY <2>3 DEF AState, Fresh
    <3> DEFINE t == Known("ended", 0 .. st.next - 1, 0 .. st.next - 1)
    <3>2. /\ r.out \in Seq(Events) /\ r.st.started = FALSE
          /\ Leads(TRUE, Dense(st.next, AOpen(st)), r.out, t)
      BY <2>1, <2>3, <3>1, AFinishOK
    <3>3. r.st \in ATypes
      BY <2>1, <2>2, <2>3, AFinishTyped
    <3>4. t.stage = "ended"
      BY DEF Known
    <3> HIDE DEF t
    <3>5. Leads(TRUE, s, r.out, t)
      BY <3>1, <3>2
    <3>6. AGoes(st, s, c, r, t)
      BY <1>2, <3>2, <3>3, <3>4, <3>5 DEF AGoes, AState
    <3> QED
      BY <3>6 DEF r
  <2>4. CASE ~st.started
    <3>1. r.st = st /\ r.out = <<>>
      BY <2>1, <2>4 DEF AFinish, Step
    <3>2. <<>> \in Seq(Events)
      OBVIOUS
    <3>3. Leads(TRUE, s, <<>>, s)
      BY LeadsNone
    <3>4. Leads(TRUE, s, r.out, s)
      BY <3>1, <3>3
    <3>5. AGoes(st, s, c, r, s)
      BY <1>2, <3>1, <3>2, <3>4 DEF AGoes
    <3> QED
      BY <3>5 DEF r
  <2> QED
    BY <2>3, <2>4
<1> QED
  BY <1>1, <1>2

\* Chunks of which [DONE] can be the last alone; do they end with it?
LastOnly(cs) == \A n \in 1 .. Len(cs) : cs[n].t = "done" => n = Len(cs)
Ending(cs) == \E n \in 1 .. Len(cs) : cs[n].t = "done"

AToldTo(s, cs, r, t) ==
  /\ r.out \in Seq(Events)
  /\ Leads(TRUE, s, r.out, t)
  /\ AState(r.st, t)
  /\ t.stage = "ended" => s.stage = "ended" \/ Ending(cs)
  /\ cs # <<>> /\ ~Ending(cs) => r.st.started

LEMMA AToldOK ==
  ASSUME route.client = "anthropic", NEW st, NEW s, AState(st, s),
         NEW cs \in Seq(Chunks), LastOnly(cs),
         s.stage = "ended" => \A n \in 1 .. Len(cs) : cs[n].t = "done"
  PROVE  \E t : AToldTo(s, cs, Told(st, cs), t)
<1> DEFINE N == Len(cs)
           Steps == [st : ATypes, out : Seq(Events)]
           Good(n, r, t) == /\ Leads(TRUE, s, r.out, t)
                            /\ AState(r.st, t)
                            /\ t.stage = "ended" => s.stage = "ended" \/ (n > 0 /\ cs[n].t = "done")
                            /\ n > 0 /\ cs[n].t # "done" => r.st.started
           T == [n \in 0 .. N |-> {r \in Steps : \E t : Good(n, r, t)}]
           a == Step(st, <<>>)
           F == [n \in 1 .. N |-> [x \in T[n - 1] |-> And(x, AOn(x.st, cs[n]))]]
           Is(f) == f = [n \in 0 .. N |-> IF n = 0 THEN Step(st, <<>>)
                                          ELSE And(f[n - 1], Translated(f[n - 1].st, cs[n]))]
           fed == CHOOSE f : Is(f)
<1>1. N \in Nat /\ \A n \in 1 .. N : cs[n] \in Chunks
  OBVIOUS
<1>2. a \in T[0]
  <2>1. a \in Steps /\ a.st = st /\ a.out = <<>>
    <3>1. <<>> \in Seq(Events) /\ st \in ATypes
      BY DEF AState
    <3> QED
      BY <3>1 DEF Step
  <2> HIDE DEF a, Steps
  <2>2. Leads(TRUE, s, <<>>, s)
    BY LeadsNone
  <2>3. Good(0, a, s)
    <3>1. Leads(TRUE, s, a.out, s)
      BY <2>1, <2>2
    <3>2. AState(a.st, s)
      BY <2>1
    <3>3. ~ (0 > 0)
      OBVIOUS
    <3> QED
      BY <3>1, <3>2, <3>3, Zenon
  <2>4. 0 \in 0 .. N
    BY <1>1
  <2> QED
    BY <2>1, <2>3, <2>4
<1>3. ASSUME NEW n \in 1 .. N, NEW x \in T[n - 1] PROVE And(x, AOn(x.st, cs[n])) \in T[n]
  <2> DEFINE c == cs[n]
             y == AOn(x.st, c)
             r == And(x, y)
  <2>1. n - 1 \in 0 .. N /\ n \in 0 .. N /\ n > 0 /\ c \in Chunks /\ ~ (n - 1 = N)
    BY <1>1
  <2>2. x \in Steps /\ \E u : Good(n - 1, x, u)
    BY <2>1
  <2>3. PICK u : Good(n - 1, x, u)
    BY <2>2
  <2>4. u.stage = "ended" => s.stage = "ended"
    <3>1. n - 1 > 0 => n - 1 \in 1 .. N
      BY <1>1
    <3> QED
      BY <2>1, <2>3, <3>1 DEF LastOnly
  <2>5. u.stage = "ended" => c.t = "done"
    BY <2>4
  <2> HIDE DEF c
  <2>6. AState(x.st, u)
    BY <2>3
  <2>7. PICK t : AGoes(x.st, u, c, y, t)
    BY <2>1, <2>5, <2>6, AOnOK
  <2> HIDE DEF y
  <2>8. y.out \in Seq(Events) /\ AState(y.st, t)
    BY <2>7 DEF AGoes
  <2>9. r.st = y.st /\ r.out = x.out \o y.out
    BY DEF And
  <2>10. r \in Steps
    <3>1. x.out \in Seq(Events)
      BY <2>2
    <3>2. x.out \o y.out \in Seq(Events)
      BY <2>8, <3>1
    <3>3. y.st \in ATypes
      BY <2>8 DEF AState
    <3> QED
      BY <3>2, <3>3 DEF And
  <2>11. Leads(TRUE, s, r.out, t)
    <3>1. Leads(TRUE, s, x.out, u)
      BY <2>3
    <3>2. Leads(TRUE, u, y.out, t)
      BY <2>7 DEF AGoes
    <3>3. x.out \in Seq(Events)
      BY <2>2
    <3>4. Leads(TRUE, s, x.out \o y.out, t)
      BY <2>8, <3>1, <3>2, <3>3, LeadsOn
    <3> QED
      BY <2>9, <3>4
  <2>12. t.stage = "ended" => s.stage = "ended" \/ c.t = "done"
    BY <2>4, <2>7 DEF AGoes
  <2>13. c.t # "done" => y.st.started
    BY <2>7 DEF AGoes
  <2> HIDE DEF r, Steps
  <2>14. Good(n, r, t)
    <3>1. AState(r.st, t) /\ (c.t # "done" => r.st.started)
      BY <2>8, <2>9, <2>13
    <3> QED
      BY <2>1, <2>11, <2>12, <3>1, Zenon DEF c
  <2>15. r \in T[n]
    BY <2>1, <2>10, <2>14
  <2> QED
    BY <2>15 DEF r, y, c
<1> HIDE DEF Steps, Good, a, Is
<1>4. \A n \in 1 .. N : \A x \in T[n - 1] : F[n][x] \in T[n]
  BY <1>3
<1>5. PICK f : Unfolds(f, N, a, F) /\ \A n \in 0 .. N : f[n] \in T[n]
  <2> HIDE DEF T, F, N
  <2>1. N \in Nat
    BY <1>1
  <2> QED
    BY <1>2, <1>4, <2>1, Recursion
<1>6. \A x : \A c : Translated(x, c) = AOn(x, c)
  BY Zenon DEF Translated
<1>7. Is(f)
  <2> DEFINE h == [n \in 0 .. N |-> IF n = 0 THEN Step(st, <<>>)
                                    ELSE And(f[n - 1], Translated(f[n - 1].st, cs[n]))]
  <2>1. ASSUME NEW n \in 0 .. N PROVE f[n] = h[n]
    <3>1. f[n] = IF n = 0 THEN a ELSE F[n][f[n - 1]]
      <4> HIDE DEF F
      <4> QED
        BY <1>5 DEF Unfolds
    <3>2. CASE n = 0
      BY <3>1, <3>2 DEF a
    <3>3. CASE n # 0
      <4>1. n \in 1 .. N /\ n - 1 \in 0 .. N
        BY <1>1, <3>3
      <4>2. f[n - 1] \in T[n - 1]
        BY <1>5, <4>1
      <4> HIDE DEF T
      <4>3. F[n][f[n - 1]] = And(f[n - 1], AOn(f[n - 1].st, cs[n]))
        BY <4>1, <4>2
      <4> HIDE DEF F
      <4>4. f[n] = And(f[n - 1], AOn(f[n - 1].st, cs[n]))
        BY <3>1, <3>3, <4>3
      <4> QED
        BY <1>6, <3>3, <4>4
    <3> QED
      BY <3>2, <3>3
  <2>2. f = [n \in 0 .. N |-> f[n]]
    <3> HIDE DEF F, T
    <3> QED
      BY <1>5 DEF Unfolds
  <2>3. h = [n \in 0 .. N |-> h[n]]
    OBVIOUS
  <2> HIDE DEF h
  <2>4. f = h
    BY <2>1, <2>2, <2>3, SameFunction
  <2> QED
    BY <2>4 DEF Is, h
<1>8. Is(fed)
  BY <1>7
<1>9. Told(st, cs) = fed[N]
  BY DEF Told, Fed, Is
<1> HIDE DEF fed
<1>10. \A n \in 0 .. N : fed[n] = IF n = 0 THEN a ELSE And(fed[n - 1], Translated(fed[n - 1].st, cs[n]))
  BY <1>8 DEF Is, a
<1>11. fed[N] \in T[N]
  <2> DEFINE S == {n \in 0 .. N : fed[n] \in T[n]}
  <2>1. 0 \in S
    <3>1. 0 \in 0 .. N
      BY <1>1
    <3> QED
      BY <1>2, <1>10, <3>1
  <2>2. ASSUME NEW n \in 1 .. N, n - 1 \in S PROVE n \in S
    <3>1. n \in 0 .. N /\ n # 0 /\ fed[n - 1] \in T[n - 1]
      BY <1>1, <2>2
    <3>2. fed[n] = And(fed[n - 1], AOn(fed[n - 1].st, cs[n]))
      BY <1>6, <1>10, <3>1
    <3>3. And(fed[n - 1], AOn(fed[n - 1].st, cs[n])) \in T[n]
      BY <1>3, <3>1
    <3> QED
      BY <3>1, <3>2, <3>3
  <2> HIDE DEF S, T
  <2>3. 0 .. N \subseteq S
    BY <1>1, <2>1, <2>2, UpTo
  <2>4. N \in S
    BY <1>1, <2>3
  <2> QED
    BY <2>4 DEF S
<1>12. fed[N] \in Steps /\ \E t : Good(N, fed[N], t)
  BY <1>1, <1>11
<1>13. PICK t : Good(N, fed[N], t)
  BY <1>12
<1>14. AToldTo(s, cs, fed[N], t)
  <2> DEFINE r == fed[N]
  <2>1. r.out \in Seq(Events)
    BY <1>12 DEF Steps
  <2>2. Leads(TRUE, s, r.out, t)
    BY <1>13 DEF Good
  <2>3. AState(r.st, t)
    BY <1>13 DEF Good
  <2>4. /\ t.stage = "ended" => s.stage = "ended" \/ (N > 0 /\ cs[N].t = "done")
        /\ N > 0 /\ cs[N].t # "done" => r.st.started
    BY <1>13 DEF Good
  <2>5. N > 0 => N \in 1 .. N
    BY <1>1
  <2>6. cs # <<>> => N > 0
    OBVIOUS
  <2> HIDE DEF r, N
  <2>7. t.stage = "ended" => s.stage = "ended" \/ Ending(cs)
    BY <2>4, <2>5 DEF Ending, N
  <2>8. cs # <<>> /\ ~Ending(cs) => r.st.started
    BY <2>4, <2>5, <2>6 DEF Ending, N
  <2>9. AToldTo(s, cs, r, t)
    BY <2>1, <2>2, <2>3, <2>7, <2>8 DEF AToldTo
  <2> QED
    BY <2>9 DEF r
<1> QED
  BY <1>9, <1>14

\* What keeps to the sets T[n] step by step ends in the last.
LEMMA RelayedIn ==
  ASSUME NEW st, NEW cs \in Seq(Chunks),
         NEW T, Step(st, <<>>) \in T[0],
         \A n \in 1 .. Len(cs) : \A x \in T[n - 1] : And(x, Passed(x.st, cs[n])) \in T[n]
  PROVE  Relayed(st, cs) \in T[Len(cs)]
<1> DEFINE N == Len(cs)
           a == Step(st, <<>>)
           F == [n \in 1 .. N |-> [x \in T[n - 1] |-> And(x, Passed(x.st, cs[n]))]]
           Is(f) == f = [n \in 0 .. N |-> IF n = 0 THEN Step(st, <<>>) ELSE And(f[n - 1], Passed(f[n - 1].st, cs[n]))]
           fed == CHOOSE f : Is(f)
<1>1. N \in Nat
  OBVIOUS
<1>2. \A n \in 1 .. N : \A x \in T[n - 1] : F[n][x] = And(x, Passed(x.st, cs[n]))
  OBVIOUS
<1>3. \A n \in 1 .. N : \A x \in T[n - 1] : F[n][x] \in T[n]
  <2> HIDE DEF F
  <2> QED
    BY <1>2
<1> HIDE DEF F, a, Is, N
<1>4. PICK f : Unfolds(f, N, a, F) /\ \A n \in 0 .. N : f[n] \in T[n]
  <2>1. a \in T[0]
    BY DEF a
  <2> QED
    BY <1>1, <1>3, <2>1, Recursion
<1>5. Is(f)
  <2> DEFINE h == [n \in 0 .. N |-> IF n = 0 THEN Step(st, <<>>) ELSE And(f[n - 1], Passed(f[n - 1].st, cs[n]))]
  <2>1. ASSUME NEW n \in 0 .. N PROVE f[n] = h[n]
    <3>1. f[n] = IF n = 0 THEN a ELSE F[n][f[n - 1]]
      BY <1>4 DEF Unfolds
    <3>2. CASE n = 0
      BY <3>1, <3>2 DEF a
    <3>3. CASE n # 0
      <4>1. n \in 1 .. N /\ n - 1 \in 0 .. N
        BY <1>1, <3>3
      <4>2. f[n - 1] \in T[n - 1]
        BY <1>4, <4>1
      <4>3. F[n][f[n - 1]] = And(f[n - 1], Passed(f[n - 1].st, cs[n]))
        BY <1>2, <4>1, <4>2
      <4> QED
        BY <3>1, <3>3, <4>3
    <3> QED
      BY <3>2, <3>3
  <2>2. f = [n \in 0 .. N |-> f[n]]
    BY <1>4 DEF Unfolds
  <2>3. h = [n \in 0 .. N |-> h[n]]
    OBVIOUS
  <2> HIDE DEF h
  <2>4. f = h
    BY <2>1, <2>2, <2>3, SameFunction
  <2> QED
    BY <2>4 DEF Is, h
<1>6. Is(fed)
  BY <1>5
<1>7. Relayed(st, cs) = fed[N]
  BY DEF Relayed, Fed, Is, N
<1> HIDE DEF fed
<1>8. \A n \in 0 .. N : fed[n] = IF n = 0 THEN a ELSE And(fed[n - 1], Passed(fed[n - 1].st, cs[n]))
  BY <1>6 DEF Is, a
<1>9. fed[N] \in T[N]
  <2> DEFINE S == {n \in 0 .. N : fed[n] \in T[n]}
  <2>1. 0 \in S
    <3>1. 0 \in 0 .. N /\ a \in T[0]
      BY <1>1 DEF a
    <3> QED
      BY <1>8, <3>1
  <2>2. ASSUME NEW n \in 1 .. N, n - 1 \in S PROVE n \in S
    <3>1. n \in 0 .. N /\ n # 0 /\ fed[n - 1] \in T[n - 1]
      BY <1>1, <2>2
    <3>2. fed[n] = And(fed[n - 1], Passed(fed[n - 1].st, cs[n]))
      BY <1>8, <3>1
    <3>3. And(fed[n - 1], Passed(fed[n - 1].st, cs[n])) \in T[n]
      BY <3>1 DEF N
    <3> QED
      BY <3>1, <3>2, <3>3
  <2> HIDE DEF S
  <2>3. 0 .. N \subseteq S
    BY <1>1, <2>1, <2>2, UpTo
  <2>4. N \in S
    BY <1>1, <2>3
  <2> QED
    BY <2>4 DEF S
<1> QED
  BY <1>7, <1>9 DEF N

LEMMA Extended ==
  ASSUME NEW cs \in Seq(Chunks), NEW ds \in Seq(Chunks), ~Ending(cs), LastOnly(ds)
  PROVE  /\ cs \o ds \in Seq(Chunks)
         /\ LastOnly(cs \o ds)
         /\ Ending(cs \o ds) => Ending(ds)
<1> DEFINE w == cs \o ds
           K == Len(cs)
           L == Len(ds)
<1>1. /\ w \in Seq(Chunks) /\ K \in Nat /\ L \in Nat /\ Len(w) = K + L
      /\ \A n \in 1 .. K : w[n] = cs[n]
      /\ \A n \in 1 .. L : w[K + n] = ds[n]
  BY Joined
<1> HIDE DEF w
<1>2. \A n \in 1 .. K : w[n].t # "done"
  BY <1>1 DEF Ending
<1>3. ASSUME NEW n \in 1 .. K + L, w[n].t = "done"
      PROVE  n = K + L /\ Ending(ds)
  <2>1. n \notin 1 .. K
    BY <1>2, <1>3
  <2> DEFINE m == n - K
  <2>2. m \in 1 .. L /\ n = K + m
    BY <1>1, <2>1
  <2> HIDE DEF m
  <2>3. ds[m].t = "done"
    BY <1>1, <1>3, <2>2
  <2>4. m = L
    BY <2>2, <2>3 DEF LastOnly
  <2> QED
    BY <2>2, <2>3, <2>4 DEF Ending
<1> HIDE DEF K, L
<1>4. LastOnly(w) /\ (Ending(w) => Ending(ds))
  BY <1>1, <1>3 DEF LastOnly, Ending
<1> QED
  BY <1>1, <1>4 DEF w

RelayTypes == [done : BOOLEAN, terminated : BOOLEAN]

LEMMA PassedNone ==
  ASSUME NEW r, NEW c, r.terminated PROVE Passed(r, c) = Step(r, <<>>)
BY Zenon DEF Passed

LEMMA PassedDone ==
  ASSUME route.client = "anthropic", NEW r, NEW c, ~r.terminated, c.t = "done"
  PROVE  Passed(r, c) = Step([r EXCEPT !.terminated = TRUE], <<c>>)
BY Zenon DEF Passed

LEMMA PassedOther ==
  ASSUME route.client = "anthropic", NEW r, NEW c, ~r.terminated, c.t # "done"
  PROVE  Passed(r, c) = Step(r, <<c>>)
BY Zenon DEF Passed

LEMMA SinglesOK ==
  ASSUME NEW c \in Chunks
  PROVE  <<c>> \in Seq(Chunks) /\ LastOnly(<<c>>) /\ (Ending(<<c>>) => c.t = "done")
<1>1. <<c>> \in Seq(Chunks) /\ Len(<<c>>) = 1 /\ <<c>>[1] = c
  OBVIOUS
<1>2. \A n \in 1 .. 1 : n = 1
  OBVIOUS
<1> QED
  BY <1>1, <1>2 DEF LastOnly, Ending

\* Nothing passes the relay behind [DONE].
LEMMA ARelayedOK ==
  ASSUME route.client = "anthropic", NEW r \in RelayTypes, ~r.terminated, NEW cs \in Seq(Chunks)
  PROVE  LET x == Relayed(r, cs)
         IN  /\ x.st \in RelayTypes
             /\ x.out \in Seq(Chunks)
             /\ LastOnly(x.out)
             /\ Ending(x.out) => x.st.terminated
             /\ x.st.terminated => Ending(cs)
<1> DEFINE N == Len(cs)
           Steps == [st : RelayTypes, out : Seq(Chunks)]
           Good(n, x) == /\ LastOnly(x.out)
                         /\ Ending(x.out) => x.st.terminated
                         /\ x.st.terminated => \E j \in 1 .. n : cs[j].t = "done"
           T == [n \in 0 .. N |-> {x \in Steps : Good(n, x)}]
           a == Step(r, <<>>)
<1>1. N \in Nat /\ \A n \in 1 .. N : cs[n] \in Chunks
  OBVIOUS
<1>2. a \in T[0]
  <2>1. <<>> \in Seq(Chunks) /\ LastOnly(<<>>) /\ ~Ending(<<>>)
    BY DEF LastOnly, Ending
  <2>2. a \in Steps /\ a.st = r /\ a.out = <<>>
    BY <2>1 DEF Step
  <2> HIDE DEF a, Steps
  <2>3. Good(0, a)
    BY <2>1, <2>2
  <2>4. 0 \in 0 .. N
    BY <1>1
  <2> QED
    BY <2>2, <2>3, <2>4
<1>3. ASSUME NEW n \in 1 .. N, NEW x \in T[n - 1] PROVE And(x, Passed(x.st, cs[n])) \in T[n]
  <2> DEFINE c == cs[n]
             y == Passed(x.st, c)
             z == And(x, y)
  <2>1. n - 1 \in 0 .. N /\ n \in 0 .. N /\ c \in Chunks
    BY <1>1
  <2>2. x \in Steps /\ Good(n - 1, x)
    BY <2>1
  <2>3. x.st \in RelayTypes /\ x.out \in Seq(Chunks)
    BY <2>2
  <2>4. z.st = y.st /\ z.out = x.out \o y.out
    BY DEF And
  <2>5. /\ LastOnly(x.out)
        /\ Ending(x.out) => x.st.terminated
        /\ x.st.terminated => \E j \in 1 .. n - 1 : cs[j].t = "done"
    BY <2>2
  <2>6. 1 .. n - 1 \subseteq 1 .. n /\ n \in 1 .. n
    BY <1>1
  <2>7. z = [st |-> y.st, out |-> x.out \o y.out]
    BY DEF And
  <2> HIDE DEF c, y, z, Steps, Good
  <2>8. /\ y.st \in RelayTypes /\ x.out \o y.out \in Seq(Chunks) /\ LastOnly(x.out \o y.out)
        /\ Ending(x.out \o y.out) => y.st.terminated
        /\ y.st.terminated => \E j \in 1 .. n : cs[j].t = "done"
    <3>1. CASE x.st.terminated
      <4>1. y.st = x.st /\ y.out = <<>>
        BY <3>1, PassedNone DEF y, Step
      <4>2. x.out \o <<>> = x.out
        BY <2>3
      <4> QED
        BY <2>3, <2>5, <2>6, <3>1, <4>1, <4>2
    <3>2. CASE ~x.st.terminated /\ c.t = "done"
      <4>1. y.st = [x.st EXCEPT !.terminated = TRUE] /\ y.out = <<c>>
        <5> DEFINE e == [x.st EXCEPT !.terminated = TRUE]
        <5>1. y = Step(e, <<c>>)
          BY <3>2, PassedDone DEF y
        <5> HIDE DEF e
        <5>2. y.st = e /\ y.out = <<c>>
          BY <5>1 DEF Step
        <5> QED
          BY <5>2 DEF e
      <4>2. y.st \in RelayTypes /\ y.st.terminated = TRUE
        BY <2>3, <4>1 DEF RelayTypes
      <4>3. y.out \in Seq(Chunks) /\ LastOnly(y.out)
        BY <2>1, <4>1, SinglesOK
      <4>4. x.out \o y.out \in Seq(Chunks) /\ LastOnly(x.out \o y.out)
        BY <2>3, <2>5, <3>2, <4>3, Extended
      <4>5. \E j \in 1 .. n : cs[j].t = "done"
        BY <2>6, <3>2 DEF c
      <4> QED
        BY <4>2, <4>4, <4>5
    <3>3. CASE ~x.st.terminated /\ c.t # "done"
      <4>1. y.st = x.st /\ y.out = <<c>>
        BY <3>3, PassedOther DEF y, Step
      <4>2. y.out \in Seq(Chunks) /\ LastOnly(y.out) /\ ~Ending(y.out)
        BY <2>1, <3>3, <4>1, SinglesOK
      <4>3. x.out \o y.out \in Seq(Chunks) /\ LastOnly(x.out \o y.out) /\ ~Ending(x.out \o y.out)
        BY <2>3, <2>5, <3>3, <4>2, Extended
      <4> QED
        BY <2>3, <3>3, <4>1, <4>3
    <3> QED
      BY <3>1, <3>2, <3>3
  <2>9. z \in Steps
    BY <2>7, <2>8 DEF Steps
  <2>10. Good(n, z)
    BY <2>4, <2>8 DEF Good
  <2>11. z \in T[n]
    BY <2>1, <2>9, <2>10
  <2> QED
    BY <2>11 DEF z, y, c
<1> DEFINE x == Relayed(r, cs)
<1>4. x \in T[N]
  <2> HIDE DEF T
  <2> QED
    BY <1>2, <1>3, RelayedIn
<1> HIDE DEF x
<1>5. x \in Steps /\ Good(N, x)
  BY <1>1, <1>4
<1>6. x.st.terminated => Ending(cs)
  BY <1>5 DEF Ending
<1> QED
  BY <1>5, <1>6 DEF x

-----------------------------------------------------------------------------
(* From an upstream's events to chunks: the translator of the Responses    *)
(* API, and the filters of a text.                                         *)

GTypes == [tools : UNION {[D -> Nat] : D \in SUBSET Calls}, streamed : BOOLEAN, done : BOOLEAN]

UpEvents ==
  [e : {"start", "fault"}]
    \cup [e : {"open"}, i : Calls, what : Calls]
    \cup [e : {"piece"}, i : Nat, what : Int, ps : Seq(Int)]
    \cup [e : {"close"}, i : Nat, what : {THINK}, ps : Seq(Int)]
    \cup [e : {"end"}, why : {"completed", "max_output_tokens", "content_filter"}]

\* The chunks a step writes: [DONE] is the last, and only if it may be there.
Tells(cs, may) == cs \in Seq(Chunks) /\ LastOnly(cs) /\ (Ending(cs) => may)

LEMMA TellsNone == ASSUME NEW may PROVE Tells(<<>>, may)
<1>1. <<>> \in Seq(Chunks) /\ LastOnly(<<>>) /\ ~Ending(<<>>)
  BY DEF LastOnly, Ending
<1> QED
  BY <1>1 DEF Tells

LEMMA TellsOne ==
  ASSUME NEW c \in Chunks, NEW may, c.t = "done" => may
  PROVE  Tells(<<c>>, may)
BY SinglesOK DEF Tells

LEMMA TellsOn ==
  ASSUME NEW cs, NEW ds, NEW may, Tells(cs, FALSE), Tells(ds, may)
  PROVE  Tells(cs \o ds, may)
<1>1. cs \in Seq(Chunks) /\ ds \in Seq(Chunks) /\ ~Ending(cs) /\ LastOnly(ds) /\ (Ending(ds) => may)
  BY DEF Tells
<1>2. cs \o ds \in Seq(Chunks) /\ LastOnly(cs \o ds) /\ (Ending(cs \o ds) => Ending(ds))
  BY <1>1, Extended
<1> QED
  BY <1>1, <1>2 DEF Tells

LEMMA BareChunks ==
  /\ Role \in Chunks /\ Usage \in Chunks /\ Error \in Chunks /\ Done \in Chunks
  /\ Role.t = "role" /\ Usage.t = "usage" /\ Error.t = "error" /\ Done.t = "done"
BY DEF Role, Usage, Error, Done, Chunks

LEMMA SaidChunks ==
  ASSUME NEW ps \in Seq(Int)
  PROVE  Text(ps) \in Chunks /\ Think(ps) \in Chunks /\ Text(ps).t = "text" /\ Think(ps).t = "think"
BY DEF Text, Think, Chunks

LEMMA CallChunks ==
  ASSUME NEW i \in Nat, NEW id \in Int, NEW name \in Int, NEW ps \in Seq(Int)
  PROVE  Call(i, id, name, ps) \in Chunks /\ Call(i, id, name, ps).t = "call"
BY DEF Call, Chunks

LEMMA FinishChunks ==
  ASSUME NEW why \in Reasons
  PROVE  Finish(why) \in Chunks /\ Finish(why).t = "finish"
BY DEF Finish, Chunks

\* The chat index of a call that begins.
LEMMA FreshIndex ==
  ASSUME NEW D \in SUBSET Calls, NEW f \in [D -> Nat], D # {}
  PROVE  LET next == {f[i] : i \in D}
         IN  (CHOOSE k \in next : \A j \in next : j <= k) \in Nat
<1> DEFINE next == {f[i] : i \in D}
           S == {n \in 0 .. MaxCalls : \E b \in Nat : \A i \in D : i <= n => f[i] <= b}
<1>1. MaxCalls \in Nat /\ D \subseteq 1 .. MaxCalls
  BY DialectsAssumption DEF Calls
<1>2. 0 \in S
  <2>1. \A i \in D : i <= 0 => f[i] <= 0
    BY <1>1
  <2> QED
    BY <1>1, <2>1
<1>3. ASSUME NEW n \in 1 .. MaxCalls, n - 1 \in S PROVE n \in S
  <2>1. PICK b \in Nat : \A i \in D : i <= n - 1 => f[i] <= b
    BY <1>3
  <2>2. n \in 0 .. MaxCalls
    BY <1>1
  <2>3. CASE n \in D
    <3> DEFINE x == f[n]
    <3>1. x \in Nat
      BY <2>3
    <3> DEFINE m == IF x <= b THEN b ELSE x
    <3> HIDE DEF x
    <3>2. m \in Nat /\ x <= m /\ b <= m
      BY <3>1
    <3> HIDE DEF m
    <3>3. ASSUME NEW i \in D, i <= n PROVE f[i] <= m
      <4>1. i \in Int /\ n \in Int /\ f[i] \in Nat
        BY <1>1
      <4>2. CASE i = n
        BY <3>2, <4>2 DEF x
      <4>3. CASE i # n
        <5>1. f[i] <= b
          BY <2>1, <3>3, <4>1, <4>3
        <5> QED
          BY <3>2, <4>1, <5>1
      <4> QED
        BY <4>2, <4>3
    <3> QED
      BY <2>2, <3>2, <3>3
  <2>4. CASE n \notin D
    <3>1. ASSUME NEW i \in D, i <= n PROVE f[i] <= b
      <4>1. i \in Int /\ i # n
        BY <1>1, <2>4
      <4> QED
        BY <1>1, <2>1, <3>1, <4>1
    <3> QED
      BY <2>2, <3>1
  <2> QED
    BY <2>3, <2>4
<1>4. MaxCalls \in S
  <2> HIDE DEF S
  <2>1. 0 .. MaxCalls \subseteq S
    BY <1>1, <1>2, <1>3, UpTo
  <2> QED
    BY <1>1, <2>1
<1>5. PICK b \in Nat : \A i \in D : i <= MaxCalls => f[i] <= b
  BY <1>4
<1>6. next \in SUBSET (0 .. b) /\ next # {}
  <2>1. \A i \in D : f[i] \in 0 .. b
    <3> TAKE i \in D
    <3>1. i \in Int /\ i <= MaxCalls /\ f[i] \in Nat
      BY <1>1
    <3> QED
      BY <1>5, <3>1
  <2>2. PICK i \in D : TRUE
    OBVIOUS
  <2>3. f[i] \in next
    OBVIOUS
  <2> QED
    BY <2>1, <2>3
<1> HIDE DEF next
<1>7. \E k \in next : \A j \in next : j <= k
  BY <1>6, GreatestExists
<1> DEFINE k == CHOOSE x \in next : \A j \in next : j <= x
<1>8. k \in next
  BY <1>7
<1>9. k \in Nat
  <2> HIDE DEF k
  <2> QED
    BY <1>6, <1>8
<1> QED
  BY <1>9 DEF next

LEMMA GOnOver == ASSUME NEW st, NEW e, st.done PROVE GOn(st, e) = Step(st, <<>>)
BY Zenon DEF GOn

LEMMA GOnStart ==
  ASSUME NEW st, NEW e, ~st.done, e.e = "start" PROVE GOn(st, e) = Step(st, <<Role>>)
BY Zenon DEF GOn

GNumbers(st) == {st.tools[i] : i \in DOMAIN st.tools}
GFreshIndex(st) ==
  IF GNumbers(st) = {} THEN 0
  ELSE 1 + CHOOSE k \in GNumbers(st) : \A j \in GNumbers(st) : j <= k

LEMMA GOnOpen ==
  ASSUME NEW st, NEW e, ~st.done, e.e = "open"
  PROVE  GOn(st, e) =
           Step([st EXCEPT !.tools = [i \in DOMAIN @ \cup {e.i} |-> IF i = e.i THEN GFreshIndex(st) ELSE @[i]]],
                <<Call(GFreshIndex(st), e.what, e.what, <<>>)>>)
BY Zenon DEF GOn, GFreshIndex, GNumbers

LEMMA GOnText ==
  ASSUME NEW st, NEW e, ~st.done, e.e = "piece", e.what = TEXT
  PROVE  GOn(st, e) = Step(st, <<Text(e.ps)>>)
<1>1. e.what # THINK /\ ~(e.what \notin {TEXT, THINK})
  BY DEF TEXT, THINK
<1> QED
  BY <1>1, Zenon DEF GOn

LEMMA GOnThink ==
  ASSUME NEW st, NEW e, ~st.done, e.e = "piece", e.what # TEXT, e.what = THINK
  PROVE  GOn(st, e) = Step([st EXCEPT !.streamed = TRUE], <<Think(e.ps)>>)
BY Zenon DEF GOn

LEMMA GOnArgs ==
  ASSUME NEW st, NEW e, ~st.done, e.e = "piece", e.what # TEXT, e.what # THINK
  PROVE  GOn(st, e) =
           Step(st, IF e.i \in DOMAIN st.tools THEN <<Call(GIndex(st, e.i), 0, 0, e.ps)>> ELSE <<>>)
<1>1. e.what \notin {TEXT, THINK}
  OBVIOUS
<1> QED
  BY <1>1, Zenon DEF GOn

LEMMA GOnClose ==
  ASSUME NEW st, NEW e, ~st.done, e.e = "close"
  PROVE  GOn(st, e) =
           Step(st, IF e.what = THINK /\ GRetells(st) /\ e.ps # <<>> THEN <<Think(e.ps)>> ELSE <<>>)
BY Zenon DEF GOn

LEMMA GOnEnd ==
  ASSUME NEW st, NEW e, ~st.done, e.e = "end"
  PROVE  GOn(st, e) =
           Step([st EXCEPT !.done = TRUE],
                <<Finish(GReason(e.why, DOMAIN st.tools # {})), Usage, Done>>)
BY Zenon DEF GOn

LEMMA GOnFault ==
  ASSUME NEW st, NEW e, ~st.done, e.e = "fault"
  PROVE  GOn(st, e) = Step([st EXCEPT !.done = TRUE], <<Error>>)
BY Zenon DEF GOn

LEMMA GFreshNat ==
  ASSUME NEW st \in GTypes
  PROVE  GFreshIndex(st) \in Nat
<1>1. PICK D \in SUBSET Calls : st.tools \in [D -> Nat]
  BY DEF GTypes
<1>2. DOMAIN st.tools = D
  BY <1>1
<1> DEFINE f == st.tools
<1> HIDE DEF f
<1>3. GNumbers(st) = {f[i] : i \in D}
  BY <1>2 DEF GNumbers, f
<1>4. f \in [D -> Nat]
  BY <1>1 DEF f
<1>5. CASE D = {}
  <2>1. GNumbers(st) = {}
    BY <1>3, <1>5
  <2> QED
    BY <2>1 DEF GFreshIndex
<1>6. CASE D # {}
  <2> DEFINE next == {f[i] : i \in D}
             k == CHOOSE x \in next : \A j \in next : j <= x
  <2>1. k \in Nat
    BY <1>4, <1>6, FreshIndex
  <2>2. next # {}
    BY <1>6
  <2>3. GFreshIndex(st) = 1 + k
    BY <1>3, <2>2 DEF GFreshIndex
  <2> HIDE DEF k
  <2> QED
    BY <2>1, <2>3
<1> QED
  BY <1>5, <1>6

\* What this translator tells, and that its state stays well formed.
GTells(r, may) == r.st \in GTypes /\ Tells(r.out, may)

LEMMA GStep ==
  ASSUME NEW st \in GTypes, NEW cs, NEW may, Tells(cs, may)
  PROVE  GTells(Step(st, cs), may)
BY DEF GTells, Step

LEMMA Three ==
  ASSUME NEW a \in Chunks, NEW b \in Chunks, NEW c \in Chunks, a.t # "done", b.t # "done"
  PROVE  Tells(<<a, b, c>>, TRUE)
<1> DEFINE w == <<a, b, c>>
<1>1. w \in Seq(Chunks) /\ Len(w) = 3 /\ w[1] = a /\ w[2] = b /\ w[3] = c
  OBVIOUS
<1> HIDE DEF w
<1>2. \A n \in 1 .. 3 : n = 1 \/ n = 2 \/ n = 3
  OBVIOUS
<1>3. LastOnly(w)
  BY <1>1, <1>2 DEF LastOnly
<1> QED
  BY <1>1, <1>3 DEF Tells, w

LEMMA GEventKinds ==
  ASSUME NEW e \in UpEvents
  PROVE  \/ e.e = "start"
         \/ e.e = "fault"
         \/ e.e = "open" /\ e.i \in Calls /\ e.what \in Calls
         \/ e.e = "piece" /\ e.i \in Nat /\ e.what \in Int /\ e.ps \in Seq(Int)
         \/ e.e = "close" /\ e.what = THINK /\ e.ps \in Seq(Int)
         \/ e.e = "end"
BY DEF UpEvents

LEMMA GOnOK ==
  ASSUME NEW st \in GTypes, NEW e \in UpEvents
  PROVE  GTells(GOn(st, e), e.e = "end")
<1>1. st.done \in BOOLEAN
  BY DEF GTypes
<1>2. CASE st.done
  BY <1>2, GOnOver, GStep, TellsNone
<1>3. CASE ~st.done /\ e.e = "start"
  <2>1. Tells(<<Role>>, e.e = "end")
    <3>1. Role \in Chunks /\ Role.t # "done"
      BY BareChunks
    <3> QED
      BY <3>1, TellsOne
  <2>2. GTells(Step(st, <<Role>>), e.e = "end")
    BY <2>1, GStep
  <2> QED
    BY <1>3, <2>2, GOnStart
<1>4. CASE ~st.done /\ e.e = "fault"
  <2> DEFINE u == [st EXCEPT !.done = TRUE]
  <2>1. Tells(<<Error>>, e.e = "end")
    <3>1. Error \in Chunks /\ Error.t # "done"
      BY BareChunks
    <3> QED
      BY <3>1, TellsOne
  <2>2. u \in GTypes
    BY DEF GTypes
  <2>3. GOn(st, e) = Step(u, <<Error>>)
    BY <1>4, GOnFault
  <2> HIDE DEF u
  <2>4. GTells(Step(u, <<Error>>), e.e = "end")
    BY <2>1, <2>2, GStep
  <2> QED
    BY <2>3, <2>4
<1>5. CASE ~st.done /\ e.e = "open" /\ e.i \in Calls /\ e.what \in Calls
  <2> DEFINE x == GFreshIndex(st)
             s == [i \in DOMAIN st.tools \cup {e.i} |-> IF i = e.i THEN x ELSE st.tools[i]]
             u == [st EXCEPT !.tools = s]
             out2 == <<Call(x, e.what, e.what, <<>>)>>
  <2>1. x \in Nat
    BY GFreshNat
  <2>2. GOn(st, e) = Step(u, out2)
    BY <1>5, GOnOpen
  <2> HIDE DEF x
  <2>3. PICK D \in SUBSET Calls : st.tools \in [D -> Nat]
    BY DEF GTypes
  <2>4. D \cup {e.i} \in SUBSET Calls /\ s \in [D \cup {e.i} -> Nat]
    BY <1>5, <2>1, <2>3
  <2>5. s \in UNION {[C -> Nat] : C \in SUBSET Calls}
    BY <2>4
  <2> HIDE DEF s
  <2>6. u \in GTypes
    BY <2>5 DEF GTypes
  <2>7. Tells(out2, e.e = "end")
    <3> DEFINE c == Call(x, e.what, e.what, <<>>)
    <3>1. e.what \in Int /\ <<>> \in Seq(Int)
      BY <1>5, DialectsAssumption DEF Calls
    <3>2. c \in Chunks /\ c.t # "done"
      BY <2>1, <3>1, CallChunks
    <3> HIDE DEF c
    <3>3. Tells(<<c>>, e.e = "end")
      BY <3>2, TellsOne
    <3> QED
      BY <3>3 DEF c
  <2> HIDE DEF u, out2
  <2>8. GTells(Step(u, out2), e.e = "end")
    BY <2>6, <2>7, GStep
  <2> QED
    BY <2>2, <2>8
<1>6. CASE ~st.done /\ e.e = "piece" /\ e.i \in Nat /\ e.what \in Int /\ e.ps \in Seq(Int)
  <2>1. CASE e.what = TEXT
    <3>1. Text(e.ps) \in Chunks /\ Text(e.ps).t # "done"
      BY <1>6, SaidChunks
    <3>2. Tells(<<Text(e.ps)>>, e.e = "end")
      BY <3>1, TellsOne
    <3>3. GTells(Step(st, <<Text(e.ps)>>), e.e = "end")
      BY <3>2, GStep
    <3> QED
      BY <1>6, <2>1, <3>3, GOnText
  <2>2. CASE e.what # TEXT /\ e.what = THINK
    <3> DEFINE u == [st EXCEPT !.streamed = TRUE]
    <3>1. Think(e.ps) \in Chunks /\ Think(e.ps).t # "done"
      BY <1>6, SaidChunks
    <3>2. Tells(<<Think(e.ps)>>, e.e = "end")
      BY <3>1, TellsOne
    <3>3. u \in GTypes
      BY DEF GTypes
    <3>4. GOn(st, e) = Step(u, <<Think(e.ps)>>)
      BY <1>6, <2>2, GOnThink
    <3> HIDE DEF u
    <3>5. GTells(Step(u, <<Think(e.ps)>>), e.e = "end")
      BY <3>2, <3>3, GStep
    <3> QED
      BY <3>4, <3>5
  <2>3. CASE e.what # TEXT /\ e.what # THINK
    <3> DEFINE c == Call(GIndex(st, e.i), 0, 0, e.ps)
               out2 == IF e.i \in DOMAIN st.tools THEN <<c>> ELSE <<>>
    <3>1. GOn(st, e) = Step(st, out2)
      BY <1>6, <2>3, GOnArgs
    <3>2. Tells(out2, e.e = "end")
      <4>1. CASE e.i \in DOMAIN st.tools
        <5>1. PICK D \in SUBSET Calls : st.tools \in [D -> Nat]
          BY DEF GTypes
        <5>2. GIndex(st, e.i) \in Nat /\ 0 \in Int
          BY <4>1, <5>1 DEF GIndex
        <5>3. c \in Chunks /\ c.t # "done"
          BY <1>6, <5>2, CallChunks
        <5> HIDE DEF c
        <5>4. Tells(<<c>>, e.e = "end")
          BY <5>3, TellsOne
        <5> QED
          BY <4>1, <5>4
      <4>2. CASE e.i \notin DOMAIN st.tools
        BY <4>2, TellsNone
      <4> QED
        BY <4>1, <4>2
    <3> HIDE DEF out2
    <3>3. GTells(Step(st, out2), e.e = "end")
      BY <3>2, GStep
    <3> QED
      BY <3>1, <3>3
  <2> QED
    BY <2>1, <2>2, <2>3
<1>7. CASE ~st.done /\ e.e = "close" /\ e.what = THINK /\ e.ps \in Seq(Int)
  <2> DEFINE out2 == IF e.what = THINK /\ GRetells(st) /\ e.ps # <<>> THEN <<Think(e.ps)>> ELSE <<>>
  <2>1. GOn(st, e) = Step(st, out2)
    BY <1>7, GOnClose
  <2>2. Tells(out2, e.e = "end")
    <3>1. Think(e.ps) \in Chunks /\ Think(e.ps).t # "done"
      BY <1>7, SaidChunks
    <3>2. Tells(<<Think(e.ps)>>, e.e = "end")
      BY <3>1, TellsOne
    <3>3. Tells(<<>>, e.e = "end")
      BY TellsNone
    <3> QED
      BY <3>2, <3>3
  <2> HIDE DEF out2
  <2>3. GTells(Step(st, out2), e.e = "end")
    BY <2>2, GStep
  <2> QED
    BY <2>1, <2>3
<1>8. CASE ~st.done /\ e.e = "end"
  <2> DEFINE u == [st EXCEPT !.done = TRUE]
             c == Finish(GReason(e.why, DOMAIN st.tools # {}))
             out2 == <<c, Usage, Done>>
  <2>1. GReason(e.why, DOMAIN st.tools # {}) \in Reasons
    BY DEF GReason, Reasons
  <2>2. c \in Chunks /\ c.t # "done"
    BY <2>1, FinishChunks
  <2>3. GOn(st, e) = Step(u, out2)
    BY <1>8, GOnEnd
  <2>4. u \in GTypes
    BY DEF GTypes
  <2> HIDE DEF u, c
  <2>5. Tells(out2, TRUE)
    <3>1. Usage \in Chunks /\ Done \in Chunks /\ Usage.t # "done"
      BY BareChunks
    <3> QED
      BY <2>2, <3>1, Three
  <2> HIDE DEF out2
  <2>6. Tells(out2, e.e = "end")
    BY <1>8, <2>5
  <2>7. GTells(Step(u, out2), e.e = "end")
    BY <2>4, <2>6, GStep
  <2> QED
    BY <2>3, <2>7
<1> QED
  BY <1>1, <1>2, <1>3, <1>4, <1>5, <1>6, <1>7, <1>8, GEventKinds

-----------------------------------------------------------------------------
(* The filters of a chat upstream's text.                                  *)

ThinkTypes == [inside : BOOLEAN, buf : Seq(Int)]
CallTypes == [inCall : BOOLEAN, buf : Seq(Int), calls : Nat]
SortedTypes == [st : ThinkTypes, think : Seq(Int), text : Seq(Int)]
OpTypes == [call : BOOLEAN, text : Seq(Int)]
CutTypes == [st : CallTypes, out : Seq(OpTypes)]

LEMMA Tags ==
  /\ OpenTag \in Seq(Int) /\ CloseTag \in Seq(Int) /\ Opener \in Seq(Int) /\ <<CLOSER>> \in Seq(Int)
  /\ Len(OpenTag) = 2 /\ Len(CloseTag) = 3 /\ Len(Opener) = 2 /\ Len(<<CLOSER>>) = 1
BY DEF OpenTag, CloseTag, Opener, CLOSER, LT, SLASH, THINKS, CALLS

LEMMA CutSeq ==
  ASSUME NEW S, NEW text \in Seq(S), NEW n \in Nat, n <= Len(text)
  PROVE  Upto(text, n) \in Seq(S) /\ From(text, n + 1) \in Seq(S)
<1>1. n + 1 \in 1 .. Len(text) + 1 /\ 1 \in 1 .. n + 1
  OBVIOUS
<1>2. SubSeq(text, 1, n) \in Seq(S)
  OBVIOUS
<1>3. SubSeq(text, n + 1, Len(text)) \in Seq(S)
  BY <1>1
<1> QED
  BY <1>2, <1>3 DEF Upto, From

\* A tag ends where the text does, or before.
LEMMA AtNumbers ==
  ASSUME NEW text \in Seq(Int), NEW tag, Len(tag) \in Nat, Len(tag) # 0, NEW i \in At(text, tag)
  PROVE  i \in Nat /\ i - 1 \in Nat /\ i - 1 <= Len(text) /\ i + Len(tag) - 1 \in Nat
         /\ i + Len(tag) - 1 <= Len(text) /\ i <= Len(text)
<1>1. i \in 1 .. Len(text) - Len(tag) + 1
  BY DEF At
<1>2. Len(text) \in Nat
  OBVIOUS
<1> QED
  BY <1>1, <1>2

LEMMA PartialOK ==
  ASSUME NEW text \in Seq(Int), NEW tag \in Seq(Int)
  PROVE  Partial(text, tag) \in 0 .. Len(text)
<1> DEFINE S == {0} \cup {k \in 1 .. Len(tag) - 1 :
                            /\ k <= Len(text)
                            /\ SubSeq(text, Len(text) - k + 1, Len(text)) = SubSeq(tag, 1, k)}
<1>1. Len(text) \in Nat /\ Len(tag) \in Nat
  OBVIOUS
<1>2. S \in SUBSET (0 .. Len(text)) /\ S # {}
  BY <1>1
<1>3. Partial(text, tag) = Max(S)
  BY DEF Partial
<1> HIDE DEF S
<1> QED
  BY <1>1, <1>2, <1>3, MaxMember

LEMMA KeptOK ==
  ASSUME NEW inside, NEW buf \in Seq(Int)
  PROVE  Kept(inside, buf) \in 0 .. Len(buf)
<1> DEFINE c == Partial(buf, CloseTag)
           o == Partial(buf, OpenTag)
<1>1. c \in 0 .. Len(buf) /\ o \in 0 .. Len(buf)
  BY PartialOK, Tags
<1>2. Kept(inside, buf) = IF inside THEN c ELSE Max({o, c})
  BY DEF Kept
<1> HIDE DEF c, o
<1>3. Len(buf) \in Nat /\ {o, c} \in SUBSET (0 .. Len(buf)) /\ {o, c} # {}
  BY <1>1
<1>4. Max({o, c}) \in {o, c}
  BY <1>3, MaxMember
<1> QED
  BY <1>1, <1>2, <1>4

LEMMA LetOutOK ==
  ASSUME NEW f \in SortedTypes, NEW thought \in BOOLEAN, NEW n \in Nat, n <= Len(f.st.buf),
         NEW inside \in BOOLEAN, NEW rest \in Seq(Int)
  PROVE  LetOut(f, thought, n, inside, rest) \in SortedTypes
<1>1. f.st \in ThinkTypes /\ f.think \in Seq(Int) /\ f.text \in Seq(Int)
  BY DEF SortedTypes
<1>2. f.st.buf \in Seq(Int)
  BY <1>1 DEF ThinkTypes
<1>3. Upto(f.st.buf, n) \in Seq(Int)
  BY <1>2, CutSeq
<1> DEFINE thinks == IF thought THEN f.think \o Upto(f.st.buf, n) ELSE f.think
           texts == IF thought THEN f.text ELSE f.text \o Upto(f.st.buf, n)
           st == [inside |-> inside, buf |-> rest]
<1>4. thinks \in Seq(Int) /\ texts \in Seq(Int) /\ st \in ThinkTypes
  BY <1>1, <1>3 DEF ThinkTypes
<1>5. LetOut(f, thought, n, inside, rest) = [st |-> st, think |-> thinks, text |-> texts]
  BY DEF LetOut, Sorted
<1> HIDE DEF thinks, texts, st
<1> QED
  BY <1>4, <1>5 DEF SortedTypes

LEMMA ThinkRoundOK ==
  ASSUME NEW f \in SortedTypes
  PROVE  ThinkRound(f) \in SortedTypes
<1> DEFINE closes == At(f.st.buf, CloseTag)
           opens == At(f.st.buf, OpenTag)
           hits == closes \cup (IF f.st.inside THEN {} ELSE opens)
           i == Min(hits)
           tag == IF i \in closes THEN CloseTag ELSE OpenTag
           rest == From(f.st.buf, i + Len(tag))
<1>1. f.st \in ThinkTypes
  BY DEF SortedTypes
<1>2. f.st.buf \in Seq(Int) /\ f.st.inside \in BOOLEAN
  BY <1>1 DEF ThinkTypes
<1>3. ThinkRound(f) = IF hits = {} THEN f
                      ELSE LetOut(f, f.st.inside \/ i \in closes, i - 1, ~ (i \in closes), rest)
  BY DEF ThinkRound
<1>4. CASE hits # {}
  <2>0. /\ Len(CloseTag) \in Nat /\ Len(CloseTag) # 0
        /\ Len(OpenTag) \in Nat /\ Len(OpenTag) # 0
    BY Tags
  <2>1. \A j \in closes \cup opens : j \in Nat
    <3>1. \A j \in At(f.st.buf, CloseTag) : j \in Nat
      BY <1>2, <2>0, AtNumbers
    <3>2. \A j \in At(f.st.buf, OpenTag) : j \in Nat
      BY <1>2, <2>0, AtNumbers
    <3> QED
      BY <3>1, <3>2
  <2>2. hits \in SUBSET Nat
    BY <2>1
  <2>3. i \in hits
    <3> HIDE DEF hits
    <3> QED
      BY <1>4, <2>2, MinMember
  <2>4. tag \in {CloseTag, OpenTag} /\ i \in At(f.st.buf, tag)
    BY <2>3
  <2>5. Len(tag) \in Nat /\ Len(tag) # 0
    <3>1. tag = CloseTag \/ tag = OpenTag
      OBVIOUS
    <3> HIDE DEF tag
    <3> QED
      BY <2>0, <3>1
  <2> HIDE DEF i, hits, closes, tag
  <2>6. /\ i - 1 \in Nat /\ i - 1 <= Len(f.st.buf)
        /\ i + Len(tag) - 1 \in Nat /\ i + Len(tag) - 1 <= Len(f.st.buf) /\ i \in Nat
    BY <1>2, <2>4, <2>5, AtNumbers
  <2>7. From(f.st.buf, (i + Len(tag) - 1) + 1) \in Seq(Int)
    BY <1>2, <2>6, CutSeq
  <2>8. rest \in Seq(Int)
    BY <2>5, <2>6, <2>7
  <2>9. (f.st.inside \/ i \in closes) \in BOOLEAN /\ (~ (i \in closes)) \in BOOLEAN
    OBVIOUS
  <2> HIDE DEF rest
  <2>10. LetOut(f, f.st.inside \/ i \in closes, i - 1, ~ (i \in closes), rest) \in SortedTypes
    BY <2>6, <2>8, <2>9, LetOutOK
  <2> QED
    BY <1>3, <1>4, <2>10
<1>5. CASE hits = {}
  BY <1>3, <1>5
<1> QED
  BY <1>4, <1>5

LEMMA ThinkRestOK ==
  ASSUME NEW f \in SortedTypes
  PROVE  ThinkRest(f) \in SortedTypes
<1> DEFINE n == Len(f.st.buf) - Kept(f.st.inside, f.st.buf)
<1>1. f.st \in ThinkTypes
  BY DEF SortedTypes
<1>2. f.st.buf \in Seq(Int) /\ f.st.inside \in BOOLEAN
  BY <1>1 DEF ThinkTypes
<1>3. Kept(f.st.inside, f.st.buf) \in 0 .. Len(f.st.buf) /\ Len(f.st.buf) \in Nat
  BY <1>2, KeptOK
<1>4. n \in Nat /\ n <= Len(f.st.buf)
  BY <1>3
<1>5. ThinkRest(f) = LetOut(f, f.st.inside, n, f.st.inside, From(f.st.buf, n + 1))
  BY DEF ThinkRest
<1> HIDE DEF n
<1>6. From(f.st.buf, n + 1) \in Seq(Int)
  BY <1>2, <1>4, CutSeq
<1> QED
  BY <1>2, <1>4, <1>5, <1>6, LetOutOK

\* A push is rounds, and what is behind the last tag.
LEMMA ThinkPushIn ==
  ASSUME NEW st, NEW text, Len(st.buf \o text) \in Nat,
         NEW T, Sorted([st EXCEPT !.buf = st.buf \o text], <<>>, <<>>) \in T[0],
         \A n \in 1 .. Len(st.buf \o text) : \A x \in T[n - 1] : ThinkRound(x) \in T[n]
  PROVE  \E x \in T[Len(st.buf \o text)] : ThinkPush(st, text) = ThinkRest(x)
<1> DEFINE N == Len(st.buf \o text)
           a == Sorted([st EXCEPT !.buf = st.buf \o text], <<>>, <<>>)
           F == [n \in 1 .. N |-> [x \in T[n - 1] |-> ThinkRound(x)]]
           Is(f) == f = [n \in 0 .. N |-> IF n = 0 THEN Sorted([st EXCEPT !.buf = st.buf \o text], <<>>, <<>>) ELSE ThinkRound(f[n - 1])]
           fed == CHOOSE f : Is(f)
<1>1. N \in Nat
  BY DEF N
<1>2. \A n \in 1 .. N : \A x \in T[n - 1] : F[n][x] = ThinkRound(x)
  OBVIOUS
<1>3. \A n \in 1 .. N : \A x \in T[n - 1] : F[n][x] \in T[n]
  <2> HIDE DEF F
  <2> QED
    BY <1>2
<1> HIDE DEF F, a, Is, N
<1>4. PICK f : Unfolds(f, N, a, F) /\ \A n \in 0 .. N : f[n] \in T[n]
  <2>1. a \in T[0]
    BY DEF a
  <2> QED
    BY <1>1, <1>3, <2>1, Recursion
<1>5. Is(f)
  <2> DEFINE h == [n \in 0 .. N |-> IF n = 0 THEN Sorted([st EXCEPT !.buf = st.buf \o text], <<>>, <<>>) ELSE ThinkRound(f[n - 1])]
  <2>1. ASSUME NEW n \in 0 .. N PROVE f[n] = h[n]
    <3>1. f[n] = IF n = 0 THEN a ELSE F[n][f[n - 1]]
      BY <1>4 DEF Unfolds
    <3>2. CASE n = 0
      BY <3>1, <3>2 DEF a
    <3>3. CASE n # 0
      <4>1. n \in 1 .. N /\ n - 1 \in 0 .. N
        BY <1>1, <3>3
      <4>2. f[n - 1] \in T[n - 1]
        BY <1>4, <4>1
      <4>3. F[n][f[n - 1]] = ThinkRound(f[n - 1])
        BY <1>2, <4>1, <4>2
      <4> QED
        BY <3>1, <3>3, <4>3
    <3> QED
      BY <3>2, <3>3
  <2>2. f = [n \in 0 .. N |-> f[n]]
    BY <1>4 DEF Unfolds
  <2>3. h = [n \in 0 .. N |-> h[n]]
    OBVIOUS
  <2> HIDE DEF h
  <2>4. f = h
    BY <2>1, <2>2, <2>3, SameFunction
  <2> QED
    BY <2>4 DEF Is, h
<1>6. Is(fed)
  BY <1>5
<1>7. ThinkPush(st, text) = ThinkRest(fed[N])
  BY DEF ThinkPush, Is, N
<1> HIDE DEF fed
<1>8. \A n \in 0 .. N : fed[n] = IF n = 0 THEN a ELSE ThinkRound(fed[n - 1])
  BY <1>6 DEF Is, a
<1>9. fed[N] \in T[N]
  <2> DEFINE S == {n \in 0 .. N : fed[n] \in T[n]}
  <2>1. 0 \in S
    <3>1. 0 \in 0 .. N /\ a \in T[0]
      BY <1>1 DEF a
    <3> QED
      BY <1>8, <3>1
  <2>2. ASSUME NEW n \in 1 .. N, n - 1 \in S PROVE n \in S
    <3>1. n \in 0 .. N /\ n # 0 /\ fed[n - 1] \in T[n - 1]
      BY <1>1, <2>2
    <3>2. fed[n] = ThinkRound(fed[n - 1])
      BY <1>8, <3>1
    <3>3. ThinkRound(fed[n - 1]) \in T[n]
      BY <3>1 DEF N
    <3> QED
      BY <3>1, <3>2, <3>3
  <2> HIDE DEF S
  <2>3. 0 .. N \subseteq S
    BY <1>1, <2>1, <2>2, UpTo
  <2>4. N \in S
    BY <1>1, <2>3
  <2> QED
    BY <2>4 DEF S
<1> QED
  BY <1>7, <1>9 DEF N

LEMMA ThinkPushOK ==
  ASSUME NEW st \in ThinkTypes, NEW text \in Seq(Int)
  PROVE  ThinkPush(st, text) \in SortedTypes
<1> DEFINE N == Len(st.buf \o text)
           T == [n \in 0 .. N |-> SortedTypes]
           a == Sorted([st EXCEPT !.buf = st.buf \o text], <<>>, <<>>)
<1>1. st.buf \o text \in Seq(Int) /\ N \in Nat
  BY DEF ThinkTypes
<1>2. a \in SortedTypes
  <2>1. [st EXCEPT !.buf = st.buf \o text] \in ThinkTypes
    BY <1>1 DEF ThinkTypes
  <2>2. <<>> \in Seq(Int)
    OBVIOUS
  <2> QED
    BY <2>1, <2>2 DEF Sorted, SortedTypes
<1> HIDE DEF a
<1>3. a \in T[0] /\ \A n \in 0 .. N : T[n] = SortedTypes
  BY <1>1, <1>2
<1>4. \A n \in 1 .. N : n \in 0 .. N /\ n - 1 \in 0 .. N
  BY <1>1
<1> HIDE DEF T
<1>5. \A n \in 1 .. N : \A x \in T[n - 1] : ThinkRound(x) \in T[n]
  BY <1>3, <1>4, ThinkRoundOK
<1>6. PICK x \in T[N] : ThinkPush(st, text) = ThinkRest(x)
  BY <1>1, <1>3, <1>5, ThinkPushIn DEF a
<1>7. x \in SortedTypes
  <2>1. N \in 0 .. N
    BY <1>1
  <2> QED
    BY <1>3, <1>6, <2>1
<1> QED
  BY <1>6, <1>7, ThinkRestOK

LEMMA CutStep ==
  ASSUME NEW st \in CallTypes, NEW inCall \in BOOLEAN, NEW buf \in Seq(Int), NEW calls \in Nat
  PROVE  [inCall |-> inCall, buf |-> buf, calls |-> calls] \in CallTypes
BY DEF CallTypes

LEMMA OpsOK ==
  ASSUME NEW text \in Seq(Int)
  PROVE  <<OpText(text)>> \in Seq(OpTypes) /\ <<OpCall>> \in Seq(OpTypes)
<1>1. <<>> \in Seq(Int)
  OBVIOUS
<1>2. OpText(text) \in OpTypes /\ OpCall \in OpTypes
  BY <1>1 DEF OpText, OpCall, OpTypes
<1> QED
  BY <1>2

LEMMA CutOK ==
  ASSUME NEW st \in CallTypes, NEW cs \in Seq(OpTypes)
  PROVE  Step(st, cs) \in CutTypes
BY DEF Step, CutTypes

LEMMA CutAnd ==
  ASSUME NEW r \in CutTypes, NEW s \in CutTypes
  PROVE  And(r, s) \in CutTypes
<1>1. r.out \in Seq(OpTypes) /\ s.out \in Seq(OpTypes) /\ s.st \in CallTypes
  BY DEF CutTypes
<1>2. r.out \o s.out \in Seq(OpTypes)
  BY <1>1
<1> QED
  BY <1>1, <1>2 DEF And, CutTypes

LEMMA CallRoundOK ==
  ASSUME NEW st \in CallTypes
  PROVE  CallRound(st) \in CutTypes
<1> DEFINE ends == At(st.buf, <<CLOSER>>)
           opens == At(st.buf, Opener)
           e == Min(ends)
           o == Min(opens)
           span == Upto(st.buf, e)
           good == Validated(span)
           closed == [inCall |-> FALSE, buf |-> From(st.buf, e + 1),
                      calls |-> IF good THEN st.calls + 1 ELSE st.calls]
           op == <<IF good THEN OpCall ELSE OpText(span)>>
           opened == [st EXCEPT !.inCall = TRUE, !.buf = From(st.buf, o)]
           before == <<OpText(Upto(st.buf, o - 1))>>
<1>1. st.buf \in Seq(Int) /\ st.calls \in Nat /\ st.inCall \in BOOLEAN
  BY DEF CallTypes
<1>2. CallRound(st) = IF st.inCall /\ ends # {} THEN Step(closed, op)
                      ELSE IF ~st.inCall /\ opens # {} THEN Step(opened, before)
                      ELSE Step(st, <<>>)
  BY DEF CallRound
<1>3. /\ Len(<<CLOSER>>) \in Nat /\ Len(<<CLOSER>>) # 0
      /\ Len(Opener) \in Nat /\ Len(Opener) # 0
  BY Tags
<1>4. \A i \in ends : i \in Nat /\ i <= Len(st.buf)
  BY <1>1, <1>3, AtNumbers
<1>5. \A i \in opens : i \in Nat /\ i - 1 \in Nat /\ i - 1 <= Len(st.buf)
  BY <1>1, <1>3, AtNumbers
<1>6. CASE st.inCall /\ ends # {}
  <2>1. ends \in SUBSET Nat
    BY <1>4
  <2> HIDE DEF ends
  <2>2. e \in ends
    BY <1>6, <2>1, MinMember
  <2> HIDE DEF e
  <2>3. span \in Seq(Int) /\ From(st.buf, e + 1) \in Seq(Int)
    BY <1>1, <1>4, <2>2, CutSeq
  <2>4. (IF good THEN st.calls + 1 ELSE st.calls) \in Nat
    BY <1>1
  <2> HIDE DEF span
  <2>5. closed \in CallTypes
    <3> DEFINE n == IF good THEN st.calls + 1 ELSE st.calls
    <3>1. n \in Nat /\ FALSE \in BOOLEAN
      BY <2>4
    <3> HIDE DEF n, good
    <3>2. [inCall |-> FALSE, buf |-> From(st.buf, e + 1), calls |-> n] \in CallTypes
      BY <2>3, <3>1, CutStep
    <3> QED
      BY <3>2 DEF n
  <2>6. op \in Seq(OpTypes)
    <3>1. <<OpText(span)>> \in Seq(OpTypes) /\ <<OpCall>> \in Seq(OpTypes)
      BY <2>3, OpsOK
    <3> HIDE DEF good
    <3>2. op = <<OpCall>> \/ op = <<OpText(span)>>
      OBVIOUS
    <3> QED
      BY <3>1, <3>2
  <2> HIDE DEF closed, op
  <2> QED
    BY <1>2, <1>6, <2>5, <2>6, CutOK
<1>7. CASE ~(st.inCall /\ ends # {}) /\ ~st.inCall /\ opens # {}
  <2>1. opens \in SUBSET Nat
    BY <1>5
  <2> HIDE DEF opens
  <2>2. o \in opens
    BY <1>7, <2>1, MinMember
  <2> HIDE DEF o
  <2>3. o - 1 \in Nat /\ o - 1 <= Len(st.buf) /\ (o - 1) + 1 = o
    BY <1>5, <2>2
  <2>4. Upto(st.buf, o - 1) \in Seq(Int) /\ From(st.buf, (o - 1) + 1) \in Seq(Int)
    BY <1>1, <2>3, CutSeq
  <2>5. before \in Seq(OpTypes)
    BY <2>4, OpsOK
  <2>6. opened \in CallTypes
    <3>1. From(st.buf, o) \in Seq(Int)
      BY <2>3, <2>4
    <3> QED
      BY <3>1 DEF CallTypes
  <2> HIDE DEF opened, before
  <2> QED
    BY <1>2, <1>7, <2>5, <2>6, CutOK
<1>8. CASE ~(st.inCall /\ ends # {}) /\ ~(~st.inCall /\ opens # {})
  <2>1. CallRound(st) = Step(st, <<>>)
    BY <1>2, <1>8
  <2>2. <<>> \in Seq(OpTypes)
    OBVIOUS
  <2> QED
    BY <2>1, <2>2, CutOK
<1> QED
  BY <1>6, <1>7, <1>8

LEMMA CallRestOK ==
  ASSUME NEW st \in CallTypes, NEW cap
  PROVE  CallRest(st, cap) \in CutTypes
<1> DEFINE n == Len(st.buf) - Partial(st.buf, Opener)
           big == Len(st.buf) > cap
           kept == [st EXCEPT !.buf = From(st.buf, n + 1)]
           bare == [st EXCEPT !.inCall = FALSE, !.buf = <<>>]
<1>1. st.buf \in Seq(Int) /\ Len(st.buf) \in Nat /\ <<>> \in Seq(Int)
  BY DEF CallTypes
<1>2. CallRest(st, cap) = IF ~st.inCall THEN Step(kept, <<OpText(Upto(st.buf, n))>>)
                          ELSE IF big THEN Step(bare, <<OpText(st.buf)>>)
                          ELSE Step(st, <<>>)
  BY DEF CallRest
<1>3. Partial(st.buf, Opener) \in 0 .. Len(st.buf)
  BY <1>1, Tags, PartialOK
<1>4. n \in Nat /\ n <= Len(st.buf)
  BY <1>1, <1>3
<1> HIDE DEF n, big
<1>5. From(st.buf, n + 1) \in Seq(Int) /\ Upto(st.buf, n) \in Seq(Int)
  BY <1>1, <1>4, CutSeq
<1>6. kept \in CallTypes
  BY <1>5 DEF CallTypes
<1>7. bare \in CallTypes
  BY <1>1 DEF CallTypes
<1>8. /\ <<OpText(Upto(st.buf, n))>> \in Seq(OpTypes) /\ <<OpText(st.buf)>> \in Seq(OpTypes)
      /\ <<>> \in Seq(OpTypes)
  BY <1>1, <1>5, OpsOK
<1> HIDE DEF kept, bare
<1>9. /\ Step(kept, <<OpText(Upto(st.buf, n))>>) \in CutTypes
      /\ Step(bare, <<OpText(st.buf)>>) \in CutTypes
      /\ Step(st, <<>>) \in CutTypes
  BY <1>6, <1>7, <1>8, CutOK
<1> QED
  BY <1>2, <1>9

\* A push is rounds, two for each token, and what is behind the last call.
LEMMA CallPushIn ==
  ASSUME NEW st, NEW text, NEW cap, 2 * Len(st.buf \o text) \in Nat,
         NEW T, Step([st EXCEPT !.buf = st.buf \o text], <<>>) \in T[0],
         \A n \in 1 .. 2 * Len(st.buf \o text) : \A x \in T[n - 1] : And(x, CallRound(x.st)) \in T[n]
  PROVE  \E x \in T[2 * Len(st.buf \o text)] : CallPush(st, text, cap) = And(x, CallRest(x.st, cap))
<1> DEFINE N == 2 * Len(st.buf \o text)
           a == Step([st EXCEPT !.buf = st.buf \o text], <<>>)
           F == [n \in 1 .. N |-> [x \in T[n - 1] |-> And(x, CallRound(x.st))]]
           Is(f) == f = [n \in 0 .. N |-> IF n = 0 THEN Step([st EXCEPT !.buf = st.buf \o text], <<>>) ELSE And(f[n - 1], CallRound(f[n - 1].st))]
           fed == CHOOSE f : Is(f)
<1>1. N \in Nat
  BY DEF N
<1>2. \A n \in 1 .. N : \A x \in T[n - 1] : F[n][x] = And(x, CallRound(x.st))
  OBVIOUS
<1>3. \A n \in 1 .. N : \A x \in T[n - 1] : F[n][x] \in T[n]
  <2> HIDE DEF F
  <2> QED
    BY <1>2
<1> HIDE DEF F, a, Is, N
<1>4. PICK f : Unfolds(f, N, a, F) /\ \A n \in 0 .. N : f[n] \in T[n]
  <2>1. a \in T[0]
    BY DEF a
  <2> QED
    BY <1>1, <1>3, <2>1, Recursion
<1>5. Is(f)
  <2> DEFINE h == [n \in 0 .. N |-> IF n = 0 THEN Step([st EXCEPT !.buf = st.buf \o text], <<>>) ELSE And(f[n - 1], CallRound(f[n - 1].st))]
  <2>1. ASSUME NEW n \in 0 .. N PROVE f[n] = h[n]
    <3>1. f[n] = IF n = 0 THEN a ELSE F[n][f[n - 1]]
      BY <1>4 DEF Unfolds
    <3>2. CASE n = 0
      BY <3>1, <3>2 DEF a
    <3>3. CASE n # 0
      <4>1. n \in 1 .. N /\ n - 1 \in 0 .. N
        BY <1>1, <3>3
      <4>2. f[n - 1] \in T[n - 1]
        BY <1>4, <4>1
      <4>3. F[n][f[n - 1]] = And(f[n - 1], CallRound(f[n - 1].st))
        BY <1>2, <4>1, <4>2
      <4> QED
        BY <3>1, <3>3, <4>3
    <3> QED
      BY <3>2, <3>3
  <2>2. f = [n \in 0 .. N |-> f[n]]
    BY <1>4 DEF Unfolds
  <2>3. h = [n \in 0 .. N |-> h[n]]
    OBVIOUS
  <2> HIDE DEF h
  <2>4. f = h
    BY <2>1, <2>2, <2>3, SameFunction
  <2> QED
    BY <2>4 DEF Is, h
<1>6. Is(fed)
  BY <1>5
<1>7. CallPush(st, text, cap) = And(fed[N], CallRest(fed[N].st, cap))
  BY DEF CallPush, Is, N
<1> HIDE DEF fed
<1>8. \A n \in 0 .. N : fed[n] = IF n = 0 THEN a ELSE And(fed[n - 1], CallRound(fed[n - 1].st))
  BY <1>6 DEF Is, a
<1>9. fed[N] \in T[N]
  <2> DEFINE S == {n \in 0 .. N : fed[n] \in T[n]}
  <2>1. 0 \in S
    <3>1. 0 \in 0 .. N /\ a \in T[0]
      BY <1>1 DEF a
    <3> QED
      BY <1>8, <3>1
  <2>2. ASSUME NEW n \in 1 .. N, n - 1 \in S PROVE n \in S
    <3>1. n \in 0 .. N /\ n # 0 /\ fed[n - 1] \in T[n - 1]
      BY <1>1, <2>2
    <3>2. fed[n] = And(fed[n - 1], CallRound(fed[n - 1].st))
      BY <1>8, <3>1
    <3>3. And(fed[n - 1], CallRound(fed[n - 1].st)) \in T[n]
      BY <3>1 DEF N
    <3> QED
      BY <3>1, <3>2, <3>3
  <2> HIDE DEF S
  <2>3. 0 .. N \subseteq S
    BY <1>1, <2>1, <2>2, UpTo
  <2>4. N \in S
    BY <1>1, <2>3
  <2> QED
    BY <2>4 DEF S
<1> QED
  BY <1>7, <1>9 DEF N

LEMMA CallPushOK ==
  ASSUME NEW st \in CallTypes, NEW text \in Seq(Int), NEW cap
  PROVE  CallPush(st, text, cap) \in CutTypes
<1> DEFINE N == 2 * Len(st.buf \o text)
           T == [n \in 0 .. N |-> CutTypes]
           a == Step([st EXCEPT !.buf = st.buf \o text], <<>>)
<1>1. st.buf \o text \in Seq(Int) /\ N \in Nat
  BY DEF CallTypes
<1>2. a \in CutTypes
  <2>1. [st EXCEPT !.buf = st.buf \o text] \in CallTypes
    BY <1>1 DEF CallTypes
  <2>2. <<>> \in Seq(OpTypes)
    OBVIOUS
  <2> QED
    BY <2>1, <2>2, CutOK
<1> HIDE DEF a
<1>3. a \in T[0] /\ \A n \in 0 .. N : T[n] = CutTypes
  BY <1>1, <1>2
<1>4. \A n \in 1 .. N : n \in 0 .. N /\ n - 1 \in 0 .. N
  BY <1>1
<1> HIDE DEF T
<1>5. \A x \in CutTypes : And(x, CallRound(x.st)) \in CutTypes
  <2> TAKE x \in CutTypes
  <2>1. x.st \in CallTypes
    BY DEF CutTypes
  <2>2. CallRound(x.st) \in CutTypes
    BY <2>1, CallRoundOK
  <2> QED
    BY <2>2, CutAnd
<1>6. \A n \in 1 .. N : \A x \in T[n - 1] : And(x, CallRound(x.st)) \in T[n]
  BY <1>3, <1>4, <1>5
<1>7. PICK x \in T[N] : CallPush(st, text, cap) = And(x, CallRest(x.st, cap))
  BY <1>1, <1>3, <1>6, CallPushIn DEF a
<1>8. x \in CutTypes
  <2>1. N \in 0 .. N
    BY <1>1
  <2> QED
    BY <1>3, <1>7, <2>1
<1>9. x.st \in CallTypes
  BY <1>8 DEF CutTypes
<1>10. CallRest(x.st, cap) \in CutTypes
  BY <1>9, CallRestOK
<1> QED
  BY <1>7, <1>8, <1>10, CutAnd

LEMMA FlatOK ==
  ASSUME NEW S, NEW seqs \in Seq(Seq(S))
  PROVE  FlattenSeq(seqs) \in Seq(S)
<1> DEFINE N == Len(seqs)
           F == [n \in 1 .. N |-> [x \in Seq(S) |-> IF n = 1 THEN seqs[1] ELSE x \o seqs[n]]]
           T == [n \in 0 .. N |-> Seq(S)]
           Is(g) == g = [i \in 1 .. N |-> IF i = 1 THEN seqs[i] ELSE g[i - 1] \o seqs[i]]
           flat == CHOOSE g : Is(g)
<1>1. N \in Nat /\ \A n \in 1 .. N : seqs[n] \in Seq(S)
  OBVIOUS
<1>2. CASE N = 0
  <2>1. seqs \in Seq(S)
    BY <1>2
  <2> QED
    BY <1>2, <2>1 DEF FlattenSeq
<1>3. CASE N # 0
  <2>1. FlattenSeq(seqs) = flat[N]
    BY <1>3 DEF FlattenSeq
  <2>2. <<>> \in T[0] /\ \A n \in 0 .. N : T[n] = Seq(S)
    BY <1>1
  <2>3. \A n \in 1 .. N : \A x \in Seq(S) : F[n][x] = IF n = 1 THEN seqs[1] ELSE x \o seqs[n]
    OBVIOUS
  <2>4. \A n \in 1 .. N : n - 1 \in 0 .. N /\ n \in 0 .. N
    BY <1>1
  <2>5. \A n \in 1 .. N : \A x \in Seq(S) : F[n][x] \in Seq(S)
    <3> TAKE n \in 1 .. N
    <3> TAKE x \in Seq(S)
    <3>1. seqs[1] \in Seq(S) /\ seqs[n] \in Seq(S)
      BY <1>1, <1>3
    <3>2. x \o seqs[n] \in Seq(S)
      BY <3>1
    <3> QED
      BY <2>3, <3>1, <3>2
  <2> HIDE DEF T, F
  <2>6. \A n \in 1 .. N : \A x \in T[n - 1] : F[n][x] \in T[n]
    BY <2>2, <2>4, <2>5
  <2> HIDE DEF N
  <2>7. PICK f : Unfolds(f, N, <<>>, F) /\ \A n \in 0 .. N : f[n] \in T[n]
    BY <1>1, <2>2, <2>6, Recursion
  <2> DEFINE g == [i \in 1 .. N |-> f[i]]
  <2>8. \A i \in 1 .. N : f[i] \in Seq(S)
    BY <2>2, <2>4, <2>7
  <2>9. \A i \in 1 .. N : g[i] = IF i = 1 THEN seqs[i] ELSE g[i - 1] \o seqs[i]
    <3> TAKE i \in 1 .. N
    <3>0. i \in 0 .. N /\ i # 0 /\ i - 1 \in 0 .. N
      BY <1>1
    <3>1. f[i] = F[i][f[i - 1]] /\ f[i - 1] \in Seq(S)
      <4>1. f = [n \in 0 .. N |-> IF n = 0 THEN <<>> ELSE F[n][f[n - 1]]]
        BY <2>7 DEF Unfolds
      <4>2. f[i] = IF i = 0 THEN <<>> ELSE F[i][f[i - 1]]
        BY <3>0, <4>1
      <4> QED
        BY <2>2, <2>7, <3>0, <4>2
    <3>2. f[i] = IF i = 1 THEN seqs[1] ELSE f[i - 1] \o seqs[i]
      BY <2>3, <3>1
    <3>3. CASE i = 1
      BY <3>2, <3>3
    <3>4. CASE i # 1
      <4>1. i - 1 \in 1 .. N
        BY <1>1, <3>4
      <4>2. g[i - 1] = f[i - 1] /\ g[i] = f[i]
        BY <4>1
      <4> QED
        BY <3>2, <3>4, <4>2
    <3> QED
      BY <3>3, <3>4
  <2>10. Is(g)
    <3> DEFINE h == [i \in 1 .. N |-> IF i = 1 THEN seqs[i] ELSE g[i - 1] \o seqs[i]]
    <3>1. g = [i \in 1 .. N |-> g[i]]
      OBVIOUS
    <3>2. h = [i \in 1 .. N |-> h[i]] /\ \A i \in 1 .. N : g[i] = h[i]
      <4> HIDE DEF g
      <4> QED
        BY <2>9
    <3> HIDE DEF g, h
    <3>3. g = h
      <4>1. \A i \in 1 .. N : g[i] = h[i]
        BY <3>2
      <4>2. [i \in 1 .. N |-> g[i]] = [i \in 1 .. N |-> h[i]]
        BY <4>1
      <4> QED
        BY <3>1, <3>2, <4>2
    <3> QED
      BY <3>3 DEF h
  <2>11. Is(flat)
    <3> HIDE DEF g
    <3>1. \E x : Is(x)
      BY <2>10
    <3> HIDE DEF Is
    <3> QED
      BY <3>1
  <2> HIDE DEF flat, g
  <2> DEFINE G == {n \in 0 .. N : n # 0 => flat[n] \in Seq(S)}
  <2>12. 0 \in G
    BY <1>1
  <2>13. \A n \in 1 .. N : flat[n] = IF n = 1 THEN seqs[n] ELSE flat[n - 1] \o seqs[n]
    BY <2>11
  <2>14. \A n \in 1 .. N : n - 1 \in G => n \in G
    <3> SUFFICES ASSUME NEW n \in 1 .. N, n - 1 \in G PROVE n \in G
      OBVIOUS
    <3>1. n \in 0 .. N /\ seqs[n] \in Seq(S)
      BY <1>1
    <3>2. CASE n = 1
      BY <2>13, <3>1, <3>2
    <3>3. CASE n # 1
      <4>1. flat[n - 1] \in Seq(S)
        BY <1>1, <3>3
      <4>2. flat[n - 1] \o seqs[n] \in Seq(S)
        BY <3>1, <4>1
      <4> QED
        BY <2>13, <3>1, <3>3, <4>2
    <3> QED
      BY <3>2, <3>3
  <2> HIDE DEF G
  <2>15. 0 .. N \subseteq G
    BY <1>1, <2>12, <2>14, UpTo
  <2>16. N \in G
    BY <1>1, <2>15
  <2> QED
    BY <1>3, <2>1, <2>16 DEF G
<1> QED
  BY <1>2, <1>3

-----------------------------------------------------------------------------
(* The way of an upstream's event to the relay.                            *)

LEMMA RouteFacts ==
  ASSUME route \in Routes
  PROVE  /\ route.up \in {"chat", "anthropic", "responses"}
         /\ route.client \in {"anthropic", "responses", "aisdk", "json"}
         /\ route.reads \in {"plain", "think", "calls"}
         /\ route.client = "anthropic" => route.up # "anthropic"
         /\ route.reads # "plain" => route.up = "chat"
BY DialectsAssumption

Mids == IF route.up = "responses" THEN GTypes
        ELSE IF route.reads = "think" THEN ThinkTypes
        ELSE IF route.reads = "calls" THEN CallTypes
        ELSE {"chat"}

Ins == IF route.up = "responses" THEN UpEvents ELSE Chunks

\* The last event of an upstream.
Closing(e) == IF route.up = "responses" THEN e.e = "end" ELSE e.t = "done"

\* A filter keeps nothing back.
Drained(st) == route.reads # "plain" => st.buf = <<>>

LEMMA ChunkOK ==
  ASSUME NEW think \in Seq(Int), NEW text \in Seq(Int)
  PROVE  Tells(Chunk(think, text), FALSE)
<1> DEFINE a == IF think = <<>> THEN <<>> ELSE <<Think(think)>>
           b == IF text = <<>> THEN <<>> ELSE <<Text(text)>>
<1>1. Tells(<<>>, FALSE)
  BY TellsNone
<1>2. /\ Think(think) \in Chunks /\ Think(think).t # "done"
      /\ Text(text) \in Chunks /\ Text(text).t # "done"
  BY SaidChunks
<1>3. Tells(<<Think(think)>>, FALSE) /\ Tells(<<Text(text)>>, FALSE)
  BY <1>2, TellsOne
<1>4. Tells(a, FALSE) /\ Tells(b, FALSE)
  BY <1>1, <1>3
<1> HIDE DEF a, b
<1>5. Tells(a \o b, FALSE)
  BY <1>4, TellsOn
<1> QED
  BY <1>5 DEF Chunk, a, b

LEMMA ChunkNone == Chunk(<<>>, <<>>) = <<>>
BY DEF Chunk

LEMMA FlushedThink ==
  ASSUME route.reads = "think", NEW st
  PROVE  Flushed(st) = Step(ThinkFlush(st).st, Chunk(ThinkFlush(st).think, ThinkFlush(st).text))
BY Zenon DEF Flushed

LEMMA FlushedCalls ==
  ASSUME route.reads = "calls", NEW st
  PROVE  Flushed(st) = Step(CallFlush(st).st, Chunk(<<>>, CallFlush(st).out))
BY Zenon DEF Flushed

LEMMA FlushedPlain ==
  ASSUME route.reads = "plain", NEW st
  PROVE  Flushed(st) = Step(st, <<>>)
BY Zenon DEF Flushed

\* A filter keeps nothing behind a flush.
LEMMA FlushedOK ==
  ASSUME route \in Routes, NEW st \in Mids
  PROVE  /\ Flushed(st).st \in Mids
         /\ Tells(Flushed(st).out, FALSE)
         /\ Drained(Flushed(st).st)
<1> USE RouteFacts
<1>0. <<>> \in Seq(Int)
  OBVIOUS
<1>1. CASE route.reads = "think"
  <2>1. Mids = ThinkTypes
    BY <1>1 DEF Mids
  <2> DEFINE bare == [st EXCEPT !.buf = <<>>]
             think == IF st.inside THEN st.buf ELSE <<>>
             text == IF st.inside THEN <<>> ELSE st.buf
  <2>2. /\ bare \in ThinkTypes /\ bare.buf = <<>>
        /\ think \in Seq(Int) /\ text \in Seq(Int)
    BY <1>0, <2>1 DEF ThinkTypes
  <2>3. Flushed(st) = Step(bare, Chunk(think, text))
    BY <1>1, FlushedThink DEF ThinkFlush, Sorted
  <2> HIDE DEF bare, think, text
  <2>4. Flushed(st).st = bare /\ Flushed(st).out = Chunk(think, text)
    BY <2>3 DEF Step
  <2>6. Tells(Chunk(think, text), FALSE)
    BY <2>2, ChunkOK
  <2> QED
    BY <2>1, <2>2, <2>4, <2>6 DEF Drained
<1>2. CASE route.reads = "calls"
  <2>1. Mids = CallTypes
    BY <1>2 DEF Mids
  <2> DEFINE bare == [st EXCEPT !.inCall = FALSE, !.buf = <<>>]
  <2>2. bare \in CallTypes /\ bare.buf = <<>> /\ st.buf \in Seq(Int)
    BY <1>0, <2>1 DEF CallTypes
  <2>3. Flushed(st) = Step(bare, Chunk(<<>>, st.buf))
    BY <1>2, FlushedCalls DEF CallFlush, Step
  <2> HIDE DEF bare
  <2>4. Flushed(st).st = bare /\ Flushed(st).out = Chunk(<<>>, st.buf)
    BY <2>3 DEF Step
  <2>6. Tells(Chunk(<<>>, st.buf), FALSE)
    BY <1>0, <2>2, ChunkOK
  <2> QED
    BY <2>1, <2>2, <2>4, <2>6 DEF Drained
<1>3. CASE route.reads = "plain"
  <2>1. Flushed(st).st = st /\ Flushed(st).out = <<>>
    BY <1>3, FlushedPlain DEF Step
  <2> QED
    BY <1>3, <2>1, TellsNone DEF Drained
<1> QED
  BY <1>1, <1>2, <1>3

LEMMA DrainedOut ==
  ASSUME route \in Routes, NEW st \in Mids, Drained(st)
  PROVE  Flushed(st).out = <<>>
<1>1. CASE route.reads = "think"
  <2>1. st \in ThinkTypes /\ st.buf = <<>>
    BY <1>1, RouteFacts DEF Mids, Drained
  <2>2. ThinkFlush(st).think = <<>> /\ ThinkFlush(st).text = <<>>
    BY <2>1 DEF ThinkFlush, Sorted
  <2> QED
    BY <1>1, <2>2, FlushedThink, ChunkNone DEF Step
<1>2. CASE route.reads = "calls"
  <2>1. st.buf = <<>>
    BY <1>2 DEF Drained
  <2>2. CallFlush(st).out = <<>>
    BY <2>1 DEF CallFlush, Step
  <2> QED
    BY <1>2, <2>2, FlushedCalls, ChunkNone DEF Step
<1>3. CASE route.reads = "plain"
  BY <1>3, FlushedPlain DEF Step
<1> QED
  BY <1>1, <1>2, <1>3, RouteFacts

LEMMA ThinkRewrittenOK ==
  ASSUME NEW st \in ThinkTypes, NEW e, e.ps \in Seq(Int)
  PROVE  ThinkRewritten(st, e).st \in ThinkTypes /\ Tells(ThinkRewritten(st, e).out, FALSE)
<1> DEFINE f == ThinkPush(st, e.ps)
<1>1. f \in SortedTypes
  BY ThinkPushOK
<1>2. ThinkRewritten(st, e) = Step(f.st, <<Role>> \o Chunk(f.think, f.text))
  BY DEF ThinkRewritten
<1> HIDE DEF f
<1>3. f.st \in ThinkTypes /\ f.think \in Seq(Int) /\ f.text \in Seq(Int)
  BY <1>1 DEF SortedTypes
<1>4. Tells(<<Role>>, FALSE)
  BY BareChunks, TellsOne
<1>5. Tells(<<Role>> \o Chunk(f.think, f.text), FALSE)
  BY <1>3, <1>4, ChunkOK, TellsOn
<1>6. /\ ThinkRewritten(st, e).st = f.st
      /\ ThinkRewritten(st, e).out = <<Role>> \o Chunk(f.think, f.text)
  BY <1>2 DEF Step
<1> QED
  BY <1>3, <1>5, <1>6

LEMMA CallsRewrittenOK ==
  ASSUME NEW st \in CallTypes, NEW e, e.ps \in Seq(Int)
  PROVE  CallsRewritten(st, e).st \in CallTypes /\ Tells(CallsRewritten(st, e).out, FALSE)
<1> DEFINE f == CallPush(st, e.ps, HoldCap)
           texts == [n \in DOMAIN f.out |-> f.out[n].text]
           K == f.st.calls - st.calls
           c == Call(99 + f.st.calls, f.st.calls, f.st.calls, <<>>)
           calls == [n \in 1 .. K |-> c]
           flat == FlattenSeq(texts)
<1>1. f \in CutTypes
  BY CallPushOK
<1>2. CallsRewritten(st, e) = Step(f.st, <<Role>> \o Chunk(<<>>, flat) \o calls)
  BY DEF CallsRewritten
<1> HIDE DEF f
<1>3. f.st \in CallTypes /\ f.out \in Seq(OpTypes)
  BY <1>1 DEF CutTypes
<1>4. f.st.calls \in Nat /\ st.calls \in Nat /\ <<>> \in Seq(Int)
  BY <1>3 DEF CallTypes
<1>5. texts \in Seq(Seq(Int))
  <2>1. DOMAIN f.out = 1 .. Len(f.out) /\ Len(f.out) \in Nat /\ \A n \in 1 .. Len(f.out) : f.out[n] \in OpTypes
    BY <1>3
  <2>2. \A n \in 1 .. Len(f.out) : f.out[n].text \in Seq(Int)
    BY <2>1 DEF OpTypes
  <2> QED
    BY <2>1, <2>2
<1> HIDE DEF texts
<1>6. flat \in Seq(Int)
  BY <1>5, FlatOK
<1> HIDE DEF flat
<1>7. Tells(<<Role>>, FALSE) /\ Tells(Chunk(<<>>, flat), FALSE)
  BY <1>4, <1>6, BareChunks, TellsOne, ChunkOK
<1>8. c \in Chunks /\ c.t = "call"
  <2>1. 99 + f.st.calls \in Nat /\ f.st.calls \in Int
    BY <1>4
  <2> QED
    BY <1>4, <2>1, CallChunks
<1>9. K \in Int
  BY <1>4
<1> HIDE DEF c, K
<1>10. Tells(calls, FALSE)
  <2> DEFINE L == IF K > 0 THEN K ELSE 0
  <2>1. L \in Nat /\ 1 .. K = 1 .. L
    BY <1>9
  <2> HIDE DEF L
  <2>2. calls \in Seq(Chunks) /\ Len(calls) = L /\ \A n \in 1 .. L : calls[n] = c
    <3>1. calls = [n \in 1 .. L |-> c]
      BY <2>1
    <3> HIDE DEF calls
    <3>2. calls \in [1 .. L -> Chunks] /\ DOMAIN calls = 1 .. L /\ \A n \in 1 .. L : calls[n] = c
      BY <1>8, <3>1
    <3> QED
      BY <2>1, <3>2
  <2> HIDE DEF calls
  <2>3. \A n \in 1 .. Len(calls) : calls[n].t # "done"
    BY <1>8, <2>2
  <2> QED
    BY <2>2, <2>3 DEF Tells, LastOnly, Ending
<1> HIDE DEF calls
<1>11. Tells(<<Role>> \o Chunk(<<>>, flat) \o calls, FALSE)
  <2>1. Tells(<<Role>> \o Chunk(<<>>, flat), FALSE)
    BY <1>7, TellsOn
  <2> QED
    BY <1>10, <2>1, TellsOn
<1>12. /\ CallsRewritten(st, e).st = f.st
       /\ CallsRewritten(st, e).out = <<Role>> \o Chunk(<<>>, flat) \o calls
  BY <1>2 DEF Step
<1> QED
  BY <1>3, <1>11, <1>12

LEMMA AdaptedUp ==
  ASSUME route.up = "responses", NEW st, NEW e
  PROVE  Adapted(st, e) = GOn(st, e)
BY Zenon DEF Adapted

LEMMA AdaptedThink ==
  ASSUME route.up = "chat", route.reads = "think", NEW st, NEW e, e.t = "text"
  PROVE  Adapted(st, e) = ThinkRewritten(st, e)
BY Zenon DEF Adapted

LEMMA AdaptedCalls ==
  ASSUME route.up = "chat", route.reads = "calls", NEW st, NEW e, e.t = "text"
  PROVE  Adapted(st, e) = CallsRewritten(st, e)
BY Zenon DEF Adapted

LEMMA AdaptedFinish ==
  ASSUME route.up = "chat", NEW st, NEW e, e.t = "finish"
  PROVE  Adapted(st, e) = Step(st, <<Finish(Reason(st, e.why))>>)
BY Zenon DEF Adapted

LEMMA AdaptedDone ==
  ASSUME route.up = "chat", NEW st, NEW e, e.t = "done"
  PROVE  Adapted(st, e) = Step(Flushed(st).st, Append(Flushed(st).out, e))
BY Zenon DEF Adapted

LEMMA AdaptedOther ==
  ASSUME route.up = "chat", NEW st, NEW e, e.t # "finish", e.t # "done",
         ~(e.t = "text" /\ route.reads \in {"think", "calls"})
  PROVE  Adapted(st, e) = Step(st, <<e>>)
<1>1. ~(e.t = "text" /\ route.reads = "think") /\ ~(e.t = "text" /\ route.reads = "calls")
  OBVIOUS
<1>2. route.up # "anthropic" /\ route.up # "responses"
  OBVIOUS
<1> QED
  BY <1>1, <1>2, Zenon DEF Adapted

LEMMA Appended ==
  ASSUME NEW S, NEW s \in Seq(S), NEW x \in S
  PROVE  Append(s, x) = s \o <<x>>
<1> DEFINE u == <<x>>
           a == Append(s, x)
           b == s \o u
<1>1. u \in Seq(S) /\ Len(u) = 1 /\ u[1] = x
  OBVIOUS
<1>2. a \in Seq(S) /\ Len(a) = Len(s) + 1 /\ a[Len(s) + 1] = x /\ \A n \in 1 .. Len(s) : a[n] = s[n]
  OBVIOUS
<1> HIDE DEF u
<1>3. b \in Seq(S) /\ Len(b) = Len(s) + 1 /\ b[Len(s) + 1] = x /\ \A n \in 1 .. Len(s) : b[n] = s[n]
  BY <1>1, Joined
<1> HIDE DEF a, b
<1>4. Len(s) \in Nat /\ Len(a) = Len(b)
  BY <1>2, <1>3
<1>5. \A n \in 1 .. Len(s) + 1 : a[n] = b[n]
  BY <1>2, <1>3, <1>4
<1>6. a = b
  BY <1>2, <1>3, <1>4, <1>5
<1> QED
  BY <1>6 DEF a, b, u

\* [DONE] comes of the upstream's last event alone, and takes what a filter kept along.
Adapts(r, last) == /\ r.st \in Mids
                   /\ Tells(r.out, last)
                   /\ last => Drained(r.st)

LEMMA AdaptsStep ==
  ASSUME NEW st \in Mids, NEW cs, NEW last, Tells(cs, last), last => Drained(st)
  PROVE  Adapts(Step(st, cs), last)
BY Zenon DEF Adapts, Step

LEMMA AdaptedOK ==
  ASSUME route \in Routes, route.client = "anthropic", NEW st \in Mids, NEW e \in Ins
  PROVE  Adapts(Adapted(st, e), Closing(e))
<1>1. /\ route.up \in {"chat", "responses"} /\ route.reads \in {"plain", "think", "calls"}
      /\ route.reads # "plain" => route.up = "chat"
  BY RouteFacts
<1>2. CASE route.up = "responses"
  <2>1. st \in GTypes /\ e \in UpEvents /\ Mids = GTypes /\ Closing(e) = (e.e = "end") /\ route.reads = "plain"
    BY <1>1, <1>2 DEF Mids, Ins, Closing
  <2>2. GTells(GOn(st, e), e.e = "end")
    BY <2>1, GOnOK
  <2> DEFINE r == GOn(st, e)
             last == e.e = "end"
  <2>3. Drained(r.st)
    BY <2>1 DEF Drained
  <2> HIDE DEF r
  <2>4. Adapts(r, last)
    <3>1. r.st \in GTypes /\ Tells(r.out, last)
      BY <2>2, Zenon DEF r, GTells
    <3> HIDE DEF last
    <3> QED
      BY <2>1, <2>3, <3>1, Zenon DEF Adapts
  <2>5. Adapted(st, e) = r
    BY <1>2, AdaptedUp DEF r
  <2> QED
    BY <2>1, <2>4, <2>5
<1>3. CASE route.up = "chat"
  <2>1. e \in Chunks /\ Closing(e) = (e.t = "done")
    BY <1>3 DEF Ins, Closing
  <2>2. CASE e.t = "done"
    <3> DEFINE f == Flushed(st)
    <3>1. f.st \in Mids /\ Tells(f.out, FALSE) /\ Drained(f.st)
      BY FlushedOK
    <3>2. Adapted(st, e) = Step(f.st, Append(f.out, e))
      BY <1>3, <2>2, AdaptedDone
    <3> HIDE DEF f
    <3>3. Append(f.out, e) = f.out \o <<e>>
      <4>1. f.out \in Seq(Chunks)
        BY <3>1 DEF Tells
      <4> QED
        BY <2>1, <4>1, Appended
    <3>4. Tells(<<e>>, TRUE)
      BY <2>1, TellsOne
    <3>5. Tells(f.out \o <<e>>, TRUE)
      BY <3>1, <3>4, TellsOn
    <3>6. Adapts(Step(f.st, f.out \o <<e>>), TRUE)
      BY <3>1, <3>5, AdaptsStep
    <3>7. Closing(e) = TRUE
      BY <2>1, <2>2
    <3> QED
      BY <3>2, <3>3, <3>6, <3>7
  <2>3. CASE e.t # "done"
    <3>1. Closing(e) = FALSE
      BY <2>1, <2>3
    <3>2. CASE e.t = "text" /\ route.reads = "think"
      <4>1. e.ps \in Seq(Int) /\ Mids = ThinkTypes
        BY <1>3, <2>1, <3>2 DEF Chunks, Mids
      <4>2. Adapted(st, e) = ThinkRewritten(st, e)
        BY <1>3, <3>2, AdaptedThink
      <4>3. ThinkRewritten(st, e).st \in Mids /\ Tells(ThinkRewritten(st, e).out, FALSE)
        BY <4>1, ThinkRewrittenOK
      <4> QED
        BY <3>1, <4>2, <4>3 DEF Adapts
    <3>3. CASE e.t = "text" /\ route.reads = "calls"
      <4>1. e.ps \in Seq(Int) /\ Mids = CallTypes
        BY <1>3, <2>1, <3>3 DEF Chunks, Mids
      <4>2. Adapted(st, e) = CallsRewritten(st, e)
        BY <1>3, <3>3, AdaptedCalls
      <4>3. CallsRewritten(st, e).st \in Mids /\ Tells(CallsRewritten(st, e).out, FALSE)
        BY <4>1, CallsRewrittenOK
      <4> QED
        BY <3>1, <4>2, <4>3 DEF Adapts
    <3>4. CASE e.t = "finish"
      <4>1. e.why \in Reasons
        BY <2>1, <3>4 DEF Chunks
      <4>2. Reason(st, e.why) \in Reasons
        BY <4>1 DEF Reason, Reasons
      <4>3. Tells(<<Finish(Reason(st, e.why))>>, FALSE)
        BY <4>2, FinishChunks, TellsOne
      <4>4. Adapts(Step(st, <<Finish(Reason(st, e.why))>>), FALSE)
        BY <4>3, AdaptsStep
      <4>5. Adapted(st, e) = Step(st, <<Finish(Reason(st, e.why))>>)
        BY <1>3, <3>4, AdaptedFinish
      <4> QED
        BY <3>1, <4>4, <4>5
    <3>5. CASE e.t # "finish" /\ ~(e.t = "text" /\ route.reads \in {"think", "calls"})
      <4>1. Tells(<<e>>, FALSE)
        BY <2>1, <2>3, TellsOne
      <4>2. Adapts(Step(st, <<e>>), FALSE)
        BY <4>1, AdaptsStep
      <4>3. Adapted(st, e) = Step(st, <<e>>)
        BY <1>3, <2>3, <3>5, AdaptedOther
      <4> QED
        BY <3>1, <4>2, <4>3
    <3> QED
      BY <3>2, <3>3, <3>4, <3>5
  <2> QED
    BY <2>2, <2>3
<1> QED
  BY <1>1, <1>2, <1>3

\* What keeps to the sets T[n] step by step ends in the last.
LEMMA AdaptedIn ==
  ASSUME NEW st, NEW cs \in Seq(Ins),
         NEW T, Step(st, <<>>) \in T[0],
         \A n \in 1 .. Len(cs) : \A x \in T[n - 1] : And(x, Adapted(x.st, cs[n])) \in T[n]
  PROVE  Fed(Adapted, st, cs) \in T[Len(cs)]
<1> DEFINE N == Len(cs)
           a == Step(st, <<>>)
           F == [n \in 1 .. N |-> [x \in T[n - 1] |-> And(x, Adapted(x.st, cs[n]))]]
           Is(f) == f = [n \in 0 .. N |-> IF n = 0 THEN Step(st, <<>>) ELSE And(f[n - 1], Adapted(f[n - 1].st, cs[n]))]
           fed == CHOOSE f : Is(f)
<1>1. N \in Nat
  OBVIOUS
<1>2. \A n \in 1 .. N : \A x \in T[n - 1] : F[n][x] = And(x, Adapted(x.st, cs[n]))
  OBVIOUS
<1>3. \A n \in 1 .. N : \A x \in T[n - 1] : F[n][x] \in T[n]
  <2> HIDE DEF F
  <2> QED
    BY <1>2
<1> HIDE DEF F, a, Is, N
<1>4. PICK f : Unfolds(f, N, a, F) /\ \A n \in 0 .. N : f[n] \in T[n]
  <2>1. a \in T[0]
    BY DEF a
  <2> QED
    BY <1>1, <1>3, <2>1, Recursion
<1>5. Is(f)
  <2> DEFINE h == [n \in 0 .. N |-> IF n = 0 THEN Step(st, <<>>) ELSE And(f[n - 1], Adapted(f[n - 1].st, cs[n]))]
  <2>1. ASSUME NEW n \in 0 .. N PROVE f[n] = h[n]
    <3>1. f[n] = IF n = 0 THEN a ELSE F[n][f[n - 1]]
      BY <1>4 DEF Unfolds
    <3>2. CASE n = 0
      BY <3>1, <3>2 DEF a
    <3>3. CASE n # 0
      <4>1. n \in 1 .. N /\ n - 1 \in 0 .. N
        BY <1>1, <3>3
      <4>2. f[n - 1] \in T[n - 1]
        BY <1>4, <4>1
      <4>3. F[n][f[n - 1]] = And(f[n - 1], Adapted(f[n - 1].st, cs[n]))
        BY <1>2, <4>1, <4>2
      <4> QED
        BY <3>1, <3>3, <4>3
    <3> QED
      BY <3>2, <3>3
  <2>2. f = [n \in 0 .. N |-> f[n]]
    BY <1>4 DEF Unfolds
  <2>3. h = [n \in 0 .. N |-> h[n]]
    OBVIOUS
  <2> HIDE DEF h
  <2>4. f = h
    BY <2>1, <2>2, <2>3, SameFunction
  <2> QED
    BY <2>4 DEF Is, h
<1>6. Is(fed)
  BY <1>5
<1>7. Fed(Adapted, st, cs) = fed[N]
  BY DEF Fed, Is, N
<1> HIDE DEF fed
<1>8. \A n \in 0 .. N : fed[n] = IF n = 0 THEN a ELSE And(fed[n - 1], Adapted(fed[n - 1].st, cs[n]))
  BY <1>6 DEF Is, a
<1>9. fed[N] \in T[N]
  <2> DEFINE S == {n \in 0 .. N : fed[n] \in T[n]}
  <2>1. 0 \in S
    <3>1. 0 \in 0 .. N /\ a \in T[0]
      BY <1>1 DEF a
    <3> QED
      BY <1>8, <3>1
  <2>2. ASSUME NEW n \in 1 .. N, n - 1 \in S PROVE n \in S
    <3>1. n \in 0 .. N /\ n # 0 /\ fed[n - 1] \in T[n - 1]
      BY <1>1, <2>2
    <3>2. fed[n] = And(fed[n - 1], Adapted(fed[n - 1].st, cs[n]))
      BY <1>8, <3>1
    <3>3. And(fed[n - 1], Adapted(fed[n - 1].st, cs[n])) \in T[n]
      BY <3>1 DEF N
    <3> QED
      BY <3>1, <3>2, <3>3
  <2> HIDE DEF S
  <2>3. 0 .. N \subseteq S
    BY <1>1, <2>1, <2>2, UpTo
  <2>4. N \in S
    BY <1>1, <2>3
  <2> QED
    BY <2>4 DEF S
<1> QED
  BY <1>7, <1>9 DEF N

\* The last event of an upstream is the last that is handled.
ClosesLast(es) == \A n \in 1 .. Len(es) : Closing(es[n]) => n = Len(es)
Closes(es) == \E n \in 1 .. Len(es) : Closing(es[n])

LEMMA AdaptedAll ==
  ASSUME route \in Routes, route.client = "anthropic", NEW st \in Mids,
         NEW es \in Seq(Ins), ClosesLast(es)
  PROVE  LET m == Fed(Adapted, st, es)
         IN  /\ m.st \in Mids
             /\ m.out \in Seq(Chunks)
             /\ LastOnly(m.out)
             /\ Ending(m.out) => Closes(es) /\ Drained(m.st)
<1> DEFINE N == Len(es)
           Steps == [st : Mids, out : Seq(Chunks)]
           Good(n, x) == /\ LastOnly(x.out)
                         /\ Ending(x.out) => n = N /\ n # 0 /\ Closing(es[n]) /\ Drained(x.st)
           T == [n \in 0 .. N |-> {x \in Steps : Good(n, x)}]
           a == Step(st, <<>>)
<1>1. N \in Nat /\ \A n \in 1 .. N : es[n] \in Ins
  OBVIOUS
<1>2. a \in T[0]
  <2>1. <<>> \in Seq(Chunks) /\ LastOnly(<<>>) /\ ~Ending(<<>>)
    BY DEF LastOnly, Ending
  <2>2. a \in Steps /\ a.st = st /\ a.out = <<>>
    BY <2>1 DEF Step
  <2> HIDE DEF a, Steps
  <2>3. Good(0, a)
    BY <2>1, <2>2
  <2>4. 0 \in 0 .. N
    BY <1>1
  <2> QED
    BY <2>2, <2>3, <2>4
<1>3. ASSUME NEW n \in 1 .. N, NEW x \in T[n - 1] PROVE And(x, Adapted(x.st, es[n])) \in T[n]
  <2> DEFINE e == es[n]
             y == Adapted(x.st, e)
             z == And(x, y)
  <2>1. n - 1 \in 0 .. N /\ n \in 0 .. N /\ n # 0 /\ n - 1 # N /\ e \in Ins
    BY <1>1
  <2>2. x \in Steps /\ Good(n - 1, x)
    BY <2>1
  <2>3. x.st \in Mids /\ x.out \in Seq(Chunks)
    BY <2>2
  <2>4. LastOnly(x.out) /\ ~Ending(x.out)
    BY <2>1, <2>2
  <2>5. z = [st |-> y.st, out |-> x.out \o y.out] /\ z.st = y.st /\ z.out = x.out \o y.out
    BY DEF And
  <2>6. Closing(e) => n = N
    BY DEF ClosesLast
  <2> HIDE DEF e, y, z, Steps, Good
  <2>7. Adapts(y, Closing(e))
    BY <2>1, <2>3, AdaptedOK DEF y
  <2>8. y.st \in Mids /\ Tells(y.out, Closing(e)) /\ (Closing(e) => Drained(y.st))
    BY <2>7, Zenon DEF Adapts
  <2>9. Tells(x.out, FALSE)
    BY <2>3, <2>4 DEF Tells
  <2>10. Tells(x.out \o y.out, Closing(e))
    BY <2>8, <2>9, TellsOn
  <2>11. /\ x.out \o y.out \in Seq(Chunks) /\ LastOnly(x.out \o y.out)
         /\ Ending(x.out \o y.out) => Closing(e)
    BY <2>10, Zenon DEF Tells
  <2>12. z \in Steps
    BY <2>5, <2>8, <2>11 DEF Steps
  <2>13. Good(n, z)
    BY <2>1, <2>5, <2>6, <2>8, <2>11 DEF Good, e
  <2>14. z \in T[n]
    BY <2>1, <2>12, <2>13
  <2> QED
    BY <2>14 DEF z, y, e
<1> DEFINE m == Fed(Adapted, st, es)
<1>4. m \in T[N]
  <2> HIDE DEF T
  <2> QED
    BY <1>2, <1>3, AdaptedIn
<1> HIDE DEF m
<1>5. m \in Steps /\ Good(N, m)
  BY <1>1, <1>4
<1>6. Ending(m.out) => Closes(es) /\ Drained(m.st)
  BY <1>1, <1>5 DEF Closes
<1> QED
  BY <1>5, <1>6 DEF m

-----------------------------------------------------------------------------
(* The invariant of a turn of an Anthropic client.                         *)

UpFields(u) ==
  /\ {"stage", "said", "begun"} \subseteq DOMAIN u
  /\ u.stage \in {"fresh", "saying", "finished", "over"}
  /\ u.said \in Nat
  /\ u.begun \subseteq Calls

SentTypes == [{TEXT, THINK} \cup Calls -> Seq(Int)]

\* What an upstream says, of which its last event is the end.
UpInv ==
  /\ UpFields(up) /\ sent \in SentTypes
  /\ in \in Seq(Ins) /\ ClosesLast(in)
  /\ up.stage \in {"fresh", "saying"} => ~Closes(in)
  /\ in # <<>> => out = <<>>

\* Behind that end nothing comes, and no filter keeps anything.
MidInv ==
  /\ mid \in Mids /\ relay \in RelayTypes
  /\ relay.terminated => /\ in = <<>> /\ up.stage \in {"finished", "over"}
                         /\ Drained(mid)
  /\ up.stage = "over" => in = <<>>

\* What is on its way leads the client to where the translator is.
Bound(v, o, st, s, over) ==
  /\ Leads(TRUE, KnownTo(v), o, s)
  /\ AState(st, s)
  /\ s.stage = "ended" => over

ClientInv ==
  /\ ViewOK(view) /\ out \in Seq(Events)
  /\ \E s : Bound(view, out, tr, s, relay.terminated \/ up.stage = "over")

BlocksInv ==
  /\ route \in Routes
  /\ route.client = "anthropic" => UpInv /\ MidInv /\ ClientInv

LEMMA SameRoute ==
  ASSUME route' = route
  PROVE  /\ Mids' = Mids /\ Ins' = Ins
         /\ ClosesLast(in)' <=> ClosesLast(in')
         /\ Closes(in)' <=> Closes(in')
         /\ Drained(mid)' <=> Drained(mid')
BY DEF Mids, Ins, ClosesLast, Closes, Closing, Drained

\* The start of a turn.
LEMMA MidFreshOK ==
  ASSUME route \in Routes, route.client = "anthropic"
  PROVE  MidFresh \in Mids
<1>1. /\ route.up \in {"chat", "responses"} /\ route.reads \in {"plain", "think", "calls"}
      /\ route.reads # "plain" => route.up = "chat"
  BY RouteFacts
<1>2. CASE route.up = "responses"
  <2>0. route.reads = "plain"
    BY <1>1, <1>2
  <2>1. MidFresh = GFresh
    BY <1>2, <2>0, Zenon DEF MidFresh
  <2>2. {} \in SUBSET Calls /\ [i \in {} |-> 0] \in [{} -> Nat]
    OBVIOUS
  <2> DEFINE nothing == [i \in {} |-> 0]
  <2>3. nothing \in UNION {[D -> Nat] : D \in SUBSET Calls}
    BY <2>2
  <2> HIDE DEF nothing
  <2>4. [tools |-> nothing, streamed |-> FALSE, done |-> FALSE] \in GTypes
    BY <2>3 DEF GTypes
  <2> QED
    BY <1>2, <2>1, <2>4 DEF GFresh, Mids, nothing
<1>3. CASE route.up = "chat" /\ route.reads = "plain"
  <2>1. MidFresh = "chat"
    BY <1>3, Zenon DEF MidFresh
  <2> QED
    BY <1>3, <2>1 DEF Mids
<1>4. CASE route.up = "chat" /\ route.reads = "think"
  <2>1. MidFresh = ThinkFresh
    BY <1>4, Zenon DEF MidFresh
  <2>2. ThinkFresh \in ThinkTypes
    BY DEF ThinkFresh, ThinkTypes
  <2> QED
    BY <1>4, <2>1, <2>2 DEF Mids
<1>5. CASE route.up = "chat" /\ route.reads = "calls"
  <2>1. MidFresh = CallTextFresh
    BY <1>5, Zenon DEF MidFresh
  <2>2. CallTextFresh \in CallTypes
    BY DEF CallTextFresh, CallTypes
  <2> QED
    BY <1>5, <2>1, <2>2 DEF Mids
<1> QED
  BY <1>1, <1>2, <1>3, <1>4, <1>5

LEMMA BlocksInit == Init => BlocksInv
<1> SUFFICES ASSUME Init, route.client = "anthropic" PROVE UpInv /\ MidInv /\ ClientInv
  BY DEF Init, BlocksInv
<1>1. route \in Routes
  BY DEF Init
<1>2. UpInv
  <2>1. UpFields(up) /\ sent \in SentTypes
    <3>1. sent = [w \in {TEXT, THINK} \cup Calls |-> <<>>]
      BY DEF Init
    <3>2. UpFields(up)
      BY DEF Init, UpFields
    <3> QED
      BY <3>1, <3>2 DEF SentTypes
  <2>2. in = <<>> /\ Len(in) = 0
    BY DEF Init
  <2> QED
    BY <2>1, <2>2 DEF UpInv, ClosesLast, Closes
<1>3. MidInv
  <2>1. mid \in Mids
    BY <1>1, MidFreshOK DEF Init
  <2> QED
    BY <2>1 DEF Init, MidInv, RelayTypes
<1>4. ClientInv
  <2>1. view.stage = "before" /\ DOMAIN view.body = {} /\ view.closed = {} /\ HasFields(view)
    BY DEF Init, NoView, HasFields
  <2>2. ViewOK(view)
    <3>1. view.body = [i \in {} |-> 0]
      BY DEF Init, NoView
    <3>2. view.body \in [DOMAIN view.body -> Seq(Int)]
      BY <3>1
    <3> QED
      BY <2>1, <3>2 DEF ViewOK
  <2>3. out = <<>>
    BY DEF Init
  <2> DEFINE k == Known("before", {}, {})
  <2>4. KnownTo(view) = k
    BY <2>1 DEF KnownTo
  <2>5. Leads(TRUE, KnownTo(view), out, k)
    BY <2>3, <2>4, LeadsNone
  <2>6. AState(tr, k)
    <3>1. tr = AFresh
      BY Zenon DEF Init, TrFresh
    <3>2. AFresh \in ATypes
      <4>1. <<>> \in Seq(ASlotTypes) /\ "none" \in Reasons
        BY DEF Reasons
      <4> QED
        BY <4>1 DEF AFresh, ATypes
    <3>3. Fresh(AFresh)
      BY DEF AFresh, Fresh
    <3> QED
      BY <3>1, <3>2, <3>3 DEF AState
  <2>7. k.stage # "ended"
    BY DEF Known
  <2> HIDE DEF k
  <2>8. Bound(view, out, tr, k, relay.terminated \/ up.stage = "over")
    BY <2>5, <2>6, <2>7, Zenon DEF Bound
  <2>9. out \in Seq(Events)
    BY <2>3
  <2> QED
    BY <2>2, <2>8, <2>9, Zenon DEF ClientInv
<1> QED
  BY <1>2, <1>3, <1>4

\* How a turn gets from what has been read to what is written next.
LEMMA BoundOn ==
  ASSUME NEW v, NEW st, NEW s, NEW over, NEW r, NEW t, NEW later,
         Bound(v, <<>>, st, s, over),
         r.out \in Seq(Events), Leads(TRUE, s, r.out, t), AState(r.st, t),
         t.stage = "ended" => later
  PROVE  Bound(v, r.out, r.st, t, later)
<1>1. Leads(TRUE, KnownTo(v), <<>>, s)
  BY Zenon DEF Bound
<1>2. <<>> \in Seq(Events)
  OBVIOUS
<1>3. Leads(TRUE, KnownTo(v), <<>> \o r.out, t)
  BY <1>1, <1>2, LeadsOn
<1>4. <<>> \o r.out = r.out
  OBVIOUS
<1>5. Leads(TRUE, KnownTo(v), r.out, t)
  BY <1>3, <1>4
<1> QED
  BY <1>5, Zenon DEF Bound

LEMMA BoundFacts ==
  ASSUME NEW v, NEW o, NEW st, NEW s, NEW over, Bound(v, o, st, s, over)
  PROVE  AState(st, s) /\ (s.stage = "ended" => over)
BY Zenon DEF Bound

LEMMA ToldFacts ==
  ASSUME NEW s, NEW cs, NEW r, NEW t, AToldTo(s, cs, r, t)
  PROVE  /\ r.out \in Seq(Events)
         /\ AState(r.st, t)
         /\ t.stage = "ended" => s.stage = "ended" \/ Ending(cs)
         /\ cs # <<>> /\ ~Ending(cs) => r.st.started
BY Zenon DEF AToldTo

LEMMA ToldLeads ==
  ASSUME NEW s, NEW cs, NEW r, NEW t, AToldTo(s, cs, r, t)
  PROVE  Leads(TRUE, s, r.out, t)
BY Zenon DEF AToldTo

\* What an upstream said goes all the way.
LEMMA HandlesOK ==
  ASSUME BlocksInv, route.client = "anthropic", Handles
  PROVE  BlocksInv'
<1> DEFINE m == Fed(Adapted, mid, in)
           r == Relayed(relay, m.out)
           t == Told(tr, r.out)
<1>1. /\ in # <<>> /\ in' = <<>>
      /\ mid' = m.st /\ relay' = r.st /\ tr' = t.st /\ out' = t.out
      /\ route' = route /\ up' = up /\ sent' = sent /\ view' = view
  BY DEF Handles
<1>2. route \in Routes /\ UpInv /\ MidInv /\ ClientInv
  BY DEF BlocksInv
<1>3. /\ in \in Seq(Ins) /\ ClosesLast(in) /\ out = <<>> /\ UpFields(up) /\ sent \in SentTypes
      /\ up.stage \in {"fresh", "saying"} => ~Closes(in)
  BY <1>1, <1>2 DEF UpInv
<1>4. mid \in Mids /\ relay \in RelayTypes /\ ~relay.terminated /\ up.stage # "over"
  BY <1>1, <1>2 DEF MidInv
<1>5. /\ m.st \in Mids
      /\ m.out \in Seq(Chunks)
      /\ Ending(m.out) => Closes(in) /\ Drained(m.st)
  BY <1>2, <1>3, <1>4, AdaptedAll
<1> HIDE DEF m
<1>6. /\ r.st \in RelayTypes
      /\ r.out \in Seq(Chunks)
      /\ LastOnly(r.out)
      /\ Ending(r.out) => r.st.terminated
      /\ r.st.terminated => Ending(m.out)
  BY <1>4, <1>5, ARelayedOK
<1> HIDE DEF r
<1> DEFINE over == relay.terminated \/ up.stage = "over"
           later == r.st.terminated \/ up.stage = "over"
<1>7. PICK s : Bound(view, <<>>, tr, s, over)
  BY <1>2, <1>3, Zenon DEF ClientInv
<1>8. AState(tr, s) /\ s.stage # "ended"
  BY <1>4, <1>7, BoundFacts
<1>9. PICK u : AToldTo(s, r.out, t, u)
  BY <1>6, <1>8, AToldOK
<1> HIDE DEF t
<1>10. /\ t.out \in Seq(Events) /\ AState(t.st, u)
       /\ u.stage = "ended" => Ending(r.out)
  BY <1>8, <1>9, ToldFacts
<1>11. u.stage = "ended" => later
  BY <1>6, <1>10
<1>12. Leads(TRUE, s, t.out, u)
  BY <1>9, ToldLeads
<1> HIDE DEF over, later
<1>13. Bound(view, t.out, t.st, u, later)
  BY <1>7, <1>10, <1>11, <1>12, BoundOn
<1>14. ClientInv'
  <2>1. ViewOK(view) /\ t.out \in Seq(Events)
    BY <1>2, <1>10 DEF ClientInv
  <2>2. later = (relay'.terminated \/ up'.stage = "over")
    BY <1>1 DEF later
  <2>3. Bound(view', out', tr', u, relay'.terminated \/ up'.stage = "over")
    BY <1>1, <1>13, <2>2
  <2>4. ViewOK(view') /\ out' \in Seq(Events)
    BY <1>1, <2>1
  <2> QED
    BY <2>3, <2>4, Zenon DEF ClientInv
<1>15. UpInv'
  <2>1. in' \in Seq(Ins') /\ ClosesLast(in')
    BY <1>1 DEF ClosesLast
  <2>2. ~Closes(in')
    BY <1>1 DEF Closes
  <2>3. ClosesLast(in)' /\ ~Closes(in)'
    BY <1>1, <2>1, <2>2, SameRoute
  <2>4. UpFields(up)' /\ (sent \in SentTypes)'
    BY <1>1, <1>3 DEF UpFields, SentTypes
  <2> QED
    BY <1>1, <2>1, <2>3, <2>4 DEF UpInv
<1>16. MidInv'
  <2>1. mid' \in Mids' /\ relay' \in RelayTypes
    BY <1>1, <1>5, <1>6, SameRoute
  <2>2. relay'.terminated => Closes(in) /\ Drained(m.st)
    BY <1>1, <1>5, <1>6
  <2>3. relay'.terminated => up'.stage \in {"finished", "over"}
    BY <1>1, <1>3, <2>2 DEF UpFields
  <2>4. Drained(m.st) => Drained(mid)'
    BY <1>1 DEF Drained
  <2> QED
    BY <1>1, <2>1, <2>2, <2>3, <2>4 DEF MidInv
<1> QED
  BY <1>1, <1>2, <1>14, <1>15, <1>16 DEF BlocksInv

\* A tool is served: the open block stays apart from the blocks that follow.
LEMMA ServesOK ==
  ASSUME BlocksInv, route.client = "anthropic", Serves
  PROVE  BlocksInv'
<1> DEFINE cs == <<Role, Usage>>
           t == Told(tr, cs)
<1>0. PICK search \in BOOLEAN :
        LET q == AServed(t.st, search) IN tr' = q.st /\ out' = t.out \o q.out
  BY Zenon DEF Serves
<1> DEFINE q == AServed(t.st, search)
           es == t.out \o q.out
<1>1. /\ in = <<>> /\ out = <<>> /\ up.stage = "saying"
      /\ up' = [up EXCEPT !.served = @ + 1, !.style = "none"]
      /\ mid' = MidFresh
      /\ route' = route /\ sent' = sent /\ in' = in /\ relay' = relay /\ view' = view
  BY DEF Serves, Ready, Quiet
<1>2. tr' = q.st /\ out' = es
  BY <1>0
<1>3. route \in Routes /\ UpInv /\ MidInv /\ ClientInv
  BY DEF BlocksInv
<1>4. UpFields(up) /\ sent \in SentTypes
  BY <1>3 DEF UpInv
<1>5. relay \in RelayTypes /\ ~relay.terminated
  BY <1>1, <1>3 DEF MidInv
<1>6. cs \in Seq(Chunks) /\ Len(cs) = 2 /\ cs[1].t = "role" /\ cs[2].t = "usage"
  BY BareChunks
<1>7. LastOnly(cs) /\ ~Ending(cs) /\ cs # <<>>
  BY <1>6 DEF LastOnly, Ending
<1> HIDE DEF cs
<1> DEFINE over == relay.terminated \/ up.stage = "over"
<1>8. PICK s : Bound(view, <<>>, tr, s, over)
  BY <1>1, <1>3, Zenon DEF ClientInv
<1>9. AState(tr, s) /\ s.stage # "ended"
  BY <1>1, <1>5, <1>8, BoundFacts
<1>10. PICK u : AToldTo(s, cs, t, u)
  BY <1>6, <1>7, <1>9, AToldOK
<1> HIDE DEF t
<1>11. /\ t.out \in Seq(Events) /\ AState(t.st, u)
       /\ u.stage # "ended" /\ t.st.started
  BY <1>7, <1>9, <1>10, ToldFacts
<1>12. Leads(TRUE, s, t.out, u)
  BY <1>10, ToldLeads
<1> DEFINE k == Dense(t.st.next, AOpen(t.st))
           w == Dense(q.st.next, AOpen(q.st))
<1>13. AOK(t.st) /\ u = k
  BY <1>11 DEF AState, Fresh
<1>14. AOK(q.st) /\ ALeads(t.st, q.out, q.st) /\ q.st.started = t.st.started
  BY <1>13, AServedOK
<1> HIDE DEF q
<1>15. q.out \in Seq(Events)
  BY <1>14 DEF ALeads
<1>16. Leads(TRUE, k, q.out, w)
  BY <1>14, Zenon DEF ALeads
<1>17. Leads(TRUE, s, es, w)
  <2>1. Leads(TRUE, u, q.out, w)
    BY <1>13, <1>16
  <2> HIDE DEF k, w
  <2> QED
    BY <1>11, <1>12, <1>15, <2>1, LeadsOn
<1>18. AState(q.st, w) /\ w.stage # "ended"
  <2>1. q.st \in ATypes /\ q.st.started
    BY <1>11, <1>14 DEF AOK
  <2>2. w.stage = "open"
    BY DEF Dense, Known
  <2>3. AState(q.st, w)
    <3> HIDE DEF w
    <3> QED
      BY <1>14, <2>1, Zenon DEF AState, w
  <2> HIDE DEF w
  <2> QED
    BY <2>2, <2>3
<1>19. es \in Seq(Events)
  BY <1>11, <1>15
<1> HIDE DEF es, w, k
<1>20. Bound(view, es, q.st, w, relay.terminated \/ up'.stage = "over")
  <2> DEFINE x == Step(q.st, es)
  <2>1. x.st = q.st /\ x.out = es
    BY DEF Step
  <2> HIDE DEF x, over
  <2>2. Bound(view, x.out, x.st, w, relay.terminated \/ up'.stage = "over")
    BY <1>8, <1>17, <1>18, <1>19, <2>1, BoundOn
  <2> QED
    BY <2>1, <2>2
<1>21. ClientInv'
  <2>1. ViewOK(view')
    BY <1>1, <1>3 DEF ClientInv
  <2>2. Bound(view', out', tr', w, relay'.terminated \/ up'.stage = "over")
    BY <1>1, <1>2, <1>20
  <2>3. out' \in Seq(Events)
    BY <1>2, <1>19
  <2> QED
    BY <2>1, <2>2, <2>3, Zenon DEF ClientInv
<1>22. UpFields(up') /\ up'.stage = up.stage
  BY <1>1, <1>4 DEF UpFields
<1>23. UpInv'
  <2>1. ClosesLast(in') /\ ~Closes(in') /\ in' \in Seq(Ins')
    BY <1>1 DEF ClosesLast, Closes
  <2>2. ClosesLast(in)' /\ ~Closes(in)'
    BY <1>1, <2>1, SameRoute
  <2>3. (sent \in SentTypes)'
    BY <1>1, <1>4 DEF SentTypes
  <2> QED
    BY <1>1, <1>22, <2>1, <2>2, <2>3 DEF UpInv, UpFields
<1>24. MidInv'
  <2>1. mid' \in Mids'
    BY <1>1, <1>3, MidFreshOK, SameRoute
  <2> QED
    BY <1>1, <1>5, <1>22, <2>1 DEF MidInv
<1> QED
  BY <1>1, <1>3, <1>21, <1>23, <1>24 DEF BlocksInv

LEMMA CompletedOther ==
  ASSUME route.client = "anthropic", NEW st
  PROVE  Completed(st) = Step(st, <<>>)
BY Zenon DEF Completed

\* The body ends: what a filter kept goes out, and the message is brought to its end.
LEMMA EndsOK ==
  ASSUME BlocksInv, route.client = "anthropic", Ends
  PROVE  BlocksInv'
<1> DEFINE held == Flushed(mid)
           cs == held.out \o <<Done>>
           t == Told(tr, cs)
           c == Completed(t.st)
<1>1. /\ in = <<>> /\ out = <<>> /\ up.stage \in {"saying", "finished"}
      /\ up' = [up EXCEPT !.stage = "over"]
      /\ relay' = [relay EXCEPT !.done = TRUE]
      /\ route' = route /\ sent' = sent /\ in' = in /\ view' = view
  BY DEF Ends, Quiet
<1>2. mid' = held.st /\ tr' = c.st /\ out' = t.out \o c.out
  BY DEF Ends
<1>3. route \in Routes /\ UpInv /\ MidInv /\ ClientInv
  BY DEF BlocksInv
<1>4. UpFields(up) /\ sent \in SentTypes
  BY <1>3 DEF UpInv
<1>5. mid \in Mids /\ relay \in RelayTypes /\ (relay.terminated => Drained(mid))
  BY <1>1, <1>3 DEF MidInv
<1>6. held.st \in Mids /\ Tells(held.out, FALSE) /\ Drained(held.st)
  BY <1>3, <1>5, FlushedOK
<1>7. relay.terminated => held.out = <<>>
  BY <1>3, <1>5, DrainedOut
<1> HIDE DEF held
<1>8. Tells(cs, TRUE)
  <2>1. Tells(<<Done>>, TRUE)
    BY BareChunks, TellsOne
  <2> QED
    BY <1>6, <2>1, TellsOn
<1>9. cs \in Seq(Chunks) /\ LastOnly(cs)
  BY <1>8, Zenon DEF Tells
<1>10. relay.terminated => \A n \in 1 .. Len(cs) : cs[n].t = "done"
  <2>1. Done.t = "done" /\ Len(<<Done>>) = 1 /\ <<Done>>[1] = Done /\ <<>> \o <<Done>> = <<Done>>
    BY BareChunks
  <2> QED
    BY <1>7, <2>1
<1> HIDE DEF cs
<1> DEFINE over == relay.terminated \/ up.stage = "over"
<1>11. PICK s : Bound(view, <<>>, tr, s, over)
  BY <1>1, <1>3, Zenon DEF ClientInv
<1>12. AState(tr, s) /\ (s.stage = "ended" => relay.terminated)
  BY <1>1, <1>11, BoundFacts
<1>13. PICK u : AToldTo(s, cs, t, u)
  BY <1>9, <1>10, <1>12, AToldOK
<1> HIDE DEF t
<1>14. t.out \in Seq(Events) /\ AState(t.st, u)
  BY <1>13, ToldFacts
<1>15. Leads(TRUE, s, t.out, u)
  BY <1>13, ToldLeads
<1>16. tr' = t.st /\ out' = t.out
  <2>1. c.st = t.st /\ c.out = <<>>
    BY CompletedOther DEF Step
  <2>2. t.out \o <<>> = t.out
    BY <1>14
  <2> QED
    BY <1>2, <2>1, <2>2
<1> HIDE DEF over
<1>17. Bound(view, t.out, t.st, u, TRUE)
  BY <1>11, <1>14, <1>15, BoundOn
<1>18. up'.stage = "over" /\ UpFields(up')
  BY <1>1, <1>4 DEF UpFields
<1>19. ClientInv'
  <2>1. ViewOK(view')
    BY <1>1, <1>3 DEF ClientInv
  <2>2. (relay'.terminated \/ up'.stage = "over") = TRUE
    BY <1>18
  <2>3. Bound(view', out', tr', u, relay'.terminated \/ up'.stage = "over")
    BY <1>1, <1>16, <1>17, <2>2
  <2>4. out' \in Seq(Events)
    BY <1>14, <1>16
  <2> QED
    BY <2>1, <2>3, <2>4, Zenon DEF ClientInv
<1>20. UpInv'
  <2>1. ClosesLast(in') /\ ~Closes(in') /\ in' \in Seq(Ins')
    BY <1>1 DEF ClosesLast, Closes
  <2>2. ClosesLast(in)' /\ ~Closes(in)'
    BY <1>1, <2>1, SameRoute
  <2>3. (sent \in SentTypes)'
    BY <1>1, <1>4 DEF SentTypes
  <2> QED
    BY <1>1, <1>18, <2>1, <2>2, <2>3 DEF UpInv, UpFields
<1>21. MidInv'
  <2>1. mid' \in Mids' /\ Drained(mid)'
    <3>1. Drained(mid)' <=> Drained(held.st)
      BY <1>1, <1>2 DEF Drained
    <3> QED
      BY <1>1, <1>2, <1>6, <3>1, SameRoute
  <2>2. relay' \in RelayTypes
    BY <1>1, <1>5 DEF RelayTypes
  <2> QED
    BY <1>1, <1>18, <2>1, <2>2 DEF MidInv
<1> QED
  BY <1>1, <1>3, <1>19, <1>20, <1>21 DEF BlocksInv

\* The client reads an event.
LEMMA BoundHead ==
  ASSUME ClientInv, out # <<>>
  PROVE  /\ Head(out) \in Events
         /\ Allowed(TRUE, KnownTo(view), Head(out))
<1>1. PICK s : Bound(view, out, tr, s, relay.terminated \/ up.stage = "over")
  BY Zenon DEF ClientInv
<1>2. Leads(TRUE, KnownTo(view), out, s)
  BY <1>1, Zenon DEF Bound
<1>3. out \in Seq(Events)
  BY DEF ClientInv
<1> QED
  BY <1>2, <1>3, LeadsHead

LEMMA ReadsOK ==
  ASSUME BlocksInv, route.client = "anthropic", Reads
  PROVE  BlocksInv' /\ [AnthropicTurn!TurnNext]_(AnthropicTurn!turnVars)
<1>1. /\ out # <<>> /\ out' = Tail(out)
      /\ route' = route /\ up' = up /\ sent' = sent /\ in' = in /\ mid' = mid /\ relay' = relay /\ tr' = tr
  BY DEF Reads
<1>2. route \in Routes /\ UpInv /\ MidInv /\ ClientInv
  BY DEF BlocksInv
<1>3. ViewOK(view) /\ out \in Seq(Events)
  BY <1>2 DEF ClientInv
<1> DEFINE over == relay.terminated \/ up.stage = "over"
           e == Head(out)
<1>4. PICK s : Bound(view, out, tr, s, over)
  BY <1>2, Zenon DEF ClientInv
<1>5. Leads(TRUE, KnownTo(view), out, s)
  BY <1>4, Zenon DEF Bound
<1>6. e \in Events /\ Tail(out) \in Seq(Events)
  BY <1>1, <1>3, <1>5, LeadsHead
<1>7. Allowed(TRUE, KnownTo(view), e)
  BY <1>1, <1>3, <1>5, LeadsHead
<1>8. Leads(TRUE, After(KnownTo(view), e), Tail(out), s)
  BY <1>1, <1>3, <1>5, LeadsHead
<1>9. [AnthropicTurn!TurnNext]_(AnthropicTurn!turnVars)
  BY <1>3, <1>6, <1>7, AnthropicReads
<1>10. ViewOK(Seen(e)) /\ KnownTo(Seen(e)) = After(KnownTo(view), e)
  BY <1>3, <1>6, <1>7, ViewAfter
<1>11. ViewOK(view') /\ KnownTo(view') = KnownTo(Seen(e))
  <2>1. HasFields(Seen(Head(out)))
    BY <1>10 DEF ViewOK
  <2>2. /\ HasFields(view')
        /\ view'.stage = Seen(e).stage /\ view'.body = Seen(e).body /\ view'.closed = Seen(e).closed
    BY <2>1, ReadsView
  <2> HIDE DEF e
  <2> QED
    BY <1>10, <2>2 DEF ViewOK, KnownTo
<1>12. Leads(TRUE, KnownTo(view'), out', s)
  <2>1. KnownTo(view') = After(KnownTo(view), e)
    BY <1>10, <1>11
  <2> HIDE DEF e
  <2> QED
    BY <1>1, <1>8, <2>1
<1>13. ClientInv'
  <2>1. AState(tr', s) /\ (s.stage = "ended" => relay'.terminated \/ up'.stage = "over")
    BY <1>1, <1>4, BoundFacts
  <2>2. Bound(view', out', tr', s, relay'.terminated \/ up'.stage = "over")
    BY <1>12, <2>1, Zenon DEF Bound
  <2>3. out' \in Seq(Events)
    BY <1>1, <1>6
  <2> QED
    BY <1>11, <2>2, <2>3, Zenon DEF ClientInv
<1>14. UpInv'
  <2>1. in = <<>>
    BY <1>1, <1>2 DEF UpInv
  <2>2. ClosesLast(in') /\ ~Closes(in') /\ in' \in Seq(Ins')
    BY <1>1, <2>1 DEF ClosesLast, Closes
  <2>3. ClosesLast(in)' /\ ~Closes(in)'
    BY <1>1, <2>2, SameRoute
  <2>4. UpFields(up)' /\ (sent \in SentTypes)'
    BY <1>1, <1>2 DEF UpInv, UpFields, SentTypes
  <2> QED
    BY <1>1, <2>1, <2>2, <2>3, <2>4 DEF UpInv
<1>15. MidInv'
  <2>1. mid' \in Mids' /\ (Drained(mid) => Drained(mid)')
    BY <1>1, <1>2, SameRoute DEF MidInv, Drained
  <2> QED
    BY <1>1, <1>2, <2>1 DEF MidInv
<1> QED
  BY <1>1, <1>2, <1>9, <1>13, <1>14, <1>15 DEF BlocksInv

\* An upstream says something.
LEMMA FeedsOK ==
  ASSUME BlocksInv, route.client = "anthropic", Quiet, up.stage # "over", ~relay.terminated,
         NEW es \in Seq(Ins), ClosesLast(es), FeedAll(es),
         UpFields(up'), up'.stage # "over", sent' \in SentTypes,
         Closes(es) => up'.stage = "finished"
  PROVE  BlocksInv'
<1>1. /\ in' = es /\ out = <<>>
      /\ route' = route /\ mid' = mid /\ relay' = relay /\ tr' = tr /\ out' = out /\ view' = view
  BY DEF FeedAll, Quiet
<1>2. route \in Routes /\ UpInv /\ MidInv /\ ClientInv
  BY DEF BlocksInv
<1>3. UpInv'
  <2>1. ClosesLast(in') /\ in' \in Seq(Ins') /\ (Closes(in') => up'.stage = "finished")
    BY <1>1, SameRoute
  <2>2. ClosesLast(in)' /\ (Closes(in)' => up'.stage = "finished")
    BY <1>1, <2>1, SameRoute
  <2> QED
    BY <1>1, <2>1, <2>2 DEF UpInv, UpFields, SentTypes
<1>4. MidInv'
  <2>1. mid' \in Mids'
    BY <1>1, <1>2, SameRoute DEF MidInv
  <2> QED
    BY <1>1, <1>2, <2>1 DEF MidInv
<1>5. ClientInv'
  <2>1. PICK s : Bound(view, out, tr, s, relay.terminated \/ up.stage = "over")
    BY <1>2, Zenon DEF ClientInv
  <2>2. (relay.terminated \/ up.stage = "over") = (relay'.terminated \/ up'.stage = "over")
    BY <1>1
  <2>3. Bound(view', out', tr', s, relay'.terminated \/ up'.stage = "over")
    BY <1>1, <2>1, <2>2
  <2>4. ViewOK(view') /\ out' \in Seq(Events)
    BY <1>1, <1>2 DEF ClientInv
  <2> QED
    BY <2>3, <2>4, Zenon DEF ClientInv
<1> QED
  BY <1>1, <1>2, <1>3, <1>4, <1>5 DEF BlocksInv

\* What holds when an upstream may still say something.
LEMMA Open0 ==
  ASSUME BlocksInv, route.client = "anthropic"
  PROVE  /\ route \in Routes /\ UpFields(up) /\ sent \in SentTypes
         /\ route.up \in {"chat", "responses"}
         /\ up.stage \in {"fresh", "saying"} => ~relay.terminated
BY RouteFacts DEF BlocksInv, UpInv, MidInv

LEMMA FeedOneOK ==
  ASSUME BlocksInv, route.client = "anthropic", Quiet, up.stage # "over", ~relay.terminated,
         NEW e \in Ins, Feed(e),
         UpFields(up'), up'.stage # "over", sent' \in SentTypes,
         Closing(e) => up'.stage = "finished"
  PROVE  BlocksInv'
<1> DEFINE es == <<e>>
<1>1. es \in Seq(Ins) /\ Len(es) = 1 /\ es[1] = e /\ 1 .. 1 = {1}
  OBVIOUS
<1>2. FeedAll(es)
  BY DEF Feed
<1> HIDE DEF es
<1>3. ClosesLast(es) /\ (Closes(es) => Closing(e))
  BY <1>1 DEF ClosesLast, Closes
<1> QED
  BY <1>1, <1>2, <1>3, FeedsOK

\* The fields a turn is followed by, after what an upstream said.
LEMMA SaidOK ==
  ASSUME NEW change, UpFields(change), Said(change)
  PROVE  UpFields(up') /\ up'.stage = "saying"
BY DEF Said, UpFields

LEMMA UpChanged ==
  ASSUME UpFields(up), NEW b \in SUBSET Calls, NEW x, NEW y
  PROVE  UpFields([up EXCEPT !.begun = b, !.known = x, !.named = y])
BY DEF UpFields

LEMMA UpStyled ==
  ASSUME UpFields(up), NEW x
  PROVE  UpFields([up EXCEPT !.style = x])
BY DEF UpFields

LEMMA PiecedOK ==
  ASSUME sent \in SentTypes, NEW what \in {TEXT, THINK} \cup Calls, NEW n \in Int, Pieced(what, n)
  PROVE  sent' \in SentTypes
<1>1. Append(sent[what], n) \in Seq(Int)
  BY DEF SentTypes
<1> QED
  BY <1>1 DEF SentTypes, Pieced

LEMMA AnnouncesOK ==
  ASSUME BlocksInv, route.client = "anthropic", Announces
  PROVE  BlocksInv'
<1> DEFINE e == IF route.up = "chat" THEN Role ELSE Start
<1>1. Quiet /\ up.stage = "fresh" /\ up' = [up EXCEPT !.stage = "saying"] /\ Feed(e) /\ sent' = sent
  BY DEF Announces, Ready
<1>2. ~relay.terminated /\ UpFields(up) /\ sent \in SentTypes /\ route.up \in {"chat", "responses"}
  BY <1>1, Open0
<1>3. e \in Ins /\ ~Closing(e)
  <2>1. CASE route.up = "chat"
    BY <2>1, BareChunks DEF Ins, Closing
  <2>2. CASE route.up = "responses"
    <3>1. e = [e |-> "start"]
      BY <2>2 DEF Start
    <3> QED
      BY <2>2, <3>1 DEF Ins, Closing, UpEvents
  <2> QED
    BY <1>2, <2>1, <2>2
<1> HIDE DEF e
<1>4. UpFields(up') /\ up'.stage = "saying"
  BY <1>1, <1>2 DEF UpFields
<1> QED
  BY <1>1, <1>2, <1>3, <1>4, FeedOneOK

LEMMA TextsOK ==
  ASSUME route \in Routes, UpFields(up), NEW ps \in Texts
  PROVE  ps \in Seq(Int)
<1>1. NextPiece \in Int
  BY DEF NextPiece, UpFields
<1>2. Blank \in Int /\ LT \in Int /\ SLASH \in Int /\ THINKS \in Int
      /\ CALLS \in Int /\ VALID \in Int /\ CLOSER \in Int
  BY DEF Blank, LT, SLASH, THINKS, CALLS, VALID, CLOSER
<1>3. \A a, b, c \in Int : <<a>> \in Seq(Int) /\ <<a, b>> \in Seq(Int) /\ <<a, b, c>> \in Seq(Int)
  OBVIOUS
<1>4. CASE route.reads = "plain"
  <2>1. ps \in {<<NextPiece>>} \cup (IF sent[TEXT] = <<>> THEN {<<Blank>>} ELSE {})
    BY <1>4, Zenon DEF Texts
  <2>2. ps = <<NextPiece>> \/ ps = <<Blank>>
    BY <2>1
  <2> QED
    BY <1>1, <1>2, <1>3, <2>2
<1>5. CASE route.reads = "think"
  <2>1. ps \in {<<NextPiece>>, <<LT>>, <<SLASH>>, <<THINKS>>, <<LT, THINKS>>, <<NextPiece, LT>>,
                <<THINKS, NextPiece>>, <<SLASH, THINKS, NextPiece>>}
    BY <1>5, Zenon DEF Texts
  <2> QED
    BY <1>1, <1>2, <1>3, <2>1
<1>6. CASE route.reads = "calls"
  <2>1. ps \in {<<NextPiece>>, <<LT>>, <<CALLS>>, <<VALID>>, <<CLOSER>>, <<NextPiece, LT>>,
                <<CALLS, VALID>>, <<VALID, CLOSER, NextPiece>>, <<CLOSER, LT>>}
    BY <1>6, Zenon DEF Texts
  <2> QED
    BY <1>1, <1>2, <1>3, <2>1
<1> QED
  BY <1>4, <1>5, <1>6, RouteFacts

LEMMA ChatSpeaksOK ==
  ASSUME BlocksInv, route.client = "anthropic", ChatSpeaks
  PROVE  BlocksInv'
<1>1. Quiet /\ up.stage \in {"fresh", "saying"} /\ route.up = "chat" /\ Said(up)
  BY DEF ChatSpeaks, Speaks, Ready
<1>2. ~relay.terminated /\ UpFields(up) /\ sent \in SentTypes /\ route \in Routes
  BY <1>1, Open0
<1>3. UpFields(up') /\ up'.stage = "saying"
  BY <1>1, <1>2, SaidOK
<1>4. Ins = Chunks /\ \A c : Closing(c) = (c.t = "done")
  BY <1>1 DEF Ins, Closing
<1>5. CASE \E ps \in Texts : sent' = [sent EXCEPT ![TEXT] = @ \o ps] /\ Feed(Text(ps))
  <2>1. PICK ps \in Texts : sent' = [sent EXCEPT ![TEXT] = @ \o ps] /\ Feed(Text(ps))
    BY <1>5
  <2>2. ps \in Seq(Int)
    BY <1>2, TextsOK
  <2>3. sent' \in SentTypes
    <3>1. sent[TEXT] \o ps \in Seq(Int)
      BY <1>2, <2>2 DEF SentTypes
    <3> QED
      BY <1>2, <2>1, <3>1 DEF SentTypes
  <2>4. Text(ps) \in Ins /\ ~Closing(Text(ps))
    BY <1>4, <2>2, SaidChunks
  <2> QED
    BY <1>1, <1>2, <1>3, <2>1, <2>3, <2>4, FeedOneOK
<1>6. CASE Pieced(THINK, NextPiece) /\ Feed(Think(<<NextPiece>>))
  <2>1. NextPiece \in Int
    BY <1>2 DEF NextPiece, UpFields
  <2>2. <<NextPiece>> \in Seq(Int)
    BY <2>1
  <2>3. Think(<<NextPiece>>) \in Ins /\ ~Closing(Think(<<NextPiece>>))
    BY <1>4, <2>2, SaidChunks
  <2>4. sent' \in SentTypes
    BY <1>2, <1>6, <2>1, PiecedOK
  <2> QED
    BY <1>1, <1>2, <1>3, <1>6, <2>3, <2>4, FeedOneOK
<1> QED
  BY <1>5, <1>6 DEF ChatSpeaks

LEMMA ChatCallsOK ==
  ASSUME BlocksInv, route.client = "anthropic", ChatCalls
  PROVE  BlocksInv'
<1>1. Quiet /\ up.stage \in {"fresh", "saying"} /\ route.up = "chat"
  BY DEF ChatCalls, Speaks, Ready
<1>2. ~relay.terminated /\ UpFields(up) /\ sent \in SentTypes /\ route \in Routes
  BY <1>1, Open0
<1>3. PICK k \in Calls, id \in BOOLEAN, name \in BOOLEAN, piece \in BOOLEAN :
        /\ k = 1 \/ k - 1 \in up.begun
        /\ id \/ name \/ piece
        /\ id => k \notin up.known
        /\ name => k \notin up.named
        /\ Said([up EXCEPT !.begun = @ \cup {k}, !.known = IF id THEN @ \cup {k} ELSE @,
                           !.named = IF name THEN @ \cup {k} ELSE @])
        /\ LET all == IF piece THEN Append(sent[k], NextPiece) ELSE sent[k]
               args == IF ~piece THEN <<>> ELSE IF route.snapshot THEN all ELSE <<NextPiece>>
           IN  /\ sent' = [sent EXCEPT ![k] = all]
               /\ Feed(Call(k - 1, IF id THEN k ELSE 0, IF name THEN k ELSE 0, args))
  BY Zenon DEF ChatCalls
<1> DEFINE all == IF piece THEN Append(sent[k], NextPiece) ELSE sent[k]
           args == IF ~piece THEN <<>> ELSE IF route.snapshot THEN all ELSE <<NextPiece>>
           knows == IF id THEN up.known \cup {k} ELSE up.known
           names == IF name THEN up.named \cup {k} ELSE up.named
           i == IF id THEN k ELSE 0
           n == IF name THEN k ELSE 0
<1>4. Said([up EXCEPT !.begun = up.begun \cup {k}, !.known = knows, !.named = names])
  BY <1>3
<1>5. sent' = [sent EXCEPT ![k] = all] /\ Feed(Call(k - 1, i, n, args))
  BY <1>3
<1>6. k \in Nat /\ k - 1 \in Nat
  BY DialectsAssumption DEF Calls
<1>7. NextPiece \in Int
  BY <1>2 DEF NextPiece, UpFields
<1>8. all \in Seq(Int) /\ args \in Seq(Int) /\ i \in Int /\ n \in Int
  <2>1. sent[k] \in Seq(Int)
    BY <1>2 DEF SentTypes
  <2>2. Append(sent[k], NextPiece) \in Seq(Int) /\ <<NextPiece>> \in Seq(Int) /\ <<>> \in Seq(Int)
    BY <1>7, <2>1
  <2>3. all \in Seq(Int)
    BY <2>1, <2>2
  <2> HIDE DEF all
  <2> QED
    BY <1>6, <2>2, <2>3
<1>9. UpFields(up') /\ up'.stage = "saying"
  <2>1. up.begun \cup {k} \in SUBSET Calls
    BY <1>2 DEF UpFields
  <2> HIDE DEF knows, names
  <2>2. UpFields([up EXCEPT !.begun = up.begun \cup {k}, !.known = knows, !.named = names])
    BY <1>2, <2>1, UpChanged
  <2> QED
    BY <1>4, <2>2, SaidOK
<1> HIDE DEF all, args, i, n
<1>10. sent' \in SentTypes
  BY <1>2, <1>5, <1>8 DEF SentTypes
<1>11. Call(k - 1, i, n, args) \in Ins /\ ~Closing(Call(k - 1, i, n, args))
  <2>1. Call(k - 1, i, n, args) \in Chunks /\ Call(k - 1, i, n, args).t = "call"
    BY <1>6, <1>8, CallChunks
  <2> QED
    BY <1>1, <2>1 DEF Ins, Closing
<1> QED
  BY <1>1, <1>2, <1>5, <1>9, <1>10, <1>11, FeedOneOK

LEMMA ChatFinishesOK ==
  ASSUME BlocksInv, route.client = "anthropic", ChatFinishes
  PROVE  BlocksInv'
<1>1. Quiet /\ up.stage = "saying" /\ route.up = "chat" /\ sent' = sent
  BY DEF ChatFinishes, Ready
<1>2. ~relay.terminated /\ UpFields(up) /\ sent \in SentTypes
  BY <1>1, Open0
<1>3. PICK why \in {"stop", "length", "calls", "filter", "error", "other"}, usage \in BOOLEAN :
        /\ up' = [up EXCEPT !.stage = "finished", !.why = why]
        /\ FeedAll(<<Finish(why)>> \o (IF usage THEN <<Usage>> ELSE <<>>))
  BY DEF ChatFinishes
<1> DEFINE es == <<Finish(why)>> \o (IF usage THEN <<Usage>> ELSE <<>>)
<1>4. Tells(es, FALSE)
  <2>1. Finish(why) \in Chunks /\ Finish(why).t # "done"
    <3>1. why \in Reasons
      BY DEF Reasons
    <3> QED
      BY <3>1, FinishChunks
  <2>2. Tells(<<Finish(why)>>, FALSE)
    BY <2>1, TellsOne
  <2>3. Tells(IF usage THEN <<Usage>> ELSE <<>>, FALSE)
    <3>1. Tells(<<Usage>>, FALSE) /\ Tells(<<>>, FALSE)
      BY BareChunks, TellsOne, TellsNone
    <3> QED
      BY <3>1
  <2> QED
    BY <2>2, <2>3, TellsOn
<1>5. FeedAll(es)
  BY <1>3
<1> HIDE DEF es
<1>6. es \in Seq(Ins) /\ ClosesLast(es)
  <2>1. Ins = Chunks /\ \A c : Closing(c) = (c.t = "done")
    BY <1>1 DEF Ins, Closing
  <2>2. es \in Seq(Chunks) /\ LastOnly(es)
    BY <1>4 DEF Tells
  <2> QED
    BY <2>1, <2>2 DEF LastOnly, ClosesLast
<1>7. UpFields(up') /\ up'.stage = "finished"
  BY <1>2, <1>3 DEF UpFields
<1> QED
  BY <1>1, <1>2, <1>5, <1>6, <1>7, FeedsOK

LEMMA ChatDoneOK ==
  ASSUME BlocksInv, route.client = "anthropic", ChatDone
  PROVE  BlocksInv'
<1>1. /\ Quiet /\ up.stage \in {"saying", "finished"} /\ route.up = "chat" /\ sent' = sent
      /\ ~relay.terminated /\ up' = [up EXCEPT !.stage = "finished"] /\ Feed(Done)
  BY DEF ChatDone
<1>2. UpFields(up) /\ sent \in SentTypes
  BY Open0
<1>3. UpFields(up') /\ up'.stage = "finished"
  BY <1>1, <1>2 DEF UpFields
<1>4. Done \in Ins
  BY <1>1, BareChunks DEF Ins
<1> QED
  BY <1>1, <1>2, <1>3, <1>4, FeedOneOK

\* An event of an upstream of the Responses API.
LEMMA UpEventsOK ==
  ASSUME route.up = "responses"
  PROVE  /\ Ins = UpEvents
         /\ \A k \in Calls : Open(k, k) \in UpEvents /\ ~Closing(Open(k, k))
         /\ \A i \in Nat : \A what \in Int : \A ps \in Seq(Int) :
              Piece(i, what, ps) \in UpEvents /\ ~Closing(Piece(i, what, ps))
         /\ \A ps \in Seq(Int) : Close(0, THINK, ps) \in UpEvents /\ ~Closing(Close(0, THINK, ps))
         /\ \A why \in {"completed", "max_output_tokens", "content_filter"} : End(why) \in UpEvents
         /\ Fault \in UpEvents /\ ~Closing(Fault)
<1>1. \A k \in Calls : Open(k, k) \in UpEvents /\ ~Closing(Open(k, k))
  BY DEF Open, UpEvents, Closing
<1>2. \A i \in Nat : \A what \in Int : \A ps \in Seq(Int) :
        Piece(i, what, ps) \in UpEvents /\ ~Closing(Piece(i, what, ps))
  BY DEF Piece, UpEvents, Closing
<1>3. \A ps \in Seq(Int) : Close(0, THINK, ps) \in UpEvents /\ ~Closing(Close(0, THINK, ps))
  BY DEF Close, UpEvents, Closing
<1>4. \A why \in {"completed", "max_output_tokens", "content_filter"} : End(why) \in UpEvents
  BY DEF End, UpEvents
<1>5. Fault \in UpEvents /\ ~Closing(Fault)
  BY DEF Fault, UpEvents, Closing
<1> QED
  BY <1>1, <1>2, <1>3, <1>4, <1>5 DEF Ins

LEMMA Whats0 == TEXT \in Int /\ THINK \in Int /\ 0 \in Nat
BY DEF TEXT, THINK

LEMMA ResponsesSaysOK ==
  ASSUME BlocksInv, route.client = "anthropic", ResponsesSays
  PROVE  BlocksInv'
<1>1. Quiet /\ up.stage = "saying" /\ route.up = "responses"
  BY DEF ResponsesSays, Speaks, Ready
<1>2. ~relay.terminated /\ UpFields(up) /\ sent \in SentTypes
  BY <1>1, Open0
<1>3. NextPiece \in Int /\ <<NextPiece>> \in Seq(Int)
  <2>1. NextPiece \in Int
    BY <1>2 DEF NextPiece, UpFields
  <2> QED
    BY <2>1
<1>4. CASE \E what \in {TEXT, THINK} :
             /\ Said(IF what = THINK THEN [up EXCEPT !.style = "streamed"] ELSE up)
             /\ Pieced(what, NextPiece)
             /\ Feed(Piece(0, what, <<NextPiece>>))
  <2>1. PICK what \in {TEXT, THINK} :
             /\ Said(IF what = THINK THEN [up EXCEPT !.style = "streamed"] ELSE up)
             /\ Pieced(what, NextPiece)
             /\ Feed(Piece(0, what, <<NextPiece>>))
    BY <1>4
  <2>2. UpFields(up') /\ up'.stage = "saying"
    <3>1. UpFields([up EXCEPT !.style = "streamed"])
      BY <1>2, UpStyled
    <3>2. UpFields(IF what = THINK THEN [up EXCEPT !.style = "streamed"] ELSE up)
      BY <1>2, <3>1
    <3> QED
      BY <2>1, <3>2, SaidOK
  <2>3. sent' \in SentTypes
    BY <1>2, <1>3, <2>1, PiecedOK
  <2>4. Piece(0, what, <<NextPiece>>) \in Ins /\ ~Closing(Piece(0, what, <<NextPiece>>))
    BY <1>1, <1>3, UpEventsOK, Whats0
  <2> QED
    BY <1>1, <1>2, <2>1, <2>2, <2>3, <2>4, FeedOneOK
<1>5. CASE \E k \in Calls :
             /\ Said([up EXCEPT !.begun = @ \cup {k}, !.known = @ \cup {k}, !.named = @ \cup {k}])
             /\ Feed(Open(k, k))
             /\ UNCHANGED sent
  <2>1. PICK k \in Calls :
             /\ Said([up EXCEPT !.begun = @ \cup {k}, !.known = @ \cup {k}, !.named = @ \cup {k}])
             /\ Feed(Open(k, k))
             /\ UNCHANGED sent
    BY <1>5
  <2> DEFINE knows == up.known \cup {k}
             names == up.named \cup {k}
  <2>2. Said([up EXCEPT !.begun = up.begun \cup {k}, !.known = knows, !.named = names])
    BY <2>1
  <2> HIDE DEF knows, names
  <2>3. UpFields(up') /\ up'.stage = "saying"
    <3>1. up.begun \cup {k} \in SUBSET Calls
      BY <1>2 DEF UpFields
    <3>2. UpFields([up EXCEPT !.begun = up.begun \cup {k}, !.known = knows, !.named = names])
      BY <1>2, <3>1, UpChanged
    <3> QED
      BY <2>2, <3>2, SaidOK
  <2>4. Open(k, k) \in Ins /\ ~Closing(Open(k, k))
    BY <1>1, UpEventsOK
  <2> QED
    BY <1>1, <1>2, <2>1, <2>3, <2>4, FeedOneOK
<1>6. CASE \E k \in up.begun :
             /\ Said(up)
             /\ Pieced(k, NextPiece)
             /\ Feed(Piece(k, k, <<NextPiece>>))
  <2>1. PICK k \in up.begun :
             /\ Said(up)
             /\ Pieced(k, NextPiece)
             /\ Feed(Piece(k, k, <<NextPiece>>))
    BY <1>6
  <2>2. k \in Calls /\ k \in Nat /\ k \in Int
    BY <1>2, DialectsAssumption DEF UpFields, Calls
  <2>3. UpFields(up') /\ up'.stage = "saying"
    BY <1>2, <2>1, SaidOK
  <2>4. sent' \in SentTypes
    BY <1>2, <1>3, <2>1, <2>2, PiecedOK
  <2>5. Piece(k, k, <<NextPiece>>) \in Ins /\ ~Closing(Piece(k, k, <<NextPiece>>))
    BY <1>1, <1>3, <2>2, UpEventsOK
  <2> QED
    BY <1>1, <1>2, <2>1, <2>3, <2>4, <2>5, FeedOneOK
<1> QED
  BY <1>4, <1>5, <1>6 DEF ResponsesSays

LEMMA ResponsesReasonsOK ==
  ASSUME BlocksInv, route.client = "anthropic", ResponsesReasons
  PROVE  BlocksInv'
<1>1. Quiet /\ up.stage = "saying" /\ route.up = "responses"
  BY DEF ResponsesReasons, Speaks, Ready
<1>2. ~relay.terminated /\ UpFields(up) /\ sent \in SentTypes
  BY <1>1, Open0
<1>3. NextPiece \in Int /\ <<NextPiece>> \in Seq(Int)
  <2>1. NextPiece \in Int
    BY <1>2 DEF NextPiece, UpFields
  <2> QED
    BY <2>1
<1>4. CASE /\ Said([up EXCEPT !.style = "whole"])
           /\ Pieced(THINK, NextPiece)
           /\ Feed(Close(0, THINK, <<NextPiece>>))
  <2>1. UpFields(up') /\ up'.stage = "saying"
    <3>1. UpFields([up EXCEPT !.style = "whole"])
      BY <1>2, UpStyled
    <3> QED
      BY <1>4, <3>1, SaidOK
  <2>2. sent' \in SentTypes
    BY <1>2, <1>3, <1>4, PiecedOK
  <2>3. Close(0, THINK, <<NextPiece>>) \in Ins /\ ~Closing(Close(0, THINK, <<NextPiece>>))
    BY <1>1, <1>3, UpEventsOK
  <2> QED
    BY <1>1, <1>2, <1>4, <2>1, <2>2, <2>3, FeedOneOK
<1>5. CASE /\ Said(up)
           /\ Feed(Close(0, THINK, sent[THINK]))
           /\ UNCHANGED sent
  <2>1. UpFields(up') /\ up'.stage = "saying"
    BY <1>2, <1>5, SaidOK
  <2>2. sent[THINK] \in Seq(Int)
    BY <1>2 DEF SentTypes
  <2>3. Close(0, THINK, sent[THINK]) \in Ins /\ ~Closing(Close(0, THINK, sent[THINK]))
    BY <1>1, <2>2, UpEventsOK
  <2> QED
    BY <1>1, <1>2, <1>5, <2>1, <2>3, FeedOneOK
<1> QED
  BY <1>4, <1>5 DEF ResponsesReasons

LEMMA ResponsesEndsOK ==
  ASSUME BlocksInv, route.client = "anthropic", ResponsesEnds
  PROVE  BlocksInv'
<1>1. Quiet /\ up.stage = "saying" /\ route.up = "responses" /\ sent' = sent
  BY DEF ResponsesEnds, Ready
<1>2. ~relay.terminated /\ UpFields(up) /\ sent \in SentTypes
  BY <1>1, Open0
<1>3. PICK why \in {"completed", "max_output_tokens", "content_filter"} :
        Feed(End(why)) /\ up' = [up EXCEPT !.stage = "finished", !.why = why]
  BY DEF ResponsesEnds
<1>4. UpFields(up') /\ up'.stage = "finished"
  BY <1>2, <1>3 DEF UpFields
<1>5. End(why) \in Ins
  BY <1>1, UpEventsOK
<1> QED
  BY <1>1, <1>2, <1>3, <1>4, <1>5, FeedOneOK

LEMMA FaultsOK ==
  ASSUME BlocksInv, route.client = "anthropic", Faults
  PROVE  BlocksInv'
<1> DEFINE e == IF route.up = "chat" THEN Error ELSE Fault
<1>1. Quiet /\ up.stage = "saying" /\ sent' = sent /\ up' = [up EXCEPT !.stage = "finished", !.broke = TRUE]
      /\ Feed(e)
  BY DEF Faults, Ready
<1>2. ~relay.terminated /\ UpFields(up) /\ sent \in SentTypes /\ route.up \in {"chat", "responses"}
  BY <1>1, Open0
<1>3. UpFields(up') /\ up'.stage = "finished"
  BY <1>1, <1>2 DEF UpFields
<1>4. e \in Ins
  <2>1. CASE route.up = "chat"
    BY <2>1, BareChunks DEF Ins
  <2>2. CASE route.up = "responses"
    BY <2>2, UpEventsOK
  <2> QED
    BY <1>2, <2>1, <2>2
<1> HIDE DEF e
<1> QED
  BY <1>1, <1>2, <1>3, <1>4, FeedOneOK

\* Nothing but a client's reading changes what it has read.
LEMMA OthersKeepView ==
  ASSUME [Next]_vars, ~Reads
  PROVE  view' = view /\ route' = route
BY DEF Next, vars, Announces, ChatSpeaks, ChatCalls, ChatFinishes, ChatDone, AnthropicBlock,
       AnthropicStops, AnthropicEnds, ResponsesSays, ResponsesReasons, ResponsesEnds, Faults,
       Serves, Ends, Handles, Feed, FeedAll

LEMMA RouteKept ==
  ASSUME [Next]_vars
  PROVE  route' = route
BY OthersKeepView DEF Reads

LEMMA BlocksStep ==
  ASSUME BlocksInv, [Next]_vars
  PROVE  BlocksInv'
<1>1. route' = route /\ route \in Routes
  BY RouteKept DEF BlocksInv
<1>2. CASE route.client # "anthropic"
  BY <1>1, <1>2 DEF BlocksInv
<1>3. CASE route.client = "anthropic"
  <2>1. route.up \in {"chat", "responses"}
    BY <1>3, Open0
  <2>2. ~AnthropicBlock /\ ~AnthropicStops /\ ~AnthropicEnds
    BY <2>1 DEF AnthropicBlock, AnthropicStops, AnthropicEnds
  <2>3. CASE Announces BY <1>3, <2>3, AnnouncesOK
  <2>4. CASE ChatSpeaks BY <1>3, <2>4, ChatSpeaksOK
  <2>5. CASE ChatCalls BY <1>3, <2>5, ChatCallsOK
  <2>6. CASE ChatFinishes BY <1>3, <2>6, ChatFinishesOK
  <2>7. CASE ChatDone BY <1>3, <2>7, ChatDoneOK
  <2>8. CASE ResponsesSays BY <1>3, <2>8, ResponsesSaysOK
  <2>9. CASE ResponsesReasons BY <1>3, <2>9, ResponsesReasonsOK
  <2>10. CASE ResponsesEnds BY <1>3, <2>10, ResponsesEndsOK
  <2>11. CASE Faults BY <1>3, <2>11, FaultsOK
  <2>12. CASE Serves BY <1>3, <2>12, ServesOK
  <2>13. CASE Ends BY <1>3, <2>13, EndsOK
  <2>14. CASE Handles BY <1>3, <2>14, HandlesOK
  <2>15. CASE Reads BY <1>3, <2>15, ReadsOK
  <2>16. CASE UNCHANGED vars
    <3>1. UpInv'
      <4>1. /\ ClosesLast(in') /\ (up.stage \in {"fresh", "saying"} => ~Closes(in'))
            /\ in' \in Seq(Ins')
        BY <1>1, <1>3, <2>16, SameRoute DEF BlocksInv, UpInv, vars
      <4>2. ClosesLast(in)' /\ (up.stage \in {"fresh", "saying"} => ~Closes(in)')
        BY <1>1, <4>1, SameRoute
      <4> QED
        BY <1>3, <2>16, <4>1, <4>2 DEF BlocksInv, UpInv, UpFields, SentTypes, vars
    <3>2. MidInv'
      <4>1. mid' \in Mids' /\ (Drained(mid) => Drained(mid)')
        BY <1>1, <1>3, <2>16, SameRoute DEF BlocksInv, MidInv, Drained, vars
      <4> QED
        BY <1>3, <2>16, <4>1 DEF BlocksInv, MidInv, vars
    <3>3. ClientInv'
      <4>1. ClientInv
        BY <1>3 DEF BlocksInv
      <4>2. PICK s : Bound(view, out, tr, s, relay.terminated \/ up.stage = "over")
        BY <4>1, Zenon DEF ClientInv
      <4>3. view' = view /\ out' = out /\ tr' = tr /\ relay' = relay /\ up' = up
        BY <2>16 DEF vars
      <4>4. Bound(view', out', tr', s, relay'.terminated \/ up'.stage = "over")
        BY <4>2, <4>3
      <4>5. ViewOK(view') /\ out' \in Seq(Events)
        BY <4>1, <4>3 DEF ClientInv
      <4> QED
        BY <4>4, <4>5, Zenon DEF ClientInv
    <3> QED
      BY <1>1, <3>1, <3>2, <3>3 DEF BlocksInv
  <2> QED
    BY <2>2, <2>3, <2>4, <2>5, <2>6, <2>7, <2>8, <2>9, <2>10, <2>11, <2>12, <2>13, <2>14, <2>15,
       <2>16 DEF Next
<1> QED
  BY <1>2, <1>3

\* A client of another dialect reads no Anthropic message.
LEMMA OthersTurn ==
  ASSUME route.client # "anthropic", route' = route
  PROVE  UNCHANGED AnthropicTurn!turnVars
BY DEF AnthropicTurn!turnVars, Of

LEMMA AnthropicStep ==
  ASSUME BlocksInv, [Next]_vars
  PROVE  [AnthropicTurn!TurnNext]_(AnthropicTurn!turnVars)
<1>1. route' = route
  BY RouteKept
<1>2. CASE route.client # "anthropic"
  BY <1>1, <1>2, OthersTurn
<1>3. CASE route.client = "anthropic" /\ Reads
  BY <1>3, ReadsOK
<1>4. CASE route.client = "anthropic" /\ ~Reads
  <2>1. view' = view
    BY <1>4, OthersKeepView
  <2>2. UNCHANGED AnthropicTurn!turnVars
    BY <1>1, <2>1 DEF AnthropicTurn!turnVars, Of
  <2> QED
    BY <2>2
<1> QED
  BY <1>2, <1>3, <1>4

LEMMA AnthropicInit == Init => AnthropicTurn!TurnInit
<1> SUFFICES ASSUME Init PROVE AnthropicTurn!TurnInit
  OBVIOUS
<1>1. view.stage = "before" /\ view.body = [i \in {} |-> 0] /\ view.closed = {}
  BY DEF Init, NoView
<1>2. view.body = NoItems
  BY <1>1 DEF NoItems
<1>3. /\ Of("anthropic", view.stage, "before") = "before"
      /\ Of("anthropic", view.body, NoItems) = NoItems
      /\ Of("anthropic", view.closed, {}) = {}
  BY <1>1, <1>2 DEF Of
<1> QED
  BY <1>3 DEF AnthropicTurn!TurnInit, NoItems

\* Whatever an upstream sends, however it is cut, broken off or continued, what an Anthropic
\* client is sent is blocks that are numbered without a gap, filled only while they are open
\* and closed when the message ends: the filters (think.rs, tool_text.rs), the Responses
\* upstream's translator, the relay (StreamCtx::process) and the client's translator
\* (anthropic_to_openai.rs) together implement the turn a client relies on, on every route.
THEOREM BlocksAreInOrder == Spec => AnthropicBlocks
<1>1. Init => BlocksInv /\ AnthropicTurn!TurnInit
  BY BlocksInit, AnthropicInit
<1>2. BlocksInv /\ [Next]_vars => BlocksInv' /\ [AnthropicTurn!TurnNext]_(AnthropicTurn!turnVars)
  BY BlocksStep, AnthropicStep
<1> QED
  BY <1>1, <1>2, PTL DEF Spec, AnthropicBlocks, AnthropicTurn!TurnSpec
=============================================================================
