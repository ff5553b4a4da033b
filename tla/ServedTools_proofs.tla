-------------------------- MODULE ServedTools_proofs --------------------------
(***************************************************************************)
(* Proofs about ServedTools, for every request, declaration, budget, batch *)
(* of parallel calls and number of rounds.                                 *)
(***************************************************************************)
EXTENDS ServedTools, FiniteSetTheorems, WellFoundedInduction, TLAPS

-----------------------------------------------------------------------------
(* Least and greatest numbers, and entries picked out of a sequence. *)

LEMMA LeastExists ==
  ASSUME NEW S \in SUBSET Nat, S # {}
  PROVE  \E x \in S : \A y \in S : x <= y
<1>1. PICK x \in S : \A y \in S : ~(<<y, x>> \in OpToRel(<, Nat))
  BY WFMin, NatLessThanWellFounded
<1>2. \A y \in S : ~(y < x)
  BY <1>1 DEF OpToRel
<1> QED
  BY <1>2

LEMMA GreatestExists ==
  ASSUME NEW b \in Nat, NEW S \in SUBSET (0 .. b), S # {}
  PROVE  \E x \in S : \A y \in S : y <= x
<1> DEFINE D == {b - x : x \in S}
<1>1. D \in SUBSET Nat /\ D # {}
  <2>1. PICK x \in S : TRUE
    OBVIOUS
  <2>2. b - x \in D
    BY <2>1
  <2> QED
    BY <2>2
<1>2. PICK d \in D : \A e \in D : d <= e
  BY <1>1, LeastExists
<1>3. PICK x \in S : d = b - x
  BY <1>2
<1>4. \A y \in S : b - x <= b - y
  BY <1>2, <1>3
<1> QED
  BY <1>3, <1>4

LEMMA MinMember ==
  ASSUME NEW S \in SUBSET Nat, S # {}
  PROVE  Min(S) \in S /\ \A y \in S : Min(S) <= y
<1>1. \E x \in S : \A y \in S : x <= y
  BY LeastExists
<1> QED
  BY <1>1 DEF Min

LEMMA MinOfTwo ==
  ASSUME NEW a \in Int, NEW b \in Int
  PROVE  Min({a, b}) = IF a <= b THEN a ELSE b
<1>1. \E x \in {a, b} : \A y \in {a, b} : x <= y
  OBVIOUS
<1> QED
  BY <1>1 DEF Min

LEMMA MaxOfTwo ==
  ASSUME NEW a \in Int, NEW b \in Int
  PROVE  Max({a, b}) = IF a >= b THEN a ELSE b
<1>1. \E x \in {a, b} : \A y \in {a, b} : x >= y
  OBVIOUS
<1> QED
  BY <1>1 DEF Max

LEMMA ClampType ==
  ASSUME NEW n \in Int, NEW low \in Int, NEW high \in Int, low <= high
  PROVE  Clamp(n, low, high) \in low .. high
<1>1. Min({n, high}) \in Int /\ Min({n, high}) <= high
  BY MinOfTwo
<1> QED
  BY <1>1, MaxOfTwo DEF Clamp

LEMMA OrType ==
  ASSUME NEW given \in Numbers, NEW otherwise \in Nat
  PROVE  Or(given, otherwise) \in Nat
BY DEF Or, Numbers, Absent

\* The recursive function of Picked, up to any entry, exists.
PickedUpTo(seq, places, m, f) ==
  f = [n \in 0 .. m |-> IF n = 0 THEN <<>>
                        ELSE IF n \in places THEN Append(f[n - 1], seq[n]) ELSE f[n - 1]]

LEMMA PickedExists ==
  ASSUME NEW S, NEW seq \in Seq(S), NEW places, NEW m \in Nat
  PROVE  \E f : PickedUpTo(seq, places, m, f)
<1> DEFINE Bad == {k \in Nat : ~ \E f : PickedUpTo(seq, places, k, f)}
<1> SUFFICES ASSUME Bad # {} PROVE FALSE
  OBVIOUS
<1>1. PICK k \in Bad : \A j \in Bad : k <= j
  BY LeastExists
<1>2. CASE k = 0
  <2> DEFINE f == [n \in 0 .. 0 |-> <<>>]
  <2>1. PickedUpTo(seq, places, 0, f)
    BY DEF PickedUpTo
  <2> QED
    BY <2>1, <1>2
<1>3. CASE k # 0
  <2>1. k - 1 \in Nat /\ k - 1 \notin Bad
    BY <1>1, <1>3
  <2>2. PICK g : PickedUpTo(seq, places, k - 1, g)
    BY <2>1
  <2> DEFINE top == IF k \in places THEN Append(g[k - 1], seq[k]) ELSE g[k - 1]
             f == [n \in 0 .. k |-> IF n = k THEN top ELSE g[n]]
  <2>3. \A n \in 0 .. k : f[n] = IF n = 0 THEN <<>>
                                 ELSE IF n \in places THEN Append(f[n - 1], seq[n]) ELSE f[n - 1]
    <3> SUFFICES ASSUME NEW n \in 0 .. k
                 PROVE  f[n] = IF n = 0 THEN <<>>
                               ELSE IF n \in places THEN Append(f[n - 1], seq[n]) ELSE f[n - 1]
      OBVIOUS
    <3>1. CASE n = k
      BY <3>1, <1>3
    <3>2. CASE n # k
      <4>1. n \in 0 .. k - 1
        BY <3>2
      <4>2. g[n] = IF n = 0 THEN <<>>
                   ELSE IF n \in places THEN Append(g[n - 1], seq[n]) ELSE g[n - 1]
        BY <4>1, <2>2 DEF PickedUpTo
      <4>3. f[n] = g[n] /\ (n # 0 => f[n - 1] = g[n - 1])
        BY <4>1, <1>3
      <4> QED
        BY <4>2, <4>3
    <3> QED
      BY <3>1, <3>2
  <2>4. PickedUpTo(seq, places, k, f)
    <3> HIDE DEF top
    <3> QED
      BY <2>3 DEF PickedUpTo
  <2> QED
    BY <2>4
<1> QED
  BY <1>2, <1>3

\* What is picked are entries at those places.
LEMMA PickedType ==
  ASSUME NEW S, NEW seq \in Seq(S), NEW places
  PROVE  Picked(seq, places) \in Seq({seq[n] : n \in places \cap DOMAIN seq})
<1> DEFINE T == {seq[n] : n \in places \cap DOMAIN seq}
           L == Len(seq)
<1>1. L \in Nat /\ DOMAIN seq = 1 .. L
  OBVIOUS
<1>2. \E f : PickedUpTo(seq, places, L, f)
  BY <1>1, PickedExists
<1>3. PICK f : PickedUpTo(seq, places, L, f) /\ Picked(seq, places) = f[L]
  BY <1>2 DEF Picked, PickedUpTo
<1> DEFINE Bad == {n \in 0 .. L : f[n] \notin Seq(T)}
<1>4. Bad = {}
  <2> SUFFICES ASSUME Bad # {} PROVE FALSE
    OBVIOUS
  <2> HIDE DEF T, L
  <2>0. Bad \in SUBSET Nat
    BY <1>1
  <2>1. PICK k \in Bad : \A j \in Bad : k <= j
    BY LeastExists, <2>0
  <2>2. f[k] = IF k = 0 THEN <<>>
               ELSE IF k \in places THEN Append(f[k - 1], seq[k]) ELSE f[k - 1]
    BY <1>3, <2>1 DEF PickedUpTo
  <2>3. CASE k = 0
    <3>1. f[k] \notin Seq(T)
      BY <2>1
    <3>2. <<>> \in Seq(T)
      OBVIOUS
    <3> QED
      BY <2>2, <2>3, <3>1, <3>2
  <2>4. CASE k # 0
    <3>1. k - 1 \in 0 .. L /\ k \in DOMAIN seq
      BY <2>1, <2>4, <1>1
    <3>2. f[k - 1] \in Seq(T)
      <4>1. k - 1 \notin Bad
        BY <3>1, <2>1
      <4> QED
        BY <3>1, <4>1
    <3>3. k \in places => seq[k] \in T
      BY <3>1 DEF T
    <3>4. f[k] \notin Seq(T)
      BY <2>1
    <3> QED
      BY <2>2, <2>4, <3>2, <3>3, <3>4
  <2> QED
    BY <2>3, <2>4
<1> QED
  BY <1>1, <1>3, <1>4

LEMMA PickedIn ==
  ASSUME NEW S, NEW seq \in Seq(S), NEW places
  PROVE  /\ Picked(seq, places) \in Seq(S)
         /\ \A i \in DOMAIN Picked(seq, places) :
              \E n \in places \cap DOMAIN seq : Picked(seq, places)[i] = seq[n]
<1> DEFINE T == {seq[n] : n \in places \cap DOMAIN seq}
           P == Picked(seq, places)
<1>1. P \in Seq(T)
  BY PickedType
<1>2. T \subseteq S
  OBVIOUS
<1>3. \A x \in T : \E n \in places \cap DOMAIN seq : x = seq[n]
  OBVIOUS
<1> HIDE DEF T, P
<1>4. P \in Seq(S) /\ \A i \in DOMAIN P : P[i] \in T
  BY <1>1, <1>2
<1>5. \A i \in DOMAIN P : \E n \in places \cap DOMAIN seq : P[i] = seq[n]
  BY <1>3, <1>4
<1> QED
  BY <1>4, <1>5 DEF P

-----------------------------------------------------------------------------
(* What an attempt offers. *)

LEMMA DeclarationsAreTools ==
  ASSUME NEW tools \in Seq(Declarations)
  PROVE  tools \in Seq(Tools) /\ \A n \in DOMAIN tools : tools[n] \in Tools /\ tools[n].kind # "reserved"
<1>1. Declarations \subseteq Tools /\ \A t \in Declarations : t.kind # "reserved"
  BY DEF Declarations
<1> QED
  BY <1>1

LEMMA ReserveIn ==
  ASSUME NEW t \in Tools
  PROVE  /\ Reserve(t) \in Tools
         /\ Reserve(t).name = t.name
         /\ Reserve(t).kind = IF t.kind = "served" THEN "reserved" ELSE t.kind
BY DEF Reserve, Tools

\* A body's tool is a declaration of the request, as it is or reserved.
From(x, tools) == \E n \in DOMAIN tools : x = tools[n] \/ x = Reserve(tools[n])

LEMMA OnceIn ==
  ASSUME NEW tools \in Seq(Tools)
  PROVE  /\ Once(tools) \in Seq(Tools)
         /\ \A i \in DOMAIN Once(tools) : \E n \in DOMAIN tools : Once(tools)[i] = tools[n]
<1> DEFINE at == DOMAIN tools \ Again(tools)
<1> HIDE DEF at
<1>1. /\ Picked(tools, at) \in Seq(Tools)
      /\ \A i \in DOMAIN Picked(tools, at) : \E n \in at \cap DOMAIN tools : Picked(tools, at)[i] = tools[n]
  BY PickedIn
<1>2. Once(tools) = Picked(tools, at)
  BY DEF Once, at
<1> QED
  BY <1>1, <1>2

LEMMA SwappedIn ==
  ASSUME NEW tools \in Seq(Tools)
  PROVE  /\ Swapped(tools) \in Seq(Tools)
         /\ \A i \in DOMAIN Swapped(tools) : \E n \in DOMAIN tools : Swapped(tools)[i] = Reserve(tools[n])
<1> DEFINE once == Once(tools)
<1>1. once \in Seq(Tools) /\ \A i \in DOMAIN once : \E n \in DOMAIN tools : once[i] = tools[n]
  BY OnceIn
<1> HIDE DEF once
<1>2. Swapped(tools) = [n \in DOMAIN once |-> Reserve(once[n])]
  BY DEF Swapped, once
<1>3. \A n \in DOMAIN once : Reserve(once[n]) \in Tools
  BY <1>1, ReserveIn
<1>4. [n \in DOMAIN once |-> Reserve(once[n])] \in Seq(Tools)
  BY <1>1, <1>3
<1> QED
  BY <1>1, <1>2, <1>4

LEMMA OfIn ==
  ASSUME NEW tools \in Seq(Tools), NEW kinds
  PROVE  /\ Of(kinds, tools) \in Seq(Tools)
         /\ \A i \in DOMAIN Of(kinds, tools) : \E n \in DOMAIN tools :
              Of(kinds, tools)[i] = tools[n] /\ tools[n].kind \in kinds
<1> DEFINE at == {n \in DOMAIN tools : tools[n].kind \in kinds}
<1>1. \A n \in at \cap DOMAIN tools : tools[n].kind \in kinds /\ n \in DOMAIN tools
  OBVIOUS
<1> HIDE DEF at
<1>2. /\ Picked(tools, at) \in Seq(Tools)
      /\ \A i \in DOMAIN Picked(tools, at) : \E n \in at \cap DOMAIN tools : Picked(tools, at)[i] = tools[n]
  BY PickedIn
<1>3. Of(kinds, tools) = Picked(tools, at)
  BY DEF Of, at
<1> QED
  BY <1>1, <1>2, <1>3

LEMMA ConcatIn ==
  ASSUME NEW s \in Seq(Tools), NEW t \in Seq(Tools), NEW tools,
         \A i \in DOMAIN s : From(s[i], tools), \A i \in DOMAIN t : From(t[i], tools)
  PROVE  s \o t \in Seq(Tools) /\ \A i \in DOMAIN (s \o t) : From((s \o t)[i], tools)
<1>1. s \o t \in Seq(Tools)
  OBVIOUS
<1>2. ASSUME NEW i \in DOMAIN (s \o t) PROVE From((s \o t)[i], tools)
  <2>1. CASE i \in DOMAIN s
    BY <2>1
  <2>2. CASE i \notin DOMAIN s
    <3>1. i - Len(s) \in DOMAIN t /\ (s \o t)[i] = t[i - Len(s)]
      BY <2>2, <1>2
    <3> QED
      BY <3>1
  <2> QED
    BY <2>1, <2>2
<1> QED
  BY <1>1, <1>2

\* The chat body of a request.
LEMMA FromClientIn ==
  ASSUME NEW c \in {"anthropic", "chat", "responses"}, NEW p \in Requests
  PROVE  /\ FromClient(c, p) = [tools |-> FromClient(c, p).tools, choice |-> FromClient(c, p).choice]
         /\ FromClient(c, p).tools \in Seq(Tools)
         /\ \A i \in DOMAIN FromClient(c, p).tools : From(FromClient(c, p).tools[i], p.tools)
<1> DEFINE tools == p.tools
           none == p.choice = <<"none">>
<1>1. p.tools \in Seq(Declarations)
  BY DEF Requests
<1>2. tools \in Seq(Tools)
  BY <1>1, DeclarationsAreTools
<1> HIDE DEF tools
<1>3. CASE c = "anthropic"
  <2> DEFINE s == Swapped(Of({"served"}, tools))
             t == Of({"own"}, tools)
  <2>1. s \in Seq(Tools) /\ t \in Seq(Tools)
    BY <1>2, OfIn, SwappedIn
  <2>2. \A i \in DOMAIN s : From(s[i], tools)
    BY <1>2, OfIn, SwappedIn DEF From
  <2>3. \A i \in DOMAIN t : From(t[i], tools)
    BY <1>2, OfIn DEF From
  <2> HIDE DEF s, t
  <2>4. s \o t \in Seq(Tools) /\ \A i \in DOMAIN (s \o t) : From((s \o t)[i], tools)
    BY <2>1, <2>2, <2>3, ConcatIn
  <2>5. FromClient(c, p) = [tools |-> IF none THEN <<>> ELSE s \o t,
                            choice |-> IF none THEN <<>> ELSE p.choice]
    BY <1>3 DEF FromClient, AnthropicToChat, s, t, tools
  <2>6. <<>> \in Seq(Tools) /\ DOMAIN <<>> = {}
    OBVIOUS
  <2>7. CASE none
    BY <2>5, <2>6, <2>7
  <2>8. CASE ~none
    BY <2>4, <2>5, <2>8 DEF tools
  <2> QED
    BY <2>7, <2>8
<1>4. CASE c = "responses"
  <2> DEFINE t == Of({"own", "served"}, tools)
  <2>1. t \in Seq(Tools) /\ \A i \in DOMAIN t : \E n \in DOMAIN tools : t[i] = tools[n]
    BY <1>2, OfIn
  <2>2. FromClient(c, p) = [tools |-> Once(t), choice |-> p.choice]
    BY <1>4 DEF FromClient, ResponsesToChat, Convertible, tools
  <2> HIDE DEF t
  <2>3. Once(t) \in Seq(Tools) /\ \A i \in DOMAIN Once(t) : \E n \in DOMAIN t : Once(t)[i] = t[n]
    BY <2>1, OnceIn
  <2>4. \A i \in DOMAIN Once(t) : From(Once(t)[i], tools)
    BY <2>1, <2>3 DEF From
  <2> QED
    BY <2>2, <2>3, <2>4 DEF tools
<1>5. CASE c = "chat"
  <2>1. FromClient(c, p) = [tools |-> tools, choice |-> p.choice]
    BY <1>5 DEF FromClient, tools
  <2> QED
    BY <1>2, <2>1 DEF From, tools
<1> QED
  BY <1>3, <1>4, <1>5

\* A request of a client declares tool t as one pxy serves.
DeclaresServed(tools, t) == \E n \in DOMAIN tools : tools[n].kind = "served" /\ tools[n].name = t

\* What every offer is like.
GoodOffer(o, tools, d) ==
  /\ o.tools \in Seq(Tools) /\ o.deferred \in Seq(Tools)
  /\ \A n \in DOMAIN o.tools : o.tools[n].kind = "reserved" => o.tools[n].name \in o.serves
  /\ \A n \in DOMAIN o.deferred : o.deferred[n].kind = "own"
  /\ o.serves \subseteq Able
  /\ d = 1 => o.serves \cap Meta = {}
  /\ \A t \in o.serves : DeclaresServed(tools, t)

LEMMA SettledTools ==
  ASSUME NEW tools, NEW choice
  PROVE  LET b == Settled([tools |-> tools, choice |-> choice])
         IN  b.tools = tools
<1> DEFINE b == [tools |-> tools, choice |-> choice]
<1>1. b.tools = tools
  OBVIOUS
<1>2. \A x : [b EXCEPT !.choice = x].tools = tools
  OBVIOUS
<1>3. \E x : Settled(b) = b \/ Settled(b) = [b EXCEPT !.choice = x]
  <2> HIDE DEF b
  <2> QED
    BY DEF Settled
<1> QED
  BY <1>1, <1>2, <1>3

LEMMA OfferAnthropicGood ==
  ASSUME NEW c, NEW p \in Requests, NEW d
  PROVE  GoodOffer(OfferAnthropic(c, p), p.tools, d)
<1> DEFINE o == OfferAnthropic(c, p)
           b == ToAnthropicBody(c, p)
           pxys == {n \in DOMAIN p.tools : p.tools[n].kind = "served" /\ p.tools[n].pxy}
           at == DOMAIN p.tools \ pxys
           own == {"own"}
<1>1. p.tools \in Seq(Declarations)
  BY DEF Requests
<1>2. p.tools \in Seq(Tools) /\ \A n \in DOMAIN p.tools : p.tools[n].kind # "reserved"
  BY <1>1, DeclarationsAreTools
<1>3. b.tools \in {Picked(p.tools, at), <<>>, Of(own, p.tools)}
  BY DEF ToAnthropicBody, Unhosted, ChatToAnthropic
<1> HIDE DEF b, at, own
<1>4. /\ Picked(p.tools, at) \in Seq(Tools)
      /\ \A n \in DOMAIN Picked(p.tools, at) : Picked(p.tools, at)[n].kind # "reserved"
  <2>1. \A i \in DOMAIN Picked(p.tools, at) :
           \E n \in at \cap DOMAIN p.tools : Picked(p.tools, at)[i] = p.tools[n]
    BY <1>2, PickedIn
  <2> QED
    BY <1>2, <2>1, PickedIn
<1>5. Of(own, p.tools) \in Seq(Tools) /\ \A n \in DOMAIN Of(own, p.tools) : Of(own, p.tools)[n].kind # "reserved"
  BY <1>2, OfIn
<1>6. <<>> \in Seq(Tools) /\ DOMAIN <<>> = {}
  OBVIOUS
<1>7. b.tools \in Seq(Tools) /\ \A n \in DOMAIN b.tools : b.tools[n].kind # "reserved"
  BY <1>3, <1>4, <1>5, <1>6
<1>8. o.tools = b.tools /\ o.deferred = <<>> /\ o.serves = {}
  BY DEF OfferAnthropic, b
<1> QED
  BY <1>6, <1>7, <1>8 DEF GoodOffer

LEMMA OfferChatGood ==
  ASSUME NEW c \in {"anthropic", "chat", "responses"}, NEW p \in Requests, NEW ca, NEW d \in Nat
  PROVE  GoodOffer(OfferChat(c, p, ca, d), p.tools, d)
<1> DEFINE o == OfferChat(c, p, ca, d)
           chat == FromClient(c, p)
           tools == Swapped(chat.tools)
           swapped == [tools |-> tools, choice |-> chat.choice]
           injected == Names("reserved", tools)
           serves == {t \in injected : CanServe(t, ca, d)}
           held == IF "tool_search" \in serves THEN HeldBack(swapped, Revealed(c, p)) ELSE {}
           kept == DOMAIN tools \ (held \cup Unrun(swapped, serves))
           remains == [tools |-> Picked(tools, kept), choice |-> chat.choice]
           sent == IF injected = {} THEN remains ELSE Settled(remains)
<1>1. chat.tools \in Seq(Tools) /\ \A i \in DOMAIN chat.tools : From(chat.tools[i], p.tools)
  BY FromClientIn
<1>2. /\ tools \in Seq(Tools)
      /\ \A i \in DOMAIN tools : \E n \in DOMAIN chat.tools : tools[i] = Reserve(chat.tools[n])
  BY <1>1, SwappedIn
<1>3. chat = [tools |-> chat.tools, choice |-> chat.choice]
  BY FromClientIn
<1>4. [chat EXCEPT !.tools = Swapped(@)] = swapped
  <2> HIDE DEF tools
  <2>1. \A T, C : [[tools |-> T, choice |-> C] EXCEPT !.tools = tools] = [tools |-> tools, choice |-> C]
    OBVIOUS
  <2>2. [chat EXCEPT !.tools = Swapped(@)] = [chat EXCEPT !.tools = tools]
    BY DEF tools
  <2> QED
    BY <1>3, <2>1, <2>2
<1>5. [swapped EXCEPT !.tools = Picked(@, kept)] = remains
  <2> HIDE DEF tools, kept
  <2> QED
    OBVIOUS
<1>6. o = [tools |-> sent.tools, choice |-> sent.choice, deferred |-> Picked(tools, held), serves |-> serves]
  BY <1>4, <1>5, Zenon DEF OfferChat
<1>7. sent.tools = Picked(tools, kept)
  <2> HIDE DEF tools, kept
  <2> QED
    BY SettledTools
<1>8. o.tools = Picked(tools, kept) /\ o.deferred = Picked(tools, held) /\ o.serves = serves
  <2> HIDE DEF sent, tools, held, serves, kept
  <2> QED
    BY <1>6, <1>7
<1>9. serves \subseteq injected /\ serves \subseteq Able /\ (d = 1 => serves \cap Meta = {})
  <2>1. \A t : CanServe(t, ca, d) => t \in Able /\ (d = 1 => t \notin Meta)
    BY DEF CanServe
  <2> QED
    BY <2>1
<1>10. \A n \in held \cap DOMAIN tools : tools[n].kind = "own"
  BY DEF HeldBack
<1>11. \A n \in kept \cap DOMAIN tools : tools[n].kind = "reserved" => tools[n].name \in serves
  <2> HIDE DEF tools, serves, held
  <2> QED
    BY DEF Unrun
<1>12. \A t \in injected : DeclaresServed(p.tools, t)
  <2> SUFFICES ASSUME NEW t \in injected PROVE DeclaresServed(p.tools, t)
    OBVIOUS
  <2>1. PICK i \in DOMAIN tools : tools[i].kind = "reserved" /\ tools[i].name = t
    <3> HIDE DEF tools
    <3> QED
      BY <1>2 DEF Names, ToSet
  <2>2. PICK k \in DOMAIN chat.tools : tools[i] = Reserve(chat.tools[k])
    BY <1>2
  <2>3. PICK n \in DOMAIN p.tools : chat.tools[k] = p.tools[n] \/ chat.tools[k] = Reserve(p.tools[n])
    BY <1>1, <2>2 DEF From
  <2> HIDE DEF tools, chat
  <2>4. p.tools[n] \in Tools /\ p.tools[n].kind # "reserved"
    BY DeclarationsAreTools DEF Requests
  <2>5. p.tools[n].kind = "served" /\ p.tools[n].name = t
    BY <2>1, <2>2, <2>3, <2>4, ReserveIn
  <2> QED
    BY <2>5 DEF DeclaresServed
<1> HIDE DEF tools, kept, held, serves, injected, o, chat
<1>13. /\ o.tools \in Seq(Tools)
       /\ \A n \in DOMAIN o.tools : o.tools[n].kind = "reserved" => o.tools[n].name \in o.serves
  <2>1. \A i \in DOMAIN Picked(tools, kept) :
           \E n \in kept \cap DOMAIN tools : Picked(tools, kept)[i] = tools[n]
    BY <1>2, PickedIn
  <2> QED
    BY <1>2, <1>8, <1>11, <2>1, PickedIn
<1>14. o.deferred \in Seq(Tools) /\ \A n \in DOMAIN o.deferred : o.deferred[n].kind = "own"
  <2>1. \A i \in DOMAIN Picked(tools, held) :
           \E n \in held \cap DOMAIN tools : Picked(tools, held)[i] = tools[n]
    BY <1>2, PickedIn
  <2> QED
    BY <1>2, <1>8, <1>10, <2>1, PickedIn
<1>15. o.serves \subseteq Able /\ (d = 1 => o.serves \cap Meta = {})
       /\ \A t \in o.serves : DeclaresServed(p.tools, t)
  BY <1>8, <1>9, <1>12
<1>16. GoodOffer(o, p.tools, d)
  BY <1>13, <1>14, <1>15 DEF GoodOffer
<1> QED
  BY <1>16 DEF o

LEMMA OfferGood ==
  ASSUME NEW c \in {"anthropic", "chat", "responses"}, NEW p \in Requests, NEW ca, NEW d \in Nat
  PROVE  GoodOffer(Offer(c, p, ca, d), p.tools, d)
BY OfferAnthropicGood, OfferChatGood DEF Offer

\* The payload the router reads is a request too.
LEMMA AskedType ==
  ASSUME NEW p \in Requests, NEW d
  PROVE  WithDefaults(p, d) \in Requests
<1>1. CASE d > 0
  BY <1>1 DEF WithDefaults
<1>2. CASE ~(d > 0)
  <2> DEFINE more == Picked(Defaults, Wanted(p.tools))
  <2>1. Defaults \in Seq(Declarations)
    BY ToolOfferAssumption
  <2>2. more \in Seq(Declarations)
    <3> DEFINE at == Wanted(p.tools)
    <3> HIDE DEF at
    <3>1. Picked(Defaults, at) \in Seq(Declarations)
      BY <2>1, PickedIn
    <3> QED
      BY <3>1 DEF at
  <2> HIDE DEF more
  <2>3. p.tools \o more \in Seq(Declarations)
    BY <2>2 DEF Requests
  <2>4. WithDefaults(p, d) = [p EXCEPT !.tools = p.tools \o more]
    BY <1>2 DEF WithDefaults, more
  <2> DEFINE all == p.tools \o more
  <2> HIDE DEF all
  <2>5. [p EXCEPT !.tools = all] \in Requests
    BY <2>3 DEF all, Requests
  <2> QED
    BY <2>4, <2>5 DEF all
<1> QED
  BY <1>1, <1>2

\* The tools of the payload the router reads depend on those the client declares alone.
LEMMA AskedTools ==
  ASSUME NEW p \in Requests, NEW q \in Requests, p.tools = q.tools, NEW d
  PROVE  WithDefaults(p, d).tools = WithDefaults(q, d).tools
<1> DEFINE more == Picked(Defaults, Wanted(p.tools))
<1> HIDE DEF more
<1>1. /\ WithDefaults(p, d) = IF d > 0 THEN p ELSE [p EXCEPT !.tools = p.tools \o more]
      /\ WithDefaults(q, d) = IF d > 0 THEN q ELSE [q EXCEPT !.tools = p.tools \o more]
  BY DEF WithDefaults, more
<1> QED
  BY <1>1 DEF Requests

LEMMA ParamsType ==
  ASSUME NEW p \in Requests, NEW t, DeclaresServed(p.tools, t)
  PROVE  Params(p, t) \in Parameters
<1> DEFINE at == {n \in DOMAIN p.tools : p.tools[n].kind = "served" /\ p.tools[n].name = t}
<1>1. p.tools \in Seq(Tools)
  BY DeclarationsAreTools DEF Requests
<1>2. at \in SUBSET Nat /\ at # {} /\ at \subseteq DOMAIN p.tools
  BY <1>1 DEF DeclaresServed
<1>3. Declaration(p, t) = p.tools[Min(at)]
  BY DEF Declaration
<1>4. Min(at) \in DOMAIN p.tools
  <2> HIDE DEF at
  <2> QED
    BY <1>2, MinMember
<1> HIDE DEF at
<1>5. Declaration(p, t) \in Tools
  BY <1>1, <1>3, <1>4
<1> QED
  BY <1>5 DEF Params, Tools

LEMMA ClampedOr ==
  ASSUME NEW given \in Numbers, NEW otherwise \in Nat, NEW high \in Nat \ {0}
  PROVE  Clamp(Or(given, otherwise), 1, high) \in 1 .. high
<1> DEFINE n == Or(given, otherwise)
<1>1. n \in Int
  BY OrType
<1> HIDE DEF n
<1>2. 1 \in Int /\ high \in Int /\ 1 <= high
  OBVIOUS
<1>3. Clamp(n, 1, high) \in 1 .. high
  BY <1>1, <1>2, ClampType
<1> QED
  BY <1>3 DEF n

LEMMA MaxUsesType ==
  ASSUME NEW p \in Requests, NEW t, DeclaresServed(p.tools, t)
  PROVE  MaxUses(p, t) \in Nat
<1> DEFINE cap == Params(p, t).cap
<1>1. cap \in Numbers
  BY ParamsType DEF Parameters
<1> HIDE DEF cap
<1>2. 5 \in Nat /\ 20 \in Nat \ {0}
  OBVIOUS
<1>3. Clamp(Or(cap, 5), 1, 20) \in 1 .. 20
  BY <1>1, <1>2, ClampedOr
<1>4. MaxUses(p, t) \in 1 .. 20
  BY <1>3 DEF MaxUses, cap
<1> QED
  BY <1>4

\* What is declared of a tool is the same in payloads that declare the same tools.
LEMMA SameParams ==
  ASSUME NEW p, NEW q, p.tools = q.tools, NEW t
  PROVE  Params(p, t) = Params(q, t) /\ MaxUses(p, t) = MaxUses(q, t)
<1>1. Declaration(p, t) = Declaration(q, t)
  BY DEF Declaration
<1> QED
  BY <1>1 DEF Params, MaxUses

LEMMA BudgetType ==
  ASSUME NEW p \in Requests
  PROVE  TurnBudget(p) \in Nat
BY OrType, ToolOfferAssumption DEF TurnBudget, Requests

-----------------------------------------------------------------------------
(* What a call may come to. *)

Legless == {"web_search", "tool_search"}
Asking == {"advisor", "subagent", "fusion", "describe_image"}

LEMMA UnservedType ==
  Unserved \in Outcomes /\ Unserved.hits = 0 /\ Unserved.legs = <<>>
<1> DEFINE none == <<>>
<1>1. none \in Seq(STRING) /\ none \in Seq([model : STRING, image : Int])
  OBVIOUS
<1> HIDE DEF none
<1>2. [marked |-> FALSE, hits |-> 0, found |-> none, legs |-> none] \in Outcomes
  BY <1>1 DEF Outcomes
<1> QED
  BY <1>2 DEF Unserved, none

LEMMA MarkedType ==
  Marked \in Outcomes /\ Marked.hits = 0 /\ Marked.legs = <<>>
BY UnservedType DEF Marked, Outcomes

LEMMA HitsType ==
  ASSUME NEW n \in Nat
  PROVE  Hits(n) \in Outcomes /\ Hits(n).hits = n /\ Hits(n).legs = <<>>
BY MarkedType DEF Hits, Outcomes

LEMMA FoundType ==
  ASSUME NEW names \in Seq(STRING)
  PROVE  LET out == [Marked EXCEPT !.found = names]
         IN  out \in Outcomes /\ out.hits = 0 /\ out.legs = <<>>
BY MarkedType DEF Outcomes

LEMMA LegsType ==
  ASSUME NEW legs \in Seq([model : STRING, image : Int])
  PROVE  LET out == [Marked EXCEPT !.legs = legs]
         IN  out \in Outcomes /\ out.hits = 0 /\ out.legs = legs
BY MarkedType DEF Outcomes

\* A search shows no more than is left of its total.
LEMMA WebSearchRuns ==
  ASSUME NEW params \in Parameters, NEW args, NEW turn, turn.hits \in Nat,
         NEW out \in WebSearch(params, args, turn)
  PROVE  /\ out \in Outcomes /\ out.legs = <<>>
         /\ params.total # Absent => out.hits = 0 \/ turn.hits + out.hits <= params.total
<1> DEFINE most == Clamp(Or(params.results, 5), 1, 25)
           n == IF params.total = -1 THEN most ELSE Min({most, params.total - turn.hits})
           asked == IF Rerank THEN Min({Max({n * 3, 10}), 25}) ELSE n
<1>1. params.results \in Numbers /\ params.total \in Numbers
  BY DEF Parameters
<1>2. most \in 1 .. 25
  <2> DEFINE given == params.results
  <2>1. given \in Numbers /\ 5 \in Nat /\ 25 \in Nat \ {0}
    BY <1>1
  <2> HIDE DEF given
  <2>2. Clamp(Or(given, 5), 1, 25) \in 1 .. 25
    BY <2>1, ClampedOr
  <2> QED
    BY <2>2 DEF given
<1> HIDE DEF most
<1>3. n \in Int /\ (params.total # -1 => n <= params.total - turn.hits)
  BY <1>1, <1>2, MinOfTwo DEF Numbers, Absent
<1> HIDE DEF n
<1>4. asked \in Int /\ (~Rerank => asked = n)
  <2> DEFINE thrice == n * 3
             more == Max({thrice, 10})
  <2>1. thrice \in Int /\ 10 \in Int /\ 25 \in Int
    BY <1>3
  <2> HIDE DEF thrice
  <2>2. more \in Int
    BY <2>1, MaxOfTwo
  <2> HIDE DEF more
  <2>3. Min({more, 25}) \in Int
    BY <2>1, <2>2, MinOfTwo
  <2>4. Min({Max({n * 3, 10}), 25}) \in Int
    BY <2>3 DEF more, thrice
  <2> QED
    BY <1>3, <2>4
<1> HIDE DEF asked
<1>5. CASE out = Unserved
  BY <1>5, UnservedType
<1>6. ASSUME NEW sent \in 0 .. asked, NEW h \in Kept(sent, n), out = Hits(h)
      PROVE  h \in Nat /\ h <= n
  <2>1. Min({sent, n}) \in Int /\ Min({sent, n}) <= n
    BY <1>3, <1>4, MinOfTwo
  <2> QED
    BY <1>3, <1>4, <1>6, <2>1, ToolRunsAssumption DEF Kept
<1>7. out = Unserved \/ \E sent \in 0 .. asked : \E h \in Kept(sent, n) : out = Hits(h)
  BY DEF WebSearch, most, n, asked
<1>8. ASSUME NEW sent \in 0 .. asked, NEW h \in Kept(sent, n), out = Hits(h)
      PROVE  /\ out \in Outcomes /\ out.legs = <<>>
             /\ params.total # Absent => turn.hits + out.hits <= params.total
  <2>1. h \in Nat /\ h <= n
    BY <1>6, <1>8
  <2>2. out \in Outcomes /\ out.hits = h /\ out.legs = <<>>
    BY <1>8, <2>1, HitsType
  <2>3. params.total # -1 => h <= params.total - turn.hits
    BY <1>3, <2>1, <1>1 DEF Numbers, Absent
  <2> QED
    BY <1>1, <2>1, <2>2, <2>3 DEF Numbers, Absent
<1> QED
  BY <1>5, <1>7, <1>8

LEMMA ToolSearchRuns ==
  ASSUME NEW params \in Parameters, NEW args \in CallArguments, NEW turn, turn.deferred \in Seq(Tools),
         NEW out \in ToolSearch(params, args, turn)
  PROVE  out \in Outcomes /\ out.hits = 0 /\ out.legs = <<>>
<1> DEFINE most == Clamp(Or(params.results, 5), 1, 50)
           limit == Clamp(Or(args.limit, most), 1, most)
           In(matches) == Picked(turn.deferred, matches)
           Names_(matches) == [n \in 1 .. Min({limit, Len(In(matches))}) |-> In(matches)[n].name]
<1>1. params.results \in Numbers /\ args.limit \in Numbers
  BY DEF Parameters, CallArguments
<1>2. most \in 1 .. 50
  <2> DEFINE given == params.results
  <2>1. given \in Numbers /\ 5 \in Nat /\ 50 \in Nat \ {0}
    BY <1>1
  <2> HIDE DEF given
  <2>2. Clamp(Or(given, 5), 1, 50) \in 1 .. 50
    BY <2>1, ClampedOr
  <2> QED
    BY <2>2 DEF given
<1> HIDE DEF most
<1>3. limit \in Nat
  <2> DEFINE given == args.limit
  <2>1. given \in Numbers /\ most \in Nat \ {0}
    BY <1>1, <1>2
  <2> HIDE DEF given
  <2>2. Clamp(Or(given, most), 1, most) \in 1 .. most
    BY <2>1, ClampedOr
  <2>3. limit \in 1 .. most
    BY <2>2 DEF given
  <2> QED
    BY <2>1, <2>3
<1> HIDE DEF limit
<1>4. ASSUME NEW matches PROVE Names_(matches) \in Seq(STRING)
  <2> DEFINE few == Picked(turn.deferred, matches)
             m == Min({limit, Len(few)})
  <2>1. few \in Seq(Tools)
    BY PickedIn
  <2> HIDE DEF few
  <2>2. m \in Nat /\ m <= Len(few)
    BY <1>3, <2>1, MinOfTwo
  <2> HIDE DEF m
  <2>3. \A n \in 1 .. m : few[n] \in Tools
    BY <2>1, <2>2
  <2>4. \A n \in 1 .. m : few[n].name \in STRING
    BY <2>3 DEF Tools
  <2>5. [n \in 1 .. m |-> few[n].name] \in Seq(STRING)
    BY <2>2, <2>4
  <2> QED
    BY <2>5 DEF m, few
<1>5. out = Unserved \/ \E matches : out = [Marked EXCEPT !.found = Names_(matches)]
  BY DEF ToolSearch, most, limit
<1> HIDE DEF Names_
<1> QED
  BY <1>4, <1>5, UnservedType, FoundType

\* What a tool that asks models may ask: the models of its declaration, of the configuration
\* and of the client, and an advisor whose declaration leaves it open what the call says.
Configured(params, outer) ==
  {params.model, outer, FusionAnalyst} \cup ToSet(params.panel) \cup ToSet(FusionPanel)

GoodLeg(leg, tool, params, images, outer) ==
  /\ Named(leg.model) \/ leg.model \in {FusionAnalyst} \cup ToSet(FusionPanel)
  /\ ~(tool = "advisor" /\ params.model = "absent") => leg.model \in Configured(params, outer)
  /\ leg.image # NoImage => leg.model = params.model /\ leg.image \in {0} \cup ToSet(images)

GoodLegs(out, tool, params, images, outer) ==
  \A k \in DOMAIN out.legs : GoodLeg(out.legs[k], tool, params, images, outer)

\* One leg, and none.
LEMMA OneLeg ==
  ASSUME NEW model \in STRING, NEW image \in Int, NEW tool, NEW params, NEW images, NEW outer,
         GoodLeg(Leg(model, image), tool, params, images, outer)
  PROVE  LET out == [Marked EXCEPT !.legs = <<Leg(model, image)>>]
         IN  out \in Outcomes /\ out.hits = 0 /\ GoodLegs(out, tool, params, images, outer)
<1> DEFINE leg == Leg(model, image)
           legs == <<leg>>
<1>1. leg \in [model : STRING, image : Int]
  BY DEF Leg
<1> HIDE DEF leg
<1>2. legs \in Seq([model : STRING, image : Int]) /\ \A k \in DOMAIN legs : legs[k] = leg
  BY <1>1
<1> HIDE DEF legs
<1> DEFINE out == [Marked EXCEPT !.legs = legs]
<1>3. out \in Outcomes /\ out.hits = 0 /\ out.legs = legs
  BY <1>2, LegsType
<1> HIDE DEF out
<1>4. GoodLegs(out, tool, params, images, outer)
  BY <1>2, <1>3 DEF GoodLegs, leg
<1> QED
  BY <1>3, <1>4 DEF out, legs, leg

LEMMA NoLegs ==
  ASSUME NEW out, out.legs = <<>>, NEW tool, NEW params, NEW images, NEW outer
  PROVE  GoodLegs(out, tool, params, images, outer)
<1>1. DOMAIN out.legs = {}
  OBVIOUS
<1> QED
  BY <1>1 DEF GoodLegs

LEMMA AdvisorRuns ==
  ASSUME NEW params \in Parameters, NEW args \in CallArguments, NEW turn, turn.outer \in STRING,
         NEW out \in Advisor(params, args, turn)
  PROVE  /\ out \in Outcomes /\ out.hits = 0
         /\ GoodLegs(out, "advisor", params, turn.images, turn.outer)
<1> DEFINE first == IF params.model # "absent" THEN params.model ELSE args.model
           model == IF Named(first) THEN first ELSE turn.outer
<1>1. Named(model) => model \in STRING
  BY DEF Parameters, CallArguments, Named
<1>2. CASE out = Unserved
  BY <1>2, UnservedType, NoLegs
<1>3. CASE Named(model) /\ out = [Marked EXCEPT !.legs = <<Leg(model, NoImage)>>]
  <2>1. params.model # "absent" => model \in {params.model, turn.outer}
    OBVIOUS
  <2> HIDE DEF model
  <2>2. GoodLeg(Leg(model, NoImage), "advisor", params, turn.images, turn.outer)
    BY <1>3, <2>1 DEF GoodLeg, Leg, Configured
  <2>3. NoImage \in Int
    BY DEF NoImage
  <2> QED
    BY <1>1, <1>3, <2>2, <2>3, OneLeg
<1> QED
  BY <1>2, <1>3 DEF Advisor

LEMMA SubagentRuns ==
  ASSUME NEW params \in Parameters, NEW args \in CallArguments, NEW turn, turn.outer \in STRING,
         NEW out \in Subagent(params, args, turn)
  PROVE  /\ out \in Outcomes /\ out.hits = 0
         /\ GoodLegs(out, "subagent", params, turn.images, turn.outer)
<1> DEFINE model == IF Named(params.model) THEN params.model ELSE turn.outer
<1>1. model \in STRING
  BY DEF Parameters
<1>2. CASE out = Unserved
  BY <1>2, UnservedType, NoLegs
<1>3. CASE Named(model) /\ out = [Marked EXCEPT !.legs = <<Leg(model, NoImage)>>]
  <2>1. model \in {params.model, turn.outer}
    OBVIOUS
  <2> HIDE DEF model
  <2>2. GoodLeg(Leg(model, NoImage), "subagent", params, turn.images, turn.outer)
    BY <1>3, <2>1 DEF GoodLeg, Leg, Configured
  <2>3. NoImage \in Int
    BY DEF NoImage
  <2> QED
    BY <1>1, <1>3, <2>2, <2>3, OneLeg
<1> QED
  BY <1>2, <1>3 DEF Subagent

LEMMA DescribeImageRuns ==
  ASSUME NEW params \in Parameters, NEW args \in CallArguments, NEW turn, turn.images \in Seq(Nat),
         NEW out \in DescribeImage(params, args, turn)
  PROVE  /\ out \in Outcomes /\ out.hits = 0
         /\ GoodLegs(out, "describe_image", params, turn.images, turn.outer)
<1> DEFINE image == IF args.image = 0 THEN 0 ELSE turn.images[args.image]
           model == params.model
<1>1. CASE out = Unserved
  BY <1>1, UnservedType, NoLegs
<1>2. CASE /\ args.image = 0 \/ args.image \in DOMAIN turn.images
           /\ Named(model)
           /\ out = [Marked EXCEPT !.legs = <<Leg(model, image)>>]
  <2>1. image \in Nat /\ image \in {0} \cup ToSet(turn.images)
    BY <1>2 DEF ToSet
  <2>2. model \in STRING
    BY DEF Parameters
  <2> HIDE DEF image
  <2>3. GoodLeg(Leg(model, image), "describe_image", params, turn.images, turn.outer)
    BY <1>2, <2>1 DEF GoodLeg, Leg, Configured
  <2> HIDE DEF model
  <2> QED
    BY <1>2, <2>1, <2>2, <2>3, OneLeg
<1> QED
  BY <1>1, <1>2 DEF DescribeImage

LEMMA FusionRuns ==
  ASSUME NEW params \in Parameters, NEW args \in CallArguments, NEW turn, turn.outer \in STRING,
         NEW out \in Fusion(params, args, turn)
  PROVE  /\ out \in Outcomes /\ out.hits = 0
         /\ GoodLegs(out, "fusion", params, turn.images, turn.outer)
<1> DEFINE Models == {m \in STRING : /\ Named(m) \/ m \in {FusionAnalyst} \cup ToSet(FusionPanel)
                                     /\ m \in Configured(params, turn.outer)}
           G == {Leg(m, NoImage) : m \in Models}
           named == {n \in DOMAIN params.panel : Named(params.panel[n])}
           declared == Picked(params.panel, named)
           all == IF declared = <<>> THEN FusionPanel ELSE declared
           panel == SubSeq(all, 1, Min({8, Len(all)}))
           analyst == CASE Named(params.model) -> params.model
                        [] ~Named(params.model) /\ FusionAnalyst # "absent" -> FusionAnalyst
                        [] ~Named(params.model) /\ FusionAnalyst = "absent" ->
                             IF Named(turn.outer) THEN turn.outer ELSE panel[1]
           members == [n \in DOMAIN panel |-> Leg(panel[n], NoImage)]
           asked == <<Leg(analyst, NoImage)>>
<1>1. params.panel \in Seq(STRING) /\ params.model \in STRING
  BY DEF Parameters
<1>2. declared \in Seq(Models)
  <2> DEFINE T == {params.panel[n] : n \in named \cap DOMAIN params.panel}
  <2>1. Picked(params.panel, named) \in Seq(T)
    <3> HIDE DEF named
    <3> QED
      BY <1>1, PickedType
  <2>2. T \subseteq Models
    BY <1>1 DEF Configured, ToSet
  <2> HIDE DEF T, Models
  <2> QED
    BY <2>1, <2>2
<1> HIDE DEF declared
<1>3. FusionPanel \in Seq(Models)
  <2>1. \A n \in DOMAIN FusionPanel : FusionPanel[n] \in Models
    BY ToolRunsAssumption DEF Configured, ToSet
  <2> HIDE DEF Models
  <2> QED
    BY <2>1, ToolRunsAssumption
<1>4. all \in Seq(Models)
  <2> HIDE DEF Models
  <2> QED
    BY <1>2, <1>3
<1> HIDE DEF all
<1>5. panel \in Seq(Models)
  <2> DEFINE m == Min({8, Len(all)})
  <2>1. m \in Nat /\ m <= Len(all)
    <3> DEFINE l == Len(all)
    <3>1. l \in Nat
      BY <1>4
    <3> HIDE DEF l
    <3>2. Min({8, l}) \in Nat /\ Min({8, l}) <= l
      BY <3>1, MinOfTwo
    <3> QED
      BY <3>2 DEF l
  <2> HIDE DEF m, Models
  <2>2. SubSeq(all, 1, m) \in Seq(Models)
    BY <1>4, <2>1
  <2> QED
    BY <2>2 DEF m
<1> HIDE DEF panel
<1>6. panel # <<>> => analyst \in Models
  <2>1. panel # <<>> => panel[1] \in Models
    BY <1>5
  <2> HIDE DEF panel
  <2> QED
    BY <1>1, <2>1, ToolRunsAssumption DEF Configured
<1> HIDE DEF analyst
<1>7. members \in Seq(G)
  <2> HIDE DEF Models
  <2>1. panel \in Seq(Models) /\ Len(panel) \in Nat
    BY <1>5
  <2>2. \A n \in 1 .. Len(panel) : Leg(panel[n], NoImage) \in G
    BY <2>1
  <2> HIDE DEF G
  <2>3. [n \in 1 .. Len(panel) |-> Leg(panel[n], NoImage)] \in Seq(G)
    BY <2>1, <2>2
  <2> QED
    BY <2>1, <2>3
<1>8. panel # <<>> => asked \in Seq(G)
  <2>1. panel # <<>> => Leg(analyst, NoImage) \in G
    BY <1>6
  <2> HIDE DEF G
  <2> QED
    BY <2>1
<1>9. CASE out = Unserved
  BY <1>9, UnservedType, NoLegs
<1>10. ASSUME panel # <<>>, NEW more \in {<<>>, asked, asked \o asked},
              out = [Marked EXCEPT !.legs = members \o more]
       PROVE  /\ out \in Outcomes /\ out.hits = 0
              /\ GoodLegs(out, "fusion", params, turn.images, turn.outer)
  <2> DEFINE legs == members \o more
  <2>1. legs \in Seq(G)
    <3>1. more \in Seq(G)
      <4>1. asked \in Seq(G)
        BY <1>8, <1>10
      <4> HIDE DEF asked, G
      <4>2. asked \o asked \in Seq(G)
        BY <4>1
      <4>3. <<>> \in Seq(G)
        OBVIOUS
      <4> QED
        BY <4>1, <4>2, <4>3
    <3> HIDE DEF members, asked, G
    <3> QED
      BY <1>7, <3>1
  <2> HIDE DEF legs
  <2>2. G \subseteq [model : STRING, image : Int]
    BY DEF Leg, NoImage
  <2>3. legs \in Seq([model : STRING, image : Int])
    <3> DEFINE R == [model : STRING, image : Int]
    <3>1. G \subseteq R
      BY <2>2
    <3> HIDE DEF G, R
    <3>2. legs \in Seq(R)
      BY <2>1, <3>1
    <3> QED
      BY <3>2 DEF R
  <2> DEFINE o == [Marked EXCEPT !.legs = legs]
  <2>4. o \in Outcomes /\ o.hits = 0 /\ o.legs = legs
    BY <2>3, LegsType
  <2> HIDE DEF o
  <2>5. \A leg \in G : GoodLeg(leg, "fusion", params, turn.images, turn.outer)
    BY DEF GoodLeg, Leg
  <2>6. \A k \in DOMAIN legs : legs[k] \in G
    <3> HIDE DEF G
    <3> QED
      BY <2>1
  <2>7. GoodLegs(o, "fusion", params, turn.images, turn.outer)
    <3> HIDE DEF G
    <3> QED
      BY <2>4, <2>5, <2>6 DEF GoodLegs
  <2>8. out = o
    BY <1>10 DEF o, legs
  <2> QED
    BY <2>4, <2>7, <2>8
<1>11. \/ out = Unserved
       \/ /\ panel # <<>>
          /\ \E more \in {<<>>, asked, asked \o asked} : out = [Marked EXCEPT !.legs = members \o more]
  BY DEF Fusion, members, asked, analyst, panel, all, declared
<1> QED
  BY <1>9, <1>10, <1>11

\* Whatever is run: its outcome, its hits and its legs.
RunFacts(out, tool, params, turn) ==
  /\ out \in Outcomes
  /\ GoodLegs(out, tool, params, turn.images, turn.outer)
  /\ tool \notin Asking => out.legs = <<>>
  /\ tool # "web_search" => out.hits = 0
  /\ tool = "web_search" /\ params.total # Absent =>
       out.hits = 0 \/ turn.hits + out.hits <= params.total

LEMMA RunGood ==
  ASSUME NEW tool, NEW params \in Parameters, NEW args \in CallArguments,
         NEW turn \in [hits : Nat, deferred : Seq(Tools), images : Seq(Nat), outer : STRING],
         NEW out \in Run(tool, params, args, turn)
  PROVE  RunFacts(out, tool, params, turn)
<1> USE DEF RunFacts
<1>1. CASE tool = "web_search"
  <2>1. out \in WebSearch(params, args, turn)
    BY <1>1 DEF Run
  <2>2. turn.hits \in Nat /\ turn.deferred \in Seq(Tools)
    OBVIOUS
  <2>3. /\ out \in Outcomes /\ out.legs = <<>>
        /\ params.total # Absent => out.hits = 0 \/ turn.hits + out.hits <= params.total
    BY <2>1, <2>2, WebSearchRuns
  <2>4. GoodLegs(out, tool, params, turn.images, turn.outer)
    BY <2>3, NoLegs
  <2> QED
    BY <1>1, <2>3, <2>4
<1>2. CASE tool = "tool_search"
  <2>1. out \in ToolSearch(params, args, turn)
    BY <1>2 DEF Run
  <2>2. turn.hits \in Nat /\ turn.deferred \in Seq(Tools)
    OBVIOUS
  <2>3. out \in Outcomes /\ out.hits = 0 /\ out.legs = <<>>
    BY <2>1, <2>2, ToolSearchRuns
  <2>4. GoodLegs(out, tool, params, turn.images, turn.outer)
    BY <2>3, NoLegs
  <2> QED
    BY <1>2, <2>3, <2>4
<1>3. CASE tool = "advisor"
  <2>1. out \in Advisor(params, args, turn)
    BY <1>3 DEF Run
  <2> QED
    BY <1>3, <2>1, AdvisorRuns DEF Asking
<1>4. CASE tool = "subagent"
  <2>1. out \in Subagent(params, args, turn)
    BY <1>4 DEF Run
  <2> QED
    BY <1>4, <2>1, SubagentRuns DEF Asking
<1>5. CASE tool = "fusion"
  <2>1. out \in Fusion(params, args, turn)
    BY <1>5 DEF Run
  <2> QED
    BY <1>5, <2>1, FusionRuns DEF Asking
<1>6. CASE tool = "describe_image"
  <2>1. out \in DescribeImage(params, args, turn)
    BY <1>6 DEF Run
  <2> QED
    BY <1>6, <2>1, DescribeImageRuns DEF Asking
<1>7. CASE tool \notin Asking \cup Legless
  <2>1. out \in {Marked, Unserved}
    BY <1>7 DEF Run, Informs, Other, Asking, Legless
  <2> QED
    BY <1>7, <2>1, MarkedType, UnservedType, NoLegs DEF Legless
<1> QED
  BY <1>1, <1>2, <1>3, <1>4, <1>5, <1>6, <1>7 DEF Asking, Legless

-----------------------------------------------------------------------------
(* Counting. *)

LEMMA SmallSets ==
  ASSUME NEW b \in Nat, NEW S \in SUBSET (1 .. b)
  PROVE  IsFiniteSet(S) /\ Cardinality(S) \in Nat
<1>1. IsFiniteSet(1 .. b)
  BY FS_Interval
<1>2. IsFiniteSet(S)
  BY <1>1, FS_Subset
<1> QED
  BY <1>2, FS_CardinalityType

LEMMA SmallerSets ==
  ASSUME NEW b \in Nat, NEW S \in SUBSET (1 .. b), NEW T \in SUBSET S
  PROVE  Cardinality(T) <= Cardinality(S)
BY SmallSets, FS_Subset

LEMMA OneMore ==
  ASSUME NEW b \in Nat, NEW S \in SUBSET (1 .. b), NEW x \in 1 .. b, x \notin S
  PROVE  Cardinality(S \cup {x}) = Cardinality(S) + 1
BY SmallSets, FS_AddElement

LEMMA SomeMember ==
  ASSUME NEW b \in Nat, NEW S \in SUBSET (1 .. b), S # {}
  PROVE  Cardinality(S) >= 1
<1>1. Cardinality(S) # 0
  BY SmallSets, FS_EmptySet
<1>2. Cardinality(S) \in Nat
  BY SmallSets
<1> QED
  BY <1>1, <1>2

\* Those of a set of numbers with fewer than c others before them are no more than c.
Before(S, n) == {k \in S : k < n}

LEMMA FirstOnes ==
  ASSUME NEW b \in Nat, NEW S \in SUBSET (1 .. b), NEW c \in Nat,
         NEW T, T = {n \in S : Cardinality(Before(S, n)) < c}
  PROVE  Cardinality(T) <= c
<1>1. CASE T = {}
  <2>1. Cardinality(T) = 0
    BY <1>1, FS_EmptySet
  <2> QED
    BY <2>1
<1>2. CASE T # {}
  <2>1. T \in SUBSET (0 .. b)
    <3> SUFFICES ASSUME NEW n \in T PROVE n \in 0 .. b
      OBVIOUS
    <3>1. n \in S
      OBVIOUS
    <3>2. n \in 1 .. b
      BY <3>1
    <3> QED
      BY <3>2
  <2>2. PICK x \in T : \A y \in T : y <= x
    BY <1>2, <2>1, GreatestExists
  <2> DEFINE B == Before(S, x)
  <2>3. x \in S /\ Cardinality(B) < c
    BY <2>2
  <2>4. B \in SUBSET (1 .. b) /\ x \in 1 .. b /\ x \notin B
    <3>1. x \in 1 .. b
      BY <2>3
    <3>2. B \subseteq S /\ ~(x < x)
      BY <3>1 DEF Before
    <3>3. x \notin B
      BY <3>2 DEF Before
    <3> QED
      BY <3>1, <3>2, <3>3
  <2>5. T \subseteq B \cup {x}
    <3> SUFFICES ASSUME NEW y \in T, y # x PROVE y \in B
      OBVIOUS
    <3>1. y \in S /\ y <= x /\ y \in Nat /\ x \in Nat
      BY <2>2, <2>4
    <3> QED
      BY <3>1 DEF Before
  <2> HIDE DEF B
  <2>6. B \cup {x} \in SUBSET (1 .. b)
    BY <2>4
  <2>7. Cardinality(B \cup {x}) = Cardinality(B) + 1 /\ Cardinality(B) \in Nat
    BY <2>4, OneMore, SmallSets
  <2>8. Cardinality(T) <= Cardinality(B \cup {x})
    BY <2>5, <2>6, SmallerSets
  <2>9. Cardinality(T) \in Nat
    BY <2>5, <2>6, SmallSets
  <2> QED
    BY <2>3, <2>7, <2>8, <2>9
<1> QED
  BY <1>1, <1>2

\* The entries of a longer sequence that carry a name.
Carrying(seq, t) == {n \in DOMAIN seq : seq[n].name = t}

LEMMA CarryingType ==
  ASSUME NEW S, NEW seq \in Seq(S), NEW t
  PROVE  Cardinality(Carrying(seq, t)) \in Nat
<1>1. Len(seq) \in Nat /\ Carrying(seq, t) \in SUBSET (1 .. Len(seq))
  BY DEF Carrying
<1> DEFINE b == Len(seq)
           C == Carrying(seq, t)
<1> HIDE DEF b, C
<1>2. Cardinality(C) \in Nat
  BY <1>1, SmallSets DEF b, C
<1> QED
  BY <1>2 DEF C

LEMMA CarryingMore ==
  ASSUME NEW S, NEW seq \in Seq(S), NEW x \in S, NEW t
  PROVE  /\ Cardinality(Carrying(seq, t)) \in Nat
         /\ Cardinality(Carrying(Append(seq, x), t)) =
              Cardinality(Carrying(seq, t)) + (IF x.name = t THEN 1 ELSE 0)
<1> DEFINE b == Len(seq)
           C == Carrying(seq, t)
           D == Carrying(Append(seq, x), t)
<1>1. b \in Nat /\ DOMAIN seq = 1 .. b /\ DOMAIN Append(seq, x) = 1 .. b + 1
  OBVIOUS
<1>2. /\ \A n \in 1 .. b : Append(seq, x)[n] = seq[n]
      /\ Append(seq, x)[b + 1] = x
  OBVIOUS
<1> HIDE DEF b
<1>3. C \in SUBSET (1 .. b) /\ C \in SUBSET (1 .. b + 1) /\ b + 1 \in Nat /\ b + 1 \notin C
  BY <1>1 DEF Carrying
<1>4. D = IF x.name = t THEN C \cup {b + 1} ELSE C
  BY <1>1, <1>2 DEF Carrying
<1> HIDE DEF C, D
<1>5. Cardinality(C) \in Nat
  BY <1>1, <1>3, SmallSets
<1>6. Cardinality(C \cup {b + 1}) = Cardinality(C) + 1
  <2> DEFINE m == b + 1
  <2>1. m \in Nat /\ m \in 1 .. m /\ C \in SUBSET (1 .. m) /\ m \notin C
    BY <1>1, <1>3
  <2> HIDE DEF m
  <2>2. Cardinality(C \cup {m}) = Cardinality(C) + 1
    BY <2>1, OneMore
  <2> QED
    BY <2>2 DEF m
<1> QED
  BY <1>4, <1>5, <1>6 DEF C, D

-----------------------------------------------------------------------------
(* The invariant. *)

Budget == TurnBudget(payload)

\* Reserved functions in the body are of tools with a cap of their own; what is held back is
\* the client's; a leg serves no tool that starts legs.
Offers ==
  /\ \A n \in DOMAIN body.tools : body.tools[n].kind = "reserved" => body.tools[n].name \in DOMAIN per
  /\ \A n \in DOMAIN deferred : deferred[n].kind = "own"
  /\ DOMAIN per \subseteq Enabled
  /\ depth = 1 => DOMAIN per \cap Meta = {}
  /\ \A t \in DOMAIN per : DeclaresServed(Asked.tools, t)

RendersOf(t) == {n \in DOMAIN renders : captured[n].name = t}

\* What was run is what the budgets let run, of the calls the model could make.
Round ==
  /\ DOMAIN renders \subseteq Fits
  /\ pc \in {"door", "upstream"} => captured = <<>> /\ renders = <<>> /\ batch = 0
  /\ pc = "serve" => \A n \in DOMAIN captured :
       \/ captured[n].name \in Strange
       \/ \E k \in DOMAIN body.tools : /\ body.tools[k].kind = "reserved"
                                       /\ body.tools[k].name = captured[n].name

\* What has been run and what is left are within the budgets; only the calls of the round that
\* were run are not charged yet.
Spent ==
  pc \in {"upstream", "serve", "over"} =>
    /\ Len(ran) + left <= Budget + Cardinality(DOMAIN renders)
    /\ \A t \in DOMAIN per :
         Cardinality(Carrying(ran, t)) + per[t] <= MaxUses(Asked, t) + Cardinality(RendersOf(t))
    /\ shown = hits + batch
    /\ "web_search" \in DOMAIN per /\ Params(Asked, "web_search").total # Absent =>
         shown <= Params(Asked, "web_search").total

\* Each continuation costs budget; a turn without any offers no reserved function, unless it
\* had none from the beginning.
Ends ==
  /\ rounds + left <= Budget \/ (Budget = 0 /\ left = 0 /\ rounds = 1)
  /\ rounds > 0 /\ left = 0 => \A n \in DOMAIN body.tools : body.tools[n].kind # "reserved"
  /\ open = {}
  /\ pc = "over" /\ ending = "empty" => Offered = {}

ToolsInv == TypeOK /\ Offers /\ Round /\ Spent /\ Ends /\ LegsAsDeclared

-----------------------------------------------------------------------------
(* What a round may run. *)

Earlier(n) == {k \in 1 .. n - 1 : captured[k].name = captured[n].name}

LEMMA FitsBound ==
  ASSUME TypeOK
  PROVE  /\ Fits \subseteq Offered /\ Offered \subseteq DOMAIN captured
         /\ DOMAIN captured = 1 .. Len(captured) /\ Len(captured) \in Nat
         /\ Cardinality(Fits) <= left
         /\ \A t \in DOMAIN per : Cardinality({n \in Fits : captured[n].name = t}) <= per[t]
<1> DEFINE b == Len(captured)
<1>1. b \in Nat /\ DOMAIN captured = 1 .. b /\ left \in Nat
  BY DEF TypeOK
<1>2. Fits \subseteq Allowed /\ Allowed \subseteq Offered /\ Offered \subseteq DOMAIN captured
  BY DEF Fits, Allowed, Offered
<1>3. Cardinality(Fits) <= left
  <2>1. Fits = {n \in Allowed : Cardinality(Before(Allowed, n)) < left}
    BY DEF Fits, Before
  <2>2. Allowed \in SUBSET (1 .. b)
    BY <1>1, <1>2
  <2> HIDE DEF b
  <2> QED
    BY <1>1, <2>1, <2>2, FirstOnes
<1>4. ASSUME NEW t \in DOMAIN per
      PROVE  Cardinality({n \in Fits : captured[n].name = t}) <= per[t]
  <2> DEFINE S == {n \in DOMAIN captured : captured[n].name = t}
             T == {n \in S : Cardinality(Before(S, n)) < per[t]}
             F == {n \in Fits : captured[n].name = t}
  <2>1. ASSUME NEW n \in S
        PROVE  Before(S, n) = Earlier(n)
    BY <1>1 DEF Before, Earlier
  <2>2. F \subseteq T
    <3> SUFFICES ASSUME NEW n \in F PROVE n \in T
      OBVIOUS
    <3>1. n \in S /\ n \in Allowed
      BY <1>2
    <3>2. Cardinality(Earlier(n)) < per[t]
      BY <3>1 DEF Allowed, Earlier
    <3> QED
      BY <2>1, <3>1, <3>2
  <2>3. S \in SUBSET (1 .. b) /\ per[t] \in Nat
    BY <1>1 DEF TypeOK
  <2> HIDE DEF S, b
  <2>4. Cardinality(T) <= per[t] /\ T \in SUBSET (1 .. b)
    BY <1>1, <2>3, FirstOnes
  <2> HIDE DEF T, F
  <2>5. Cardinality(F) <= Cardinality(T) /\ Cardinality(F) \in Nat /\ Cardinality(T) \in Nat
    BY <1>1, <2>2, <2>4, SmallerSets, SmallSets
  <2>6. Cardinality(F) <= per[t]
    BY <2>3, <2>4, <2>5
  <2> QED
    BY <2>6 DEF F
<1> QED
  BY <1>1, <1>2, <1>3, <1>4

\* What was run is within what is left.
LEMMA RendersBound ==
  ASSUME TypeOK, Round
  PROVE  /\ Cardinality(DOMAIN renders) \in Nat /\ Cardinality(DOMAIN renders) <= left
         /\ \A t \in DOMAIN per : /\ Cardinality(RendersOf(t)) \in Nat
                                  /\ Cardinality(RendersOf(t)) <= per[t]
<1> DEFINE b == Len(captured)
<1>1. /\ b \in Nat /\ Fits \in SUBSET (1 .. b) /\ left \in Nat /\ Cardinality(Fits) <= left
      /\ \A t \in DOMAIN per : per[t] \in Nat
  BY FitsBound DEF TypeOK
<1>2. DOMAIN renders \in SUBSET Fits
  BY DEF Round
<1> HIDE DEF b
<1>3. Cardinality(DOMAIN renders) \in Nat /\ Cardinality(DOMAIN renders) <= Cardinality(Fits)
  <2>1. DOMAIN renders \in SUBSET (1 .. b)
    BY <1>1, <1>2
  <2> QED
    BY <1>1, <1>2, <2>1, SmallSets, SmallerSets
<1>4. Cardinality(Fits) \in Nat
  BY <1>1, SmallSets
<1>5. ASSUME NEW t \in DOMAIN per
      PROVE  Cardinality(RendersOf(t)) \in Nat /\ Cardinality(RendersOf(t)) <= per[t]
  <2> DEFINE F == {n \in Fits : captured[n].name = t}
  <2>1. RendersOf(t) \in SUBSET F
    BY <1>2 DEF RendersOf
  <2>2. F \in SUBSET (1 .. b)
    BY <1>1
  <2>3. Cardinality(F) <= per[t]
    BY FitsBound
  <2> HIDE DEF F
  <2>4. RendersOf(t) \in SUBSET (1 .. b)
    BY <2>1, <2>2
  <2>5. Cardinality(RendersOf(t)) \in Nat /\ Cardinality(F) \in Nat
    BY <1>1, <2>2, <2>4, SmallSets
  <2>6. Cardinality(RendersOf(t)) <= Cardinality(F)
    BY <1>1, <2>1, <2>2, SmallerSets
  <2> QED
    BY <1>1, <2>3, <2>5, <2>6
<1> QED
  BY <1>1, <1>3, <1>4, <1>5

LEMMA InvCaps ==
  ASSUME ToolsInv
  PROVE  CapsHold
<1> SUFFICES ASSUME pc \in {"upstream", "serve", "over"}
             PROVE  /\ Len(ran) <= TurnBudget(payload)
                    /\ \A t \in DOMAIN per :
                         /\ Cardinality(Carrying(ran, t)) <= MaxUses(Asked, t)
                         /\ t = "web_search" /\ Params(Asked, t).total # Absent =>
                              shown <= Params(Asked, t).total
  BY DEF CapsHold, Carrying
<1>1. /\ Len(ran) + left <= Budget + Cardinality(DOMAIN renders)
      /\ \A t \in DOMAIN per :
           Cardinality(Carrying(ran, t)) + per[t] <= MaxUses(Asked, t) + Cardinality(RendersOf(t))
      /\ "web_search" \in DOMAIN per /\ Params(Asked, "web_search").total # Absent =>
           shown <= Params(Asked, "web_search").total
  BY DEF ToolsInv, Spent
<1>2. /\ Cardinality(DOMAIN renders) \in Nat /\ Cardinality(DOMAIN renders) <= left
      /\ \A t \in DOMAIN per : /\ Cardinality(RendersOf(t)) \in Nat
                               /\ Cardinality(RendersOf(t)) <= per[t]
  BY RendersBound DEF ToolsInv
<1>3. Len(ran) \in Nat /\ left \in Nat /\ Budget \in Nat /\ \A t \in DOMAIN per : per[t] \in Nat
  BY BudgetType DEF ToolsInv, TypeOK, Budget
<1>4. Len(ran) <= TurnBudget(payload)
  BY <1>1, <1>2, <1>3 DEF Budget
<1>5. ASSUME NEW t \in DOMAIN per PROVE Cardinality(Carrying(ran, t)) <= MaxUses(Asked, t)
  <2> DEFINE c == Cardinality(Carrying(ran, t))
             m == MaxUses(Asked, t)
             r == Cardinality(RendersOf(t))
             p == per[t]
  <2>1. c \in Nat
    <3>1. ran \in Seq([name : STRING, out : Outcomes])
      BY DEF ToolsInv, TypeOK
    <3> QED
      BY <3>1, CarryingType
  <2>2. m \in Nat
    <3>1. Asked \in Requests
      BY AskedType DEF ToolsInv, TypeOK, Asked
    <3>2. DeclaresServed(Asked.tools, t)
      BY DEF ToolsInv, Offers
    <3> QED
      BY <3>1, <3>2, MaxUsesType
  <2>3. c + p <= m + r /\ r \in Nat /\ r <= p /\ p \in Nat
    BY <1>1, <1>2, <1>3
  <2> HIDE DEF c, m, r, p
  <2>4. c <= m
    BY <2>1, <2>2, <2>3
  <2> QED
    BY <2>4 DEF c, m
<1> QED
  BY <1>1, <1>4, <1>5

LEMMA InvAnswered ==
  ASSUME ToolsInv
  PROVE  TurnAnswered
<1>1. Budget \in Nat /\ rounds \in Nat /\ left \in Nat
  BY BudgetType DEF ToolsInv, TypeOK, Budget
<1>2. Max({Budget, 1}) = IF Budget >= 1 THEN Budget ELSE 1
  <2> HIDE DEF Budget
  <2>1. 1 \in Int /\ Budget \in Int
    BY <1>1
  <2> QED
    BY <2>1, MaxOfTwo
<1>3. rounds <= Max({Budget, 1})
  BY <1>1, <1>2 DEF ToolsInv, Ends
<1> QED
  BY <1>3 DEF ToolsInv, Ends, TurnAnswered, Budget

\* A request whose declarations and budget stay is to be run as before.
LEMMA SameRequest ==
  ASSUME payload \in Requests, payload' \in Requests, depth' = depth,
         payload'.tools = payload.tools, payload'.budget = payload.budget
  PROVE  /\ Budget' = Budget /\ Asked'.tools = Asked.tools
         /\ \A t : Params(Asked', t) = Params(Asked, t) /\ MaxUses(Asked', t) = MaxUses(Asked, t)
<1>1. Budget' = Budget
  BY DEF Budget, TurnBudget
<1>2. Asked'.tools = Asked.tools
  <2>1. WithDefaults(payload', depth).tools = WithDefaults(payload, depth).tools
    BY AskedTools
  <2> QED
    BY <2>1 DEF Asked
<1> HIDE DEF Asked
<1>3. \A t : Params(Asked', t) = Params(Asked, t) /\ MaxUses(Asked', t) = MaxUses(Asked, t)
  BY <1>2, SameParams
<1> QED
  BY <1>1, <1>2, <1>3

LEMMA InitTools ==
  ASSUME Init
  PROVE  ToolsInv
<1>1. payload \in Requests /\ client \in Clients /\ cand \in Candidates /\ depth \in Depths
  BY ServedToolsAssumption DEF Init
<1>2. /\ body.tools = <<>> /\ deferred = <<>> /\ DOMAIN per = {} /\ DOMAIN renders = {}
      /\ captured = <<>> /\ ran = <<>> /\ DOMAIN captured = {} /\ DOMAIN ran = {}
  BY DEF Init
<1>3. TypeOK
  BY <1>1, <1>2 DEF Init, TypeOK
<1>4. Offers
  BY <1>2 DEF Offers
<1>5. Round
  BY <1>2 DEF Init, Round
<1>6. Spent
  BY DEF Init, Spent
<1>7. Ends
  <2>1. Budget \in Nat
    BY <1>1, BudgetType DEF Budget
  <2> QED
    BY <1>2, <2>1 DEF Init, Ends
<1>8. LegsAsDeclared
  BY <1>2 DEF LegsAsDeclared
<1> QED
  BY <1>3, <1>4, <1>5, <1>6, <1>7, <1>8 DEF ToolsInv

-----------------------------------------------------------------------------
(* Each step keeps it. *)

\* Steps that only say where the loop is, or forget a round that is over.
LEMMA RefuseStep ==
  ASSUME ToolsInv, Refuse
  PROVE  ToolsInv'
<1> USE DEF Refuse, loop, round, history
<1>1. TypeOK'
  BY DEF ToolsInv, TypeOK
<1>2. Offers'
  BY DEF ToolsInv, Offers, Asked
<1>3. Round'
  BY DEF ToolsInv, Round, Fits, Allowed, Offered
<1>4. Spent'
  BY DEF Spent
<1>5. Ends'
  BY DEF ToolsInv, Ends, Budget
<1>6. LegsAsDeclared'
  BY DEF ToolsInv, LegsAsDeclared, Asked, Images
<1> QED
  BY <1>1, <1>2, <1>3, <1>4, <1>5, <1>6 DEF ToolsInv

LEMMA NextTurnStep ==
  ASSUME ToolsInv, NextTurn
  PROVE  ToolsInv'
<1> USE DEF NextTurn, loop, history
<1>1. TypeOK'
  BY DEF ToolsInv, TypeOK
<1>2. Offers'
  BY DEF ToolsInv, Offers, Asked
<1>3. Round'
  <2>1. DOMAIN renders' = {}
    OBVIOUS
  <2> QED
    BY <2>1 DEF Round
<1>4. Spent'
  BY DEF Spent
<1>5. Ends'
  BY DEF ToolsInv, Ends, Budget
<1>6. LegsAsDeclared'
  BY DEF ToolsInv, LegsAsDeclared, Asked, Images
<1> QED
  BY <1>1, <1>2, <1>3, <1>4, <1>5, <1>6 DEF ToolsInv

LEMMA CloseStep ==
  ASSUME ToolsInv, Close
  PROVE  ToolsInv'
<1> USE DEF Close, loop, round, history
<1>1. TypeOK'
  BY DEF ToolsInv, TypeOK
<1>2. Offers'
  BY DEF ToolsInv, Offers, Asked
<1>3. Round'
  BY DEF ToolsInv, Round, Fits, Allowed, Offered
<1>4. Spent'
  BY DEF ToolsInv, Spent, Budget, Asked, RendersOf
<1>5. Ends'
  BY DEF ToolsInv, Ends, Budget, Offered
<1>6. LegsAsDeclared'
  BY DEF ToolsInv, LegsAsDeclared, Asked, Images
<1> QED
  BY <1>1, <1>2, <1>3, <1>4, <1>5, <1>6 DEF ToolsInv

LEMMA SendStep ==
  ASSUME ToolsInv, Send
  PROVE  ToolsInv'
<1> DEFINE o == Offer(client, Asked, cand, depth)
<1>1. /\ payload \in Requests /\ Asked \in Requests
      /\ client \in {"anthropic", "chat", "responses"} /\ depth \in Nat
  BY AskedType, ServedToolsAssumption DEF ToolsInv, TypeOK, Asked
<1>2. GoodOffer(o, Asked.tools, depth)
  BY <1>1, OfferGood
<1>3. /\ body' = [tools |-> o.tools, choice |-> o.choice] /\ deferred' = o.deferred
      /\ per' = [t \in o.serves |-> MaxUses(Asked, t)]
      /\ pc = "door" /\ pc' = "upstream"
  BY DEF Send
<1> HIDE DEF o
<1>4. \A t \in o.serves : DeclaresServed(Asked.tools, t) /\ MaxUses(Asked, t) \in Nat
  <2> SUFFICES ASSUME NEW t \in o.serves
               PROVE  DeclaresServed(Asked.tools, t) /\ MaxUses(Asked, t) \in Nat
    OBVIOUS
  <2>1. DeclaresServed(Asked.tools, t)
    BY <1>2 DEF GoodOffer
  <2> QED
    BY <1>1, <2>1, MaxUsesType
<1>5. /\ left' = Budget /\ Budget \in Nat /\ Budget' = Budget /\ Asked' = Asked
      /\ payload' = payload /\ depth' = depth
  BY <1>1, BudgetType DEF Send, Budget, Asked
<1>6. /\ captured' = <<>> /\ renders' = <<>> /\ batch' = 0 /\ hits' = 0 /\ shown' = 0
      /\ ran' = <<>> /\ rounds' = 0 /\ open' = {}
  BY <1>3 DEF ToolsInv, Round, Send, round
<1>7. /\ DOMAIN renders' = {} /\ DOMAIN ran' = {} /\ Len(ran') = 0
      /\ Cardinality(DOMAIN renders') = 0
  BY <1>6, FS_EmptySet
<1>8. TypeOK'
  <2>1. per' \in [DOMAIN per' -> Nat]
    BY <1>3, <1>4
  <2>2. body'.tools \in Seq(Tools) /\ deferred' \in Seq(Tools)
    BY <1>2, <1>3 DEF GoodOffer
  <2>3. /\ client' = client /\ cand' = cand /\ turns' = turns /\ ending' = "none"
    BY DEF Send
  <2>4. /\ captured' \in Seq([kind : {"own", "reserved"}, name : STRING, args : CallArguments])
        /\ ran' \in Seq([name : STRING, out : Outcomes])
        /\ renders' \in [DOMAIN renders' -> Outcomes] /\ DOMAIN renders' \subseteq DOMAIN captured'
    BY <1>6, <1>7
  <2> QED
    BY <1>3, <1>5, <1>6, <2>1, <2>2, <2>3, <2>4 DEF ToolsInv, TypeOK
<1>9. Offers'
  <2>1. DOMAIN per' = o.serves /\ body'.tools = o.tools
    BY <1>3
  <2> QED
    BY <1>2, <1>3, <1>4, <1>5, <2>1, ToolOfferAssumption DEF Offers, GoodOffer
<1>10. Round'
  BY <1>3, <1>6, <1>7 DEF Round
<1>11. Spent'
  <2>1. \A t \in DOMAIN per' : /\ Cardinality(Carrying(ran', t)) = 0 /\ Cardinality(RendersOf(t)') = 0
                              /\ per'[t] = MaxUses(Asked, t) /\ MaxUses(Asked, t) \in Nat
    <3>1. \A t : Carrying(ran', t) = {} /\ RendersOf(t)' = {}
      BY <1>7 DEF Carrying, RendersOf
    <3> QED
      BY <1>3, <1>4, <3>1, FS_EmptySet
  <2>2. "web_search" \in DOMAIN per' => Params(Asked, "web_search").total \in Numbers
    <3> SUFFICES ASSUME "web_search" \in DOMAIN per'
                 PROVE  Params(Asked, "web_search").total \in Numbers
      OBVIOUS
    <3>1. DeclaresServed(Asked.tools, "web_search")
      BY <1>3, <1>4
    <3>2. Params(Asked, "web_search") \in Parameters
      BY <1>1, <3>1, ParamsType
    <3> QED
      BY <3>2 DEF Parameters
  <2>3. /\ Len(ran') + left' <= Budget' + Cardinality(DOMAIN renders')
        /\ shown' = hits' + batch'
    BY <1>5, <1>6, <1>7
  <2>4. "web_search" \in DOMAIN per' /\ Params(Asked', "web_search").total # Absent =>
          shown' <= Params(Asked', "web_search").total
    BY <1>5, <1>6, <2>2 DEF Numbers, Absent
  <2>5. \A t \in DOMAIN per' : Cardinality(Carrying(ran', t)) + per'[t]
                                 <= MaxUses(Asked', t) + Cardinality(RendersOf(t)')
    BY <1>5, <2>1
  <2> QED
    BY <2>3, <2>4, <2>5 DEF Spent
<1>12. Ends'
  BY <1>3, <1>5, <1>6 DEF Ends
<1>13. LegsAsDeclared'
  BY <1>7 DEF LegsAsDeclared
<1> QED
  BY <1>8, <1>9, <1>10, <1>11, <1>12, <1>13 DEF ToolsInv

\* The calls of an answer: of functions in the body, or of reserved names never offered.
LEMMA CallsType ==
  ASSUME ToolsInv, NEW calls \in Calls
  PROVE  /\ calls \in Seq([kind : {"own", "reserved"}, name : STRING, args : CallArguments])
         /\ \A n \in DOMAIN calls :
              \/ calls[n].kind = "own"
              \/ calls[n].name \in Strange
              \/ \E k \in DOMAIN body.tools : /\ body.tools[k].kind = "reserved"
                                              /\ body.tools[k].name = calls[n].name
<1> DEFINE Call == [kind : {"own", "reserved"}, name : STRING, args : CallArguments]
           Known(c) == \/ c.kind = "own"
                       \/ c.name \in Strange
                       \/ \E k \in DOMAIN body.tools : /\ body.tools[k].kind = "reserved"
                                                       /\ body.tools[k].name = c.name
<1>1. NoArguments \in CallArguments
  <2> DEFINE none == Absent
             model == "absent"
  <2>1. none \in Numbers /\ model \in STRING \cup {"absent"}
    BY DEF Numbers
  <2>2. NoArguments = [given |-> FALSE, model |-> model, image |-> 0, limit |-> none]
    BY DEF NoArguments
  <2> HIDE DEF none, model
  <2>3. [given |-> FALSE, model |-> model, image |-> 0, limit |-> none] \in CallArguments
    BY <2>1 DEF CallArguments
  <2> QED
    BY <2>2, <2>3
<1>2. ASSUME NEW t \in Functions, NEW c \in Made(t)
      PROVE  c \in Call /\ Known(c)
  <2>1. PICK k \in DOMAIN body.tools : t = body.tools[k]
    BY DEF Functions, ToSet
  <2>2. t \in Tools /\ t.kind \in {"own", "reserved"}
    BY <2>1 DEF ToolsInv, TypeOK, Functions
  <2>3. t.kind = "reserved" => t.name \in Enabled
    BY <2>1 DEF ToolsInv, Offers
  <2>4. t.kind = "reserved" => Arguments[t.name] \subseteq CallArguments
    BY <2>3, ServedToolsAssumption
  <2>5. PICK a \in IF t.kind = "reserved" THEN Arguments[t.name] ELSE {NoArguments} :
           c = [kind |-> t.kind, name |-> t.name, args |-> a]
    BY DEF Made
  <2>6. a \in CallArguments
    BY <1>1, <2>2, <2>4, <2>5
  <2>7. c \in Call /\ c.kind = t.kind /\ c.name = t.name
    BY <2>2, <2>5, <2>6 DEF Tools
  <2> QED
    BY <2>1, <2>2, <2>7
<1>3. ASSUME NEW t \in Strange, NEW c, c = [kind |-> "reserved", name |-> t, args |-> NoArguments]
      PROVE  c \in Call /\ Known(c)
  BY <1>1, <1>3, ServedToolsAssumption
<1>4. \A c \in Callable : c \in Call /\ Known(c)
  <2> SUFFICES ASSUME NEW c \in Callable PROVE c \in Call /\ Known(c)
    OBVIOUS
  <2> HIDE DEF Call, Known
  <2> DEFINE made == UNION {Made(t) : t \in Functions}
  <2>1. CASE c \in made
    BY <1>2, <2>1
  <2>2. CASE c \in Odd
    BY <1>3, <2>2 DEF Odd
  <2>3. Callable = made \cup Odd
    BY DEF Callable
  <2> HIDE DEF made
  <2> QED
    BY <2>1, <2>2, <2>3
<1>5. PICK m \in 0 .. MaxCalls : calls \in [1 .. m -> Callable]
  <2> DEFINE all == UNION {[1 .. n -> Callable] : n \in 0 .. MaxCalls}
  <2>1. Calls \subseteq all
    BY DEF Calls
  <2>2. calls \in all
    BY <2>1
  <2> QED
    BY <2>2
<1> HIDE DEF Call, Known
<1>6. calls \in Seq(Call) /\ \A n \in DOMAIN calls : Known(calls[n])
  <2>1. m \in Nat
    BY <1>5, ServedToolsAssumption
  <2> QED
    BY <1>4, <1>5, <2>1
<1> QED
  BY <1>6 DEF Call, Known

\* What has been run is as declared while the declarations stay.
LEMMA LegsStay ==
  ASSUME LegsAsDeclared, ran' = ran, depth' = depth, cand' = cand,
         \A t : Params(Asked', t) = Params(Asked, t)
  PROVE  LegsAsDeclared'
<1> HIDE DEF Asked
<1>1. Images' = Images
  BY DEF Images
<1> QED
  BY <1>1 DEF LegsAsDeclared

LEMMA AnswerStep ==
  ASSUME ToolsInv, Answer
  PROVE  ToolsInv'
<1>1. /\ UNCHANGED <<client, cand, depth, turns, body, deferred, left, per, hits, rounds, ran, shown, open>>
      /\ renders' = <<>> /\ batch' = 0 /\ pc = "upstream"
  BY DEF Answer, loop, history
<1>2. captured = <<>> /\ renders = <<>> /\ batch = 0
  BY <1>1 DEF ToolsInv, Round
<1> DEFINE Call == [kind : {"own", "reserved"}, name : STRING, args : CallArguments]
           own(calls) == {c.name : c \in {d \in ToSet(calls) : d.kind = "own"}}
<1>3. PICK calls \in Calls :
        \/ /\ own(calls) = {}
           /\ captured' = calls /\ pc' = "serve" /\ ending' = ending /\ payload' = payload
        \/ /\ ending' \in {"own", "text"} /\ pc' = "over" /\ captured' = captured
           /\ payload' = [payload EXCEPT !.used = @ \cup own(calls)]
  BY DEF Answer
<1>4. /\ calls \in Seq(Call)
      /\ \A n \in DOMAIN calls :
           \/ calls[n].kind = "own"
           \/ calls[n].name \in Strange
           \/ \E k \in DOMAIN body.tools : /\ body.tools[k].kind = "reserved"
                                           /\ body.tools[k].name = calls[n].name
  BY CallsType
<1>5. own(calls) \subseteq STRING /\ (own(calls) = {} => \A n \in DOMAIN calls : calls[n].kind # "own")
  <2>1. \A n \in DOMAIN calls : calls[n] \in Call
    <3> HIDE DEF Call
    <3> QED
      BY <1>4
  <2>2. \A n \in DOMAIN calls : calls[n].name \in STRING
    BY <2>1
  <2> QED
    BY <2>2 DEF ToSet
<1> DEFINE names == own(calls)
<1> HIDE DEF own, names
<1>6. payload \in Requests /\ payload' \in Requests
      /\ payload'.tools = payload.tools /\ payload'.budget = payload.budget
  <2>1. payload \in Requests
    BY DEF ToolsInv, TypeOK
  <2>2. payload' = payload \/ payload' = [payload EXCEPT !.used = @ \cup names]
    BY <1>3 DEF names
  <2>3. names \subseteq STRING
    BY <1>5 DEF names
  <2> QED
    BY <2>1, <2>2, <2>3 DEF Requests
<1>7. /\ Budget' = Budget /\ Asked'.tools = Asked.tools
      /\ \A t : Params(Asked', t) = Params(Asked, t) /\ MaxUses(Asked', t) = MaxUses(Asked, t)
  BY <1>1, <1>6, SameRequest
<1> HIDE DEF Asked, Budget
<1>8. DOMAIN renders = {} /\ DOMAIN renders' = {} /\ DOMAIN captured = {} /\ DOMAIN <<>> = {}
  BY <1>1, <1>2
<1>9. captured' \in Seq(Call) /\ pc' \in {"serve", "over"} /\ ending' \in {"none", "own", "text", "empty", "told"}
  BY <1>2, <1>3, <1>4 DEF ToolsInv, TypeOK
<1>10. TypeOK'
  BY <1>1, <1>6, <1>8, <1>9 DEF ToolsInv, TypeOK
<1>11. Offers'
  BY <1>1, <1>7 DEF ToolsInv, Offers
<1>12. Round'
  <2>1. ASSUME pc' = "serve", NEW n \in DOMAIN captured'
        PROVE  \/ captured'[n].name \in Strange
               \/ \E k \in DOMAIN body.tools : /\ body.tools[k].kind = "reserved"
                                               /\ body.tools[k].name = captured'[n].name
    BY <1>3, <1>4, <1>5, <2>1
  <2> QED
    BY <1>1, <1>3, <1>8, <2>1 DEF Round
<1>13. Spent'
  <2>1. \A t : RendersOf(t)' = RendersOf(t)
    BY <1>8 DEF RendersOf
  <2> QED
    BY <1>1, <1>2, <1>7, <1>8, <2>1 DEF ToolsInv, Spent
<1>14. Ends'
  BY <1>1, <1>3, <1>7 DEF ToolsInv, Ends
<1>15. LegsAsDeclared'
  BY <1>1, <1>7, LegsStay DEF ToolsInv
<1> QED
  BY <1>10, <1>11, <1>12, <1>13, <1>14, <1>15 DEF ToolsInv

\* The call that is run: one that fits, of a tool declared, with arguments a model may give.
LEMMA NextCall ==
  ASSUME ToolsInv, pc = "serve", Fits \ DOMAIN renders # {}
  PROVE  LET n == Min(Fits \ DOMAIN renders)
         IN  /\ n \in Fits /\ n \notin DOMAIN renders /\ n \in 1 .. Len(captured)
             /\ n \in DOMAIN captured
             /\ captured[n].name \in DOMAIN per
             /\ captured[n].args \in CallArguments /\ captured[n].name \in STRING
<1> DEFINE S == Fits \ DOMAIN renders
           n == Min(S)
           Call == [kind : {"own", "reserved"}, name : STRING, args : CallArguments]
<1>1. /\ Fits \subseteq Offered /\ Offered \subseteq DOMAIN captured
      /\ DOMAIN captured = 1 .. Len(captured) /\ Len(captured) \in Nat
  BY FitsBound DEF ToolsInv
<1>2. S \in SUBSET Nat /\ S # {}
  BY <1>1
<1>3. n \in S
  <2> HIDE DEF S
  <2> QED
    BY <1>2, MinMember
<1> HIDE DEF n
<1>4. n \in Fits /\ n \notin DOMAIN renders /\ n \in DOMAIN captured /\ n \in Offered
  BY <1>1, <1>3
<1>5. captured[n].name \in DOMAIN per
  BY <1>4 DEF Offered
<1>6. captured[n] \in Call
  <2>1. captured \in Seq(Call)
    BY DEF ToolsInv, TypeOK
  <2> HIDE DEF Call
  <2> QED
    BY <1>4, <2>1
<1> QED
  BY <1>1, <1>4, <1>5, <1>6 DEF n

LEMMA RunCallStep ==
  ASSUME ToolsInv, RunCall
  PROVE  ToolsInv'
<1> DEFINE n == Min(Fits \ DOMAIN renders)
           call == captured[n]
           name == call.name
           params == Params(Asked, name)
           turn == [hits |-> Served, deferred |-> deferred, images |-> Images, outer |-> Outer]
           b == Len(captured)
<1>1. /\ UNCHANGED <<client, cand, depth, payload, turns, pc, body, captured, ending, rounds, open,
                     deferred, left, per, hits>>
      /\ pc = "serve" /\ Fits \ DOMAIN renders # {}
  BY DEF RunCall, loop
<1>2. PICK out \in Run(name, params, call.args, turn) :
        /\ renders' = [k \in DOMAIN renders \cup {n} |-> IF k = n THEN out ELSE renders[k]]
        /\ batch' = batch + out.hits
        /\ shown' = shown + out.hits
        /\ ran' = IF out.marked THEN Append(ran, [name |-> name, out |-> out]) ELSE ran
  BY DEF RunCall
<1>3. /\ n \in Fits /\ n \notin DOMAIN renders /\ n \in 1 .. b /\ n \in DOMAIN captured
      /\ name \in DOMAIN per /\ call.args \in CallArguments /\ name \in STRING
  BY <1>1, NextCall
<1> HIDE DEF n, call
<1>4. DeclaresServed(Asked.tools, name) /\ Asked \in Requests
  BY <1>3, AskedType DEF ToolsInv, TypeOK, Offers, Asked
<1>5. params \in Parameters
  BY <1>4, ParamsType
<1>6. /\ turn \in [hits : Nat, deferred : Seq(Tools), images : Seq(Nat), outer : STRING]
      /\ turn.hits = hits + batch /\ turn.images = Images /\ turn.outer = Outer
      /\ hits \in Nat /\ batch \in Nat /\ shown \in Nat
  <2>1. hits \in Nat /\ batch \in Nat /\ shown \in Nat /\ deferred \in Seq(Tools)
    BY DEF ToolsInv, TypeOK
  <2>2. Images \in Seq(Nat)
    <3> DEFINE two == <<1, 2>>
    <3>1. two \in Seq(Nat) /\ <<>> \in Seq(Nat)
      OBVIOUS
    <3>2. Images = two \/ Images = <<>>
      BY DEF Images
    <3> HIDE DEF two
    <3> QED
      BY <3>1, <3>2
  <2>3. Served \in Nat /\ Served = hits + batch
    BY <2>1 DEF Served
  <2> QED
    BY <2>1, <2>2, <2>3, ServedToolsAssumption
<1> HIDE DEF params, turn, name
<1>7. RunFacts(out, name, params, turn)
  BY <1>2, <1>3, <1>5, <1>6, RunGood
<1>8. /\ out \in Outcomes /\ out.hits \in Nat /\ out.marked \in BOOLEAN
      /\ GoodLegs(out, name, params, Images, Outer)
      /\ name \notin Asking => out.legs = <<>>
      /\ name # "web_search" => out.hits = 0
      /\ name = "web_search" /\ params.total # Absent =>
           out.hits = 0 \/ hits + batch + out.hits <= params.total
  BY <1>6, <1>7 DEF RunFacts, Outcomes
<1> DEFINE one == [name |-> name, out |-> out]
           Row == [name : STRING, out : Outcomes]
<1>9. one \in Row /\ one.name = name /\ one.out = out
  <2> HIDE DEF name
  <2> QED
    BY <1>3, <1>8
<1>10. ran \in Seq(Row) /\ ran' = IF out.marked THEN Append(ran, one) ELSE ran
  BY <1>2 DEF ToolsInv, TypeOK
<1> HIDE DEF one, Row
<1>11. /\ DOMAIN renders' = DOMAIN renders \cup {n}
       /\ \A k \in DOMAIN renders' : renders'[k] = IF k = n THEN out ELSE renders[k]
  BY <1>2
<1>12. TypeOK'
  <2>1. renders' \in [DOMAIN renders' -> Outcomes] /\ DOMAIN renders' \subseteq DOMAIN captured
    <3>1. /\ DOMAIN renders \subseteq DOMAIN captured
          /\ \A k \in DOMAIN renders : renders[k] \in Outcomes
      BY DEF ToolsInv, TypeOK
    <3>2. \A k \in DOMAIN renders' : renders'[k] \in Outcomes
      BY <1>8, <1>11, <3>1
    <3>3. DOMAIN renders' \subseteq DOMAIN captured
      BY <1>3, <1>11, <3>1
    <3>4. renders' = [k \in DOMAIN renders' |-> renders'[k]]
      BY <1>2
    <3> HIDE DEF n
    <3> QED
      BY <3>2, <3>3, <3>4
  <2>2. batch' \in Nat /\ shown' \in Nat
    BY <1>2, <1>6, <1>8
  <2>3. ran' \in Seq(Row)
    BY <1>8, <1>9, <1>10
  <2> QED
    BY <1>1, <2>1, <2>2, <2>3 DEF ToolsInv, TypeOK, Row
<1>13. Offers'
  BY <1>1 DEF ToolsInv, Offers, Asked
<1>14. Round'
  <2>1. Fits' = Fits
    BY <1>1 DEF Fits, Allowed, Offered
  <2>2. DOMAIN renders \subseteq Fits
    BY DEF ToolsInv, Round
  <2> QED
    BY <1>1, <1>3, <1>11, <2>1, <2>2 DEF ToolsInv, Round
<1>15. Spent'
  <2>1. Asked' = Asked /\ Budget' = Budget
    BY <1>1 DEF Asked, Budget
  <2> HIDE DEF Asked, Budget
  <2>2. /\ Len(ran) + left <= Budget + Cardinality(DOMAIN renders)
        /\ \A t \in DOMAIN per :
             Cardinality(Carrying(ran, t)) + per[t] <= MaxUses(Asked, t) + Cardinality(RendersOf(t))
        /\ shown = hits + batch
        /\ "web_search" \in DOMAIN per /\ Params(Asked, "web_search").total # Absent =>
             shown <= Params(Asked, "web_search").total
    BY <1>1 DEF ToolsInv, Spent
  <2>3. b \in Nat /\ DOMAIN captured = 1 .. b /\ DOMAIN renders \in SUBSET (1 .. b)
    BY DEF ToolsInv, TypeOK
  <2> HIDE DEF b
  <2>4. /\ Cardinality(DOMAIN renders) \in Nat
        /\ Cardinality(DOMAIN renders') = Cardinality(DOMAIN renders) + 1
    BY <1>3, <1>11, <2>3, SmallSets, OneMore
  <2>5. Len(ran) \in Nat /\ Len(ran') <= Len(ran) + 1 /\ Len(ran') \in Nat
    BY <1>9, <1>10
  <2>6. left \in Nat /\ Budget \in Nat
    BY BudgetType DEF ToolsInv, TypeOK, Budget
  <2>7. Len(ran') + left <= Budget + Cardinality(DOMAIN renders')
    BY <2>2, <2>4, <2>5, <2>6
  <2>8. ASSUME NEW t \in DOMAIN per
        PROVE  Cardinality(Carrying(ran', t)) + per[t] <= MaxUses(Asked, t) + Cardinality(RendersOf(t)')
    <3>1. /\ Cardinality(Carrying(ran, t)) \in Nat
          /\ Cardinality(Carrying(ran', t)) \in Nat
          /\ Cardinality(Carrying(ran', t)) <= Cardinality(Carrying(ran, t))
                                                 + (IF name = t THEN 1 ELSE 0)
      <4>1. Cardinality(Carrying(ran, t)) \in Nat
        BY <1>10, CarryingType
      <4>2. Cardinality(Carrying(Append(ran, one), t)) =
              Cardinality(Carrying(ran, t)) + (IF one.name = t THEN 1 ELSE 0)
        BY <1>9, <1>10, CarryingMore
      <4> QED
        BY <1>9, <1>10, <4>1, <4>2
    <3>2. RendersOf(t)' = IF name = t THEN RendersOf(t) \cup {n} ELSE RendersOf(t)
      BY <1>1, <1>11 DEF RendersOf, name, call
    <3>3. RendersOf(t) \in SUBSET (1 .. b) /\ n \notin RendersOf(t)
      BY <1>3, <2>3 DEF RendersOf
    <3> HIDE DEF RendersOf
    <3>4. /\ Cardinality(RendersOf(t)) \in Nat
          /\ Cardinality(RendersOf(t) \cup {n}) = Cardinality(RendersOf(t)) + 1
      BY <1>3, <2>3, <3>3, SmallSets, OneMore
    <3>5. per[t] \in Nat /\ MaxUses(Asked, t) \in Nat
      BY <1>4, MaxUsesType DEF ToolsInv, TypeOK, Offers
    <3>6. Cardinality(Carrying(ran, t)) + per[t] <= MaxUses(Asked, t) + Cardinality(RendersOf(t))
      BY <2>2
    <3>7. CASE name = t
      <4>1. Cardinality(RendersOf(t)') = Cardinality(RendersOf(t)) + 1
        BY <3>2, <3>4, <3>7
      <4> QED
        BY <3>1, <3>4, <3>5, <3>6, <3>7, <4>1
    <3>8. CASE name # t
      <4>1. Cardinality(RendersOf(t)') = Cardinality(RendersOf(t))
        BY <3>2, <3>8
      <4> QED
        BY <3>1, <3>4, <3>5, <3>6, <3>8, <4>1
    <3> QED
      BY <3>7, <3>8
  <2>9. shown' = hits + batch'
    BY <1>2, <1>6, <1>8, <2>2
  <2>10. "web_search" \in DOMAIN per /\ Params(Asked, "web_search").total # Absent =>
           shown' <= Params(Asked, "web_search").total
    <3>1. CASE name = "web_search"
      <4>1. params = Params(Asked, "web_search")
        BY <3>1 DEF params
      <4> QED
        BY <1>2, <1>6, <1>8, <2>2, <3>1, <4>1
    <3>2. CASE name # "web_search"
      BY <1>2, <1>6, <1>8, <2>2, <3>2
    <3> QED
      BY <3>1, <3>2
  <2> QED
    BY <1>1, <2>1, <2>7, <2>8, <2>9, <2>10 DEF Spent
<1>16. Ends'
  BY <1>1 DEF ToolsInv, Ends, Budget
<1>17. LegsAsDeclared'
  <2> DEFINE Good(name_, out_) ==
               LET p == Params(Asked, name_)
               IN  /\ depth = 1 => out_.legs = <<>>
                   /\ \A leg \in ToSet(out_.legs) : GoodLeg(leg, name_, p, Images, Outer)
  <2>1. LegsAsDeclared <=> \A k \in DOMAIN ran : Good(ran[k].name, ran[k].out)
    BY DEF LegsAsDeclared, GoodLeg, Configured
  <2>2. LegsAsDeclared' <=> \A k \in DOMAIN ran' : Good(ran'[k].name, ran'[k].out)
    BY <1>1 DEF LegsAsDeclared, GoodLeg, Configured, Asked, Images
  <2>3. Good(name, out)
    <3>1. \A leg \in ToSet(out.legs) : GoodLeg(leg, name, params, Images, Outer)
      BY <1>8 DEF GoodLegs, ToSet
    <3>2. ASSUME depth = 1 PROVE out.legs = <<>>
      <4>1. name \notin Meta
        BY <1>3, <3>2 DEF ToolsInv, Offers
      <4>2. name \notin Asking
        BY <4>1, ServedToolsAssumption DEF Asking
      <4> QED
        BY <1>8, <4>2
    <3> QED
      BY <3>1, <3>2 DEF params
  <2> HIDE DEF Good
  <2>4. \A k \in DOMAIN ran : Good(ran[k].name, ran[k].out)
    BY <2>1 DEF ToolsInv
  <2>5. \A k \in DOMAIN ran' : ran'[k] = one \/ (k \in DOMAIN ran /\ ran'[k] = ran[k])
    BY <1>9, <1>10
  <2> QED
    BY <1>9, <2>2, <2>3, <2>4, <2>5
<1> QED
  BY <1>12, <1>13, <1>14, <1>15, <1>16, <1>17 DEF ToolsInv

\* A body whose budget is spent has the tools it had, but for the reserved ones.
LEMMA StrippedIn ==
  ASSUME NEW tools \in Seq(Tools), NEW choice
  PROVE  LET out == Stripped([tools |-> tools, choice |-> choice]).tools
         IN  /\ out \in Seq(Tools)
             /\ \A i \in DOMAIN out : out[i].kind # "reserved"
<1> DEFINE at == {n \in DOMAIN tools : tools[n].kind # "reserved"}
           few == Picked(tools, at)
<1>1. \A n \in at : tools[n].kind # "reserved"
  OBVIOUS
<1> HIDE DEF at
<1>2. /\ few \in Seq(Tools)
      /\ \A i \in DOMAIN few : \E n \in at \cap DOMAIN tools : few[i] = tools[n]
  BY PickedIn
<1> HIDE DEF few
<1>3. \A i \in DOMAIN few : few[i].kind # "reserved"
  BY <1>1, <1>2
<1>4. Stripped([tools |-> tools, choice |-> choice]).tools = few
  <2> DEFINE b == [tools |-> tools, choice |-> choice]
             reserved == b.choice # <<>> /\ b.choice[1] = "fn" /\ b.choice[2] = "reserved"
             c == IF few = <<>> \/ reserved THEN <<>> ELSE b.choice
  <2>1. Stripped(b) = [b EXCEPT !.tools = few, !.choice = c]
    BY DEF Stripped, few, at
  <2> HIDE DEF c
  <2>2. [b EXCEPT !.tools = few, !.choice = c].tools = few
    OBVIOUS
  <2> QED
    BY <2>1, <2>2
<1> QED
  BY <1>2, <1>3, <1>4

\* What answers the round: every call of what was offered, each charged.
LEMMA AllAnswered ==
  ASSUME ToolsInv, Fits \subseteq DOMAIN renders
  PROVE  Answered = Offered /\ DOMAIN renders \subseteq Offered
<1>1. DOMAIN renders \subseteq Fits /\ Fits \subseteq Offered
  BY FitsBound DEF ToolsInv, Round
<1> QED
  BY <1>1 DEF Answered, Over

LEMMA ContinueStep ==
  ASSUME ToolsInv, Continue
  PROVE  ToolsInv'
<1> DEFINE kept == Picked(deferred, DOMAIN deferred \ Revealing)
           more == Picked(deferred, Revealing)
           all == body.tools \o more
           again == [tools |-> all, choice |-> Released(body.choice)]
           cost == Cardinality(Answered)
           b == Len(captured)
<1>1. /\ UNCHANGED <<client, cand, depth, turns, ran, shown>>
      /\ pc = "serve" /\ Fits \subseteq DOMAIN renders /\ Answered # {}
      /\ captured' = <<>> /\ renders' = <<>> /\ batch' = 0
      /\ hits' = hits + batch /\ rounds' = rounds + 1
      /\ open' = open \cup (Offered \ Answered)
      /\ deferred' = kept
      /\ body' = IF left' = 0 THEN Stripped(again) ELSE again
  BY DEF Continue
<1>2. /\ left' = Max({0, left - cost})
      /\ per' = [t \in DOMAIN per |->
                   Max({0, per[t] - Cardinality({n \in Answered : captured[n].name = t})})]
  BY DEF Continue, Charged, Costs
<1>3. \/ /\ pc' = "upstream" /\ ending' = ending
         /\ payload' = [payload EXCEPT !.found = @ \cup Found]
      \/ /\ pc' = "over" /\ ending' = "told" /\ payload' = payload
  BY DEF Continue
<1>4. Answered = Offered /\ DOMAIN renders \subseteq Answered
  BY <1>1, AllAnswered
<1>5. b \in Nat /\ Answered \in SUBSET (1 .. b) /\ DOMAIN renders \in SUBSET (1 .. b)
  BY <1>4, FitsBound DEF ToolsInv
<1>6. deferred \in Seq(Tools) /\ body.tools \in Seq(Tools)
      /\ left \in Nat /\ hits \in Nat /\ batch \in Nat /\ rounds \in Nat /\ shown \in Nat
      /\ \A t \in DOMAIN per : per[t] \in Nat
  BY DEF ToolsInv, TypeOK
<1>7. cost \in Nat /\ cost >= 1 /\ Cardinality(DOMAIN renders) \in Nat
      /\ Cardinality(DOMAIN renders) <= cost
  <2> HIDE DEF b
  <2> QED
    BY <1>1, <1>4, <1>5, SmallSets, SomeMember, SmallerSets
<1> HIDE DEF cost
<1>8. left' = IF left >= cost THEN left - cost ELSE 0
  <2> DEFINE rest == left - cost
  <2>1. rest \in Int
    BY <1>6, <1>7
  <2> HIDE DEF rest
  <2>2. Max({0, rest}) = IF 0 >= rest THEN 0 ELSE rest
    BY <2>1, MaxOfTwo
  <2>3. left' = IF 0 >= rest THEN 0 ELSE rest
    BY <1>2, <2>2 DEF rest
  <2> QED
    BY <1>6, <1>7, <2>3 DEF rest
<1>9. /\ DOMAIN per' = DOMAIN per
      /\ \A t \in DOMAIN per :
           /\ per'[t] \in Nat
           /\ Cardinality(RendersOf(t)) \in Nat
           /\ per'[t] = 0 \/ per'[t] + Cardinality(RendersOf(t)) <= per[t]
  <2> SUFFICES ASSUME NEW t \in DOMAIN per
               PROVE  /\ per'[t] \in Nat
                      /\ Cardinality(RendersOf(t)) \in Nat
                      /\ per'[t] = 0 \/ per'[t] + Cardinality(RendersOf(t)) <= per[t]
    BY <1>2
  <2> DEFINE C == {n \in Answered : captured[n].name = t}
             rest == per[t] - Cardinality(C)
  <2>1. per'[t] = Max({0, rest})
    BY <1>2
  <2>2. C \in SUBSET (1 .. b) /\ RendersOf(t) \in SUBSET C
    BY <1>4, <1>5 DEF RendersOf
  <2> HIDE DEF C, b
  <2>3. /\ Cardinality(C) \in Nat /\ Cardinality(RendersOf(t)) <= Cardinality(C)
        /\ Cardinality(RendersOf(t)) \in Nat
    <3>1. RendersOf(t) \in SUBSET (1 .. b)
      BY <2>2
    <3> QED
      BY <1>5, <2>2, <3>1, SmallSets, SmallerSets
  <2>4. rest \in Int
    BY <1>6, <2>3
  <2> HIDE DEF rest
  <2>5. per'[t] = IF 0 >= rest THEN 0 ELSE rest
    BY <2>1, <2>4, MaxOfTwo
  <2> QED
    BY <1>6, <2>3, <2>4, <2>5 DEF rest
<1>10. /\ kept \in Seq(Tools) /\ more \in Seq(Tools)
       /\ \A i \in DOMAIN kept : kept[i].kind = "own"
       /\ \A i \in DOMAIN more : more[i].kind = "own"
  <2>1. \A n \in DOMAIN deferred : deferred[n].kind = "own"
    BY DEF ToolsInv, Offers
  <2> DEFINE rest == DOMAIN deferred \ Revealing
  <2> HIDE DEF rest
  <2>2. /\ Picked(deferred, rest) \in Seq(Tools)
        /\ \A i \in DOMAIN Picked(deferred, rest) :
             \E n \in rest \cap DOMAIN deferred : Picked(deferred, rest)[i] = deferred[n]
    BY <1>6, PickedIn
  <2>3. /\ more \in Seq(Tools)
        /\ \A i \in DOMAIN more : \E n \in Revealing \cap DOMAIN deferred : more[i] = deferred[n]
    BY <1>6, PickedIn
  <2>4. kept = Picked(deferred, rest)
    BY DEF rest
  <2> HIDE DEF kept, more
  <2> QED
    BY <2>1, <2>2, <2>3, <2>4
<1> HIDE DEF kept, more
<1>11. /\ all \in Seq(Tools)
       /\ \A i \in DOMAIN all : \/ \E k \in DOMAIN body.tools : all[i] = body.tools[k]
                                \/ all[i].kind = "own"
  BY <1>6, <1>10
<1> HIDE DEF all
<1>12. /\ body'.tools \in Seq(Tools)
       /\ left' = 0 => \A i \in DOMAIN body'.tools : body'.tools[i].kind # "reserved"
       /\ left' # 0 => body'.tools = all
  <2>1. LET out == Stripped(again).tools
        IN  out \in Seq(Tools) /\ \A i \in DOMAIN out : out[i].kind # "reserved"
    BY <1>11, StrippedIn
  <2>2. again.tools = all
    OBVIOUS
  <2> HIDE DEF again
  <2> QED
    BY <1>1, <1>11, <2>1, <2>2
<1>13. payload \in Requests /\ payload' \in Requests
       /\ payload'.tools = payload.tools /\ payload'.budget = payload.budget
  <2>1. payload \in Requests
    BY DEF ToolsInv, TypeOK
  <2>2. Found \subseteq STRING
    <3> SUFFICES ASSUME NEW x \in Found PROVE x \in STRING
      OBVIOUS
    <3>1. PICK n \in DOMAIN renders : x \in ToSet(renders[n].found)
      BY DEF Found
    <3>2. renders[n] \in Outcomes
      BY DEF ToolsInv, TypeOK
    <3>3. renders[n].found \in Seq(STRING)
      BY <3>2 DEF Outcomes
    <3> QED
      BY <3>1, <3>3 DEF ToSet
  <2>3. payload' = payload \/ payload' = [payload EXCEPT !.found = @ \cup Found]
    BY <1>3
  <2> QED
    BY <2>1, <2>2, <2>3 DEF Requests
<1>14. /\ Budget' = Budget /\ Asked'.tools = Asked.tools
       /\ \A t : Params(Asked', t) = Params(Asked, t) /\ MaxUses(Asked', t) = MaxUses(Asked, t)
  BY <1>1, <1>13, SameRequest
<1>15. Budget \in Nat
  BY <1>13, BudgetType DEF Budget
<1> HIDE DEF Asked, Budget
<1>16. DOMAIN renders' = {} /\ Cardinality(DOMAIN renders') = 0 /\ DOMAIN captured' = {}
  BY <1>1, FS_EmptySet
<1>17. TypeOK'
  <2>1. per' \in [DOMAIN per' -> Nat]
    <3>1. \A t \in DOMAIN per' : per'[t] \in Nat
      BY <1>9
    <3>2. per' = [t \in DOMAIN per' |-> per'[t]]
      BY <1>2
    <3> QED
      BY <3>1, <3>2
  <2>2. /\ captured' \in Seq([kind : {"own", "reserved"}, name : STRING, args : CallArguments])
        /\ renders' \in [DOMAIN renders' -> Outcomes] /\ DOMAIN renders' \subseteq DOMAIN captured'
    BY <1>1, <1>16
  <2>3. left' \in Nat /\ hits' \in Nat /\ batch' \in Nat /\ rounds' \in Nat
    BY <1>1, <1>6, <1>7, <1>8
  <2>4. deferred' \in Seq(Tools)
    BY <1>1, <1>10
  <2> QED
    BY <1>1, <1>3, <1>12, <1>13, <2>1, <2>2, <2>3, <2>4 DEF ToolsInv, TypeOK
<1>18. Offers'
  <2>1. ASSUME NEW i \in DOMAIN body'.tools, body'.tools[i].kind = "reserved"
        PROVE  body'.tools[i].name \in DOMAIN per'
    <3>1. body'.tools = all
      BY <1>12, <2>1
    <3>2. PICK k \in DOMAIN body.tools : all[i] = body.tools[k]
      BY <1>11, <2>1, <3>1
    <3> QED
      BY <1>9, <2>1, <3>1, <3>2 DEF ToolsInv, Offers
  <2> QED
    BY <1>1, <1>9, <1>10, <1>14, <2>1 DEF ToolsInv, Offers
<1>19. Round'
  BY <1>1, <1>3, <1>16 DEF Round
<1>20. /\ Len(ran) \in Nat
       /\ Len(ran) + left <= Budget + Cardinality(DOMAIN renders)
       /\ \A t \in DOMAIN per :
            Cardinality(Carrying(ran, t)) + per[t] <= MaxUses(Asked, t) + Cardinality(RendersOf(t))
       /\ shown = hits + batch
       /\ "web_search" \in DOMAIN per /\ Params(Asked, "web_search").total # Absent =>
            shown <= Params(Asked, "web_search").total
  BY <1>1 DEF ToolsInv, Spent, TypeOK
<1>21. CapsHold
  BY InvCaps
<1>22. Spent'
  <2>1. Len(ran) <= Budget
    BY <1>1, <1>21 DEF CapsHold, Budget
  <2>2. Len(ran') + left' <= Budget' + Cardinality(DOMAIN renders')
    BY <1>1, <1>6, <1>7, <1>8, <1>14, <1>15, <1>16, <1>20, <2>1
  <2>3. ASSUME NEW t \in DOMAIN per'
        PROVE  Cardinality(Carrying(ran', t)) + per'[t] <= MaxUses(Asked', t) + Cardinality(RendersOf(t)')
    <3>1. RendersOf(t)' = {} /\ Cardinality(RendersOf(t)') = 0
      BY <1>16, FS_EmptySet DEF RendersOf
    <3>2. t \in DOMAIN per
      BY <1>9
    <3>3. Cardinality(Carrying(ran, t)) <= MaxUses(Asked, t)
      BY <1>1, <1>21, <3>2 DEF CapsHold, Carrying
    <3>4. Cardinality(Carrying(ran, t)) \in Nat
      <4>1. ran \in Seq([name : STRING, out : Outcomes])
        BY DEF ToolsInv, TypeOK
      <4> QED
        BY <4>1, CarryingType
    <3>5. MaxUses(Asked, t) \in Nat
      <4>1. Asked \in Requests
        BY <1>13, AskedType DEF Asked
      <4>2. DeclaresServed(Asked.tools, t)
        BY <3>2 DEF ToolsInv, Offers
      <4> QED
        BY <4>1, <4>2, MaxUsesType
    <3>6. Cardinality(Carrying(ran, t)) + per'[t] <= MaxUses(Asked, t)
      <4> DEFINE c == Cardinality(Carrying(ran, t))
                 m == MaxUses(Asked, t)
                 r == Cardinality(RendersOf(t))
      <4>1. /\ c \in Nat /\ m \in Nat /\ r \in Nat /\ per[t] \in Nat /\ per'[t] \in Nat
            /\ c <= m /\ c + per[t] <= m + r
            /\ per'[t] = 0 \/ per'[t] + r <= per[t]
        BY <1>6, <1>9, <1>20, <3>2, <3>3, <3>4, <3>5
      <4> HIDE DEF c, m, r
      <4>2. c + per'[t] <= m
        BY <4>1
      <4> QED
        BY <4>2 DEF c, m
    <3> QED
      BY <1>1, <1>14, <3>1, <3>5, <3>6
  <2>4. shown' = hits' + batch'
    BY <1>1, <1>6, <1>20
  <2>5. "web_search" \in DOMAIN per' /\ Params(Asked', "web_search").total # Absent =>
          shown' <= Params(Asked', "web_search").total
    BY <1>1, <1>9, <1>14, <1>20
  <2> QED
    BY <2>2, <2>3, <2>4, <2>5 DEF Spent
<1>23. Ends'
  <2>1. /\ rounds + left <= Budget \/ (Budget = 0 /\ left = 0 /\ rounds = 1)
        /\ rounds > 0 /\ left = 0 => \A n \in DOMAIN body.tools : body.tools[n].kind # "reserved"
        /\ open = {}
    BY DEF ToolsInv, Ends
  <2>2. ~(rounds > 0 /\ left = 0)
    <3> SUFFICES ASSUME rounds > 0, left = 0 PROVE FALSE
      OBVIOUS
    <3>1. PICK n \in Offered : TRUE
      BY <1>1, <1>4
    <3>2. n \in DOMAIN captured /\ captured[n].name \in Enabled
      BY <3>1 DEF Offered, ToolsInv, Offers
    <3>3. captured[n].name \in Strange
      BY <1>1, <2>1, <3>2 DEF ToolsInv, Round
    <3> QED
      BY <3>2, <3>3, ServedToolsAssumption
  <2>3. rounds' + left' <= Budget \/ (Budget = 0 /\ left' = 0 /\ rounds' = 1)
    BY <1>1, <1>6, <1>7, <1>8, <1>15, <2>1, <2>2
  <2>4. open' = {}
    BY <1>1, <1>4, <2>1
  <2>5. ~(pc' = "over" /\ ending' = "empty")
    <3>1. pc' = "over" => ending' = "told"
      BY <1>3
    <3> QED
      BY <3>1
  <2> QED
    BY <1>12, <1>14, <2>3, <2>4, <2>5 DEF Ends
<1>24. LegsAsDeclared'
  BY <1>1, <1>14, LegsStay DEF ToolsInv
<1> QED
  BY <1>17, <1>18, <1>19, <1>22, <1>23, <1>24 DEF ToolsInv

\* A step that changes nothing.
LEMMA StutterStep ==
  ASSUME ToolsInv, UNCHANGED vars
  PROVE  ToolsInv'
<1> USE DEF vars, loop, round, history
<1>1. TypeOK'
  BY DEF ToolsInv, TypeOK
<1>2. Offers'
  BY DEF ToolsInv, Offers, Asked
<1>3. Round'
  <2>1. Fits' = Fits
    BY DEF Fits, Allowed, Offered
  <2> QED
    BY <2>1 DEF ToolsInv, Round
<1>4. Spent'
  BY DEF ToolsInv, Spent, Budget, Asked, RendersOf
<1>5. Ends'
  BY DEF ToolsInv, Ends, Budget, Offered
<1>6. LegsAsDeclared'
  BY DEF ToolsInv, LegsAsDeclared, Asked, Images
<1> QED
  BY <1>1, <1>2, <1>3, <1>4, <1>5, <1>6 DEF ToolsInv

THEOREM ToolsInvariant == Spec => []ToolsInv
<1>1. Init => ToolsInv
  BY InitTools
<1>2. ToolsInv /\ [Next]_vars => ToolsInv'
  BY RefuseStep, SendStep, AnswerStep, RunCallStep, CloseStep, ContinueStep, NextTurnStep,
     StutterStep DEF Next
<1> QED
  BY <1>1, <1>2, PTL DEF Spec

\* The loop's variables keep their types: what is offered, captured and answered, and every
\* outcome of a call, for every declaration a client may send.
THEOREM ToolsTyped == Spec => []TypeOK
<1>1. ToolsInv => TypeOK
  BY DEF ToolsInv
<1> QED
  BY <1>1, ToolsInvariant, PTL

\* No turn runs more calls than its budget, nor a tool more than its cap, nor shows more hits
\* than max_total_results, over any number of rounds of any number of parallel calls
\* (split_calls and commit, router.rs:2927-2985; batch_hits, router.rs:3078-3080).
THEOREM CapsAreKept == Spec => []CapsHold
<1>1. ToolsInv => CapsHold
  BY InvCaps
<1> QED
  BY <1>1, ToolsInvariant, PTL

\* A turn of served tools is continued no more often than its budget says, every call of an
\* offered function gets a result, and no turn that made one ends with nothing for the client
\* (serve_calls, router.rs:3046-3052).
THEOREM TurnsAreAnswered == Spec => []TurnAnswered
<1>1. ToolsInv => TurnAnswered
  BY InvAnswered
<1> QED
  BY <1>1, ToolsInvariant, PTL

\* A tool that asks models asks those it was declared, configured or called with, and a leg
\* starts no legs (Tool::is_meta, server_tools.rs:78-80).
THEOREM LegsAreDeclared == Spec => []LegsAsDeclared
<1>1. ToolsInv => LegsAsDeclared
  BY DEF ToolsInv
<1> QED
  BY <1>1, ToolsInvariant, PTL


-----------------------------------------------------------------------------
(* What is picked out of a sequence, exactly: each entry at a place, once. *)

Traces(w, p, seq, places, n) ==
  /\ w \in Seq(Nat) /\ Len(w) = Len(p)
  /\ \A i \in DOMAIN p : w[i] \in places /\ w[i] \in 1 .. n /\ p[i] = seq[w[i]]
  /\ \A i, j \in DOMAIN p : w[i] = w[j] => i = j
  /\ \A k \in places \cap (1 .. n) : \E i \in DOMAIN p : w[i] = k

LEMMA TracesMore ==
  ASSUME NEW S, NEW seq \in Seq(S), NEW places, NEW p \in Seq(S), NEW w, NEW n \in DOMAIN seq,
         Traces(w, p, seq, places, n - 1)
  PROVE  /\ n \in places => Traces(Append(w, n), Append(p, seq[n]), seq, places, n)
         /\ n \notin places => Traces(w, p, seq, places, n)
<1> DEFINE b == Len(p)
           v == Append(w, n)
           q == Append(p, seq[n])
<1>1. /\ w \in Seq(Nat) /\ Len(w) = b /\ b \in Nat /\ n \in Nat /\ n >= 1
      /\ DOMAIN p = 1 .. b /\ DOMAIN w = 1 .. b
  BY DEF Traces
<1>2. /\ \A i \in 1 .. b : w[i] \in places /\ w[i] \in 1 .. n - 1 /\ p[i] = seq[w[i]]
      /\ \A i, j \in 1 .. b : w[i] = w[j] => i = j
      /\ \A k \in places \cap (1 .. n - 1) : \E i \in 1 .. b : w[i] = k
  BY <1>1 DEF Traces
<1>3. ASSUME n \notin places PROVE Traces(w, p, seq, places, n)
  <2>1. places \cap (1 .. n) = places \cap (1 .. n - 1)
    BY <1>1, <1>3
  <2>2. \A i \in 1 .. b : w[i] \in 1 .. n
    BY <1>1, <1>2
  <2> QED
    BY <1>1, <1>2, <2>1, <2>2 DEF Traces
<1>4. ASSUME n \in places PROVE Traces(v, q, seq, places, n)
  <2>1. /\ v \in Seq(Nat) /\ Len(v) = b + 1 /\ Len(q) = b + 1 /\ DOMAIN q = 1 .. b + 1
        /\ \A i \in 1 .. b : v[i] = w[i] /\ q[i] = p[i]
        /\ v[b + 1] = n /\ q[b + 1] = seq[n]
    BY <1>1
  <2> HIDE DEF v, q, b
  <2>2. ASSUME NEW i \in 1 .. b + 1
        PROVE  v[i] \in places /\ v[i] \in 1 .. n /\ q[i] = seq[v[i]]
    <3>1. CASE i = b + 1
      BY <1>1, <1>4, <2>1, <3>1
    <3>2. CASE i # b + 1
      <4>1. i \in 1 .. b
        BY <1>1, <3>2
      <4> QED
        BY <1>1, <1>2, <2>1, <4>1
    <3> QED
      BY <3>1, <3>2
  <2>3. ASSUME NEW i \in 1 .. b + 1, NEW j \in 1 .. b + 1, v[i] = v[j]
        PROVE  i = j
    <3>1. \A k \in 1 .. b : v[k] # n
      BY <1>1, <1>2, <2>1
    <3>2. i = b + 1 \/ i \in 1 .. b
      BY <1>1
    <3>3. j = b + 1 \/ j \in 1 .. b
      BY <1>1
    <3> QED
      BY <1>2, <2>1, <2>3, <3>1, <3>2, <3>3
  <2>4. ASSUME NEW k \in places \cap (1 .. n)
        PROVE  \E i \in 1 .. b + 1 : v[i] = k
    <3>1. CASE k = n
      <4>1. b + 1 \in 1 .. b + 1
        BY <1>1
      <4> QED
        BY <2>1, <3>1, <4>1
    <3>2. CASE k # n
      <4>1. k \in places \cap (1 .. n - 1)
        BY <1>1, <3>2
      <4>2. PICK i \in 1 .. b : w[i] = k
        BY <1>2, <4>1
      <4>3. i \in 1 .. b + 1
        BY <1>1
      <4> QED
        BY <2>1, <4>2, <4>3
    <3> QED
      BY <3>1, <3>2
  <2> QED
    BY <2>1, <2>2, <2>3, <2>4 DEF Traces
<1> QED
  BY <1>3, <1>4

LEMMA PickedExact ==
  ASSUME NEW S, NEW seq \in Seq(S), NEW places
  PROVE  \E w : Traces(w, Picked(seq, places), seq, places, Len(seq))
<1> DEFINE L == Len(seq)
<1>1. L \in Nat /\ DOMAIN seq = 1 .. L
  OBVIOUS
<1>2. \E f : PickedUpTo(seq, places, L, f)
  BY <1>1, PickedExists
<1>3. PICK f : PickedUpTo(seq, places, L, f) /\ Picked(seq, places) = f[L]
  BY <1>2 DEF Picked, PickedUpTo
<1> DEFINE Well(n) == f[n] \in Seq(S) /\ \E w : Traces(w, f[n], seq, places, n)
           Bad == {n \in 0 .. L : ~Well(n)}
<1>4. Bad = {}
  <2> SUFFICES ASSUME Bad # {} PROVE FALSE
    OBVIOUS
  <2> HIDE DEF L
  <2>0. Bad \in SUBSET Nat
    BY <1>1
  <2>1. PICK k \in Bad : \A j \in Bad : k <= j
    BY LeastExists, <2>0
  <2>2. f[k] = IF k = 0 THEN <<>>
               ELSE IF k \in places THEN Append(f[k - 1], seq[k]) ELSE f[k - 1]
    BY <1>3, <2>1 DEF PickedUpTo
  <2>3. CASE k = 0
    <3>0. <<>> \in Seq(S)
      OBVIOUS
    <3>1. f[0] = <<>> /\ f[0] \in Seq(S)
      BY <2>2, <2>3, <3>0
    <3>2. Traces(<<>>, <<>>, seq, places, 0)
      BY DEF Traces
    <3> QED
      BY <2>1, <2>3, <3>1, <3>2
  <2>4. CASE k # 0
    <3>1. k - 1 \in 0 .. L /\ k \in DOMAIN seq
      BY <2>1, <2>4, <1>1
    <3>2. Well(k - 1)
      <4>1. k - 1 \notin Bad
        BY <3>1, <2>1
      <4> QED
        BY <3>1, <4>1
    <3>3. PICK w : Traces(w, f[k - 1], seq, places, k - 1)
      BY <3>2
    <3> DEFINE p == f[k - 1]
    <3>4. p \in Seq(S) /\ Traces(w, p, seq, places, k - 1)
      BY <3>2, <3>3
    <3> HIDE DEF p
    <3>5. /\ k \in places => Traces(Append(w, k), Append(p, seq[k]), seq, places, k)
          /\ k \notin places => Traces(w, p, seq, places, k)
      BY <3>1, <3>4, TracesMore
    <3>6. f[k] = IF k \in places THEN Append(p, seq[k]) ELSE p
      BY <2>2, <2>4 DEF p
    <3>7. f[k] \in Seq(S)
      BY <3>1, <3>4, <3>6
    <3>8. \E u : Traces(u, f[k], seq, places, k)
      BY <3>5, <3>6
    <3> QED
      BY <2>1, <3>7, <3>8
  <2> QED
    BY <2>3, <2>4
<1>5. Well(L)
  BY <1>1, <1>4
<1> QED
  BY <1>3, <1>5

-----------------------------------------------------------------------------
(* Names in a sequence of tools, and names that occur once. *)

UniqueOf(kind, tools) ==
  \A m, n \in DOMAIN tools :
    tools[m].kind = kind /\ tools[n].kind = kind /\ tools[m].name = tools[n].name => m = n

LEMMA NamesAre ==
  ASSUME NEW kind, NEW tools
  PROVE  Names(kind, tools) = {tools[n].name : n \in {k \in DOMAIN tools : tools[k].kind = kind}}
BY DEF Names, ToSet

LEMMA NamesIn ==
  ASSUME NEW tools, NEW n \in DOMAIN tools
  PROVE  tools[n].name \in Names(tools[n].kind, tools)
BY NamesAre

LEMMA PickedNames ==
  ASSUME NEW tools \in Seq(Tools), NEW places, NEW kind
  PROVE  Names(kind, Picked(tools, places)) =
           {tools[n].name : n \in {k \in places \cap DOMAIN tools : tools[k].kind = kind}}
<1> DEFINE P == Picked(tools, places)
           L == Len(tools)
           N == {tools[n].name : n \in {k \in places \cap DOMAIN tools : tools[k].kind = kind}}
<1>1. PICK w : Traces(w, P, tools, places, L)
  BY PickedExact
<1>2. L \in Nat /\ DOMAIN tools = 1 .. L
  OBVIOUS
<1> HIDE DEF P, L
<1>3. ASSUME NEW x \in Names(kind, P) PROVE x \in N
  <2>1. PICK i \in DOMAIN P : P[i].kind = kind /\ x = P[i].name
    BY NamesAre
  <2>2. w[i] \in places \cap DOMAIN tools /\ P[i] = tools[w[i]]
    BY <1>1, <1>2 DEF Traces
  <2> QED
    BY <2>1, <2>2
<1>4. ASSUME NEW x \in N PROVE x \in Names(kind, P)
  <2>1. PICK n \in places \cap DOMAIN tools : tools[n].kind = kind /\ x = tools[n].name
    OBVIOUS
  <2>2. PICK i \in DOMAIN P : w[i] = n
    BY <1>1, <1>2 DEF Traces
  <2>3. P[i] = tools[n]
    BY <1>1, <2>2 DEF Traces
  <2> QED
    BY <2>1, <2>3, NamesAre
<1> HIDE DEF N
<1>5. Names(kind, P) = N
  BY <1>3, <1>4
<1> QED
  BY <1>5 DEF P, N

LEMMA PickedUnique ==
  ASSUME NEW tools \in Seq(Tools), NEW places, NEW kind,
         \A m, n \in places \cap DOMAIN tools :
            tools[m].kind = kind /\ tools[n].kind = kind /\ tools[m].name = tools[n].name => m = n
  PROVE  UniqueOf(kind, Picked(tools, places))
<1> DEFINE P == Picked(tools, places)
           L == Len(tools)
<1>1. PICK w : Traces(w, P, tools, places, L)
  BY PickedExact
<1>2. L \in Nat /\ DOMAIN tools = 1 .. L
  OBVIOUS
<1> HIDE DEF P, L
<1>3. ASSUME NEW i \in DOMAIN P, NEW j \in DOMAIN P,
             P[i].kind = kind, P[j].kind = kind, P[i].name = P[j].name
      PROVE  i = j
  <2>1. /\ w[i] \in places \cap DOMAIN tools /\ P[i] = tools[w[i]]
        /\ w[j] \in places \cap DOMAIN tools /\ P[j] = tools[w[j]]
    BY <1>1, <1>2 DEF Traces
  <2>2. w[i] = w[j]
    BY <1>3, <2>1
  <2> QED
    BY <1>1, <2>2 DEF Traces
<1> QED
  BY <1>3 DEF UniqueOf, P

LEMMA ConcatNames ==
  ASSUME NEW s \in Seq(Tools), NEW t \in Seq(Tools), NEW kind
  PROVE  /\ Names(kind, s \o t) = Names(kind, s) \cup Names(kind, t)
         /\ UniqueOf(kind, s) /\ UniqueOf(kind, t) /\ Names(kind, s) \cap Names(kind, t) = {}
              => UniqueOf(kind, s \o t)
<1> DEFINE a == Len(s)
           b == Len(t)
           u == s \o t
<1>1. /\ a \in Nat /\ b \in Nat /\ DOMAIN s = 1 .. a /\ DOMAIN t = 1 .. b /\ DOMAIN u = 1 .. a + b
      /\ \A i \in 1 .. a : u[i] = s[i]
      /\ \A i \in 1 .. b : u[a + i] = t[i]
  OBVIOUS
<1> HIDE DEF a, b, u
<1>2. \A i \in 1 .. a + b : i \in 1 .. a \/ (i - a \in 1 .. b /\ u[i] = t[i - a])
  <2> TAKE i \in 1 .. a + b
  <2>1. i \in 1 .. a \/ (i - a \in 1 .. b /\ a + (i - a) = i)
    BY <1>1
  <2> QED
    BY <1>1, <2>1
<1>3. Names(kind, u) = Names(kind, s) \cup Names(kind, t)
  <2>1. ASSUME NEW x \in Names(kind, u) PROVE x \in Names(kind, s) \cup Names(kind, t)
    <3>1. PICK i \in DOMAIN u : u[i].kind = kind /\ x = u[i].name
      BY NamesAre
    <3>2. CASE i \in 1 .. a
      BY <1>1, <3>1, <3>2, NamesAre
    <3>3. CASE i - a \in 1 .. b /\ u[i] = t[i - a]
      BY <1>1, <3>1, <3>3, NamesAre
    <3> QED
      BY <1>1, <1>2, <3>2, <3>3
  <2>2. ASSUME NEW x \in Names(kind, s) PROVE x \in Names(kind, u)
    <3>1. PICK i \in DOMAIN s : s[i].kind = kind /\ x = s[i].name
      BY NamesAre
    <3>2. i \in DOMAIN u /\ u[i] = s[i]
      BY <1>1
    <3> QED
      BY <3>1, <3>2, NamesAre
  <2>3. ASSUME NEW x \in Names(kind, t) PROVE x \in Names(kind, u)
    <3>1. PICK i \in DOMAIN t : t[i].kind = kind /\ x = t[i].name
      BY NamesAre
    <3>2. a + i \in DOMAIN u /\ u[a + i] = t[i]
      BY <1>1
    <3> QED
      BY <3>1, <3>2, NamesAre
  <2> QED
    BY <2>1, <2>2, <2>3
<1>4. ASSUME UniqueOf(kind, s), UniqueOf(kind, t), Names(kind, s) \cap Names(kind, t) = {}
      PROVE  UniqueOf(kind, u)
  <2> SUFFICES ASSUME NEW i \in DOMAIN u, NEW j \in DOMAIN u,
                      u[i].kind = kind, u[j].kind = kind, u[i].name = u[j].name
               PROVE  i = j
    BY DEF UniqueOf
  <2>1. CASE i \in 1 .. a /\ j \in 1 .. a
    BY <1>1, <1>4, <2>1 DEF UniqueOf
  <2>2. CASE i \notin 1 .. a /\ j \notin 1 .. a
    <3>1. i - a \in DOMAIN t /\ j - a \in DOMAIN t /\ u[i] = t[i - a] /\ u[j] = t[j - a]
      BY <1>1, <1>2, <2>2
    <3>2. i - a = j - a
      BY <1>4, <3>1 DEF UniqueOf
    <3> QED
      BY <1>1, <3>2
  <2>3. CASE i \in 1 .. a /\ j \notin 1 .. a
    <3>1. u[i].name \in Names(kind, s) /\ u[j].name \in Names(kind, t)
      BY <1>1, <1>2, <2>3, NamesAre
    <3> QED
      BY <1>4, <3>1
  <2>4. CASE i \notin 1 .. a /\ j \in 1 .. a
    <3>1. u[j].name \in Names(kind, s) /\ u[i].name \in Names(kind, t)
      BY <1>1, <1>2, <2>4, NamesAre
    <3> QED
      BY <1>4, <3>1
  <2> QED
    BY <2>1, <2>2, <2>3, <2>4
<1> QED
  BY <1>3, <1>4 DEF u

-----------------------------------------------------------------------------
(* What becomes of names and of uniqueness on the way from a request to a body. *)

LEMMA OfNames ==
  ASSUME NEW tools \in Seq(Tools), NEW kinds, NEW kind
  PROVE  /\ Names(kind, Of(kinds, tools)) = IF kind \in kinds THEN Names(kind, tools) ELSE {}
         /\ UniqueOf(kind, tools) => UniqueOf(kind, Of(kinds, tools))
<1> DEFINE at == {n \in DOMAIN tools : tools[n].kind \in kinds}
<1>1. Of(kinds, tools) = Picked(tools, at)
  BY DEF Of
<1>2. Names(kind, Picked(tools, at)) =
        {tools[n].name : n \in {k \in at \cap DOMAIN tools : tools[k].kind = kind}}
  <2> HIDE DEF at
  <2> QED
    BY PickedNames
<1>3. {k \in at \cap DOMAIN tools : tools[k].kind = kind} =
        IF kind \in kinds THEN {k \in DOMAIN tools : tools[k].kind = kind} ELSE {}
  OBVIOUS
<1>4. UniqueOf(kind, tools) => UniqueOf(kind, Picked(tools, at))
  <2> HIDE DEF at
  <2> SUFFICES ASSUME UniqueOf(kind, tools) PROVE UniqueOf(kind, Picked(tools, at))
    OBVIOUS
  <2>1. \A m, n \in at \cap DOMAIN tools :
          tools[m].kind = kind /\ tools[n].kind = kind /\ tools[m].name = tools[n].name => m = n
    BY DEF UniqueOf
  <2> QED
    BY <2>1, PickedUnique
<1>5. Names(kind, Picked(tools, at)) = IF kind \in kinds THEN Names(kind, tools) ELSE {}
  <2>1. CASE kind \in kinds
    BY <1>2, <1>3, <2>1, NamesAre
  <2>2. CASE kind \notin kinds
    BY <1>2, <1>3, <2>2
  <2> QED
    BY <2>1, <2>2
<1> QED
  BY <1>1, <1>4, <1>5

\* One entry stays for each served tool.
LEMMA OnceNames ==
  ASSUME NEW tools \in Seq(Tools), NEW kind
  PROVE  /\ Names(kind, Once(tools)) = Names(kind, tools)
         /\ UniqueOf("served", Once(tools))
         /\ UniqueOf(kind, tools) => UniqueOf(kind, Once(tools))
<1> DEFINE at == DOMAIN tools \ Again(tools)
           P == Picked(tools, at)
<1>0. Once(tools) = P
  BY DEF Once
<1>1. DOMAIN tools \in SUBSET Nat /\ DOMAIN tools = 1 .. Len(tools) /\ Len(tools) \in Nat
  OBVIOUS
<1>2. \A n \in DOMAIN tools : n \in Again(tools) <=>
        /\ tools[n].kind = "served"
        /\ \E k \in 1 .. n - 1 : tools[k].kind = "served" /\ tools[k].name = tools[n].name
  BY DEF Again
<1>3. Names(kind, P) = {tools[n].name : n \in {k \in at \cap DOMAIN tools : tools[k].kind = kind}}
  <2> HIDE DEF at
  <2> QED
    BY PickedNames
<1>4. ASSUME NEW n \in DOMAIN tools
      PROVE  \E k \in at : tools[k].kind = tools[n].kind /\ tools[k].name = tools[n].name
  <2>1. CASE n \in at
    BY <2>1
  <2>2. CASE n \notin at
    <3> DEFINE first == {k \in DOMAIN tools : /\ tools[k].kind = "served"
                                              /\ tools[k].name = tools[n].name}
    <3>1. tools[n].kind = "served" /\ n \in first /\ first \in SUBSET Nat
      BY <1>1, <1>2, <2>2
    <3>2. PICK k \in first : \A j \in first : k <= j
      <4> HIDE DEF first
      <4> QED
        BY <3>1, LeastExists
    <3>3. k \notin Again(tools)
      <4> SUFFICES ASSUME k \in Again(tools) PROVE FALSE
        OBVIOUS
      <4>1. PICK j \in 1 .. k - 1 : tools[j].kind = "served" /\ tools[j].name = tools[k].name
        BY <1>2, <3>2
      <4>2. j \in first /\ j < k
        BY <1>1, <3>2, <4>1
      <4> QED
        BY <1>1, <3>2, <4>2
    <3> QED
      BY <3>1, <3>2, <3>3
  <2> QED
    BY <2>1, <2>2
<1>5. Names(kind, P) = Names(kind, tools)
  <2>1. {tools[n].name : n \in {k \in at \cap DOMAIN tools : tools[k].kind = kind}} =
        {tools[n].name : n \in {k \in DOMAIN tools : tools[k].kind = kind}}
    BY <1>4
  <2> QED
    BY <1>3, <2>1, NamesAre
<1>6. UniqueOf("served", P)
  <2>1. ASSUME NEW m \in at \cap DOMAIN tools, NEW n \in at \cap DOMAIN tools,
               tools[m].kind = "served", tools[n].kind = "served", tools[m].name = tools[n].name
        PROVE  m = n
    <3>1. ~(m < n)
      <4> SUFFICES ASSUME m < n PROVE FALSE
        OBVIOUS
      <4>1. m \in 1 .. n - 1
        BY <1>1
      <4> QED
        BY <1>2, <2>1, <4>1
    <3>2. ~(n < m)
      <4> SUFFICES ASSUME n < m PROVE FALSE
        OBVIOUS
      <4>1. n \in 1 .. m - 1
        BY <1>1
      <4> QED
        BY <1>2, <2>1, <4>1
    <3> QED
      BY <1>1, <3>1, <3>2
  <2> HIDE DEF at
  <2> QED
    BY <2>1, PickedUnique
<1>7. UniqueOf(kind, tools) => UniqueOf(kind, P)
  <2> HIDE DEF at
  <2> SUFFICES ASSUME UniqueOf(kind, tools) PROVE UniqueOf(kind, P)
    OBVIOUS
  <2>1. \A m, n \in at \cap DOMAIN tools :
          tools[m].kind = kind /\ tools[n].kind = kind /\ tools[m].name = tools[n].name => m = n
    BY DEF UniqueOf
  <2> QED
    BY <2>1, PickedUnique
<1> QED
  BY <1>0, <1>5, <1>6, <1>7

\* A body where served tools have become reserved ones, the reserved names each once.
LEMMA SwappedNames ==
  ASSUME NEW tools \in Seq(Tools)
  PROVE  LET W == Swapped(tools)
         IN  /\ Names("own", W) = Names("own", tools)
             /\ Names("hosted", W) = Names("hosted", tools)
             /\ Names("served", W) = {}
             /\ Names("reserved", W) = Names("reserved", tools) \cup Names("served", tools)
             /\ UniqueOf("own", tools) => UniqueOf("own", W)
             /\ Names("reserved", tools) = {} => UniqueOf("reserved", W)
             /\ Names("served", tools) = {} /\ UniqueOf("reserved", tools) => UniqueOf("reserved", W)
<1> DEFINE O == Once(tools)
           W == Swapped(tools)
<1>1. O \in Seq(Tools)
  BY OnceIn
<1>2. /\ \A kind : Names(kind, O) = Names(kind, tools)
      /\ UniqueOf("served", O)
      /\ \A kind : UniqueOf(kind, tools) => UniqueOf(kind, O)
  BY OnceNames
<1> HIDE DEF O
<1>3. W = [n \in DOMAIN O |-> Reserve(O[n])]
  BY DEF Swapped, O
<1> HIDE DEF W
<1>4. /\ DOMAIN W = DOMAIN O
      /\ \A n \in DOMAIN O : /\ W[n].name = O[n].name
                             /\ W[n].kind = IF O[n].kind = "served" THEN "reserved" ELSE O[n].kind
  <2>1. \A n \in DOMAIN O : O[n] \in Tools
    BY <1>1
  <2> QED
    BY <1>3, <2>1, ReserveIn
<1>5. ASSUME NEW kind \in {"own", "hosted"}
      PROVE  Names(kind, W) = Names(kind, O) /\ (UniqueOf(kind, O) => UniqueOf(kind, W))
  <2>1. \A n \in DOMAIN O : W[n].kind = kind <=> O[n].kind = kind
    BY <1>4
  <2>2. Names(kind, W) = Names(kind, O)
    BY <1>4, <2>1, NamesAre
  <2> QED
    BY <1>4, <2>1, <2>2 DEF UniqueOf
<1>6. \A n \in DOMAIN O : W[n].kind = "reserved" <=> O[n].kind \in {"served", "reserved"}
  BY <1>4
<1>7. Names("reserved", W) = Names("reserved", O) \cup Names("served", O)
  BY <1>4, <1>6, NamesAre
<1>10. Names("served", W) = {}
  <2>1. \A n \in DOMAIN W : W[n].kind # "served"
    BY <1>4
  <2> QED
    BY <2>1, NamesAre
<1>8. ASSUME Names("reserved", tools) = {} PROVE UniqueOf("reserved", W)
  <2>1. \A n \in DOMAIN O : O[n].kind # "reserved"
    <3>1. Names("reserved", O) = {}
      BY <1>2, <1>8
    <3> QED
      BY <3>1, NamesIn
  <2> QED
    BY <1>2, <1>4, <1>6, <2>1 DEF UniqueOf
<1>9. ASSUME Names("served", tools) = {}, UniqueOf("reserved", tools) PROVE UniqueOf("reserved", W)
  <2>1. \A n \in DOMAIN O : O[n].kind # "served"
    <3>1. Names("served", O) = {}
      BY <1>2, <1>9
    <3> QED
      BY <3>1, NamesIn
  <2>2. UniqueOf("reserved", O)
    BY <1>2, <1>9
  <2>3. \A n \in DOMAIN O : W[n].kind = "reserved" <=> O[n].kind = "reserved"
    BY <1>6, <2>1
  <2> QED
    BY <1>4, <2>2, <2>3 DEF UniqueOf
<1> QED
  BY <1>2, <1>5, <1>7, <1>8, <1>9, <1>10 DEF W

LEMMA NoNames ==
  ASSUME NEW kind
  PROVE  Names(kind, <<>>) = {} /\ UniqueOf(kind, <<>>) /\ <<>> \in Seq(Tools)
<1>1. DOMAIN <<>> = {} /\ <<>> \in Seq(Tools)
  OBVIOUS
<1> QED
  BY <1>1, NamesAre DEF UniqueOf

\* The client's own functions, each once, and the reserved ones of what it declares.
LEMMA ChatNames ==
  ASSUME NEW c \in {"anthropic", "chat", "responses"}, NEW p \in Requests,
         Names("hosted", p.tools) = {}, UniqueOf("own", p.tools)
  PROVE  LET tools == Swapped(FromClient(c, p).tools)
             none == c = "anthropic" /\ p.choice = <<"none">>
         IN  /\ tools \in Seq(Tools)
             /\ UniqueOf("own", tools) /\ UniqueOf("reserved", tools)
             /\ Names("hosted", tools) = {} /\ Names("served", tools) = {}
             /\ Names("own", tools) \subseteq Names("own", p.tools)
             /\ ~none => /\ Names("own", tools) = Names("own", p.tools)
                         /\ Names("reserved", tools) = Names("served", p.tools)
             /\ FromClient(c, p).choice = IF none THEN <<>> ELSE p.choice
<1> DEFINE given == p.tools
           chat == FromClient(c, p).tools
           tools == Swapped(chat)
           none == c = "anthropic" /\ p.choice = <<"none">>
<1>1. given \in Seq(Tools) /\ Names("reserved", given) = {}
  <2>1. given \in Seq(Declarations)
    BY DEF Requests
  <2>2. given \in Seq(Tools) /\ \A n \in DOMAIN given : given[n].kind # "reserved"
    <3> HIDE DEF given
    <3> QED
      BY <2>1, DeclarationsAreTools
  <2> HIDE DEF given
  <2> QED
    BY <2>2, NamesAre
<1>2. chat \in Seq(Tools)
  BY FromClientIn
<1>3. tools \in Seq(Tools)
  BY <1>2, SwappedIn
<1> DEFINE Fine == /\ UniqueOf("own", tools) /\ UniqueOf("reserved", tools)
                   /\ Names("hosted", tools) = {} /\ Names("served", tools) = {}
           All == /\ Names("own", tools) = Names("own", given)
                  /\ Names("reserved", tools) = Names("served", given)
<1>4. CASE c = "anthropic"
  <2> DEFINE s == Swapped(Of({"served"}, given))
             t == Of({"own"}, given)
  <2>1. chat = (IF none THEN <<>> ELSE s \o t)
        /\ FromClient(c, p).choice = IF none THEN <<>> ELSE p.choice
    BY <1>4 DEF FromClient, AnthropicToChat
  <2>2. s \in Seq(Tools) /\ t \in Seq(Tools) /\ Of({"served"}, given) \in Seq(Tools)
    BY <1>1, OfIn, SwappedIn
  <2>3. /\ \A kind : Names(kind, Of({"served"}, given)) =
                       IF kind = "served" THEN Names("served", given) ELSE {}
        /\ \A kind : Names(kind, t) = IF kind = "own" THEN Names("own", given) ELSE {}
    <3> HIDE DEF given
    <3> QED
      BY <1>1, OfNames
  <2>4. UniqueOf("own", t) /\ \A n \in DOMAIN t : t[n].kind = "own"
    <3> HIDE DEF given
    <3>1. UniqueOf("own", given)
      BY DEF given
    <3> DEFINE kinds == {"own"}
    <3>2. \A k \in kinds : k = "own"
      OBVIOUS
    <3> HIDE DEF kinds
    <3>3. UniqueOf("own", Of(kinds, given))
      BY <1>1, <3>1, OfNames
    <3>4. \A i \in DOMAIN Of(kinds, given) : Of(kinds, given)[i].kind = "own"
      BY <1>1, <3>2, OfIn
    <3> QED
      BY <3>3, <3>4 DEF kinds
  <2>5. /\ Names("own", s) = {} /\ Names("hosted", s) = {} /\ Names("served", s) = {}
        /\ Names("reserved", s) = Names("served", given) /\ UniqueOf("reserved", s)
    <3> DEFINE few == Of({"served"}, given)
    <3>1. /\ Names("own", few) = {} /\ Names("hosted", few) = {} /\ Names("reserved", few) = {}
          /\ Names("served", few) = Names("served", given)
      BY <2>3
    <3> HIDE DEF few
    <3>2. few \in Seq(Tools) /\ s = Swapped(few)
      BY <2>2 DEF few
    <3>3. /\ Names("own", Swapped(few)) = Names("own", few)
          /\ Names("hosted", Swapped(few)) = Names("hosted", few)
          /\ Names("served", Swapped(few)) = {}
          /\ Names("reserved", Swapped(few)) = Names("reserved", few) \cup Names("served", few)
          /\ UniqueOf("reserved", Swapped(few))
      BY <3>1, <3>2, SwappedNames
    <3> HIDE DEF s
    <3> QED
      BY <3>1, <3>2, <3>3
  <2> HIDE DEF s, t
  <2>6. UniqueOf("own", s) /\ UniqueOf("reserved", t)
    <3>1. \A n \in DOMAIN s : s[n].kind # "own"
      BY <2>5, NamesIn
    <3>2. \A n \in DOMAIN t : t[n].kind # "reserved"
      BY <2>4
    <3> QED
      BY <3>1, <3>2 DEF UniqueOf
  <2> DEFINE u == s \o t
  <2>7. /\ u \in Seq(Tools) /\ UniqueOf("own", u) /\ UniqueOf("reserved", u)
        /\ Names("own", u) = Names("own", given) /\ Names("reserved", u) = Names("served", given)
        /\ Names("hosted", u) = {} /\ Names("served", u) = {}
    <3>1. u \in Seq(Tools)
      BY <2>2
    <3>2. \A kind : Names(kind, u) = Names(kind, s) \cup Names(kind, t)
      BY <2>2, ConcatNames
    <3>3. UniqueOf("own", u) /\ UniqueOf("reserved", u)
      <4>1. Names("own", s) \cap Names("own", t) = {} /\ Names("reserved", s) \cap Names("reserved", t) = {}
        BY <2>3, <2>5
      <4> QED
        BY <2>2, <2>4, <2>5, <2>6, <4>1, ConcatNames
    <3> QED
      BY <2>3, <2>5, <3>1, <3>2, <3>3
  <2> HIDE DEF u
  <2>8. CASE none
    <3>1. chat = <<>>
      BY <2>1, <2>8
    <3>2. Fine /\ Names("own", tools) = {}
      BY <1>2, <3>1, NoNames, SwappedNames
    <3> QED
      BY <1>3, <2>1, <2>8, <3>2
  <2>9. CASE ~none
    <3>1. chat = u
      BY <2>1, <2>9 DEF u
    <3>2. Fine /\ All
      <4> HIDE DEF given, chat
      <4>1. /\ Names("own", Swapped(chat)) = Names("own", chat)
            /\ Names("hosted", Swapped(chat)) = Names("hosted", chat)
            /\ Names("served", Swapped(chat)) = {}
            /\ Names("reserved", Swapped(chat)) = Names("reserved", chat) \cup Names("served", chat)
            /\ UniqueOf("own", Swapped(chat)) /\ UniqueOf("reserved", Swapped(chat))
        BY <1>2, <2>7, <3>1, SwappedNames
      <4> QED
        BY <2>7, <3>1, <4>1
    <3> QED
      BY <1>3, <2>1, <2>9, <3>2
  <2> QED
    BY <2>8, <2>9
<1>5. CASE c = "responses"
  <2> DEFINE t == Of({"own", "served"}, given)
  <2>1. chat = Once(t) /\ FromClient(c, p).choice = p.choice /\ ~none
    BY <1>5 DEF FromClient, ResponsesToChat, Convertible
  <2>2. t \in Seq(Tools)
    BY <1>1, OfIn
  <2>3. /\ \A kind : Names(kind, t) = IF kind \in {"own", "served"} THEN Names(kind, given) ELSE {}
        /\ UniqueOf("own", t)
    <3> HIDE DEF given
    <3>1. UniqueOf("own", given)
      BY DEF given
    <3> QED
      BY <1>1, <3>1, OfNames
  <2> HIDE DEF t
  <2>4. /\ \A kind : Names(kind, chat) = Names(kind, t)
        /\ UniqueOf("own", chat)
    BY <2>1, <2>2, <2>3, OnceNames
  <2>5. Fine /\ All
    <3> HIDE DEF given, chat
    <3>1. /\ Names("reserved", chat) = {} /\ Names("hosted", chat) = {}
          /\ Names("own", chat) = Names("own", given) /\ Names("served", chat) = Names("served", given)
      BY <2>3, <2>4
    <3>2. /\ Names("own", Swapped(chat)) = Names("own", chat)
          /\ Names("hosted", Swapped(chat)) = Names("hosted", chat)
          /\ Names("served", Swapped(chat)) = {}
          /\ Names("reserved", Swapped(chat)) = Names("reserved", chat) \cup Names("served", chat)
          /\ UniqueOf("own", Swapped(chat)) /\ UniqueOf("reserved", Swapped(chat))
      BY <1>2, <2>4, <3>1, SwappedNames
    <3> QED
      BY <3>1, <3>2
  <2> QED
    BY <1>3, <2>1, <2>5
<1>6. CASE c = "chat"
  <2>1. chat = given /\ FromClient(c, p).choice = p.choice /\ ~none
    BY <1>6 DEF FromClient
  <2>2. UniqueOf("own", given) /\ Names("hosted", given) = {}
    OBVIOUS
  <2>3. Fine /\ All
    <3> HIDE DEF given, chat
    <3>1. /\ Names("own", Swapped(chat)) = Names("own", chat)
          /\ Names("hosted", Swapped(chat)) = Names("hosted", chat)
          /\ Names("served", Swapped(chat)) = {}
          /\ Names("reserved", Swapped(chat)) = Names("reserved", chat) \cup Names("served", chat)
          /\ UniqueOf("own", Swapped(chat)) /\ UniqueOf("reserved", Swapped(chat))
      BY <1>1, <2>1, <2>2, SwappedNames
    <3> QED
      BY <1>1, <2>1, <2>2, <3>1
  <2> QED
    BY <1>3, <2>1, <2>3
<1> QED
  BY <1>4, <1>5, <1>6

-----------------------------------------------------------------------------
(* What an attempt offers of what the client declared. *)

ChatTools(c, p) == Swapped(FromClient(c, p).tools)
ChatBody(c, p) == [tools |-> ChatTools(c, p), choice |-> FromClient(c, p).choice]
ServesOf(c, p, ca, d) == {t \in Names("reserved", ChatTools(c, p)) : CanServe(t, ca, d)}
HeldOf(c, p, ca, d) ==
  IF "tool_search" \in ServesOf(c, p, ca, d) THEN HeldBack(ChatBody(c, p), Revealed(c, p)) ELSE {}
KeptOf(c, p, ca, d) ==
  DOMAIN ChatTools(c, p) \ (HeldOf(c, p, ca, d) \cup Unrun(ChatBody(c, p), ServesOf(c, p, ca, d)))

LEMMA OfferChatIs ==
  ASSUME NEW c \in {"anthropic", "chat", "responses"}, NEW p \in Requests, NEW ca, NEW d
  PROVE  LET o == OfferChat(c, p, ca, d)
             tools == Picked(ChatTools(c, p), KeptOf(c, p, ca, d))
             choice == FromClient(c, p).choice
         IN  /\ o.tools = tools
             /\ o.deferred = Picked(ChatTools(c, p), HeldOf(c, p, ca, d))
             /\ o.serves = ServesOf(c, p, ca, d)
             /\ o.choice = IF Names("reserved", ChatTools(c, p)) = {} THEN choice
                           ELSE Settled([tools |-> tools, choice |-> choice]).choice
<1> DEFINE o == OfferChat(c, p, ca, d)
           chat == FromClient(c, p)
           tools == ChatTools(c, p)
           injected == Names("reserved", tools)
           serves == ServesOf(c, p, ca, d)
           held == HeldOf(c, p, ca, d)
           kept == KeptOf(c, p, ca, d)
           remains == [tools |-> Picked(tools, kept), choice |-> chat.choice]
           sent == IF injected = {} THEN remains ELSE Settled(remains)
<1>1. chat = [tools |-> chat.tools, choice |-> chat.choice]
  BY FromClientIn
<1>2. [chat EXCEPT !.tools = Swapped(@)] = ChatBody(c, p)
  <2> HIDE DEF tools
  <2>1. \A T, C : [[tools |-> T, choice |-> C] EXCEPT !.tools = tools] = [tools |-> tools, choice |-> C]
    OBVIOUS
  <2>2. [chat EXCEPT !.tools = Swapped(@)] = [chat EXCEPT !.tools = tools]
    BY DEF tools, ChatTools
  <2>3. ChatBody(c, p) = [tools |-> tools, choice |-> chat.choice]
    BY DEF ChatBody, tools
  <2> QED
    BY <1>1, <2>1, <2>2, <2>3
<1>3. [ChatBody(c, p) EXCEPT !.tools = Picked(@, kept)] = remains /\ ChatBody(c, p).tools = tools
  <2> HIDE DEF tools, kept
  <2> QED
    BY DEF ChatBody, tools
<1>4. o = [tools |-> sent.tools, choice |-> sent.choice, deferred |-> Picked(tools, held), serves |-> serves]
  BY <1>2, <1>3, Zenon DEF OfferChat, ServesOf, HeldOf, KeptOf
<1>5. sent.tools = Picked(tools, kept)
  <2> HIDE DEF tools, kept
  <2> QED
    BY SettledTools
<1>6. /\ o.tools = sent.tools /\ o.choice = sent.choice /\ o.deferred = Picked(tools, held)
      /\ o.serves = serves
  <2> HIDE DEF sent, tools, held, serves, kept
  <2> QED
    BY <1>4
<1>7. sent.choice = IF injected = {} THEN chat.choice ELSE Settled(remains).choice
  <2> HIDE DEF tools, kept, injected
  <2> QED
    OBVIOUS
<1> HIDE DEF o, tools, kept, held, serves, injected, chat, sent
<1> QED
  BY <1>5, <1>6, <1>7 DEF o, tools, kept, held, serves, injected, chat

\* A settled choice names a function on offer, and one that did stays.
LEMMA SettledChoice ==
  ASSUME NEW tools, NEW choice
  PROVE  LET settled == Settled([tools |-> tools, choice |-> choice]).choice
         IN  /\ settled # <<>> /\ settled[1] = "fn" => Declares(tools, settled)
             /\ choice # <<>> /\ choice[1] = "fn" /\ Declares(tools, choice) => settled = choice
<1> DEFINE b == [tools |-> tools, choice |-> choice]
           served == <<"fn", "reserved", choice[3]>>
           settled == Settled(b).choice
<1>1. b.tools = tools /\ b.choice = choice /\ \A x : [b EXCEPT !.choice = x].choice = x
  OBVIOUS
<1>2. CASE choice = <<>> \/ choice[1] # "fn"
  <2>1. Settled(b) = IF b.tools = <<>> THEN [b EXCEPT !.choice = <<>>] ELSE b
    BY <1>1, <1>2 DEF Settled
  <2>2. settled = choice \/ settled = <<>>
    <3> HIDE DEF b
    <3> QED
      BY <1>1, <2>1
  <2> QED
    BY <1>2, <2>2
<1>3. CASE ~(choice = <<>> \/ choice[1] # "fn")
  <2>1. Settled(b) = IF Declares(tools, choice) THEN b
                     ELSE IF Declares(tools, served) THEN [b EXCEPT !.choice = served]
                     ELSE [b EXCEPT !.choice = <<>>]
    BY <1>1, <1>3 DEF Settled
  <2>2. settled = IF Declares(tools, choice) THEN choice
                  ELSE IF Declares(tools, served) THEN served ELSE <<>>
    <3> HIDE DEF b, served
    <3> QED
      BY <1>1, <2>1
  <2> QED
    BY <1>3, <2>2
<1> QED
  BY <1>2, <1>3

ForcedOf(p) ==
  p.choice # <<>> /\ p.choice[1] = "fn" =>
    /\ Len(p.choice) = 3
    /\ \/ p.choice[2] = "own" /\ p.choice[3] \in Names("own", p.tools)
       \/ p.choice[2] = "bare" /\ p.choice[3] \in Names("served", p.tools)

\* What the chat offer o of request p is like: the client's functions, each once, in it or held back.
ChatOffer(o, c, p) ==
  LET none == c = "anthropic" /\ p.choice = <<"none">>
      own == Names("own", o.tools)
      forced == p.choice # <<>> /\ p.choice[1] = "fn" /\ p.choice[2] = "own"
  IN  /\ UniqueOf("own", o.tools) /\ UniqueOf("reserved", o.tools)
      /\ UniqueOf("own", o.deferred)
      /\ Names("hosted", o.tools) = {} /\ Names("served", o.tools) = {}
      /\ own \cup Names("own", o.deferred) \subseteq Names("own", p.tools)
      /\ ~none => own \cup Names("own", o.deferred) = Names("own", p.tools)
      /\ own \cap Names("own", o.deferred) = {}
      /\ o.deferred # <<>> => "tool_search" \in Names("reserved", o.tools)
      /\ ~none => Names("own", p.tools) \cap Revealed(c, p) \subseteq own
      /\ o.choice # <<>> /\ o.choice[1] = "fn" => Declares(o.tools, o.choice)
      /\ forced => o.choice = p.choice

LEMMA OfferChatNames ==
  ASSUME NEW c \in {"anthropic", "chat", "responses"}, NEW p \in Requests, NEW ca, NEW d,
         Names("hosted", p.tools) = {}, UniqueOf("own", p.tools), ForcedOf(p)
  PROVE  ChatOffer(OfferChat(c, p, ca, d), c, p)
<1> DEFINE o == OfferChat(c, p, ca, d)
           none == c = "anthropic" /\ p.choice = <<"none">>
           tools == ChatTools(c, p)
           held == HeldOf(c, p, ca, d)
           kept == KeptOf(c, p, ca, d)
           serves == ServesOf(c, p, ca, d)
           choice == FromClient(c, p).choice
           forced == p.choice # <<>> /\ p.choice[1] = "fn" /\ p.choice[2] = "own"
           r == Revealed(c, p)
<1>1. /\ tools \in Seq(Tools)
      /\ UniqueOf("own", tools) /\ UniqueOf("reserved", tools)
      /\ Names("hosted", tools) = {} /\ Names("served", tools) = {}
      /\ Names("own", tools) \subseteq Names("own", p.tools)
      /\ ~none => /\ Names("own", tools) = Names("own", p.tools)
                  /\ Names("reserved", tools) = Names("served", p.tools)
      /\ choice = IF none THEN <<>> ELSE p.choice
  BY ChatNames DEF ChatTools
<1>2. /\ o.tools = Picked(tools, kept) /\ o.deferred = Picked(tools, held)
      /\ o.choice = IF Names("reserved", tools) = {} THEN choice
                    ELSE Settled([tools |-> o.tools, choice |-> choice]).choice
  <2> DEFINE few == Picked(tools, kept)
  <2>1. /\ o.tools = few /\ o.deferred = Picked(tools, held)
        /\ o.choice = IF Names("reserved", tools) = {} THEN choice
                      ELSE Settled([tools |-> few, choice |-> choice]).choice
    BY OfferChatIs
  <2> HIDE DEF o, few, tools, choice, held
  <2> QED
    BY <2>1 DEF few
<1>3. \A n \in held : /\ n \in DOMAIN tools /\ tools[n].kind = "own"
                      /\ tools[n].name \notin r
                      /\ choice # <<"fn", "own", tools[n].name>>
                      /\ "tool_search" \in serves
  <2>1. ChatBody(c, p).tools = tools /\ ChatBody(c, p).choice = choice
    BY DEF ChatBody
  <2> QED
    BY <2>1 DEF HeldOf, HeldBack
<1>4. /\ kept \subseteq DOMAIN tools /\ kept \cap held = {}
      /\ \A n \in DOMAIN tools : n \in kept \/ n \in held
                                 \/ (tools[n].kind = "reserved" /\ tools[n].name \notin serves)
  <2>1. ChatBody(c, p).tools = tools
    BY DEF ChatBody
  <2> QED
    BY <2>1 DEF KeptOf, Unrun
<1>5. serves \subseteq Names("reserved", tools)
  BY DEF ServesOf
<1> HIDE DEF o, tools, held, kept, serves, choice, r
<1>6. ASSUME NEW kind, NEW places
      PROVE  /\ Names(kind, Picked(tools, places)) =
                  {tools[n].name : n \in {k \in places \cap DOMAIN tools : tools[k].kind = kind}}
             /\ UniqueOf(kind, tools) => UniqueOf(kind, Picked(tools, places))
  <2>1. UniqueOf(kind, tools) => UniqueOf(kind, Picked(tools, places))
    <3> SUFFICES ASSUME UniqueOf(kind, tools) PROVE UniqueOf(kind, Picked(tools, places))
      OBVIOUS
    <3>1. \A m, n \in places \cap DOMAIN tools :
            tools[m].kind = kind /\ tools[n].kind = kind /\ tools[m].name = tools[n].name => m = n
      BY DEF UniqueOf
    <3> QED
      BY <1>1, <3>1, PickedUnique
  <2> QED
    BY <1>1, <2>1, PickedNames
<1>7. /\ UniqueOf("own", o.tools) /\ UniqueOf("reserved", o.tools) /\ UniqueOf("own", o.deferred)
  BY <1>1, <1>2, <1>6
<1>8. \A kind : /\ Names(kind, o.tools) = {tools[n].name : n \in {k \in kept : tools[k].kind = kind}}
                /\ Names(kind, o.deferred) = {tools[n].name : n \in {k \in held : tools[k].kind = kind}}
                /\ Names(kind, tools) = {tools[n].name : n \in {k \in DOMAIN tools : tools[k].kind = kind}}
  <2>1. kept \cap DOMAIN tools = kept /\ held \cap DOMAIN tools = held
    BY <1>3, <1>4
  <2> QED
    BY <1>2, <1>6, <2>1, NamesAre
<1>9. Names("hosted", o.tools) = {} /\ Names("served", o.tools) = {}
  <2>1. \A kind : Names(kind, o.tools) \subseteq Names(kind, tools)
    BY <1>4, <1>8
  <2> QED
    BY <1>1, <2>1
<1>10. Names("own", o.tools) \cup Names("own", o.deferred) = Names("own", tools)
  BY <1>3, <1>4, <1>8
<1>11. Names("own", o.tools) \cap Names("own", o.deferred) = {}
  <2> SUFFICES ASSUME NEW m \in kept, tools[m].kind = "own", NEW n \in held, tools[n].kind = "own",
                      tools[m].name = tools[n].name
               PROVE  FALSE
    BY <1>8
  <2>1. m = n
    BY <1>1, <1>3, <1>4 DEF UniqueOf
  <2> QED
    BY <1>4, <2>1
<1>12. o.deferred # <<>> => "tool_search" \in Names("reserved", o.tools)
  <2> SUFFICES ASSUME o.deferred # <<>> PROVE "tool_search" \in Names("reserved", o.tools)
    OBVIOUS
  <2>1. \E n \in held : TRUE
    <3>1. /\ o.deferred \in Seq(Tools)
          /\ \A i \in DOMAIN o.deferred : \E n \in held \cap DOMAIN tools : o.deferred[i] = tools[n]
      BY <1>1, <1>2, PickedIn
    <3>2. 1 \in DOMAIN o.deferred
      BY <3>1
    <3> QED
      BY <3>1, <3>2
  <2>2. "tool_search" \in serves
    BY <1>3, <2>1
  <2>3. PICK n \in DOMAIN tools : tools[n].kind = "reserved" /\ tools[n].name = "tool_search"
    BY <1>5, <1>8, <2>2
  <2>4. n \in kept
    BY <1>3, <1>4, <2>2, <2>3
  <2> QED
    BY <1>8, <2>3, <2>4
<1>13. Names("own", tools) \cap r \subseteq Names("own", o.tools)
  BY <1>3, <1>4, <1>8
<1>14. p.choice # <<>> /\ p.choice[1] = "fn" => ~none
  OBVIOUS
<1>15. forced => Declares(o.tools, p.choice) /\ choice = p.choice
  <2> SUFFICES ASSUME forced PROVE Declares(o.tools, p.choice) /\ choice = p.choice
    OBVIOUS
  <2>1. choice = p.choice /\ Names("own", tools) = Names("own", p.tools)
    BY <1>1, <1>14
  <2>2. Len(p.choice) = 3 /\ p.choice[3] \in Names("own", tools)
    BY <2>1 DEF ForcedOf
  <2>3. PICK n \in DOMAIN tools : tools[n].kind = "own" /\ tools[n].name = p.choice[3]
    BY <1>8, <2>2
  <2>4. p.choice = <<"fn", "own", p.choice[3]>>
    <3>1. p.choice \in Seq(STRING)
      BY DEF Requests
    <3> QED
      BY <2>2, <3>1
  <2>5. n \notin held
    BY <1>3, <2>1, <2>3, <2>4
  <2>6. n \in kept
    BY <1>4, <2>3, <2>5
  <2>7. p.choice[3] \in Names("own", o.tools)
    BY <1>8, <2>3, <2>6
  <2> QED
    BY <2>1, <2>7 DEF Declares, Names, ToSet
<1>16. o.choice # <<>> /\ o.choice[1] = "fn" => Declares(o.tools, o.choice)
  <2>1. CASE Names("reserved", tools) = {}
    <3> SUFFICES ASSUME choice # <<>>, choice[1] = "fn" PROVE Declares(o.tools, choice)
      BY <1>2, <2>1
    <3>1. ~none /\ choice = p.choice
      BY <1>1
    <3>2. Names("served", p.tools) = {}
      BY <1>1, <2>1, <3>1
    <3>3. forced
      BY <3>1, <3>2 DEF ForcedOf
    <3> QED
      BY <1>15, <3>3
  <2>2. CASE Names("reserved", tools) # {}
    <3>1. o.choice = Settled([tools |-> o.tools, choice |-> choice]).choice
      BY <1>2, <2>2
    <3> DEFINE T == o.tools
    <3> HIDE DEF T
    <3>2. LET settled == Settled([tools |-> T, choice |-> choice]).choice
          IN  settled # <<>> /\ settled[1] = "fn" => Declares(T, settled)
      BY SettledChoice
    <3> QED
      BY <3>1, <3>2 DEF T
  <2> QED
    BY <2>1, <2>2
<1>17. forced => o.choice = p.choice
  <2> SUFFICES ASSUME forced PROVE o.choice = p.choice
    OBVIOUS
  <2>1. choice = p.choice /\ Declares(o.tools, choice) /\ choice # <<>> /\ choice[1] = "fn"
    BY <1>15
  <2> DEFINE T == o.tools
  <2> HIDE DEF T, forced
  <2>2. LET settled == Settled([tools |-> T, choice |-> choice]).choice
        IN  choice # <<>> /\ choice[1] = "fn" /\ Declares(T, choice) => settled = choice
    BY SettledChoice
  <2> QED
    BY <1>2, <2>1, <2>2 DEF T
<1>18. Names("own", o.tools) \cup Names("own", o.deferred) \subseteq Names("own", p.tools)
  BY <1>1, <1>10
<1>19. ~none => /\ Names("own", o.tools) \cup Names("own", o.deferred) = Names("own", p.tools)
                /\ Names("own", p.tools) \cap r \subseteq Names("own", o.tools)
  BY <1>1, <1>10, <1>13
<1> HIDE DEF none, forced
<1> QED
  BY <1>7, <1>9, <1>11, <1>12, <1>16, <1>17, <1>18, <1>19 DEF ChatOffer, o, r, none, forced

\* The functions of the client's for an Anthropic upstream.
LEMMA OfferAnthropicNames ==
  ASSUME NEW c, NEW p \in Requests
  PROVE  Names("own", OfferAnthropic(c, p).tools) \subseteq Names("own", p.tools)
<1> DEFINE o == OfferAnthropic(c, p)
           b == ToAnthropicBody(c, p)
           pxys == {n \in DOMAIN p.tools : p.tools[n].kind = "served" /\ p.tools[n].pxy}
           at == DOMAIN p.tools \ pxys
           own == {"own"}
<1>1. p.tools \in Seq(Tools)
  BY DeclarationsAreTools DEF Requests
<1>2. b.tools \in {Picked(p.tools, at), <<>>, Of(own, p.tools)}
  BY DEF ToAnthropicBody, Unhosted, ChatToAnthropic
<1>3. "own" \in own /\ o.tools = b.tools
  BY DEF OfferAnthropic
<1> HIDE DEF b, at, own, o
<1>4. Names("own", Picked(p.tools, at)) \subseteq Names("own", p.tools)
  BY <1>1, PickedNames, NamesAre
<1>5. Names("own", Of(own, p.tools)) \subseteq Names("own", p.tools)
  BY <1>1, <1>3, OfNames
<1>6. Names("own", <<>>) = {}
  BY NoNames
<1>7. Names("own", o.tools) \subseteq Names("own", p.tools)
  BY <1>2, <1>3, <1>4, <1>5, <1>6
<1> QED
  BY <1>7 DEF o

\* The defaults of the configuration add tools pxy serves, and nothing else.
LEMMA AskedNames ==
  ASSUME NEW p \in Requests, NEW d
  PROVE  LET a == WithDefaults(p, d)
         IN  /\ Names("own", a.tools) = Names("own", p.tools)
             /\ Names("hosted", a.tools) = Names("hosted", p.tools)
             /\ Names("served", p.tools) \subseteq Names("served", a.tools)
             /\ UniqueOf("own", p.tools) => UniqueOf("own", a.tools)
             /\ a.choice = p.choice /\ a.used = p.used /\ a.found = p.found
<1> DEFINE a == WithDefaults(p, d)
           given == p.tools
<1>1. given \in Seq(Tools)
  BY DeclarationsAreTools DEF Requests
<1>2. CASE d > 0
  BY <1>2 DEF WithDefaults
<1>3. CASE ~(d > 0)
  <2> DEFINE at == Wanted(given)
             more == Picked(Defaults, at)
             all == given \o more
  <2>1. Defaults \in Seq(Tools) /\ \A n \in DOMAIN Defaults : Defaults[n].kind = "served"
    BY ToolOfferAssumption, DeclarationsAreTools
  <2>2. a = [p EXCEPT !.tools = all]
    BY <1>3 DEF WithDefaults
  <2> HIDE DEF at
  <2>3. more \in Seq(Tools) /\ \A i \in DOMAIN more : more[i].kind = "served"
    BY <2>1, PickedIn
  <2> HIDE DEF more
  <2>4. \A kind : kind # "served" => Names(kind, more) = {} /\ UniqueOf(kind, more)
    BY <2>3, NamesAre DEF UniqueOf
  <2> HIDE DEF given
  <2>5. \A kind : /\ Names(kind, all) = Names(kind, given) \cup Names(kind, more)
                  /\ UniqueOf(kind, given) /\ UniqueOf(kind, more)
                     /\ Names(kind, given) \cap Names(kind, more) = {} => UniqueOf(kind, all)
    BY <1>1, <2>3, ConcatNames
  <2> HIDE DEF all
  <2>6. a.tools = all /\ a.choice = p.choice /\ a.used = p.used /\ a.found = p.found
    BY <2>2 DEF Requests
  <2> HIDE DEF a
  <2>7. /\ Names("own", all) = Names("own", given) /\ Names("hosted", all) = Names("hosted", given)
        /\ Names("served", given) \subseteq Names("served", all)
        /\ UniqueOf("own", given) => UniqueOf("own", all)
    BY <2>4, <2>5
  <2> QED
    BY <2>6, <2>7 DEF a, given
<1> QED
  BY <1>2, <1>3

\* No two tools of the same kind and name are offered.
LEMMA InjectiveTools ==
  ASSUME NEW tools
  PROVE  IsInjective([n \in DOMAIN tools |-> <<tools[n].kind, tools[n].name>>])
           <=> \A kind : UniqueOf(kind, tools)
<1> DEFINE F == [n \in DOMAIN tools |-> <<tools[n].kind, tools[n].name>>]
<1>1. \A m, n \in DOMAIN tools :
        F[m] = F[n] <=> tools[m].kind = tools[n].kind /\ tools[m].name = tools[n].name
  OBVIOUS
<1>2. DOMAIN F = DOMAIN tools
  OBVIOUS
<1> HIDE DEF F
<1>3. IsInjective(F) <=> \A kind : UniqueOf(kind, tools)
  BY <1>1, <1>2 DEF IsInjective, UniqueOf
<1> QED
  BY <1>3 DEF F

LEMMA OnlyTwoKinds ==
  ASSUME NEW tools \in Seq(Tools), UniqueOf("own", tools), UniqueOf("reserved", tools),
         Names("hosted", tools) = {}, Names("served", tools) = {}
  PROVE  \A kind : UniqueOf(kind, tools)
<1>1. \A n \in DOMAIN tools : tools[n].kind \in {"own", "reserved"}
  <2> TAKE n \in DOMAIN tools
  <2>0. tools[n] \in Tools
    OBVIOUS
  <2>1. tools[n].kind \in {"own", "served", "hosted", "reserved"}
    BY <2>0 DEF Tools
  <2>2. tools[n].kind # "hosted" /\ tools[n].kind # "served"
    BY NamesIn
  <2> QED
    BY <2>1, <2>2
<1> QED
  BY <1>1 DEF UniqueOf

-----------------------------------------------------------------------------
(* Nothing of the client's is lost. *)

\* The functions in the body and those held back are the client's, each once, and a search of
\* the round found only what is held back.
Unstranded ==
  /\ WellAsked(payload)
  /\ UniqueOf("own", deferred)
  /\ pc \in {"upstream", "serve"} =>
       (Names("own", body.tools) \cup Names("own", deferred)) \subseteq Names("own", payload.tools)
  /\ \A n \in DOMAIN renders : ToSet(renders[n].found) \subseteq Names("own", deferred)
  /\ NothingStranded

LEMMA WellAskedIs ==
  ASSUME NEW p
  PROVE  WellAsked(p) <=> /\ UniqueOf("own", p.tools)
                          /\ ForcedOf(p)
BY DEF WellAsked, UniqueOf, ForcedOf

LEMMA InitUnstranded ==
  ASSUME Init
  PROVE  Unstranded
<1>1. payload \in Payloads /\ deferred = <<>> /\ pc = "door" /\ DOMAIN renders = {}
  BY DEF Init
<1>2. UniqueOf("own", deferred)
  BY <1>1, NoNames
<1> QED
  BY <1>1, <1>2, ClientAssumption DEF Unstranded, NothingStranded

LEMMA SendUnstranded ==
  ASSUME ToolsInv, Unstranded, Send
  PROVE  Unstranded'
<1> DEFINE o == Offer(client, Asked, cand, depth)
           none == client = "anthropic" /\ payload.choice = <<"none">>
           own == Names("own", payload.tools)
           r == Revealed(client, payload)
<1>1. /\ payload \in Requests /\ Asked \in Requests
      /\ client \in {"anthropic", "chat", "responses"} /\ depth \in Nat
  BY AskedType, ServedToolsAssumption DEF ToolsInv, TypeOK, Asked
<1>2. /\ UNCHANGED <<client, cand, depth, payload>> /\ pc' = "upstream" /\ pc = "door"
      /\ body' = [tools |-> o.tools, choice |-> o.choice] /\ deferred' = o.deferred
      /\ cand.wire = "openai" => Unservable(payload) = {}
      /\ rounds' = 0
      /\ renders' = renders
  BY DEF Send, round
<1>3. DOMAIN renders = {}
  BY <1>2 DEF ToolsInv, Round
<1>4. /\ UniqueOf("own", payload.tools)
      /\ ForcedOf(payload)
  BY WellAskedIs DEF Unstranded
<1>5. /\ Names("own", Asked.tools) = own
      /\ Names("hosted", Asked.tools) = Names("hosted", payload.tools)
      /\ UniqueOf("own", Asked.tools) /\ ForcedOf(Asked)
      /\ Asked.choice = payload.choice /\ Revealed(client, Asked) = r
  <2>1. /\ Names("own", Asked.tools) = own
        /\ Names("hosted", Asked.tools) = Names("hosted", payload.tools)
        /\ Names("served", payload.tools) \subseteq Names("served", Asked.tools)
        /\ UniqueOf("own", payload.tools) => UniqueOf("own", Asked.tools)
        /\ Asked.choice = payload.choice /\ Asked.used = payload.used /\ Asked.found = payload.found
    BY <1>1, AskedNames DEF Asked
  <2> HIDE DEF Asked
  <2> QED
    BY <1>4, <2>1 DEF ForcedOf, Revealed
<1> HIDE DEF Asked
<1>6. body'.tools = o.tools /\ body'.choice = o.choice
  BY <1>2
<1>7. o.tools \in Seq(Tools)
  <2>1. GoodOffer(o, Asked.tools, depth)
    <3> HIDE DEF Offer
    <3> QED
      BY <1>1, OfferGood
  <2> QED
    BY <2>1 DEF GoodOffer
<1>8. WellAsked(payload')
  BY <1>2 DEF Unstranded
<1>9. CASE cand.wire = "anthropic"
  <2>1. o = OfferAnthropic(client, Asked)
    BY <1>9 DEF Offer
  <2>2. o.deferred = <<>>
    BY <2>1 DEF OfferAnthropic
  <2> HIDE DEF o
  <2>3. Names("own", o.tools) \subseteq own
    BY <1>1, <1>5, <2>1, OfferAnthropicNames
  <2>4. Names("own", deferred') = {} /\ UniqueOf("own", deferred')
    BY <1>2, <2>2, NoNames
  <2>5. NothingStranded'
    BY <1>2, <1>9 DEF NothingStranded
  <2> QED
    BY <1>2, <1>3, <1>6, <1>8, <2>3, <2>4, <2>5 DEF Unstranded
<1>10. CASE cand.wire # "anthropic"
  <2>1. cand.wire = "openai"
    BY <1>10, ServedToolsAssumption DEF ToolsInv, TypeOK
  <2>2. Names("hosted", Asked.tools) = {}
    BY <1>2, <1>5, <2>1 DEF Unservable
  <2>3. o = OfferChat(client, Asked, cand, depth)
    BY <1>10 DEF Offer
  <2> DEFINE forced == payload.choice # <<>> /\ payload.choice[1] = "fn" /\ payload.choice[2] = "own"
             mine == Names("own", o.tools)
             away == Names("own", o.deferred)
  <2>4. /\ UniqueOf("own", o.tools) /\ UniqueOf("reserved", o.tools)
        /\ UniqueOf("own", o.deferred)
        /\ Names("hosted", o.tools) = {} /\ Names("served", o.tools) = {}
        /\ mine \cup away \subseteq own
        /\ ~none => mine \cup away = own
        /\ mine \cap away = {}
        /\ o.deferred # <<>> => "tool_search" \in Names("reserved", o.tools)
        /\ ~none => own \cap r \subseteq mine
        /\ o.choice # <<>> /\ o.choice[1] = "fn" => Declares(o.tools, o.choice)
        /\ forced => o.choice = payload.choice
    <3> DEFINE c == client
               p == Asked
               oc == OfferChat(c, p, cand, depth)
    <3>1. c \in {"anthropic", "chat", "responses"} /\ p \in Requests /\ Names("hosted", p.tools) = {}
          /\ UniqueOf("own", p.tools) /\ ForcedOf(p)
      BY <1>1, <1>5, <2>2
    <3> HIDE DEF c, p
    <3>2. ChatOffer(oc, c, p)
      BY <3>1, OfferChatNames
    <3>3. o = oc /\ p.choice = payload.choice /\ Names("own", p.tools) = own /\ Revealed(c, p) = r
          /\ c = client
      BY <1>5, <2>3 DEF c, p
    <3> HIDE DEF o, own, r, oc
    <3> QED
      BY <3>2, <3>3 DEF ChatOffer
  <2> HIDE DEF o
  <2>5. IsInjective([n \in DOMAIN o.tools |-> <<o.tools[n].kind, o.tools[n].name>>])
    BY <1>7, <2>4, OnlyTwoKinds, InjectiveTools
  <2>7. Revealed(client, payload)' = r
    BY <1>2
  <2> HIDE DEF r, own
  <2>8. NothingStranded'
    BY <1>2, <1>6, <2>4, <2>5, <2>7 DEF NothingStranded, own
  <2> QED
    BY <1>2, <1>3, <1>6, <1>8, <2>4, <2>8 DEF Unstranded, own
<1> QED
  BY <1>9, <1>10

\* Steps that leave the body, what is held back and the request as they are.
LEMMA StillUnstranded ==
  ASSUME Unstranded, UNCHANGED <<client, cand, payload, body, deferred, left, rounds>>,
         pc' \in {"upstream", "serve"} => pc \in {"upstream", "serve"},
         DOMAIN renders' = {} \/ renders' = renders
  PROVE  Unstranded'
<1>1. NothingStranded'
  BY DEF Unstranded, NothingStranded
<1>2. \A n \in DOMAIN renders' : ToSet(renders'[n].found) \subseteq Names("own", deferred')
  BY DEF Unstranded
<1> QED
  BY <1>1, <1>2 DEF Unstranded

LEMMA AnswerUnstranded ==
  ASSUME ToolsInv, Unstranded, Answer
  PROVE  Unstranded'
<1> DEFINE own(calls) == {c.name : c \in {d \in ToSet(calls) : d.kind = "own"}}
<1>1. /\ UNCHANGED <<client, cand, body, deferred, left, rounds>> /\ renders' = <<>> /\ pc = "upstream"
  BY DEF Answer, loop, history
<1>2. PICK calls \in Calls :
        \/ pc' = "serve" /\ payload' = payload
        \/ pc' = "over" /\ payload' = [payload EXCEPT !.used = @ \cup own(calls)]
  BY DEF Answer
<1>3. DOMAIN renders' = {}
  BY <1>1
<1>4. CASE payload' = payload
  BY <1>1, <1>3, <1>4, StillUnstranded
<1>5. CASE pc' = "over" /\ payload' = [payload EXCEPT !.used = @ \cup own(calls)]
  <2> HIDE DEF own
  <2>1. payload'.tools = payload.tools /\ payload'.choice = payload.choice
    BY <1>5 DEF ToolsInv, TypeOK, Requests
  <2>2. WellAsked(payload')
    <3>1. WellAsked(payload)
      BY DEF Unstranded
    <3> QED
      BY <2>1, <3>1, WellAskedIs DEF ForcedOf
  <2> QED
    BY <1>1, <1>3, <1>5, <2>2 DEF Unstranded, NothingStranded
<1> QED
  BY <1>2, <1>4, <1>5

\* A search names functions that are held back; no other tool names any.
Finds(out, held) == \A k \in DOMAIN out.found : \E n \in DOMAIN held : out.found[k] = held[n].name

LEMMA FoundNothing ==
  ASSUME NEW held
  PROVE  /\ Finds(Unserved, held) /\ Finds(Marked, held)
         /\ \A x : Finds([Marked EXCEPT !.legs = x], held) /\ Finds([Marked EXCEPT !.hits = x], held)
<1>1. /\ Unserved.found = <<>> /\ Marked.found = <<>>
      /\ \A x : [Marked EXCEPT !.legs = x].found = <<>> /\ [Marked EXCEPT !.hits = x].found = <<>>
  BY DEF Unserved, Marked
<1>2. DOMAIN <<>> = {}
  OBVIOUS
<1> QED
  BY <1>1, <1>2 DEF Finds

LEMMA SearchFinds ==
  ASSUME NEW params \in Parameters, NEW args \in CallArguments, NEW turn, turn.deferred \in Seq(Tools),
         NEW out \in ToolSearch(params, args, turn)
  PROVE  Finds(out, turn.deferred)
<1> DEFINE most == Clamp(Or(params.results, 5), 1, 50)
           limit == Clamp(Or(args.limit, most), 1, most)
           In(matches) == Picked(turn.deferred, matches)
           Names_(matches) == [n \in 1 .. Min({limit, Len(In(matches))}) |-> In(matches)[n].name]
<1>1. params.results \in Numbers /\ args.limit \in Numbers
  BY DEF Parameters, CallArguments
<1>2. most \in 1 .. 50
  <2> DEFINE given == params.results
  <2>1. given \in Numbers /\ 5 \in Nat /\ 50 \in Nat \ {0}
    BY <1>1
  <2> HIDE DEF given
  <2>2. Clamp(Or(given, 5), 1, 50) \in 1 .. 50
    BY <2>1, ClampedOr
  <2> QED
    BY <2>2 DEF given
<1> HIDE DEF most
<1>3. limit \in Nat
  <2> DEFINE given == args.limit
  <2>1. given \in Numbers /\ most \in Nat \ {0}
    BY <1>1, <1>2
  <2> HIDE DEF given
  <2>2. Clamp(Or(given, most), 1, most) \in 1 .. most
    BY <2>1, ClampedOr
  <2>3. limit \in 1 .. most
    BY <2>2 DEF given
  <2> QED
    BY <2>1, <2>3
<1> HIDE DEF limit
<1>4. ASSUME NEW matches, NEW k \in DOMAIN Names_(matches)
      PROVE  \E n \in DOMAIN turn.deferred : Names_(matches)[k] = turn.deferred[n].name
  <2> DEFINE few == Picked(turn.deferred, matches)
             m == Min({limit, Len(few)})
  <2>1. /\ few \in Seq(Tools)
        /\ \A i \in DOMAIN few : \E n \in matches \cap DOMAIN turn.deferred : few[i] = turn.deferred[n]
    BY PickedIn
  <2>2. k \in 1 .. m /\ Names_(matches)[k] = few[k].name
    BY <1>4
  <2> HIDE DEF few, Names_
  <2>3. m \in Nat /\ m <= Len(few)
    <3>1. Len(few) \in Nat
      BY <2>1
    <3> QED
      BY <1>3, <3>1, MinOfTwo
  <2> HIDE DEF m
  <2>4. k \in DOMAIN few
    BY <2>1, <2>2, <2>3
  <2> QED
    BY <2>1, <2>2, <2>4
<1>5. out = Unserved \/ \E matches : out = [Marked EXCEPT !.found = Names_(matches)]
  BY DEF ToolSearch, most, limit
<1> HIDE DEF Names_
<1>6. \A x : [Marked EXCEPT !.found = x].found = x
  BY DEF Marked, Unserved
<1>7. CASE out = Unserved
  BY <1>7, FoundNothing
<1>8. ASSUME NEW matches, out = [Marked EXCEPT !.found = Names_(matches)]
      PROVE  Finds(out, turn.deferred)
  <2>1. out.found = Names_(matches)
    BY <1>6, <1>8
  <2> QED
    BY <1>4, <2>1 DEF Finds
<1> QED
  BY <1>5, <1>7, <1>8

LEMMA RunFinds ==
  ASSUME NEW tool, NEW params \in Parameters, NEW args \in CallArguments, NEW turn,
         turn.deferred \in Seq(Tools), NEW out \in Run(tool, params, args, turn)
  PROVE  Finds(out, turn.deferred)
<1>1. CASE tool = "tool_search"
  <2>1. out \in ToolSearch(params, args, turn)
    BY <1>1 DEF Run
  <2> QED
    BY <2>1, SearchFinds
<1>2. CASE tool = "web_search"
  BY <1>2, FoundNothing DEF Run, WebSearch, Hits
<1>3. CASE tool = "advisor"
  BY <1>3, FoundNothing DEF Run, Advisor
<1>4. CASE tool = "subagent"
  BY <1>4, FoundNothing DEF Run, Subagent
<1>5. CASE tool = "fusion"
  <2>1. out \in Fusion(params, args, turn)
    BY <1>5 DEF Run
  <2>2. out = Unserved \/ \E x : out = [Marked EXCEPT !.legs = x]
    <3> HIDE DEF Marked, Unserved
    <3> QED
      BY <2>1 DEF Fusion
  <2>3. \A x : Finds([Marked EXCEPT !.legs = x], turn.deferred) /\ Finds(Unserved, turn.deferred)
    BY FoundNothing
  <2> QED
    BY <2>2, <2>3
<1>6. CASE tool = "describe_image"
  <2>1. out \in DescribeImage(params, args, turn)
    BY <1>6 DEF Run
  <2>2. out = Unserved \/ \E x : out = [Marked EXCEPT !.legs = x]
    <3> HIDE DEF Marked, Unserved
    <3> QED
      BY <2>1 DEF DescribeImage
  <2>3. \A x : Finds([Marked EXCEPT !.legs = x], turn.deferred) /\ Finds(Unserved, turn.deferred)
    BY FoundNothing
  <2> QED
    BY <2>2, <2>3
<1>7. CASE tool \notin {"tool_search", "web_search", "advisor", "subagent", "fusion", "describe_image"}
  BY <1>7, FoundNothing DEF Run, Informs, Other
<1> QED
  BY <1>1, <1>2, <1>3, <1>4, <1>5, <1>6, <1>7

LEMMA RunCallUnstranded ==
  ASSUME ToolsInv, Unstranded, RunCall
  PROVE  Unstranded'
<1> DEFINE n == Min(Fits \ DOMAIN renders)
           call == captured[n]
           name == call.name
           params == Params(Asked, name)
           turn == [hits |-> Served, deferred |-> deferred, images |-> Images, outer |-> Outer]
<1>1. /\ UNCHANGED <<client, cand, payload, pc, body, deferred, left, rounds>>
      /\ pc = "serve" /\ Fits \ DOMAIN renders # {}
  BY DEF RunCall, loop
<1>2. PICK out \in Run(name, params, call.args, turn) :
        renders' = [k \in DOMAIN renders \cup {n} |-> IF k = n THEN out ELSE renders[k]]
  BY DEF RunCall
<1>3. name \in DOMAIN per /\ call.args \in CallArguments
  BY <1>1, NextCall
<1> HIDE DEF n, call
<1>4. DeclaresServed(Asked.tools, name) /\ Asked \in Requests
  BY <1>3, AskedType DEF ToolsInv, TypeOK, Offers, Asked
<1>5. params \in Parameters
  BY <1>4, ParamsType
<1>6. turn.deferred = deferred /\ deferred \in Seq(Tools)
  BY DEF ToolsInv, TypeOK
<1> HIDE DEF params, turn, name
<1>7. Finds(out, turn.deferred)
  BY <1>2, <1>3, <1>5, <1>6, RunFinds
<1>8. ToSet(out.found) \subseteq Names("own", deferred)
  <2> SUFFICES ASSUME NEW k \in DOMAIN out.found PROVE out.found[k] \in Names("own", deferred)
    BY DEF ToSet
  <2>1. PICK i \in DOMAIN deferred : out.found[k] = deferred[i].name
    BY <1>6, <1>7 DEF Finds
  <2>2. deferred[i].kind = "own"
    BY DEF ToolsInv, Offers
  <2> QED
    BY <2>1, <2>2, NamesIn
<1>9. \A k \in DOMAIN renders' : ToSet(renders'[k].found) \subseteq Names("own", deferred')
  BY <1>1, <1>2, <1>8 DEF Unstranded
<1>10. NothingStranded'
  BY <1>1 DEF Unstranded, NothingStranded
<1> QED
  BY <1>1, <1>9, <1>10 DEF Unstranded

-----------------------------------------------------------------------------
(* A continuation. *)

\* What stays of a body whose reserved functions are taken out.
LEMMA StrippedNames ==
  ASSUME NEW tools \in Seq(Tools), NEW choice
  PROVE  LET out == Stripped([tools |-> tools, choice |-> choice])
         IN  /\ Names("own", out.tools) = Names("own", tools)
             /\ \A kind : UniqueOf(kind, tools) => UniqueOf(kind, out.tools)
             /\ out.choice = <<>> \/ (out.choice = choice /\ out.tools # <<>>
                  /\ ~(choice # <<>> /\ choice[1] = "fn" /\ choice[2] = "reserved"))
             /\ \A t \in ToSet(tools) : t.kind # "reserved" => t \in ToSet(out.tools)
<1> DEFINE at == {n \in DOMAIN tools : tools[n].kind # "reserved"}
           few == Picked(tools, at)
           b == [tools |-> tools, choice |-> choice]
           reserved == choice # <<>> /\ choice[1] = "fn" /\ choice[2] = "reserved"
           c == IF few = <<>> \/ reserved THEN <<>> ELSE choice
<1>1. /\ Stripped(b).tools = few /\ Stripped(b).choice = c
  <2>1. Stripped(b) = [b EXCEPT !.tools = few, !.choice = c]
    BY DEF Stripped
  <2> HIDE DEF few, c
  <2> QED
    BY <2>1
<1>2. \A kind : Names(kind, few) =
        {tools[n].name : n \in {k \in at \cap DOMAIN tools : tools[k].kind = kind}}
  <2> HIDE DEF at
  <2> QED
    BY PickedNames
<1>3. {k \in at \cap DOMAIN tools : tools[k].kind = "own"} = {k \in DOMAIN tools : tools[k].kind = "own"}
  OBVIOUS
<1>4. Names("own", few) = Names("own", tools)
  BY <1>2, <1>3, NamesAre
<1>5. ASSUME NEW kind, UniqueOf(kind, tools) PROVE UniqueOf(kind, few)
  <2>1. \A m, n \in at \cap DOMAIN tools :
          tools[m].kind = kind /\ tools[n].kind = kind /\ tools[m].name = tools[n].name => m = n
    BY <1>5 DEF UniqueOf
  <2> HIDE DEF at
  <2> QED
    BY <2>1, PickedUnique
<1>6. ASSUME NEW t \in ToSet(tools), t.kind # "reserved" PROVE t \in ToSet(few)
  <2> DEFINE L == Len(tools)
  <2>1. PICK n \in DOMAIN tools : t = tools[n]
    BY DEF ToSet
  <2>2. n \in at \cap (1 .. L)
    BY <1>6, <2>1
  <2> HIDE DEF at, L
  <2>3. PICK w : Traces(w, few, tools, at, Len(tools))
    BY PickedExact
  <2> HIDE DEF few
  <2>4. PICK i \in DOMAIN few : w[i] = n
    BY <2>2, <2>3 DEF Traces, L
  <2>5. few[i] = t
    BY <2>1, <2>3, <2>4 DEF Traces
  <2> QED
    BY <2>5 DEF ToSet
<1> HIDE DEF few
<1>7. c = <<>> \/ (c = choice /\ few # <<>> /\ ~reserved)
  OBVIOUS
<1> HIDE DEF c, reserved
<1>8. LET out == Stripped(b)
      IN  /\ Names("own", out.tools) = Names("own", tools)
          /\ \A kind : UniqueOf(kind, tools) => UniqueOf(kind, out.tools)
          /\ out.choice = <<>> \/ (out.choice = choice /\ out.tools # <<>> /\ ~reserved)
          /\ \A t \in ToSet(tools) : t.kind # "reserved" => t \in ToSet(out.tools)
  BY <1>1, <1>4, <1>5, <1>6, <1>7
<1> QED
  BY <1>8 DEF b, reserved

LEMMA ReleasedOnce ==
  ASSUME NEW choice
  PROVE  /\ Released(Released(choice)) = Released(choice) /\ Released(<<>>) = <<>>
         /\ Released(choice) = choice \/ Released(choice) = <<"auto">>
BY DEF Released

\* A declared choice stays declared with more tools on offer, or without the reserved ones.
LEMMA StillDeclares ==
  ASSUME NEW tools \in Seq(Tools), NEW more \in Seq(Tools), NEW choice, Declares(tools, choice)
  PROVE  Declares(tools \o more, choice)
<1> DEFINE all == tools \o more
<1>1. PICK n \in DOMAIN tools : tools[n].kind = choice[2] /\ tools[n].name = choice[3]
  BY DEF Declares, ToSet
<1>2. n \in DOMAIN all /\ all[n] = tools[n]
  OBVIOUS
<1> HIDE DEF all
<1>3. \E t \in ToSet(all) : t.kind = choice[2] /\ t.name = choice[3]
  BY <1>1, <1>2 DEF ToSet
<1> QED
  BY <1>3 DEF Declares, all

LEMMA ContinueUnstranded ==
  ASSUME ToolsInv, Unstranded, Continue
  PROVE  Unstranded'
<1> DEFINE rest == DOMAIN deferred \ Revealing
           kept == Picked(deferred, rest)
           more == Picked(deferred, Revealing)
           all == body.tools \o more
           freed == Released(body.choice)
           again == [tools |-> all, choice |-> freed]
           mine == Names("own", payload.tools)
           held == Names("own", deferred)
<1>1. /\ UNCHANGED <<client, cand, depth>> /\ pc = "serve"
      /\ renders' = <<>> /\ rounds' = rounds + 1 /\ deferred' = kept
      /\ body' = IF left' = 0 THEN Stripped(again) ELSE again
  BY DEF Continue
<1>2. \/ pc' = "upstream" /\ payload' = [payload EXCEPT !.found = @ \cup Found]
      \/ pc' = "over" /\ payload' = payload
  BY DEF Continue
<1>3. /\ deferred \in Seq(Tools) /\ body.tools \in Seq(Tools) /\ payload \in Requests
      /\ left \in Nat /\ rounds \in Nat
      /\ \A n \in DOMAIN deferred : deferred[n].kind = "own"
  BY DEF ToolsInv, TypeOK, Offers
<1>4. left = 0 => left' = 0
  <2> DEFINE cost == Cardinality(Answered)
  <2>1. left' = Max({0, left - cost})
    BY DEF Continue, Charged, Costs
  <2>2. cost \in Nat
    <3>1. Answered = Offered
      BY AllAnswered DEF Continue
    <3>2. Len(captured) \in Nat /\ Answered \in SUBSET (1 .. Len(captured))
      BY <3>1, FitsBound DEF ToolsInv
    <3> QED
      BY <3>2, SmallSets
  <2> HIDE DEF cost
  <2>3. left - cost \in Int
    BY <1>3, <2>2
  <2>4. left' = IF 0 >= left - cost THEN 0 ELSE left - cost
    BY <2>1, <2>3, MaxOfTwo
  <2> QED
    BY <2>2, <2>4
<1>5. /\ kept \in Seq(Tools) /\ more \in Seq(Tools)
      /\ \A i \in DOMAIN more : more[i].kind = "own"
      /\ kept # <<>> => deferred # <<>>
  <2> HIDE DEF rest
  <2>1. /\ kept \in Seq(Tools)
        /\ \A i \in DOMAIN kept : \E n \in rest \cap DOMAIN deferred : kept[i] = deferred[n]
    BY <1>3, PickedIn
  <2>2. /\ more \in Seq(Tools)
        /\ \A i \in DOMAIN more : \E n \in Revealing \cap DOMAIN deferred : more[i] = deferred[n]
    BY <1>3, PickedIn
  <2> HIDE DEF kept, more
  <2>3. kept # <<>> => deferred # <<>>
    <3> SUFFICES ASSUME kept # <<>> PROVE deferred # <<>>
      OBVIOUS
    <3>1. 1 \in DOMAIN kept
      BY <2>1
    <3>2. PICK n \in DOMAIN deferred : kept[1] = deferred[n]
      BY <2>1, <3>1
    <3> QED
      BY <3>2
  <2> QED
    BY <1>3, <2>1, <2>2, <2>3
<1>6. /\ \A m, n \in DOMAIN deferred : deferred[m].name = deferred[n].name => m = n
      /\ Names("own", body.tools) \cup held \subseteq mine
      /\ Found \subseteq held
      /\ WellAsked(payload)
  <2>1. UniqueOf("own", deferred)
    BY DEF Unstranded
  <2>2. Found \subseteq held
    BY DEF Unstranded, Found
  <2>3. Names("own", body.tools) \cup held \subseteq mine /\ WellAsked(payload)
    BY <1>1 DEF Unstranded
  <2> QED
    BY <1>3, <2>1, <2>2, <2>3 DEF UniqueOf
<1>7. /\ Names("own", kept) = {deferred[n].name : n \in rest}
      /\ Names("own", more) = {deferred[n].name : n \in Revealing}
      /\ held = {deferred[n].name : n \in DOMAIN deferred}
      /\ UniqueOf("own", kept) /\ UniqueOf("own", more)
  <2>0. Revealing \subseteq DOMAIN deferred /\ rest \subseteq DOMAIN deferred
    BY DEF Revealing
  <2>1. \A P : /\ Names("own", Picked(deferred, P)) =
                    {deferred[n].name : n \in {k \in P \cap DOMAIN deferred : deferred[k].kind = "own"}}
               /\ UniqueOf("own", Picked(deferred, P))
    <3> TAKE P
    <3>1. \A m, n \in P \cap DOMAIN deferred :
            deferred[m].kind = "own" /\ deferred[n].kind = "own" /\ deferred[m].name = deferred[n].name
            => m = n
      BY <1>6
    <3> QED
      BY <1>3, <3>1, PickedNames, PickedUnique
  <2>2. \A P : P \subseteq DOMAIN deferred =>
          {k \in P \cap DOMAIN deferred : deferred[k].kind = "own"} = P
    BY <1>3
  <2>3. held = {deferred[n].name : n \in {k \in DOMAIN deferred : deferred[k].kind = "own"}}
    BY NamesAre
  <2>4. {k \in DOMAIN deferred : deferred[k].kind = "own"} = DOMAIN deferred
    BY <1>3
  <2> HIDE DEF held, rest
  <2> QED
    BY <2>0, <2>1, <2>2, <2>3, <2>4
<1>8. /\ Names("own", kept) \cup Names("own", more) = held
      /\ Names("own", kept) \cap Names("own", more) = {}
      /\ Found \subseteq Names("own", more)
  <2> HIDE DEF kept, more, held
  <2>1. Revealing = {n \in DOMAIN deferred : deferred[n].name \in Found}
    BY DEF Revealing
  <2> HIDE DEF Found, Revealing
  <2>2. \A n \in DOMAIN deferred : n \in rest \/ n \in Revealing
    OBVIOUS
  <2>3. Names("own", kept) \cup Names("own", more) = held
    BY <1>7, <2>1, <2>2
  <2>4. \A m \in rest, n \in Revealing : deferred[m].name # deferred[n].name
    BY <1>6, <2>1
  <2>5. Names("own", kept) \cap Names("own", more) = {}
    BY <1>7, <2>4
  <2>6. Found \subseteq Names("own", more)
    BY <1>6, <1>7, <2>1
  <2> QED
    BY <2>3, <2>5, <2>6
<1> HIDE DEF kept, more, held, rest
<1>9. /\ all \in Seq(Tools)
      /\ \A kind : /\ Names(kind, all) = Names(kind, body.tools) \cup Names(kind, more)
                   /\ UniqueOf(kind, body.tools) /\ UniqueOf(kind, more)
                      /\ Names(kind, body.tools) \cap Names(kind, more) = {} => UniqueOf(kind, all)
  BY <1>3, <1>5, ConcatNames
<1>10. Names("own", all) \cup Names("own", kept) = Names("own", body.tools) \cup held
  BY <1>8, <1>9
<1>11. Declares(body.tools, freed) => Declares(all, freed)
  BY <1>3, <1>5, StillDeclares
<1> HIDE DEF all
<1>12. /\ Names("own", body'.tools) = Names("own", all)
       /\ \A kind : UniqueOf(kind, all) => UniqueOf(kind, body'.tools)
       /\ left' # 0 => body'.tools = all
       /\ body'.choice \in {<<>>, freed}
       /\ body'.choice # <<>> /\ body'.choice[1] = "fn" /\ Declares(all, freed)
            => Declares(body'.tools, body'.choice)
  <2>1. CASE left' # 0
    <3>1. body'.tools = all /\ body'.choice = freed
      BY <1>1, <2>1
    <3> QED
      BY <2>1, <3>1
  <2>2. CASE left' = 0
    <3> DEFINE out == Stripped(again)
    <3>1. /\ Names("own", out.tools) = Names("own", all)
          /\ \A kind : UniqueOf(kind, all) => UniqueOf(kind, out.tools)
          /\ out.choice = <<>> \/ (out.choice = freed /\ out.tools # <<>>
               /\ ~(freed # <<>> /\ freed[1] = "fn" /\ freed[2] = "reserved"))
          /\ \A t \in ToSet(all) : t.kind # "reserved" => t \in ToSet(out.tools)
      <4> HIDE DEF freed
      <4> QED
        BY <1>9, StrippedNames
    <3> HIDE DEF out, freed
    <3>2. body' = out
      BY <1>1, <2>2 DEF out
    <3>3. ASSUME out.choice # <<>>, out.choice[1] = "fn", Declares(all, freed)
          PROVE  Declares(out.tools, out.choice)
      <4>1. out.choice = freed /\ freed[2] # "reserved"
        BY <3>1, <3>3
      <4>2. PICK t \in ToSet(all) : t.kind = freed[2] /\ t.name = freed[3]
        BY <3>3 DEF Declares
      <4> QED
        BY <3>1, <4>1, <4>2 DEF Declares
    <3> QED
      BY <2>2, <3>1, <3>2, <3>3
  <2> QED
    BY <2>1, <2>2
<1>13. /\ payload'.tools = payload.tools /\ payload'.choice = payload.choice
       /\ payload'.used = payload.used
       /\ payload'.found = payload.found \/ payload'.found = payload.found \cup Found
  <2> HIDE DEF Found
  <2> QED
    BY <1>2, <1>3 DEF Requests
<1>14. WellAsked(payload')
  BY <1>6, <1>13, WellAskedIs DEF ForcedOf
<1>15. DOMAIN renders' = {}
  BY <1>1
<1>16. ASSUME pc' = "upstream", cand.wire = "openai" PROVE NothingStranded'
  <2> DEFINE none == client = "anthropic" /\ payload.choice = <<"none">>
             own == Names("own", body.tools)
  <2>1. /\ ~none => own \cup held = mine
        /\ \A kind : UniqueOf(kind, body.tools)
        /\ deferred # <<>> => left = 0 \/ "tool_search" \in Names("reserved", body.tools)
        /\ ~none => mine \cap Revealed(client, payload) \subseteq own
        /\ own \cap held = {}
        /\ body.choice # <<>> /\ body.choice[1] = "fn" => Declares(body.tools, body.choice)
    <3>1. NothingStranded
      BY DEF Unstranded
    <3> QED
      BY <1>1, <1>16, <3>1, InjectiveTools DEF NothingStranded, held
  <2>2. \A kind : UniqueOf(kind, all)
    <3>1. \A kind : kind # "own" => Names(kind, more) = {} /\ UniqueOf(kind, more)
      BY <1>5, NamesAre DEF UniqueOf
    <3>2. UniqueOf("own", more) /\ own \cap Names("own", more) = {}
      BY <1>7, <1>8, <2>1
    <3> TAKE kind
    <3>3. UniqueOf(kind, more) /\ Names(kind, body.tools) \cap Names(kind, more) = {}
      BY <3>1, <3>2
    <3> QED
      BY <1>9, <2>1, <3>3
  <2>3. IsInjective([n \in DOMAIN body'.tools |-> <<body'.tools[n].kind, body'.tools[n].name>>])
    <3> DEFINE T == body'.tools
    <3>1. \A kind : UniqueOf(kind, T)
      BY <1>12, <2>2
    <3> HIDE DEF T
    <3>2. IsInjective([n \in DOMAIN T |-> <<T[n].kind, T[n].name>>])
      BY <3>1, InjectiveTools
    <3> QED
      BY <3>2 DEF T
  <2>4. deferred' # <<>> => left' = 0 \/ "tool_search" \in Names("reserved", body'.tools)
    <3> SUFFICES ASSUME kept # <<>>, left' # 0 PROVE "tool_search" \in Names("reserved", body'.tools)
      BY <1>1
    <3>1. "tool_search" \in Names("reserved", body.tools)
      BY <1>4, <1>5, <2>1
    <3> QED
      BY <1>9, <1>12, <3>1
  <2>5. ~none => Names("own", payload'.tools) \cap Revealed(client', payload')
                    \subseteq Names("own", body'.tools)
    <3>1. Revealed(client', payload') \subseteq Revealed(client, payload) \cup Found
      <4> HIDE DEF Found
      <4> QED
        BY <1>1, <1>13 DEF Revealed
    <3> HIDE DEF Found
    <3> QED
      BY <1>8, <1>9, <1>12, <1>13, <2>1, <3>1
  <2>6. Names("own", body'.tools) \cap Names("own", deferred') = {}
    BY <1>1, <1>8, <1>9, <1>12, <2>1
  <2>7. ~none => Names("own", body'.tools) \cup Names("own", deferred') = Names("own", payload'.tools)
    BY <1>1, <1>10, <1>12, <1>13, <2>1
  <2>8. body'.choice # <<>> /\ body'.choice[1] = "fn" => Declares(body'.tools, body'.choice)
    <3> SUFFICES ASSUME body'.choice # <<>>, body'.choice[1] = "fn"
                 PROVE  Declares(body'.tools, body'.choice)
      OBVIOUS
    <3>1. body'.choice = freed
      BY <1>12
    <3>2. freed = body.choice
      BY <3>1, ReleasedOnce
    <3>3. Declares(body.tools, freed)
      BY <2>1, <3>1, <3>2
    <3> QED
      BY <1>11, <1>12, <3>3
  <2>9. Released(body'.choice) = body'.choice
    BY <1>12, ReleasedOnce
  <2>10. rounds' # 0
    BY <1>1, <1>3
  <2> HIDE DEF freed, mine
  <2>11. none <=> client' = "anthropic" /\ payload'.choice = <<"none">>
    BY <1>1, <1>13
  <2> HIDE DEF none
  <2> QED
    BY <2>3, <2>4, <2>5, <2>6, <2>7, <2>8, <2>9, <2>10, <2>11 DEF NothingStranded
<1>17. NothingStranded'
  <2>1. pc' = "upstream" \/ pc' = "over"
    BY <1>2
  <2>2. CASE ~(pc' = "upstream" /\ cand.wire = "openai")
    BY <1>1, <2>1, <2>2 DEF NothingStranded
  <2> QED
    BY <1>16, <2>2
<1>18. (Names("own", body'.tools) \cup Names("own", deferred')) \subseteq Names("own", payload'.tools)
  BY <1>1, <1>6, <1>10, <1>12, <1>13
<1>19. UniqueOf("own", deferred')
  BY <1>1, <1>7
<1> QED
  BY <1>14, <1>15, <1>17, <1>18, <1>19 DEF Unstranded

\* Nothing of the client's is stranded, for every request a client may make: on the way to a
\* chat upstream each of its functions is in the body or held back where a search can still
\* find it, those its history shows are in the body, no function is declared twice, and a
\* choice names a function on offer, over any number of rounds and turns
\* (defer_loading_tools, reveal_found, settle_tool_choice).
THEOREM NothingIsStranded == Spec => []NothingStranded
<1>1. Init => Unstranded
  BY InitUnstranded
<1>2. ToolsInv /\ Unstranded /\ [Next]_vars => Unstranded'
  <2> SUFFICES ASSUME ToolsInv, Unstranded, [Next]_vars PROVE Unstranded'
    OBVIOUS
  <2>1. CASE Refuse
    <3>1. /\ UNCHANGED <<client, cand, payload, body, deferred, left, rounds>> /\ renders' = renders
          /\ pc' = "refused"
      BY <2>1 DEF Refuse, loop, round, history
    <3> QED
      BY <3>1, StillUnstranded
  <2>2. CASE Close
    <3>1. /\ UNCHANGED <<client, cand, payload, body, deferred, left, rounds>> /\ renders' = renders
          /\ pc' = "over"
      BY <2>2 DEF Close, loop, round, history
    <3> QED
      BY <3>1, StillUnstranded
  <2>3. CASE NextTurn
    <3>1. /\ UNCHANGED <<client, cand, payload, body, deferred, left, rounds>> /\ renders' = <<>>
          /\ pc' = "door"
      BY <2>3 DEF NextTurn, loop, history
    <3> QED
      BY <3>1, StillUnstranded
  <2>4. CASE UNCHANGED vars
    BY <2>4, StillUnstranded DEF vars, loop, round, history
  <2> QED
    BY <2>1, <2>2, <2>3, <2>4, SendUnstranded, AnswerUnstranded, RunCallUnstranded,
       ContinueUnstranded DEF Next
<1>3. Unstranded => NothingStranded
  BY DEF Unstranded
<1> QED
  BY <1>1, <1>2, <1>3, ToolsInvariant, PTL DEF Spec

=============================================================================
