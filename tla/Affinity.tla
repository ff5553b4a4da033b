------------------------------ MODULE Affinity ------------------------------
(***************************************************************************)
(* Which candidates a request walks, and in what order (resolve_candidates *)
(* and the request's side of handle_chat_inner, router.rs): the route pin  *)
(* that `pxy route` writes from another process, the binding that keeps a  *)
(* conversation on the model it last won on, the chain behind both. Pins   *)
(* and bindings are rows of the SQLite file and outlive the daemon; the    *)
(* daemon keeps the configuration it was started with, while `pxy route`   *)
(* reads the file as it is. How a walk fares, and on which account of a    *)
(* model, is Failover's; here a request wins on any model of its walk, or  *)
(* on none.                                                                *)
(***************************************************************************)
EXTENDS Catalog

CONSTANTS
  Versions,   \* the configurations the file can hold, a sequence
  Chats,      \* the requests in flight
  SessionKeys, \* session keys; a request may have none
  NoKey,
  Typos,      \* ids `pxy route` is given that no listing shows
  TTL,        \* SESSION_TTL_SECS
  MaxTime,    \* bound: the clock reads 0 .. MaxTime
  MaxMoves    \* bound: edits of the file, pins set or cleared, clocks put back

ASSUME AffinityAssumption ==
  /\ \A v \in 1 .. Len(Versions) : \A g \in DOMAIN Versions[v].groups :
       Versions[v].groups[g] \in Seq(Pieces(Versions[v].groups[g]))
  /\ {MaxTime, MaxMoves} \subseteq Nat

VARIABLES
  file,    \* the version of the configuration on disk
  cfg,     \* the version the daemon runs with
  pins,    \* kv: route_pin:<group>
  bound,   \* kv: session:<key>
  now,     \* the wall clock
  chat,    \* the requests
  moves

affinityVars == <<file, cfg, pins, bound, now, chat, moves>>

Numbers == 1 .. Len(Versions)

\* The catalog of each version (Catalog::from_config, once for a start).
ListedIn == [v \in Numbers |-> Listed(Versions[v])]
ChainIn  == [v \in Numbers |-> [g \in GroupNames(Versions[v]) |-> Chain(Versions[v], g)]]

Groups == UNION {DOMAIN Versions[v].groups : v \in Numbers}

Idle == [pc |-> "idle", group |-> NoId, key |-> NoKey,
         pinned |-> NoId, lead |-> NoId, walk |-> <<>>]

NoBinding == [id |-> NoId, seen |-> 0]

\* Config::load: a process that reads an invalid file goes no further.
Loads == {v \in Numbers : Valid(Versions[v])}

AffinityInit ==
  /\ file \in Loads /\ cfg = file
  /\ pins = [g \in Groups |-> NoId]
  /\ bound = [k \in SessionKeys |-> NoBinding]
  /\ now = 0
  /\ chat = [r \in Chats |-> Idle]
  /\ moves = 0

-----------------------------------------------------------------------------
(* Resolution.                                                             *)

\* Mutant: a pin counts as long as it resolves, cataloged or not.
ActivePin_Resolves(v, g) == IF Resolve(Versions[v], pins[g]) # <<>> THEN pins[g] ELSE NoId

\* active_route_pin. A stored pin is a full id, which resolves to itself or to nothing.
ActivePin(v, g) ==
  IF Resolve(Versions[v], pins[g]) # <<>> /\ pins[g] \in ListedIn[v] THEN pins[g] ELSE NoId

\* session_get: a clock put back makes no age, and no error.
Age(k) == IF now >= bound[k].seen THEN now - bound[k].seen ELSE 0

SessionGet(k) == IF k # NoKey /\ bound[k].id # NoId /\ Age(k) <= TTL THEN bound[k].id ELSE NoId

\* Mutant: the binding leads whichever group's chain it came from.
Bound_AnyGroup(k, chain) == SessionGet(k)

\* The binding, where it names a member of this chain.
Bound(k, chain) == IF SessionGet(k) \in Pieces(chain) THEN SessionGet(k) ELSE NoId

\* The chain by what is left of the allowances: a stable sort, more is earlier.
ByHeadroom(chain, left) ==
  Keep(chain, {id \in Pieces(chain) : left[id] = 1}) \o Keep(chain, {id \in Pieces(chain) : left[id] = 0})

LedBy(lead, chain) ==
  IF lead = NoId THEN chain ELSE <<lead>> \o Keep(chain, Pieces(chain) \ {lead})

-----------------------------------------------------------------------------
(* A request.                                                              *)

FirstOfName(c) == {id \in Pieces(Cataloged(c)) : Concrete(c, BareModel(id)) = <<id>>}

\* How a client may spell an entry of the list: as it is listed; without a mirror's prefix, with
\* a reasoning override as well; a model by its bare id, where it is the first to have it. A
\* request that names no model gets the default route.
Spellings(c) ==
  Listing(c)
    \cup {[id |-> BareModel(id), of |-> id] : id \in FirstOfName(c)}
    \cup {[id |-> NoThink \o e.of, of |-> e.of] : e \in Named(c)}
    \cup {[id |-> Append(e.of, l), of |-> e.of] : e \in Named(c), l \in Levels}
    \cup {[id |-> DefaultRoute(c), of |-> DefaultRoute(c)]}

\* What the door makes of them: the group, or the walk of an explicit id.
Doors ==
  [v \in Numbers |->
    {LET c == Versions[v]
         base == SplitVariant(c, s.id)
         group == GroupName(c, base)
     IN  [of |-> s.of, group |-> group,
          walk |-> IF group = NoId THEN Resolve(c, base) ELSE <<>>]
       : s \in Spellings(Versions[v])}]

Entrances == [v \in Numbers |-> {d.group : d \in Doors[v]} \ {NoId}]

\* A request for a group: the session key, and the first look at the pin. (One for an explicit
\* id reads no pin and no binding and leaves none: its door is all there is of it.)
Enter(r, g, k) ==
  /\ chat[r].pc = "idle"
  /\ chat' = [chat EXCEPT ![r] = [Idle EXCEPT !.pc = "pin", !.group = g, !.key = k,
                                              !.pinned = ActivePin(cfg, g)]]
  /\ UNCHANGED <<file, cfg, pins, bound, now, moves>>

\* resolve_candidates looks at the pin again.
ReadPin(r) ==
  /\ chat[r].pc = "pin"
  /\ chat' = [chat EXCEPT ![r].pc = "session", ![r].lead = ActivePin(cfg, chat[r].group)]
  /\ UNCHANGED <<file, cfg, pins, bound, now, moves>>

\* The binding is read where no pin leads, and the walk is laid out.
LayOut(r) ==
  LET q == chat[r]
      listed == ChainIn[cfg][q.group]
  IN  /\ q.pc = "session"
      /\ \E left \in [Pieces(listed) -> {0, 1}] :
           LET chain == IF q.group \in Versions[cfg].headroom THEN ByHeadroom(listed, left) ELSE listed
               lead  == IF q.lead # NoId THEN q.lead ELSE Bound(q.key, chain)
           IN  chat' = [chat EXCEPT ![r].pc = "walk",
                                    ![r].walk = LedBy(lead, chain)]
      /\ UNCHANGED <<file, cfg, pins, bound, now, moves>>

\* Mutant: a win under a pin binds like any other.
Binds_UnderPin(q, id) == q.key # NoKey

Binds(q, id) == q.key # NoKey /\ id # q.pinned

\* A candidate answers (Done): any, on whichever of its accounts.
Win(r, i) ==
  LET q == chat[r]
      id == q.walk[i]
  IN  /\ q.pc = "walk" /\ i \in 1 .. Len(q.walk)
      /\ bound' = IF Binds(q, id) THEN [bound EXCEPT ![q.key] = [id |-> id, seen |-> now]] ELSE bound
      /\ chat' = [chat EXCEPT ![r] = Idle]
      /\ UNCHANGED <<file, cfg, pins, now, moves>>

\* The walk comes to nothing.
Lose(r) ==
  /\ chat[r].pc = "walk"
  /\ chat' = [chat EXCEPT ![r] = Idle]
  /\ UNCHANGED <<file, cfg, pins, bound, now, moves>>

-----------------------------------------------------------------------------
(* `pxy route` from another process, and the world.                        *)

Move == moves < MaxMoves /\ moves' = moves + 1

\* What `pxy route` makes of a model id: a group means no pin, what is not cataloged is refused.
Targets ==
  [v \in Numbers |->
    LET c == Versions[v]
        typed == {e.id : e \in Listing(c)} \cup Typos
    IN  {NoId : m \in {m \in typed : GroupName(c, m) # NoId}}
          \cup {Resolve(c, m)[1] : m \in {m \in typed : /\ GroupName(c, m) = NoId
                                                       /\ Resolve(c, m) # <<>>
                                                       /\ Resolve(c, m)[1] \in ListedIn[v]}}]

\* pxy route <group> <model>, and <group> --clear.
Route(g, to) ==
  /\ Move /\ file \in Loads
  /\ pins' = [pins EXCEPT ![g] = to]
  /\ UNCHANGED <<file, cfg, bound, now, chat>>

\* pxy route --clear: the groups this configuration still has.
ClearAll ==
  /\ Move /\ file \in Loads
  /\ pins' = [g \in Groups |-> IF g \in DOMAIN ChainIn[file] THEN NoId ELSE pins[g]]
  /\ UNCHANGED <<file, cfg, bound, now, chat>>

Edit == /\ Move
        /\ \E v \in Numbers \ {file} : file' = v
        /\ UNCHANGED <<cfg, pins, bound, now, chat>>

\* The daemon is started again: requests in flight are gone, rows are not. (A start on a file it
\* does not take leaves no daemon, and nothing happens until a later one.)
Restart ==
  /\ file # cfg /\ file \in Loads
  /\ cfg' = file
  /\ chat' = [r \in Chats |-> Idle]
  /\ UNCHANGED <<file, pins, bound, now, moves>>

ClockTicks == /\ now < MaxTime
              /\ now' = now + 1
              /\ UNCHANGED <<file, cfg, pins, bound, chat, moves>>

SetBack == /\ Move
           /\ now > 0
           /\ now' = 0
           /\ UNCHANGED <<file, cfg, pins, bound, chat>>

AffinityNext ==
  \/ \E r \in Chats, g \in Entrances[cfg], k \in SessionKeys \cup {NoKey} : Enter(r, g, k)
  \/ \E r \in Chats : ReadPin(r)
  \/ \E r \in Chats : LayOut(r)
  \/ \E r \in Chats : \E i \in 1 .. Len(chat[r].walk) : Win(r, i)
  \/ \E r \in Chats : Lose(r)
  \/ \E g \in DOMAIN ChainIn[file], to \in Targets[file] : Route(g, to)
  \/ ClearAll
  \/ Edit
  \/ Restart
  \/ ClockTicks
  \/ SetBack

AffinitySpec == AffinityInit /\ [][AffinityNext]_affinityVars

-----------------------------------------------------------------------------
(* Properties.                                                             *)

Ids == UNION {ListedIn[v] : v \in Numbers}

Asked(v) == [pc : {"idle", "pin", "session", "walk"},
             group : {NoId} \cup DOMAIN ChainIn[v], key : SessionKeys \cup {NoKey},
             pinned : {NoId} \cup ListedIn[v], lead : {NoId} \cup ListedIn[v],
             walk : Seq(ListedIn[v])]

\* Types; and a pin that leads a walk is cataloged in the configuration the daemon runs with,
\* whatever the file it was set from said (active_route_pin's comment).
AffinityTypeOK ==
  /\ file \in Numbers /\ cfg \in Numbers
  /\ pins \in [Groups -> {NoId} \cup Ids]
  /\ bound \in [SessionKeys -> [id : {NoId} \cup Ids, seen : 0 .. MaxTime]]
  /\ now \in 0 .. MaxTime /\ moves \in 0 .. MaxMoves
  /\ chat \in [Chats -> Asked(cfg)]

\* What a walk is made of: the chain of a group there is, and the model that was put in front.
WalkIsOfChain ==
  \A r \in Chats :
    LET q == chat[r]
    IN  /\ q.pc # "idle" => q.group \in DOMAIN ChainIn[cfg]
        /\ q.pc = "walk" => Pieces(q.walk) \subseteq Pieces(ChainIn[cfg][q.group]) \cup {q.lead}

\* The entries one of which is another and a reasoning level: which of the two a client means
\* cannot be told, and the code takes the shorter.
Unclear ==
  [v \in Numbers |->
    LET names == {e.of : e \in Named(Versions[v])}
    IN  {of \in names : \/ Last(of) \in Levels /\ Front(of) \in names
                        \/ \E l \in Levels : Append(of, l) \in names}]

\* What an entry of the list promises, read off the configuration.
Promised(c, of) ==
  LET name == IF of \in DOMAIN c.aliases THEN c.aliases[of] ELSE of
  IN  IF name \in DOMAIN c.groups THEN Chain(c, name)
      ELSE IF name = AutoFree THEN FreeChain(c) ELSE <<name>>

\* Every spelling of an entry leads to what the entry promises: the chain of its group, or its
\* model and no other.
DoorsKeepPromises ==
  [v \in Numbers |->
    \A d \in Doors[v] :
      d.of \notin Unclear[v] =>
        IF d.group # NoId THEN ChainIn[v][d.group] = Promised(Versions[v], d.of)
                          ELSE d.walk = Promised(Versions[v], d.of)]

\* The orders a group's walk may have: its own, or any where it is ranked.
Orders ==
  [v \in Numbers |->
    [g \in DOMAIN ChainIn[v] |->
      IF g \in Versions[v].headroom THEN SetToSeqs(Pieces(ChainIn[v][g])) ELSE {ChainIn[v][g]}]]

\* A request walks what the entry it named was listed for: the model, or every member of the
\* chain once; only a cataloged pin or a member of the chain is moved
\* to the front, nothing is lost for it, and the rest stays in order. So for every spelling, and
\* for pins and bindings of another group, of another configuration or of an hour ago (resolve,
\* split_model_variant, resolve_candidates).
WalksWhatWasListed ==
  /\ DoorsKeepPromises[cfg]
  /\ \A r \in Chats :
       LET q == chat[r]
           head == q.walk[1]
       IN  q.pc = "walk" =>
             /\ \E order \in Orders[cfg][q.group] :
                  \E line \in {order, <<head>> \o SelectSeq(order, LAMBDA id : id # head)} :
                    q.walk = line
             /\ head \in Pieces(ChainIn[cfg][q.group]) \cup {q.lead}
             /\ q.lead # NoId => head = q.lead

\* The pin moves no conversation: a session is bound to a model of its own group's chain on
\* which a request of the session won, and not to one the pin put in front of that walk, unless
\* the pin was moved while the request was at the door (the comment on pinned_ids, router.rs 702).
BindsOwnWin ==
  [][\A k \in SessionKeys : bound'[k] # bound[k] =>
       \E r \in Chats :
         /\ chat[r].pc = "walk" /\ chat'[r].pc = "idle" /\ chat[r].key = k
         /\ \E i \in 1 .. Len(chat[r].walk) : chat[r].walk[i] = bound'[k].id
         /\ chat[r].pinned = chat[r].lead =>
              bound'[k].id \in Pieces(ChainIn[cfg][chat[r].group]) \ {chat[r].lead}]_affinityVars
=============================================================================
