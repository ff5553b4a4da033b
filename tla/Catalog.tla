------------------------------ MODULE Catalog ------------------------------
(***************************************************************************)
(* What a model id means to pxy (catalog.rs, the id grammar of router.rs,  *)
(* the listing of server.rs). An id is the sequence of its pieces: names,  *)
(* slashes, a reasoning level at its end, the "[1m]" window marker.        *)
(* Provider, group and alias names are ids too, of one piece or two.       *)
(*                                                                         *)
(* A configuration c is a record:                                          *)
(*   providers  the provider names, in alphabetical order                  *)
(*   enabled    those that are enabled                                     *)
(*   whitelist  the entries of the provider allowlist                      *)
(*   models     their model lists                                          *)
(*   faulty     the tables refused for a value of their own: a provider    *)
(*              with no endpoint, no requests a minute, a window of zero   *)
(*              or accounts that clash or have no credential; defaults of  *)
(*              a server tool that is not there or not enabled             *)
(*   wide       the full ids whose window is a million tokens or more      *)
(*   free       the full ids marked free                                   *)
(*   groups     the chain of each group as the file lists it               *)
(*   headroom   the groups ranked by what is left of their allowances      *)
(*   aliases    the target of each alias                                   *)
(*   launch     the launch default                                         *)
(***************************************************************************)
EXTENDS Naturals, SequencesExt

CONSTANTS
  ClaudeNames,  \* the pieces whose text contains "claude" or "anthropic"
  Levels,       \* the reasoning levels, as they end an id
  Dashed        \* the pieces whose text begins with "-"

Slash   == <<"/">>
Marker  == <<"[1m]">>                    \* CTX_1M_MARKER
Mirror  == <<"claude", "/">>
NoThink == <<"no-think", "/">>
AutoFree == <<"auto", "/", "free">>
NoId    == <<>>

Pieces(s) == {s[i] : i \in 1 .. Len(s)}

\* The members of S in s, in its order.
Keep(s, S) ==
  LET kept[n \in 0 .. Len(s)] ==
        IF n = 0 THEN <<>> ELSE IF s[n] \in S THEN Append(kept[n - 1], s[n]) ELSE kept[n - 1]
  IN  kept[Len(s)]

WithoutPrefix(p, s) == IF IsPrefix(p, s) THEN SubSeq(s, Len(p) + 1, Len(s)) ELSE s
WithoutSuffix(p, s) == IF IsSuffix(p, s) THEN SubSeq(s, 1, Len(s) - Len(p)) ELSE s

\* split_once('/'): both halves, for an id that has a slash.
Slashed(s)  == "/" \in Pieces(s)
SlashAt(s)  == CHOOSE i \in 1 .. Len(s) : s[i] = "/" /\ \A j \in 1 .. i - 1 : s[j] # "/"
Provider(s) == SubSeq(s, 1, SlashAt(s) - 1)
BareModel(s)  == SubSeq(s, SlashAt(s) + 1, Len(s))

FullId(p, m) == p \o Slash \o m

-----------------------------------------------------------------------------
(* The file: which providers it exposes, and whether it is taken at all.   *)

\* An allowlist entry names a provider or a family of them.
Covers(entry, p) == entry = p \/ (IsStrictPrefix(entry, p) /\ p[Len(entry) + 1] \in Dashed)

Allowed(c, p) == c.whitelist = {} \/ \E entry \in c.whitelist : Covers(entry, p)

On(c) == {p \in c.enabled : Allowed(c, p)}

Known(c, id) == Slashed(id) /\ Provider(id) \in Pieces(c.providers)

NoTypos(c) == \A entry \in c.whitelist : \E p \in Pieces(c.providers) : Covers(entry, p)

ProvidersSound(c) ==
  c.faulty = {} /\ \A p \in Pieces(c.providers) : IsInjective(c.models[p])

\* A name on the wire is one id and has one meaning: that of a group ...
GroupsSound(c) ==
  \A g \in DOMAIN c.groups :
    /\ ~Slashed(g) /\ g \notin Pieces(c.providers)
    /\ \A id \in Pieces(c.groups[g]) : Known(c, id)

\* ... and that of an alias, which stands for no alias.
AliasesSound(c) ==
  \A a \in DOMAIN c.aliases :
    /\ ~Slashed(a)
    /\ a \notin DOMAIN c.groups \cup Pieces(c.providers) \cup {<<"auto">>}
    /\ \A p \in Pieces(c.providers) : a \notin Pieces(c.models[p])
    /\ c.aliases[a] \notin DOMAIN c.aliases
    /\ c.aliases[a] \in DOMAIN c.groups \cup {AutoFree} \/ Known(c, c.aliases[a])

Valid(c) == NoTypos(c) /\ ProvidersSound(c) /\ GroupsSound(c) /\ AliasesSound(c)

-----------------------------------------------------------------------------
(* Catalog::from_config. A candidate is its full id.                       *)

Cataloged(c) ==
  FlattenSeq([i \in 1 .. Len(c.providers) |->
    LET p == c.providers[i]
    IN  IF p \in On(c) THEN [j \in 1 .. Len(c.models[p]) |-> FullId(p, c.models[p][j])]
                      ELSE <<>>])

Chain(c, g) == Keep(c.groups[g], {id \in Pieces(c.groups[g]) : Provider(id) \in On(c)})

\* groups(): a group nothing is left of is not one.
GroupNames(c) == {g \in DOMAIN c.groups : Chain(c, g) # <<>>}

Listed(c) == Pieces(Cataloged(c)) \cup UNION {Pieces(Chain(c, g)) : g \in DOMAIN c.groups}

FreeChain(c) == Keep(Cataloged(c), c.free)

BareId(s) == WithoutSuffix(Marker, WithoutPrefix(Mirror, s))

Aliased(c, s) == IF BareId(s) \in DOMAIN c.aliases THEN c.aliases[BareId(s)] ELSE s

GroupName(c, s) ==
  LET bare == Aliased(c, BareId(s)) IN IF bare \in GroupNames(c) THEN bare ELSE NoId

\* resolve_concrete: a pair under a known provider is taken at its word.
Concrete(c, s) ==
  IF Known(c, s)
  THEN IF Provider(s) \in On(c) THEN <<s>> ELSE <<>>
  ELSE LET same == SelectSeq(Cataloged(c), LAMBDA id : BareModel(id) = s)
       IN  SubSeq(same, 1, IF same = <<>> THEN 0 ELSE 1)

\* The virtual ids: a group's chain, or every free model.
Virtual(c, s) == s \in DOMAIN c.groups \/ s = AutoFree
ChainOf(c, s) == IF s = AutoFree THEN FreeChain(c) ELSE Chain(c, s)

Resolve(c, s) ==
  LET named == Aliased(c, s)
      bare  == WithoutSuffix(Marker, named)
      rest  == WithoutPrefix(Mirror, bare)
  IN  IF Virtual(c, named) THEN ChainOf(c, named)
      ELSE IF bare \in DOMAIN c.groups THEN Chain(c, bare)
      ELSE IF rest # bare /\ Virtual(c, rest) THEN ChainOf(c, rest)
      \* A rest without a slash is a real model of the provider "claude".
      ELSE IF rest # bare /\ Slashed(rest) THEN Concrete(c, rest)
      ELSE Concrete(c, bare)

-----------------------------------------------------------------------------
(* The id grammar: "no-think/<id>" and "<id>-<level>".                     *)

ResolvesId(c, s) ==
  \/ GroupName(c, s) # NoId
  \/ IF Slashed(s) THEN s \in Listed(c) ELSE Resolve(c, s) # <<>>

SplitVariant(c, s) ==
  LET thinking == WithoutPrefix(NoThink, s)
  IN  IF thinking # s /\ ResolvesId(c, thinking) THEN thinking
      ELSE IF s # <<>> /\ Last(s) \in Levels /\ ResolvesId(c, Front(s)) THEN Front(s)
      ELSE s

-----------------------------------------------------------------------------
(* GET /v1/models: the ids a client picks from.                            *)

\* Is the least window of a chain a million tokens?
Wide(c, chain) == chain # <<>> /\ Pieces(chain) \subseteq c.wide

\* An entry of the list, and the name it is listed for.
Named(c) ==
  {[of |-> g, wide |-> Wide(c, Chain(c, g))] : g \in GroupNames(c)}
    \cup {[of |-> a, wide |-> Wide(c, Resolve(c, a))] :
            a \in {a \in DOMAIN c.aliases : Resolve(c, a) # <<>>}}
    \cup {[of |-> id, wide |-> id \in c.wide] : id \in Pieces(Cataloged(c))}

MarkerOf(e) == IF e.wide /\ "[1m]" \notin Pieces(e.of) THEN Marker ELSE <<>>

Extra(e) ==
  IF Pieces(e.of) \cap ClaudeNames # {}
  THEN IF MarkerOf(e) = <<>> THEN {} ELSE {e.of \o MarkerOf(e)}
  ELSE {Mirror \o e.of \o MarkerOf(e)}

Listing(c) == UNION {{[id |-> s, of |-> e.of] : s \in {e.of} \cup Extra(e)} : e \in Named(c)}

DefaultRoute(c) == c.launch
=============================================================================
