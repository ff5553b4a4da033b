----------------------------- MODULE MCAffinity -----------------------------
EXTENDS Affinity

CONSTANTS r1, r2

\* Provider a sorts before "claude" and lists the same bare id; "q-max" ends like a level.
Opus == <<"claude-opus">>
QMax == <<"q", "-max">>
A == <<"a", "-b">>
Claude == <<"claude">>
Z == <<"z">>
ClaudeOpus == <<"claude", "/", "claude-opus">>
Glm == <<"z", "/", "glm">>

First ==
  [providers |-> <<A, Claude, Z>>,
   enabled   |-> {A, Claude, Z},
   whitelist |-> {},
   models    |-> [p \in {A, Claude, Z} |->
                    CASE p = A -> <<Opus, QMax>>
                      [] p = Claude -> <<Opus>>
                      [] p = Z -> <<<<"glm">>>>],
   faulty    |-> {},
   wide      |-> {ClaudeOpus, Glm},
   free      |-> {Glm},
   groups    |-> [g \in {<<"daily">>, <<"code">>} |->
                    IF g = <<"daily">> THEN <<Glm, ClaudeOpus>>
                                       ELSE <<ClaudeOpus, FullId(A, QMax)>>],
   headroom  |-> {<<"code">>},
   aliases   |-> [a \in {<<"chat">>} |-> <<"daily">>],
   launch    |-> <<"code">>]

\* The same file later: an allowlist of a's family and claude, "q" is listed beside "q-max", the
\* alias moves.
Second ==
  [First EXCEPT !.whitelist = {<<"a">>, Claude},
                !.models = [@ EXCEPT ![A] = <<Opus, <<"q">>, QMax>>],
                !.aliases = [a \in {<<"chat">>, <<"any">>} |->
                               IF a = <<"chat">> THEN FullId(A, <<"q">>) ELSE AutoFree]]

\* A slip of the hand: the alias has the name of a model.
Third == [First EXCEPT !.aliases = [a \in {<<"glm">>} |-> <<"daily">>]]

MCVersions == <<First, Second, Third>>
MCChats == {r1, r2}
Symmetry == Permutations(MCChats)
MCTypos == {FullId(A, <<"glm">>), <<"nowhere">>}
MCClaudeNames == {"claude", "claude-opus"}
MCLevels == {"-max"}
MCDashed == {"-max", "-b"}
=============================================================================
