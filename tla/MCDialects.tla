----------------------------- MODULE MCDialects -----------------------------
EXTENDS Dialects

Route(u, c) == [up |-> u, client |-> c, snapshot |-> FALSE, reads |-> "plain",
                says |-> IF u # "chat" \/ c = "anthropic" THEN 4 ELSE 3]

AllRoutes ==
  {Route("chat", c) : c \in {"anthropic", "responses", "aisdk", "json"}}
  \cup {Route("anthropic", c) : c \in {"responses", "aisdk"}}
  \cup {Route("responses", c) : c \in {"anthropic", "responses", "aisdk", "json"}}
  \cup {[Route("chat", "anthropic") EXCEPT !.snapshot = TRUE, !.says = 3]}
  \cup {[Route("chat", c) EXCEPT !.reads = "think", !.says = 3] : c \in {"anthropic", "json"}}
  \cup {[Route("chat", "aisdk") EXCEPT !.reads = "calls"]}
=============================================================================
