------------------------------ MODULE MCStream ------------------------------
EXTENDS Stream

\* Every kind of stream, with served tools where the code serves them.
AllSetups ==
  {<<k, FALSE>> : k \in Kind} \cup {<<"OpenaiPass", TRUE>>, <<"ToAnthropic", TRUE>>}

\* Only the verbatim Anthropic relay.
Verbatim == {<<"AnthropicPass", FALSE>>}
=============================================================================
