----------------------------- MODULE ClientTurn -----------------------------
(***************************************************************************)
(* What a client that reads a turn as numbered items relies on, whatever   *)
(* upstream the turn comes from: the turn begins, items are opened, filled *)
(* and closed, and the turn ends when no item is open.                     *)
(***************************************************************************)
EXTENDS Integers, FiniteSets, Sequences

CONSTANTS
  Dense,   \* items are numbered 0, 1, 2... in the order they open
  Strays   \* a closed item may be added to, an item may close that never opened

VARIABLES
  stage,   \* "before", "open" or "ended"
  body,    \* for each item begun, what it was filled with
  closed   \* the items that are closed

turnVars == <<stage, body, closed>>

TurnInit ==
  /\ stage = "before"
  /\ body = [i \in {} |-> <<>>]
  /\ closed = {}

Begin ==
  /\ stage = "before"
  /\ stage' = "open"
  /\ UNCHANGED <<body, closed>>

With(i) == [j \in DOMAIN body \cup {i} |-> IF j = i THEN <<>> ELSE body[j]]

OpenItem(i) ==
  /\ stage = "open"
  /\ i \notin DOMAIN body
  /\ Dense => i = Cardinality(DOMAIN body)
  /\ body' = With(i)
  /\ UNCHANGED <<stage, closed>>

Grows(i) ==
  /\ DOMAIN body' = DOMAIN body
  /\ \A j \in DOMAIN body \ {i} : body'[j] = body[j]
  /\ Len(body'[i]) > Len(body[i])
  /\ SubSeq(body'[i], 1, Len(body[i])) = body[i]

FillItem(i) ==
  /\ stage = "open"
  /\ i \in DOMAIN body \ closed
  /\ Grows(i)
  /\ UNCHANGED <<stage, closed>>

CloseItem(i) ==
  /\ stage = "open"
  /\ i \in DOMAIN body \ closed
  /\ closed' = closed \cup {i}
  /\ UNCHANGED <<stage, body>>

Late(i) ==
  /\ Strays /\ stage = "open"
  /\ i \in closed
  /\ Grows(i)
  /\ UNCHANGED <<stage, closed>>

Unheard(i) ==
  /\ Strays /\ stage = "open"
  /\ i \notin DOMAIN body
  /\ body' = With(i)
  /\ closed' = closed \cup {i}
  /\ UNCHANGED stage

End ==
  /\ stage = "open"
  /\ closed = DOMAIN body
  /\ stage' = "ended"
  /\ UNCHANGED <<body, closed>>

TurnNext ==
  \/ Begin
  \/ \E i \in DOMAIN body' : OpenItem(i) \/ FillItem(i) \/ CloseItem(i) \/ Late(i) \/ Unheard(i)
  \/ End

TurnSpec == TurnInit /\ [][TurnNext]_turnVars

\* The end of a turn finds every item closed, and no item is closed that was not begun.
NothingLeftOpen ==
  /\ closed \subseteq DOMAIN body
  /\ stage = "ended" => closed = DOMAIN body

\* A closed item stays as it was closed, an ended turn as it ended.
ClosedIsFinal ==
  [][ /\ closed \subseteq closed'
      /\ DOMAIN body \subseteq DOMAIN body'
      /\ ~Strays => \A i \in closed : body'[i] = body[i]
      /\ stage = "ended" => UNCHANGED turnVars ]_turnVars
=============================================================================
