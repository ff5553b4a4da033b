----------------------------- MODULE MCCounters -----------------------------
(* Days of two instants, from a reset to the one after the next midnight: the  *)
(* day between is the first of a month, which its reset opens.                 *)
EXTENDS Counters, Functions, TLC

CONSTANTS chat, image, video, search

AllDays == -1 .. 2
Nights == [d \in AllDays |-> 2 * d]
Resets == [d \in AllDays |-> 2 * d + 1]
MonthDays == {-1, 1}

Limits == [k \in {chat, image, video, search} |-> 1]
MonthLimits == [k \in {chat, image, video, search} |-> 2]

TwoMedia == <<image, video>>
OneSearch == <<search>>
Slots == Permutations(Requests)

\* Chat turns, media walks and searches share the clock and no row: a behaviour has
\* one sort of them.
Sorts == {{chat}, {image, video}, {search}}
Touched == {k[1] : k \in DOMAIN rows} \cup {b[1] : b \in blocked}
           \cup UNION {IF req[r].pc \in {"admitted", "streaming"} THEN {chat}
                       ELSE Range(req[r].chain) : r \in Requests}
OneSort == \E s \in Sorts : Touched \subseteq s
=============================================================================
