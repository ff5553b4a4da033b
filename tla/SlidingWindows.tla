---------------------------- MODULE SlidingWindows ----------------------------
(***************************************************************************)
(* The sliding minutes of one provider (state.rs): requests, tokens, and   *)
(* the attempts and failures of a model, in memory; and the requests that  *)
(* are gated by them first and counted in them later (router.rs).  The     *)
(* counters of days and months are Counters' subject: what their gates say *)
(* is a choice here.                                                       *)
(*                                                                         *)
(* Windows roll when they are touched.  The history log counts the same    *)
(* events minute by minute, so that the properties compare what a lazily   *)
(* rolled window says with what happened.                                  *)
(***************************************************************************)
EXTENDS Integers, FiniteSets

CONSTANTS
  Requests,    \* slots for requests in flight
  Slices,      \* units of time in a minute (RPM_WINDOW_MS)
  Origin,      \* the time of the start
  Rpm, Tpm,    \* limits.rpm and limits.tpm, as an Option
  Floor,       \* MIN_FAILURE_RATE_REQUESTS
  Reports,     \* token counts an upstream may report
  MaxNow,      \* bound of the model: the last moment
  MaxCalls     \* bound of the model: requests let through, ends of their calls

\* An Option is a set of one number or none.
Optional(o) == o \in SUBSET Nat /\ \A x, y \in o : x = y

ASSUME WindowsAssumption ==
  /\ IsFiniteSet(Requests)
  /\ Slices \in Nat \ {0}
  /\ {Origin, MaxNow, MaxCalls} \subseteq Nat
  /\ Floor \in Nat \ {0}
  /\ Origin <= MaxNow
  /\ Optional(Rpm) /\ Optional(Tpm)
  /\ Reports \subseteq Nat \ {0}

VARIABLES
  now,       \* the wall clock
  win,       \* State.rpm, State.tpm and the pair of State.model_health
  req,       \* the requests in flight
  calls,     \* requests let through and calls banked
  log,       \* history: events by minute since the process started
  stepped    \* history: the clock was set back

windowsVars == <<now, win, req, calls, log, stepped>>

Buckets == {"rpm", "tpm", "req", "fail"}

Minute(t) == t \div Slices
Minutes == 0 .. Minute(MaxNow)

Window == [index : Nat, prev : Nat, curr : Nat]

Phases == {"idle", "admitted", "sent", "streaming"}

WindowsTypeOK ==
  /\ now \in 0 .. MaxNow
  /\ win \in [Buckets -> Window]
  /\ req \in [Requests -> Phases]
  /\ calls \in 0 .. MaxCalls
  /\ log \in [Buckets -> [Minutes -> Nat]]
  /\ stepped \in BOOLEAN

\* A started process has no entry yet; default() begins at minute 0.
Fresh == [b \in Buckets |-> [index |-> 0, prev |-> 0, curr |-> 0]]

NoEvents == [b \in Buckets |-> [m \in Minutes |-> 0]]

WindowsInit ==
  /\ now = Origin
  /\ win = Fresh
  /\ req = [r \in Requests |-> "idle"]
  /\ calls = 0
  /\ log = NoEvents
  /\ stepped = FALSE

-----------------------------------------------------------------------------
(* A window. *)

\* Mutants: a gap of several minutes carries the old bucket over; a clock that
\* is set back leaves the window as it is.
Rolled_OverGaps(w, i) ==
  IF i = w.index THEN w ELSE [index |-> i, prev |-> w.curr, curr |-> 0]

Rolled_ForwardOnly(w, i) ==
  IF i <= w.index THEN w
  ELSE [index |-> i, prev |-> IF i = w.index + 1 THEN w.curr ELSE 0, curr |-> 0]

\* roll: one minute on, the bucket becomes the previous one; any other jump,
\* back or forth, empties both.
Rolled(w, i) ==
  IF i = w.index THEN w
  ELSE [index |-> i, prev |-> IF i = w.index + 1 THEN w.curr ELSE 0, curr |-> 0]

\* prev * (1 - elapsed) + curr, times Slices.
Blend(w, t) == w.prev * (Slices - (t % Slices)) + w.curr * Slices

\* What a reader sees now, in the same unit.
Effective(b) == Blend(Rolled(win[b], Minute(now)), now)

\* Every access rolls the windows it uses; news are the events it adds.
Touch(news) ==
  /\ win' = [b \in Buckets |->
               IF b \in DOMAIN news
               THEN [Rolled(win[b], Minute(now)) EXCEPT !.curr = @ + news[b]]
               ELSE win[b]]
  /\ log' = [b \in Buckets |->
               IF b \in DOMAIN news
               THEN [log[b] EXCEPT ![Minute(now)] = @ + news[b]] ELSE log[b]]

Read(buckets) == Touch([b \in buckets |-> 0])

\* Mutant: a success takes a failure off.
Result_Undo(ok) == Touch([b \in {"req", "fail"} |-> IF b = "fail" /\ ok THEN -1 ELSE 1])

\* model_result.
Result(ok) == Touch([b \in {"req", "fail"} |-> IF b = "fail" /\ ok THEN 0 ELSE 1])

\* model_unhealthy: half of the recent attempts failed.
Unhealthy ==
  /\ Effective("req") >= Floor * Slices
  /\ 2 * Effective("fail") >= Effective("req")

-----------------------------------------------------------------------------
(* A request: gate, send, answer, end. *)

\* Mutant: a limit is passed once more.
Full_OneMore(b, limit) == \E l \in limit : Effective(b) > l * Slices

Full(b, limit) == \E l \in limit : Effective(b) >= l * Slices

\* check_candidate's gates in order: multi is whether the chain has a second
\* candidate, fits whether the input fits the context.  (A cooldown comes before
\* them and touches no window.)
Verdict(multi, fits) ==
  IF multi /\ Unhealthy THEN "failure rate"
  ELSE IF ~fits THEN "context"
  ELSE IF Full("rpm", Rpm) THEN "rpm limit"
  ELSE IF Full("tpm", Tpm) THEN "tpm limit"
  ELSE "open"

\* The windows the verdict was read from: reading rolls them.
Consulted(multi, fits) ==
  LET v == Verdict(multi, fits) IN
  (IF multi THEN {"req", "fail"} ELSE {})
    \cup (IF v \in {"rpm limit", "tpm limit", "open"} /\ Rpm # {} THEN {"rpm"} ELSE {})
    \cup (IF v \in {"tpm limit", "open"} /\ Tpm # {} THEN {"tpm"} ELSE {})

\* The gates behind these, which read the counters, may still be shut.
Gate(r) ==
  /\ req[r] = "idle"
  /\ \E multi, fits \in BOOLEAN :
       /\ Read(Consulted(multi, fits))
       /\ \/ /\ Verdict(multi, fits) = "open"
             /\ calls < MaxCalls
             /\ req' = [req EXCEPT ![r] = "admitted"]
             /\ calls' = calls + 1
          \/ UNCHANGED <<req, calls>>
  /\ UNCHANGED <<now, stepped>>

\* The attempt fails on this side of the wire: the next candidate, no mark.
FailLocally(r) ==
  /\ req[r] = "admitted"
  /\ req' = [req EXCEPT ![r] = "idle"]
  /\ UNCHANGED <<now, win, calls, log, stepped>>

\* rpm_increment, then the request goes out.
Send(r) ==
  /\ req[r] = "admitted"
  /\ Touch([b \in {"rpm"} |-> 1])
  /\ req' = [req EXCEPT ![r] = "sent"]
  /\ UNCHANGED <<now, calls, stepped>>

\* A call of the request is over and the request is not: its tokens (before a
\* continuation, or of a whole answer before the verdict), or a mark for a stream
\* that died (and may be sent again).  What follows passes no gate and is not
\* counted as a request of the minute.
Banks(r) ==
  /\ req[r] \in {"sent", "streaming"}
  /\ calls < MaxCalls
  /\ \/ Result(FALSE)
     \/ \E tokens \in Reports : Touch([b \in {"tpm"} |-> tokens])
  /\ calls' = calls + 1
  /\ UNCHANGED <<now, req, stepped>>

\* The attempt fails: a mark against the model, unless the error is the
\* client's, a refusal or a matter of size, or the client has left.
Fails(r) ==
  /\ req[r] = "sent"
  /\ \/ Result(FALSE)
     \/ UNCHANGED <<win, log>>
  /\ req' = [req EXCEPT ![r] = "idle"]
  /\ UNCHANGED <<now, calls, stepped>>

\* The answer is good; the tokens of a streamed one are to come.
Answers(r) ==
  /\ req[r] = "sent"
  /\ Result(TRUE)
  /\ req' = [req EXCEPT ![r] = "streaming"]
  /\ UNCHANGED <<now, calls, stepped>>

\* The turn ends, or its client leaves: tpm_add of what was reported.
Ends(r) ==
  /\ req[r] = "streaming"
  /\ \/ UNCHANGED <<win, log>>
     \/ \E tokens \in Reports : Touch([b \in {"tpm"} |-> tokens])
  /\ req' = [req EXCEPT ![r] = "idle"]
  /\ UNCHANGED <<now, calls, stepped>>

\* Peers are ranked by headroom, and record_request adds no tokens.
Observe ==
  /\ \E b \in {"rpm", "tpm"} : Read({b})
  /\ UNCHANGED <<now, req, calls, stepped>>

Advance ==
  /\ now < MaxNow
  /\ now' = now + 1
  /\ UNCHANGED <<win, req, calls, log, stepped>>

\* The wall clock is set back, by less than a minute or by one.
StepBack ==
  /\ ~stepped
  /\ \E t \in 1 .. Slices : t <= now - Origin /\ now' = now - t
  /\ stepped' = TRUE
  /\ UNCHANGED <<win, req, calls, log>>

\* The process ends at any moment; a new one knows of no minute.
StartAgain ==
  /\ win' = Fresh
  /\ req' = [r \in Requests |-> "idle"]
  /\ log' = NoEvents
  /\ UNCHANGED <<now, calls, stepped>>

WindowsNext ==
  \/ \E r \in Requests :
       \/ Gate(r)
       \/ FailLocally(r)
       \/ Send(r)
       \/ Banks(r)
       \/ Fails(r)
       \/ Answers(r)
       \/ Ends(r)
  \/ Observe
  \/ Advance
  \/ StepBack
  \/ StartAgain

WindowsSpec == WindowsInit /\ [][WindowsNext]_windowsVars

-----------------------------------------------------------------------------
(* Properties. *)

Before(b, m) == IF m = 0 THEN 0 ELSE log[b][m - 1]

\* A window that rolls only when touched says what a window rolled at every
\* full minute would say, whoever touched it last and however long ago.
LazyIsEager ==
  ~stepped =>
    \A b \in Buckets :
      LET w == Rolled(win[b], Minute(now))
      IN  w.curr = log[b][Minute(now)] /\ w.prev = Before(b, Minute(now))

\* Whatever the clock does, no window holds what is older than the minute before,
\* so that no gate is kept shut by it: without the roll on read "the rule
\* latches instead of sliding" (state.rs:870).
NoPhantoms ==
  \A b \in Buckets :
    LET w == Rolled(win[b], Minute(now))
    IN  w.curr <= log[b][Minute(now)] /\ w.prev <= Before(b, Minute(now))

Admitted == {r \in Requests : req[r] = "admitted"}

\* The gate is read long before the count.  The requests of a minute exceed the
\* limit by no more than those that passed the gate together with the last.
RateOvershoot ==
  ~stepped =>
    \A l \in Rpm \ {0} :
      log["rpm"][Minute(now)] + Cardinality(Admitted) < l + Cardinality(Requests)
=============================================================================
