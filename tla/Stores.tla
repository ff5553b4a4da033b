------------------------------- MODULE Stores -------------------------------
(***************************************************************************)
(* What pxy keeps in files and rows of its own beside its counters: the    *)
(* memory tool's directories (Memory), the answers of Context7 (docs.rs    *)
(* and find_docs), parsed documents (Parses), the captures of failed       *)
(* attempts (capture.rs), the report of `pxy refresh` (refresh.rs), and    *)
(* the rows of `pxy stats` (Stats).  They share a machine, its clock and   *)
(* its crashes, and no data, so a behaviour is about one of them.          *)
(***************************************************************************)
EXTENDS Memory, Parses, Stats

CONSTANTS
  Kinds,        \* the stores a behaviour may be about
  MaxMoment,    \* bound of the model: the last moment
  MaxBack,      \* bound of the model: how far the clock is set back, in all
  Finders,      \* calls of find_docs at a time
  Ttl,          \* CACHE_TTL_SECS
  FetchTime,    \* the timeout of a call to Context7
  Indexed,      \* when Context7 comes to list the library,
  Versioned,    \* has the version asked for,
  Written,      \* and has text about the topic
  Attempts,     \* attempts whose artifacts are captured
  MaxFiles,     \* max_files
  MaxAge,       \* max_age_secs
  PruneGap,     \* the 30 s between two prunings
  Providers,    \* a provider to [enabled, discover, models_url, chat, configured]: chat: base_url is
                \* that of chat completions
  Listings,     \* what a provider may list: sequences of [id, prompt, completion, free, window]
  Entries,      \* models.dev, in its order: a sequence of [id, tools, efforts, window]
  MinEntries,   \* MIN_MODELS_DEV_ENTRIES
  DefaultWindow, \* default_context()
  MaxRefreshes  \* bound of the model: runs of `pxy refresh`

ASSUME StoresAssumption ==
  /\ IsFiniteSet(Attempts)
  /\ {MaxMoment, MaxBack, Ttl, FetchTime, Indexed, Versioned, Written} \subseteq Nat
  /\ {MaxFiles, MaxAge, PruneGap, MaxRefreshes} \subseteq Nat
  /\ Kinds \subseteq {"memory", "docs", "captures", "captures on error", "report", "stats", "rows",
                     "parses"}
  /\ {MinEntries, DefaultWindow} \subseteq Nat \ {0}

VARIABLES
  store,    \* which store this behaviour is about: fixed
  moment,   \* time
  back,     \* how far the clock is behind it
  kv,       \* docs: the rows of the cache
  find,     \* docs: where each call is, and what it was told
  files,    \* captures: the artifacts on disk
  last,     \* captures: LAST_PRUNE
  attempt,  \* captures: where each attempt is
  report,   \* report: models.toml
  tmp,      \* report: the file that is to become it
  refresh   \* report: where `pxy refresh` is

docsVars == <<kv, find>>
captureVars == <<files, last, attempt>>
reportVars == <<report, tmp, refresh>>
clockVars == <<moment, back>>
vars == <<store, memoryVars, clockVars, docsVars, captureVars, reportVars, parsesVars, statsVars>>

Now == moment - back

-----------------------------------------------------------------------------
(* docs.rs: a library's name to its id, an id and a topic to a text.  What Context7 says is
   told by the moment it was said. *)

NoRow == [at |-> 0, said |-> -1]

\* The id found for a version is another id, with a text of its own.
Rows == {"search", "text", "text of a version"}

NotFinding == [step |-> "idle", version |-> FALSE, search |-> -1, text |-> -1, began |-> 0, since |-> 0,
               answer |-> "none", at |-> 0]

TextRow(f) == IF find[f].version THEN "text of a version" ELSE "text"

\* cache_get: a row of a clock that has been set back since is as good as new.
Age(row) == IF Now < row.at THEN 0 ELSE Now - row.at

Fresh(key) == kv[key] # NoRow /\ Age(kv[key]) <= Ttl

Put(key, said) == kv' = [kv EXCEPT ![key] = [at |-> Now, said |-> said]]

Tells(f, answer, next) ==
  find' = [find EXCEPT ![f] = [next EXCEPT !.step = "told", !.answer = answer, !.at = moment,
                                                       !.since = 0, !.version = FALSE]]

\* A name is looked up; an id is taken as it is, and carries its version in itself.
Asks(f) ==
  /\ find[f].step \in {"idle", "told"}
  /\ \E named \in BOOLEAN, version \in BOOLEAN :
       LET f0 == [NotFinding EXCEPT !.version = version, !.began = moment]
       IN  IF ~named /\ version THEN Tells(f, "error", NotFinding)
           ELSE find' = [find EXCEPT ![f] = [f0 EXCEPT !.step = IF named THEN "search" ELSE "text"]]
  /\ UNCHANGED kv

\* pick_library: the first entry there is, or the first with the version.
Picks(f, said) ==
  LET f1 == [find[f] EXCEPT !.search = said]
  IN  IF said < Indexed THEN Tells(f, "no library", f1)
      ELSE IF f1.version /\ said < Versioned THEN Tells(f, "no version", NotFinding)
      ELSE find' = [find EXCEPT ![f] = [f1 EXCEPT !.step = "text"]]

\* search_and_pick, run_find_docs: the cache is asked first.
FindsCached(f) ==
  \/ /\ find[f].step = "search"
     /\ IF Fresh("search") THEN Picks(f, kv["search"].said)
        ELSE find' = [find EXCEPT ![f].step = "searching", ![f].since = moment]
     /\ UNCHANGED kv
  \/ /\ find[f].step = "text"
     /\ LET key == TextRow(f)
        IN  IF Fresh(key) THEN Tells(f, "text", [find[f] EXCEPT !.text = kv[key].said])
            ELSE find' = [find EXCEPT ![f].step = "fetching", ![f].since = moment]
     /\ UNCHANGED kv

\* Mutant: what is not there is remembered too.
Remembers_Misses(key, said, from) == Put(key, said) \/ UNCHANGED kv

\* A search that found nothing is not remembered, nor is an empty text; a row may fail to be
\* written.
Remembers(key, said, from) == (said >= from /\ Put(key, said)) \/ UNCHANGED kv

\* Context7 has answered some time since it was asked.
Fetched(f) ==
  \E said \in find[f].since .. moment :
    \/ /\ find[f].step = "searching"
       /\ Remembers("search", said, Indexed)
       /\ Picks(f, said)
    \/ /\ find[f].step = "fetching"
       /\ Remembers(TextRow(f), said, Written)
       /\ Tells(f, "text", [find[f] EXCEPT !.text = said])

\* A limit of Context7's, an error, the timeout.
FetchFails(f) ==
  /\ find[f].step \in {"searching", "fetching"}
  /\ Tells(f, "error", NotFinding)
  /\ UNCHANGED kv

DocsNext == \E f \in Finders : Asks(f) \/ FindsCached(f) \/ Fetched(f) \/ FetchFails(f)

-----------------------------------------------------------------------------
(* capture.rs: an artifact is [of, n]: the nth of an attempt.  A file's time is the clock's
   when it was written, made unique by the order of writing. *)

Artifacts == Attempts \X (1 .. 2)

\* on_error: write the artifacts of a failed attempt only.
OnError == store = "captures on error"
OfCaptures == store \in {"captures", "captures on error"}

NotBegun == [step |-> "idle", added |-> 0, listed |-> {}, failed |-> FALSE]

Captured == {a \in Artifacts : files[a].on}

Before(a, b) ==
  \/ files[a].at < files[b].at
  \/ files[a].at = files[b].at /\ files[a].seq < files[b].seq

\* write_atomic; files of one attempt in the order they were added.
WrittenNow(as) ==
  LET sofar == Cardinality({a \in Artifacts : files[a].seq > 0})
  IN  [a \in Artifacts |->
         IF a \in as THEN [on |-> TRUE, at |-> Now, seq |-> 2 * sofar + a[2]] ELSE files[a]]

Adds(t) ==
  /\ attempt[t].step = "idle" /\ attempt[t].added < 2
  /\ attempt' = [attempt EXCEPT ![t].added = @ + 1]
  /\ files' = IF OnError THEN files ELSE WrittenNow({<<t, attempt[t].added + 1>>})
  /\ UNCHANGED last

\* finish: what was held back of a failed attempt is written, and the directory is looked
\* at if that was not done lately.
Finishes(t) ==
  /\ attempt[t].step = "idle" /\ attempt[t].added > 0
  /\ \E failed \in BOOLEAN :
       /\ files' = IF OnError /\ failed THEN WrittenNow({<<t, n>> : n \in 1 .. attempt[t].added}) ELSE files
       /\ attempt' = [attempt EXCEPT ![t].step = "finished", ![t].failed = failed]
  /\ UNCHANGED last

LongAgo == -(PruneGap + MaxBack)

\* prune: the gate is read, then set: two may pass it together.
Due == (IF Now < last THEN 0 ELSE Now - last) >= PruneGap

Passes(t) ==
  /\ attempt[t].step = "finished"
  /\ attempt' = [attempt EXCEPT ![t].step = IF Due THEN "pruning" ELSE "over"]
  /\ UNCHANGED <<files, last>>

Older(a) == Now - files[a].at > MaxAge

\* Mutant: what is left is not counted by itself.
Excess_AllCounted(present) ==
  LET live == {a \in present : ~Older(a)}
      newer(a) == {b \in live : Before(a, b)}
  IN  (present \ live) \cup {a \in live : Cardinality(newer(a)) + Cardinality(present \ live) >= MaxFiles}

\* Too old, or the oldest of what is left beyond max_files.
Excess(present) ==
  LET live == {a \in present : ~Older(a)}
      newer(a) == {b \in live : Before(a, b)}
  IN  (present \ live) \cup {a \in live : Cardinality(newer(a)) >= MaxFiles}

Lists(t) ==
  /\ attempt[t].step = "pruning"
  /\ last' = Now
  /\ attempt' = [attempt EXCEPT ![t].step = "removing", ![t].listed = Excess(Captured)]
  /\ UNCHANGED files

\* The oldest goes first; the file may be gone already.
Removes(t) ==
  /\ attempt[t].step = "removing"
  /\ \/ /\ attempt[t].listed = {}
        /\ attempt' = [attempt EXCEPT ![t].step = "over"] /\ UNCHANGED files
     \/ \E a \in attempt[t].listed :
          /\ \A b \in attempt[t].listed \ {a} : Before(a, b)
          /\ attempt' = [attempt EXCEPT ![t].listed = @ \ {a}]
          /\ files' = [files EXCEPT ![a].on = FALSE]
  /\ UNCHANGED last

CaptureNext == \E t \in Attempts : Adds(t) \/ Finishes(t) \/ Passes(t) \/ Lists(t) \/ Removes(t)

-----------------------------------------------------------------------------
(* refresh.rs: each provider is asked in turn; then the report is written, or kept. *)

Nothing == [x \in {} |-> {}]

NotRefreshing == [step |-> "idle", facts |-> Nothing, left |-> {}, found |-> Nothing, failed |-> {},
                  locked |-> {}, missing |-> {}, runs |-> 0]

\* An id is its pieces: vendors, slashes, what stands before and behind the name.
Endings == <<":free", "-free", "-latest", "-preview", "-instruct", "-discounted">>
Beginnings == <<"coding-", "claude-">>

\* canonical: each suffix, then each prefix, comes off once and in this order.
Canonical(id) ==
  LET start == SelectLastInSeq(id, LAMBDA x : x = "/") + 1
      Off(s, x) == IF s # <<>> /\ Last(s) = x THEN Front(s) ELSE s
      On(s, x) == IF s # <<>> /\ Head(s) = x THEN Tail(s) ELSE s
  IN  FoldLeft(On, FoldLeft(Off, SubSeq(id, start, Len(id)), Endings), Beginnings)

Efforts == <<"none", "minimal", "low", "medium", "high", "xhigh", "max">>

\* effort_levels: those pxy knows, in its order; a mere toggle has none.
EffortLevels(e) == SelectSeq(Efforts, LAMBDA level : level \in e.efforts)

\* fetch_capabilities: the first entry of a name tells; a list that was cut short tells nothing.
Capabilities(entries) ==
  LET name(i) == Canonical(entries[i].id)
      names == {name(i) : i \in DOMAIN entries}
      first(n) == CHOOSE i \in DOMAIN entries : name(i) = n /\ \A j \in 1 .. i - 1 : name(j) # n
  IN  IF Cardinality(names) < MinEntries THEN Nothing
      ELSE [n \in names |-> [tools |-> entries[first(n)].tools,
                             effort |-> EffortLevels(entries[first(n)]),
                             window |-> entries[first(n)].window]]

Unheard == [tools |-> "unknown", effort |-> <<>>, window |-> -1]

\* What models.dev says, or as much of it as came; then enabled providers are asked.
Refreshes ==
  /\ refresh.step = "idle" /\ refresh.runs < MaxRefreshes
  /\ \E n \in 0 .. Len(Entries) :
       refresh' = [NotRefreshing EXCEPT !.step = "asking", !.runs = refresh.runs + 1,
                                        !.facts = Capabilities(SubSeq(Entries, 1, n)),
                                        !.left = {p \in DOMAIN Providers : Providers[p].enabled}]
  /\ UNCHANGED <<report, tmp>>

\* models_url.
Url(p) == Providers[p].models_url \/ Providers[p].chat

Known(id) == IF Canonical(id) \in DOMAIN refresh.facts THEN refresh.facts[Canonical(id)] ELSE Unheard

\* free_of: what the prices say, then the flag, then the id.
FreeOf(rec) ==
  CASE rec.prompt = "zero" /\ rec.completion = "zero" -> "yes"
    [] rec.prompt # "none" /\ ~(rec.prompt = "zero" /\ rec.completion = "zero") -> "no"
    [] OTHER -> IF rec.free \/ Last(rec.id) \in {":free", "-free"} THEN "yes" ELSE "unknown"

\* discovered_context: a window of zero is none. -1: not said.
Window(rec) ==
  LET said == IF rec.window # -1 THEN rec.window ELSE Known(rec.id).window
  IN  IF said > 0 THEN said ELSE -1

\* discover: a record of the listing and what is known of its model.
Discovered(rec) ==
  [id |-> rec.id, free |-> FreeOf(rec), tools |-> Known(rec.id).tools,
   effort |-> Known(rec.id).effort, window |-> Window(rec)]

Listed(listing) == {listing[n].id : n \in DOMAIN listing}

\* Configured and listed neither by its id nor by its name.
Missing(p, listing) ==
  {id \in Providers[p].configured :
     id \notin Listed(listing) /\ Canonical(id) \notin {Canonical(i) : i \in Listed(listing)}}

\* A provider that is not to be discovered, or has no place to ask, is passed over; one
\* answers with a listing, which may be empty; one fails, or refuses or lacks the credential.
Discovers(p) ==
  /\ refresh.step = "asking" /\ p \in refresh.left
  /\ LET rest == [refresh EXCEPT !.left = @ \ {p}]
         open == Providers[p].discover /\ Url(p)
     IN  \/ ~open /\ refresh' = rest
         \/ /\ open
            /\ \E listing \in Listings :
                 refresh' = [rest EXCEPT !.missing = @ \cup ({p} \X Missing(p, listing)),
                               !.found = [q \in DOMAIN @ \cup {p} |->
                                 IF q = p THEN [n \in DOMAIN listing |-> Discovered(listing[n])]
                                 ELSE @[q]]]
         \/ /\ open
            /\ \E locked \in {{}, {p}} :
                 refresh' = [rest EXCEPT !.failed = @ \cup {p}, !.locked = @ \cup locked]
  /\ UNCHANGED <<report, tmp>>

\* Not from a run that could not look.
Worthy == refresh.locked = {} /\ Cardinality(refresh.failed) <= Cardinality(DOMAIN refresh.found) \div 2

\* run: a dry run writes nothing.
Judges ==
  /\ refresh.step = "asking" /\ refresh.left = {}
  /\ \E write \in BOOLEAN :
       refresh' = [refresh EXCEPT !.step = IF write /\ Worthy THEN "opening" ELSE "idle"]
  /\ UNCHANGED <<report, tmp>>

Torn == [whole |-> FALSE, rows |-> Nothing]

\* as_opt, render_generated: a row has a key for what is known.
Rendered(d) ==
  LET row == [window |-> IF d.window > 0 THEN d.window ELSE DefaultWindow,
              tools |-> d.tools, effort |-> d.effort, free |-> d.free]
  IN  [key \in DOMAIN row \ (   {k \in {"tools", "free"} : row[k] = "unknown"}
                            \cup {k \in {"effort"} : row[k] = <<>>}) |-> row[key]]

\* generate: the rows of a provider by their ids; of two records of an id the later one counts.
Generated(found) ==
  [p \in DOMAIN found |->
    [id \in {found[p][n].id : n \in DOMAIN found[p]} |->
      Rendered(found[p][SelectLastInSeq(found[p], LAMBDA d : d.id = id)])]]

\* write_atomic: a file beside it is made, filled and put in its place.
Writes ==
  \/ /\ refresh.step = "opening"
     /\ refresh' = [refresh EXCEPT !.step = "filling"] /\ tmp' = Torn /\ UNCHANGED report
  \/ /\ refresh.step = "filling"
     /\ refresh' = [refresh EXCEPT !.step = "placing"]
     /\ tmp' = [whole |-> TRUE, rows |-> Generated(refresh.found)]
     /\ UNCHANGED report
  \/ /\ refresh.step = "placing"
     /\ refresh' = [refresh EXCEPT !.step = "idle"] /\ report' = tmp /\ UNCHANGED tmp

ReportNext == Refreshes \/ (\E p \in DOMAIN Providers : Discovers(p)) \/ Judges \/ Writes

-----------------------------------------------------------------------------
(* The machine. *)

\* A call to Context7 is given up in time, and what is done without one takes none.
Tick ==
  /\ moment < MaxMoment
  /\ \A f \in Finders :
       /\ find[f].step \notin {"search", "text"}
       /\ find[f].step \in {"searching", "fetching"} => moment - find[f].since < FetchTime
  /\ moment' = moment + 1 /\ UNCHANGED back

SetBack == back < MaxBack /\ back' = back + 1 /\ UNCHANGED moment

\* The process ends: what is on disk stays.
Crash ==
  \/ store = "docs" /\ find' = [f \in Finders |-> NotFinding]
     /\ UNCHANGED <<memoryVars, clockVars, kv, captureVars, reportVars, parsesVars, statsVars>>
  \/ OfCaptures /\ last' = LongAgo
     /\ attempt' = [t \in Attempts |-> [attempt[t] EXCEPT !.step = "over"]]
     /\ UNCHANGED <<memoryVars, clockVars, docsVars, files, reportVars, parsesVars, statsVars>>
  \/ store = "report" /\ refresh' = [NotRefreshing EXCEPT !.runs = refresh.runs]
     /\ UNCHANGED <<memoryVars, clockVars, docsVars, captureVars, report, tmp, parsesVars, statsVars>>
  \/ store = "stats" /\ StatsCrash /\ UNCHANGED <<memoryVars, clockVars, docsVars, captureVars, reportVars, parsesVars>>

Init ==
  /\ store \in Kinds
  /\ MemoryInit
  /\ store # "memory" => disk[Root] = None
  /\ moment = 0 /\ back = 0
  /\ kv = [k \in Rows |-> NoRow]
  /\ find = [f \in Finders |-> NotFinding]
  /\ files = [a \in Artifacts |-> [on |-> FALSE, at |-> 0, seq |-> 0]]
  /\ last = LongAgo
  /\ attempt = [t \in Attempts |-> NotBegun]
  /\ report = Torn /\ tmp = Torn
  /\ refresh = NotRefreshing
  /\ ParsesInit
  /\ store # "parses" => plugin.enabled /\ plugin.reader /\ \A limit \in PageLimits : plugin.pages <= limit
  /\ StatsInit(IF store = "rows" THEN Tables ELSE {<<>>})

Next ==
  /\ UNCHANGED store
  /\ \/ /\ store = "memory" /\ MemoryNext
        /\ UNCHANGED <<clockVars, docsVars, captureVars, reportVars, parsesVars, statsVars>>
     \/ /\ store = "docs" /\ DocsNext
        /\ UNCHANGED <<memoryVars, clockVars, captureVars, reportVars, parsesVars, statsVars>>
     \/ /\ OfCaptures /\ CaptureNext
        /\ UNCHANGED <<memoryVars, clockVars, docsVars, reportVars, parsesVars, statsVars>>
     \/ /\ store = "report" /\ ReportNext
        /\ UNCHANGED <<memoryVars, clockVars, docsVars, captureVars, parsesVars, statsVars>>
     \/ /\ store = "parses" /\ ParsesNext
        /\ UNCHANGED <<memoryVars, clockVars, docsVars, captureVars, reportVars, statsVars>>
     \/ /\ store = "stats" /\ StatsNext(Now, moment)
        /\ UNCHANGED <<memoryVars, clockVars, docsVars, captureVars, reportVars, parsesVars>>
     \/ /\ store \in {"docs", "stats"} \/ OfCaptures
        /\ Tick \/ SetBack
        /\ UNCHANGED <<memoryVars, docsVars, captureVars, reportVars, parsesVars, statsVars>>
     \/ Crash

Spec == Init /\ [][Next]_vars

-----------------------------------------------------------------------------
(* Properties. *)

\* docs.rs: a text is no older than a week and a fetch allow, and as much as the clock was
\* set back; so is the search it rests on.  That there is no such library, or no text of it,
\* is never remembered: it was so after the call began.  Of a parsed document, what is kept is
\* a faultless parse, and what is told is all of it (ParsesKept).
DocsFresh ==
  /\ ParsesKept
  /\ \A f \in Finders :
    LET d == find[f]
        fresh(said, fetches) == d.at - said <= Ttl + fetches * FetchTime + back
    IN  d.step = "told" =>
          /\ d.answer = "text" => fresh(d.text, 1) /\ (d.search >= 0 => fresh(d.search, 2))
          /\ d.answer = "text" /\ d.text < Written => d.text >= d.began
          /\ d.answer = "no library" => d.search >= d.began

\* capture.rs, prune: whoever prunes, together or in turn, while others write: an artifact
\* is removed when it is too old or when max_files newer ones are there.
NewestKept ==
  [][\A a \in Artifacts :
       files[a].on /\ ~files'[a].on =>
         \/ moment - files[a].at > MaxAge
         \/ Cardinality({b \in Captured : Before(a, b)}) >= MaxFiles]_vars

\* What a report says of models.dev's: the same of every spelling of a model, by whichever
\* provider, and what one entry says, no more; nothing is said of a model nobody described.
SaysWhatIsKnown(table) ==
  \A p \in DOMAIN table : \A id \in DOMAIN table[p] :
    LET row == table[p][id]
        told == {"tools", "effort"} \cap DOMAIN row
    IN  /\ row.window > 0
        /\ told # {} =>
             \E n \in DOMAIN Entries :
               /\ Canonical(Entries[n].id) = Canonical(id)
               /\ "tools" \in told => row.tools = Entries[n].tools
               /\ "effort" \in told => /\ ToSet(row.effort) \subseteq Entries[n].efforts
                                       /\ IsInjective(row.effort)
        /\ \A q \in DOMAIN table : \A other \in DOMAIN table[q] :
             Canonical(other) = Canonical(id) =>
               \A key \in {"tools", "effort"} :
                 IF key \in told THEN key \in DOMAIN table[q][other] /\ table[q][other][key] = row[key]
                 ELSE key \notin DOMAIN table[q][other]

\* Whether a model is free is said where its price is, or its provider or its id says it is;
\* nothing said is no "no".
SaysWhatIsFree(table) ==
  \A p \in DOMAIN table : \A id \in DOMAIN table[p] :
    \E listing \in Listings : \E n \in DOMAIN listing :
      LET rec == listing[n]
          priced == rec.prompt # "none"
          named == rec.free \/ ToSet(id) \cap {":free", "-free"} # {}
      IN  /\ rec.id = id
          /\ "free" \in DOMAIN table[p][id] => priced \/ (named /\ table[p][id].free = "yes")
          /\ "free" \notin DOMAIN table[p][id] => ~priced /\ ~rec.free

\* refresh.rs: whatever becomes of later runs, the report on disk is a whole one, of a run that
\* was refused by no credential and missed no more than a third of the providers it could ask;
\* its rows say what was said and no more: "unknown" is neither a yes nor a no; a model is said
\* to be missing only where its provider was asked and lists no spelling of it.
ReportStands ==
  /\ [][report' # report =>
          /\ report'.whole
          /\ DOMAIN report'.rows = DOMAIN refresh.found /\ refresh.locked = {}
          /\ SaysWhatIsKnown(report'.rows) /\ SaysWhatIsFree(report'.rows)
          /\ 3 * Cardinality(refresh.failed) <= Cardinality(refresh.failed \cup DOMAIN refresh.found)]_vars
  /\ [](\A m \in refresh.missing :
           /\ m[1] \in DOMAIN refresh.found
           /\ \A n \in DOMAIN refresh.found[m[1]] :
                Canonical(refresh.found[m[1]][n].id) # Canonical(m[2]))

\* state.rs, stats.rs: whatever writes rows together, however long a leg lasts and the clock is
\* set back, no row goes before its time and none stays long after it; and every report made of
\* any rows, of any window and narrowed to any slice, agrees with itself.
RowsStand ==
  /\ [][store = "stats" => KeepsRows(Now) /\ ForgetsRows(Now)]_vars
  /\ [](store = "rows" => \A f \in Filters, since \in 0 .. MaxMoment : AddsUp(f, since))

\* What the two reports say can be relied on.
ReportsStand == ReportStands /\ RowsStand
=============================================================================
