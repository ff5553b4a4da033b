# A TLA+ verification project for pxy

pxy is a local LLM router: a daemon that takes chat requests in the dialects of
its clients (OpenAI chat, Anthropic, the Responses API, the AI SDK), walks a
chain of upstream candidates until one answers, relays and translates the
stream, serves tools on behalf of models that have none, walks other chains for
pictures, sounds, rankings, videos, searches and pages, and keeps counters,
cooldowns and caches in memory, in one SQLite file and in a few files beside
it. This directory holds TLA+ models of its core, the TLC configurations that
check them on small instances, and proofs that TLAPS checks for every instance.

File names without a directory below are those under `src/` of the repository.

## 1. The system

| component | state it keeps | operations | interacts with |
|---|---|---|---|
| cooldown store (`state.rs`) | map `cooldowns`: (provider, model or any) to deadline, level, kind, reason; table `cooldowns` with the same rows | `set_cooldown`, `clear_cooldown`, `cooldown`, `recovery_wait`, `cooldown_remaining`, rehydration in `open` | written at the end of every attempt, read by every gate; the file is shared with command-line processes |
| candidate walk (`router.rs`, `handle_chat_inner`) | the locals of a request: walk number, position, sticky classes of obstacles, refusals | gate, attempt, skip, sleep, re-walk, terminal answer | cooldown store, windows, streamed turn |
| streamed turn (`router.rs`, `stream_outcome`, `StreamCtx`, `Leg`) | the hold buffer, the translator, usage, captured calls, re-sends left, the row of the call in flight | relay, re-send, continuation, finish, drop | walk (before the commit), counters and stats rows, client |
| server-tool loop (`router.rs`, `translate/server_tools.rs`) | captured calls, turn budget, caps per tool, hits shown, tools held back | offer, split, run, commit, continuation body | streamed turn, walk (a tool may ask a model), media chain (search), memory store, docs cache |
| usage windows and limits (`state.rs`, `usage.rs`) | rate and token buckets, failure-rate windows, day/month/total rows | increment, check, roll, record | gates of the walk and of the media chain |
| resolution, pins, affinity (`router.rs`, `catalog.rs`) | pin, session bindings | resolve, pin, bind | walk |
| media chain (`media/`) | a pool of blocks and a daily count for each provider | `run_chain`, one adapter for each capability and dialect, a video job's polls | counters, stats rows, server tools |
| dialect translators (`translate/`) | open blocks, indices, tool arguments, incremental filters; of a request's history nothing | feed, finish; rewrite a history | streamed turn, walk |
| event parser and JSON healing (`sse.rs`, `heal.rs`) | the undecoded tail of the bytes | feed, finish, heal | translators |
| memory store (`memory.rs`), documentation cache (`docs.rs`), captures (`capture.rs`), stats rows (`state.rs`, `stats.rs`), refresh report (`refresh.rs`) | files and rows of their own | read-modify-write, get/put, prune, sweep, report | server tools, walk, the command line |
| file parser (`router.rs` `parse_file_parts`, `media/pdf.rs`) | parsed documents, kept under the hash of their bytes | extract, read by a model, keep | a turn before its walk |
| server, config, secrets, launcher, diagnostics | none that outlives a call, or read once | | everything |

What is hard in each, and what makes it right:

- *Cooldown store.* Two writers in two halves each (map, then row), a writer
  that fails, a crash between the halves, a reader that prunes the file. Right
  means: a restart neither forgets nor resurrects a block, a block is never
  longer than its kind allows, repeated failures back off, and the reported wait
  is exact although two scopes overlap.
- *Walk.* A request keeps sticky summaries of obstacles over several walks, and
  its terminal answer is read off those summaries. Right means: the answer tells
  the client the truth about retrying, a paid reserve is not spent on an
  ordinary failure, sleeping is never futile, and every request is answered.
- *Streamed turn.* A turn is a series of upstream calls behind one client
  stream, closed by four different rules, and may break, stall, be re-sent, be
  continued or lose its client at every await. Right means: closed once, never
  answered twice, every token and every call on the books, budget kept, over at
  last.
- *Server tools.* A model may call what it was offered, more often than it may,
  in parallel, beside functions of the client's, or what it was never offered.
  Right means: budgets and caps hold over rounds and parallel calls, every call
  is answered and the loop ends, no function of the client's is lost, and a tool
  asks no model the configuration did not name.
- *Windows.* Check now, count later, by many requests; windows that roll only
  when touched; three rows written without a transaction.
- *Resolution.* Many spellings of one id; a pin that another process moves
  between two reads of it. Right means: what was listed can be asked for, and a
  session is bound to its own win only.
- *Media.* Answers of many dialects that may say nothing of use, and a job that
  may still run when its candidate is given up. Right means: an answer the
  client can use is never walked past, and no second job is begun beside one
  known to run.
- *Translators.* A protocol (blocks open and close in order) produced from
  another protocol's interleavings, with text split at arbitrary places; and
  histories of one dialect put into the form another one's upstreams accept.
- *Small stores.* Read-modify-write of files with no lock; ages compared with a
  clock that may be set back; a crash between an old file and a new one.

`PROJECT.json` lists each hazard at its line with the properties that cover it.

## 2. The order of the modules

1. `CooldownTable` (operators on entries and tables), used by both machines
   below, so that the gate of the walk reads the very table the store proves
   things of; `Cooldowns` (the store); `Failover` (the walk).
2. `Stream` (the turn), `SlidingWindows` (the windows of a minute and the
   requests gated by them), `UsageBooks` (rows and calendar) and `Counters` (who
   writes and obeys them), against the abstract `Limiter`.
3. `Wire` (the alphabet), `Translators` (one for each dialect, in each
   direction), `TextFilters`, and `Dialects`, which composes them with the
   relay, against the abstract `ClientTurn`.
4. `Catalog` (ids) and `Affinity` (pins and bindings around a walk).
5. The request side: `Histories` (what each translator makes of a history),
   `Settings` (what becomes of its other keys) and `Conversation` (how a history grows); `ToolOffer` (what an upstream is
   offered), `ToolRuns` (what a call comes to) and `ServedTools` (the loop).
6. What lies beside: `Media`, `Memory`, `Parses`, `Stats`, `Stores` (which composes the
   last three with the docs cache, the captures and the refresh report), `Frames`.

Each machine has a `.cfg`, and an `MC` module where its constants need definitions (`Cooldowns` and
`SlidingWindows` need none); eight modules hold proofs
(`State_proofs`, `Failover_proofs`, `Stream_proofs`, `Dialects_proofs`, `Counters_proofs`, `Media_proofs`,
`ServedTools_proofs`, `Stores_proofs`). What is still worth proving is named at the end of section 6.

## 3. Modules and how they correspond to the code

### CooldownTable

An entry is `[left, level, retryable]`. The code stores a deadline; the model
stores the time left until it, counted down by `Tick`, so that tables are finite.
One unit of time is the first step of the ladder (3 s) in the runs.
`LadderEntry` and `SpanEntry` are the two branches of `set_cooldown`;
`Active`, `Blocked`, `Remaining` and `Waitable` are what the readers compute over
the two scopes of a pair. An entry outlives its deadline: only its removal resets
the level.

### Cooldowns

| variable | code |
|---|---|
| `map` | `State.cooldowns` |
| `db` | rows of table `cooldowns` |
| `pend[t]` | the SQL write thread t owes between releasing the map's lock and taking the db's |
| `stray` | history: the last write of the key overlapped another one, or failed |

`SetByLadder`, `SetBySpan` and `ClearCooldown` are the half under the map's lock.
`Stamp` is the computation of the row's deadline (`epoch_ms() + dur`), which happens before
the db lock is taken: from then on the owed row ages. `Mirror` is the upsert or
delete, `MirrorFails` its failure, which the code ignores by design. `Restart` kills every
thread and runs `State::open`: expired rows are deleted, the map is rebuilt.
`CliOpen` is the same `open` by another process on the same file.

### Failover

One record `req[r]` per request holds the locals of its handler. Gates are steps
of their own because the tables they read are shared; `Overlook` and `Check` are
the gates in code order, `AttemptFails`, `Headers`, `BodyFails`, `Refuse` and `Done` the outcomes of an
attempt, `Sleep`/`Wake`/`GiveUp` the end of a walk. `Fault` is the table that
`classify_error` and the error branches of `try_candidate_inner` amount to: which
scope is cooled, for how long, whether waiting helps, how the reason text reads
to `is_quota_failure`, and which `AttemptResult` comes back. `Headers` is `record_allowances`
and the quota headers of an answer (`Reports`). The history
fields (`seen`, `turn`, `unspent`, `dead`) are set by facts, not by the code's own
summaries, so that properties compare the two. What sliding windows say at a gate is a choice
(`Gates`); they are `SlidingWindows`' subject.

### Stream

A turn has one of four kinds: the OpenAI or Anthropic stream passed on as it is,
or translated either way. `up` is the upstream call (open, a finish reason seen, closed),
`ctx` is `StreamCtx` with what its search filter and translator keep, `client` what the
client has been sent, `books` what reached `State`. `Hold` is the relay before the
commit (bytes are withheld, so an error there lets the walk go on), `Chunk` after it.
`Looping`, `Stall`, `Broken` and `BodyEnds` are the ways a body stops; `Resend` and
its outcomes the second attempt in the same turn; `Served`, `Continued` and
`ContinuationFails` the server-tool round; `Disconnect` is the client that leaves, at any
await, after which only the `Drop` implementations run.

What it assumes of its environment: an upstream closes a call once (OpenAI
upstreams may send one chunk more after `[DONE]`); it calls only functions the request
declares; a call that made reserved calls finishes with `tool_calls`
(`CallCloses`). The last assumption is a real restriction: with `"stop"` in `CallCloses`
`ClosedOnce` fails, see section 7. An Anthropic upstream announces a call (`"name"`, a `content_block_start`) before it
sends its arguments (`"tool"`); the client is shown the announcement (`client.named`), and the code does not count it as an
answer. What the client has read of an answer (`client.answers`) is text, arguments, or the first chunk of an OpenAI
upstream's call, which names it.

### SlidingWindows

| variable | code |
|---|---|
| `win` | one provider's entries of `State.rpm` and `State.tpm`, one model's pair in `State.model_health` |
| `now` | `epoch_ms()`, in `Slices` units to the minute |
| `req[r]` | where a handler is between `check_candidate` and the end of its turn |
| `log` | history: the events of each minute since the process started |
| `stepped` | history: the wall clock was set back once |

Its definitions are named `WindowsInit`, `WindowsNext`, `WindowsSpec` so that `State_proofs` can extend it
beside `Cooldowns`.

`Rolled` is `roll`; every access goes through it (`Touch`). An entry that does not
exist yet is one of minute 0: both read as empty. `Gate` is `check_candidate`, which rolls the
windows it consults in its order (`Consulted`); the counters behind it may still say no.
`Send` is `rpm_increment`, long after; `Answers` and `Fails` the `model_result` of
the walk, `Banks` the tokens or marks of a call that is not the request's last, `Ends`
the tokens of the last one, `Observe` the readers elsewhere. Blends of
prev and curr are compared times `Slices`, so that they stay whole; the code's
are floating point. Only the first call of a turn is counted in the
minute's requests: a re-send and a continuation reach `record_request` (router.rs:4104,
3977) but not `rpm_increment` (router.rs:1836), and failed requests are in the minute and in no row.

### UsageBooks, Counters and Limiter

`UsageBooks` is the table `usage`: a row per state key, period and window, each created by its first
write (`Recorded`), and the calendar of `usage.rs`: `Start` is `current_windows`, over a calendar given as
instants of midnights and resets, so that a day of 23 or 25 hours is a calendar like
another. A recording writes day, month and total in this order, and may stop after any.

| variable of `Counters` | code |
|---|---|
| `rows`, `stats` | tables `usage` and `model_usage` |
| `blocked` | the cooldown pools of media and search providers, as the set of blocked scopes |
| `req[r]` | a chat turn from its gate to its end; a walk of `run_chain`, `run_search` or `run_fetch` |
| `billed`, `embeds`, `cut` | history: what an upstream may bill, embeddings in the open day, broken recordings |

A chat turn is gated by `check_candidate`'s counters (`Spent`) and counted once an upstream
has answered; a walk is counted before the call goes out; an embedding asks no limit.
`Limiter` is what all of it promises: whoever is let through while the window is below its cap
owes at most `Most` counts, so a window ends above its cap by what was owed when it was
reached and no more. `ChatDay` and `WalkDay` are the two instances (`INSTANCE Limiter WITH`), with the window of the
open day as `span`/`marks` and the legs a request has left as what it owes; that they are
implemented is `ChatLimited` and `WalkLimited`.

### Wire, Translators, TextFilters, Dialects and ClientTurn

A chunk is a sequence of what it carries, a text a sequence of numbered pieces, a call its number. Each
translator is its `StreamState` and one operator for each event it reads:

| module | code |
|---|---|
| `Translators` | from upstreams: `openai_to_anthropic.rs`, `StreamState` (`F...`); `responses_upstream.rs`, `StreamState`, `chat_stream` (`G...`); to clients: `anthropic_to_openai.rs` (`A...`), `responses.rs` (`R...`), `aisdk.rs` (`S...`), their `StreamState` |
| `Wire` | the alphabet; `aggregate.rs`, a stream collected into one reply (`J...`); whole replies, as an upstream that does not stream gives them |
| `TextFilters` | `think.rs` and `tool_text.rs`: spans found in text that arrives in pieces, a tag split anywhere |

`Dialects` puts a route together: `up` is an upstream that says what its dialect allows (a call's
parts interleaved with another's, arguments repeated, a name before an id, a second usage, a break),
`mid` its translator or filter, `relay` the two flags of `StreamCtx`, `tr` the client's
translator, `view` what a client makes of the events. `ClientTurn` is the protocol the two
clients with numbered items rely on; `view` maps to it (`INSTANCE ClientTurn WITH`), for an Anthropic client with `Dense` and without
`Strays` (`AnthropicBlocks`), for a Responses client with both (`ResponsesItems`). `BodyIsStream` compares what a client
reads of a stream with what it would read of the same turn as one body.

The end of a turn has a reason (stop, length, calls, filter, error, other), and every translator makes its own of it: what a
client is told of each is `ChatFinishes`, `AnthropicEnds` and `ResponsesEnds`, and `CallsAgree` says that it goes with the
calls the client holds and keeps what the upstream said. A turn that fails is one whose error is told in its stream
(`"error"`): the translators' `fail()` is reached by no stream of the router's, and a body that breaks off is
told as completed (section 7, router.rs:4484).

### Catalog and Affinity

An id is a sequence of pieces (names, slashes, a level, the window marker). `Catalog` is which configurations are
taken at all (`Config::validate`; a process that reads another one stops), `from_config`, `resolve`, the listing of
`/v1/models` and `split_model_variant`; `Affinity` the request's way from its id to
its walk: `Enter` is the first look at the pin, `ReadPin` the second, `LayOut` the look at the
session and the order of the walk, `Win` and `Lose` its end. `pxy route` writes pins from another process that reads the file
as it is, while the daemon keeps the configuration it was started with (`file` and `cfg`).

### Histories, Settings and Conversation

A history is a sequence of messages `[role, blocks]` in every dialect; a text is a sequence of numbered
words, a picture or a call its number. `Histories` is the request half of each translator, the
sanitizer and the cache breakpoints (`anthropic_sanitize.rs`, `cache_control.rs`): the pairing of calls and
results, thoughts replayed or dropped, pictures named in text for a model that sees none, roles merged until they
alternate. `Sent` is what one upstream would be sent. `Settings` is the rest of a body, a function of the keys it has: the cap on
the answer, the thinking, its form, where to stop and pxy's own keys, spelled in each client's dialect, put into the upstream's, and fitted to
what the upstream takes (its limit, its levels, what it drops). `Conversation` is the client that keeps the history: it
asks, is answered by a turn of some shape, answers the calls, late or not at all, and cuts off the beginning. The
properties speak of `Sent` for every upstream at every moment, and at the first of `SentSettings` for every ask: that the upstream
accepts them (`SettingsAccepted`, in `UpstreamAccepts`) and that what the client asked for is still in them
(`SettingsKept`, in `NothingLost`). Four ways the code is known to go wrong are named and
excluded where a property meets them, each with its entry in section 7: a turn split by a reply item (`Split`), a
last text of white space alone, the mark of a dropped message that moves to a thought, and the mark an orphan result loses.

### ToolOffer, ToolRuns and ServedTools

`ToolOffer` is what one attempt's body offers: the client's functions, one reserved function for each tool pxy serves, what is
held back until a search finds it, the choice and what becomes of it. `ToolRuns` is what running one call may come to: how many hits are shown,
which held-back tools are named, which models are asked about which image. Executors that answer by
themselves (date, models, image, memory, docs, verify) are one operator, `Informs`; a page fetched is `Other`.

| variable of `ServedTools` | code |
|---|---|
| `body`, `deferred` | the request as last sent; the functions held out of it |
| `left`, `per`, `hits` | what is left of the turn's budget and of each tool's cap; `results_served` |
| `captured`, `renders`, `batch` | the reserved calls of the round; those that were run, with their outcome; the search hits among them (`batch_hits`) |
| `rounds`, `ran`, `shown`, `open` | history: continuations, calls that reached their executor, hits their results showed, calls with no result |

`Send` builds the attempt, `Answer` is the upstream's turn (any calls its choice allows, own functions and reserved
ones, or a name it was never offered), `RunCall` runs the next call `split_calls` lets through, `Continue` charges, reveals and
sends again (or fails), `Close` ends a turn that has nothing to answer, `NextTurn` is the client that goes on. Depth 1
is the request of a tool that asks a model. Providers are assumed to send no more than they are asked for.

### Media

`req[q]` is a request on its chain: `Gate` reads the blocks and the day's count, `Count` counts, `Ask` and its outcomes are the
call, `Poll` a look at a video's job, `GiveUp` the next candidate. Gate and count are two steps,
since other requests count between them. What an upstream says is told by what can be got out of it, and `Reads` is what
each capability and dialect makes of it. Units, rows, the layout of bodies and the listing of a chain are left out.

### Memory, Parses, Stats and Stores

`Memory` is the memory tool's directory: every command of two callers as the calls to the file system it makes, with a crash between
any two; `ideal` is the directory if commands were done one by one, `raced` the paths for which that says nothing. A write is taken to empty its file before it fills it.
Whoever asks for a path in the directory makes the root (`WithRoot`), unless a file is in its place, which bars every command (`"barred"`).
`Parses` is a turn's documents: it comes (`Comes`) with an engine, or is a leg of a meta-tool, or finds the plugin off; each of its parts is
passed over, refused, answered from the row of its hash, or parsed, which a row that cannot be read leads to as well (`Attaches`); then page by
page what poppler finds or a model reads, the pages cut, and what is kept for good, over the row that was there. What is incomplete is not kept,
and `Reconfigures` starts the daemon on any setting of the plugin.
`Stats` is the rows `pxy stats` reads: begun, ended, continued and dropped legs, media legs, served calls, the
sweep, and the report with its windows, filters, sums, percentiles and groups. `Stores` composes the three with `find_docs` and its cache, the captured artifacts of failed attempts and
their pruning, and the report of `pxy refresh` written beside the old one: which providers are asked, canonical names, prices,
windows, levels and what is missing. Artifacts are numbered in the order they are written, and what a pruning has still
to remove is a set. They share the machine, its clock (which may be set back) and its crashes. One
refresh runs at a time, and what `find_docs` does between its calls to Context7 takes no time.

### Frames

An upstream writes an answer in frames of a style (line ends, named events, escape sequences, a last frame left open); the bytes come cut
anywhere; `SseParser` decodes them, finds events and reads their fields; `heal_json` makes JSON of the text: candidates, their
rank, repairs, with the escapes of a quote and of a backslash in strings. A token stands for a character or two; a wide letter is two bytes.
An answer is the prose before a value, the value and the prose after it, with the JSON the value is or was to be (`meant`), so that
`AnswerIsMeant` compares what is served with what was said. `Displaced` is where the code is known to serve something else, told by the
answer alone: the lengths and places of the runs of JSON in it (section 7, heal.rs).

## 4. The runs

All twelve pass. What the code breaks of its own documentation is section 7's subject.

| run | asks | distinct states |
|---|---|---|
| `cooldowns` | two threads write the two entries of one provider, map first and row later, with failing writes, clock, crashes and a command-line process in between | 1,021,564 |
| `failover` | one request over two free candidates of one account and a paid one, or over a single candidate, against every mix of gates and failures, two walks | 666,584 |
| `stream` | a streamed turn of each kind, with and without served tools | 202,566 |
| `sliding_windows` | two requests at a time, gated by the windows of a minute and counted in them later, with a restart and a clock set back once | 1,981,909 |
| `counters` | two requests at a time (turns, embeddings, walks) over days with a reset in the middle and a first of a month, recordings that break off and a process that ends | 81,322 |
| `dialects` | every route from an upstream's dialect to a client's, with everything an upstream may interleave, split, repeat or break off | 1,515,508 |
| `affinity` | two requests with a session while pins move, the file is edited, the daemon restarts and the clock is put back | 1,801,703 |
| `conversation` | a conversation grows by turns of every shape, is interrupted, answered late and cut at its beginning, and is rewritten for every upstream at every moment | 42,301 |
| `served_tools` | turns whose tools pxy serves, for each client and wire, at both depths | 262,311 |
| `stores` | memory commands, docs, parsed documents, captures, report and stats rows under crashes and a clock set back | 1,579,365 |
| `media` | two requests at a time over chains that share blocks and counts | 690,895 |
| `frames` | answers with prose around them, healed; some of them written in frames of four styles and cut anywhere, healed or not | 32,480 |

Bounds, and why the interesting cases fit in them:

- `cooldowns`: one provider and one model give both scopes of a pair, two threads
  give every order of two writers and two halves; the second thread also plays
  the `clear_cooldown` of a success. `LevelMax = 2` makes the level saturate (the
  code's width is 32 bits, and the ladder is flat from level 6 on). A span of 3
  against `LongestSpan = 2` meets the 30 day cut. `LadderCap = 40` is the code's
  ratio of 120 s to 3 s; the cap is never reached there (32 * 3 s = 96 s is the
  most the ladder asks for), and the theorems cover every cap.
- `failover`: `MaxRetries = 1` is one sleep and one more walk, where everything
  that is reset per walk can go wrong once (the code's value is 2, and the
  theorems are for any). One candidate calls no tools, one speaks Anthropic, two share an
  account, their windows are 1 and 2, sizes 1 and 2: every verdict of
  `check_candidate` but that of a disabled provider is given. A wait of 4 is too
  long for `MaxRetryWait = 3`, one of 2 is not. `Gates` and `Replies` hold one of
  each class of `Fault`; the classes left out differ in nothing the properties see.
  `RewalkNotFutile` is stated for one request in flight, so the run has one.
- `stream`: a budget of two calls against a batch of two, two re-sends, as many
  as the code makes (`MAX_RETRIES`), and `MaxEvents` events of one upstream call: a start, two reserved calls, their close and
  `[DONE]`. Calls are numbered as far as the budgets allow. No bound cuts a
  behaviour short other than `MaxEvents`, after which the upstream can only stop.
- `sliding_windows`: four units from the middle of minute 1 to the start of minute 3 give a
  roll, a gap of a whole minute and a clock that goes back over a boundary. A minute takes one request,
  so that two slots and three calls reach the overshoot (a request counted, two past
  the gate). Two tokens or two attempts fill the other windows, one event leaves
  them below. A minute of two units tells the blend's two halves apart.
- `counters`: three instants, a day's reset, the midnight of a first of a month and
  its reset, which opens a day and a month. `Legs = 1` lets a turn make a second call past no gate; `MaxCalls = 2` and
  limits of 1 and 2 let both requests be in front of a limit one of them meets.
  `MaxCuts = 1` is one recording that stops after zero, one or two rows. `OneSort` keeps chat and walks, which
  share no row, out of one behaviour.
- `dialects`: two calls are the least that interleave. What an upstream says is bounded
  for each route (`says`, at most `MaxSaid = 4` pieces or items): a text, a thought and two calls, or a call in three
  parts and what is said in between. `HoldCap = 4` is met by a call in text of its opener and two
  pieces. `MaxServed = 1` is a search served between two upstream calls.
- `affinity`: two configurations that differ in a group's chain and in what is listed, a time to live
  of 1 against a clock of three values, so a binding is fresh, at its limit or past it; `MaxMoves = 2` writes of
  pins or configuration, one for each of the two reads of the pin.
- `conversation`: four turns are a call, its late result, what comes between them and the cut of the oldest.
  Eight shapes of a reply, six remarks and two images meet six sorts of upstream. Settings are every effort, both spellings of a cap,
  budgets on either side of a level's and every variant of an id, as each client writes them.
- `served_tools`: twelve payloads (two tools, of which one has a cap of its own; held-back functions; forced choices;
  a choice of nothing) for three dialects and three candidates; `MaxCalls = 2` calls at once, `MaxToolCalls = 4` in a
  turn, so that a batch meets the end of a budget in its middle; `MaxTurns = 2`, as some tools outlive their turn.
- `stores`: two memory commands at a time on four paths, one inside the other. Docs live for `Ttl = 1`, fetch for
  `FetchTime = 1`, over `MaxMoment = 3` moments; the clock goes back `MaxBack = 1`. Two attempts write and prune
  captures, in both modes. Two turns attach a document of a page without a text and one with, any
  number of times, and `PageLimits = {1, 2}`: both pages are parsed, or one. Stats are one chat and one media leg, one run, at most `MaxRows = 2` rows,
  `Retain = SweepGap = 1`; the report is computed of every table of at most three rows out of twelve
  (an assumption TLC evaluates).
- `media`: ten asks over chains of one and two candidates; a cap of one is met by the other request between gate and
  count; `MaxPolls = 2` is a job seen running and then seen once more.
- `frames`: what is healed is every value with every prose before and after it, in one frame. Nine values are as JSON wants them
  (a list in an object or in a string, an escaped quote, a value that begins a line) or have a slip of their own, five are cut off; before them
  stands nothing, a line, or a list shorter or longer than the value, in a line of its own, at the beginning of a line or within one. 64 of these 227 texts are
  `Displaced`; without the exception `AnswerIsMeant` fails for each of them. The values without prose, and three texts with none or
  a bare list, are also written in up to two frames of four styles, in every cut, healed and not: twelve answers.

Symmetry is used of requests and session keys (`affinity`), slots (`counters`) and callers, finders and attempts (`stores`) that
differ in nothing, and never in a run with liveness.

`CHECK_DEADLOCK FALSE` is set because every one of these systems may stop: a request is answered, a turn
is over, the model's last moment or its last call is reached, an upstream has said all it may, a conversation or the
frames are at their end.

## 5. Fairness

- `Failover`: weak fairness of each request's own step and of the clock. A handler is a task of
  a work-conserving runtime, an attempt is bounded by its deadlines (connect,
  headers, total), and a sleep by the clock. Nothing is assumed of what an upstream answers.
- `Stream`: weak fairness of the turn's step. Every await of `stream_outcome` has a
  deadline (the stall watchdog, the re-send's deadline, the tool's), so the turn
  itself moves on whatever the upstream does. No event of the upstream is assumed to come,
  and the client is never assumed to leave.
- `Media`: weak fairness of each request's own step. Every call of an adapter and every look at a job has a timeout.
- The others claim no liveness.

## 6. What is proved

TLAPS checks these for every value of the constants, under the named assumptions of the modules, which TLC
evaluates in the runs, and in `LimitHolds` the hypothesis `LimiterAssumption`. `PROJECT.json` lists the theorems; the argument of each is here.

**Cooldowns** (`State_proofs`). `MirrorFaithful` is not inductive: it compares map
and rows, and between the two halves of a write they differ. The strengthening says of each
key that is not `stray` that one thread at most owes its row, and that the row
it owes reflects the map as it is (`MirrorInv`, `KeyInv`). The history
variable is what makes it true: an overlap or a failed write marks the key. From it follow
`MirrorIsFaithful` and `RestartIsFaithful`; `BlocksAreBounded` needs the bound on rows and
owed rows too. `LadderBacksOff` and `WaitIsExact` follow from the operators alone.

**Failover** (`Failover_proofs`). The invariant is one of each request, `Sane`:
where the position may be (`Placed`); an obstacle that a retry might clear has set
`other_failures` (`Remembers`); refusals are at most the candidates passed over in this walk, and
as many only if nothing else was met (`Counts`); what the code takes for quota is quota, and a
paid candidate is only called while nothing else was met (`Reserves`). The middle two are
why the properties hold although the code keeps no history: `HonestBadRequest` needs the
summary to be complete, `RefusalIsUnanimous` needs the count and the position
to speak of the same walk, `PaidReserveKept` needs the reading of reasons to err on one
side only. Requests share nothing but the table, and the invariant says of the table its type
alone, so one lemma per action and per request is enough (`OneMoves`).
`RewalkNotFutile` is different: it compares a timer set once with a table that goes on
changing. `MendInv` says that while the only request sleeps, some candidate's two blocks have no more left
than the sleep has; it is kept because table and timer are counted down by the same tick, and because nobody else
writes, which is why it assumes one request. With two it is false.

**Affinity** (`Failover_proofs`). `BindsOwnWin` speaks of what wins, and what can win was laid out two steps before:
`WalkIsOfChain` says of a walk that it is made of the chain of its group and of the model in front of it, and a
restart, which may change the chain, ends every walk. A binding in front is of the chain itself (`Bound`), so what is not is the
pin's, and that the pin's own wins do not bind is `Binds`. `KeepIsSeq` is what the proof needs of `retain`: a
recursive function, whose induction is on the length of the one sequence (`AllTheWay`). Assumed is that the file's chains
are sequences.

**Stream** (`Stream_proofs`). `CallInv` ties the call in flight to the budgets,
`RowInv` the rows written to the calls made, `UsageInv` every report read to one of the places
it may be (translator, tap, books), `CloseInv` the closes sent to
the flags that forbid another. `ClosesOnce` assumes that a call with reserved calls does not
finish with another reason (`"stop" \notin CallCloses`): without it the property is
false, see section 7. `AnswersAreNotRedone` says that no attempt is sent again of which the client has seen text, arguments of a call or
the beginning of an OpenAI upstream's call; an Anthropic call that is announced and no more may be (section 7). It
needs to know that what the client has seen of the call in flight is what the flags of `StreamCtx` say it has (`AnswerInv`).
`DeadCallsAreCounted` is an inequality between two counts of
which each moves in other steps than the other: `FaultInv` carries the step between them. `TurnsAreClosed` goes
through the kinds of a turn and the places where one runs out (`MarkInv`): for each, which flag or which translator
holds the close that is still owed. `NothingStaysOpen` and `ClosedStays` are of the abstract `ClientTurn`; by the
refinements `AnthropicBlocks` (proved, below) and `ResponsesItems` (checked), both hold of what the translators send.

**SlidingWindows** (`State_proofs`). What the properties say of a rolled window is not
inductive about the stored one, which may be minutes old. The invariant (`Consistent`)
says of the stored window that it holds no more than its own minute and the one before
counted (`Below`) and, while the clock goes forward, exactly that and nothing has happened since
(`Exact`); rolling and counting keep both (`RolledBelow`, `RolledExact`, `CountedBelow`,
`CountedExact`), so one lemma serves every action that touches a window
(`TouchKeeps`). `RateOvershoot` needs them at one place only, the gate, where the count compared with the
limit must be the minute's true count (`OpenLeavesRoom`).

**Counters and Limiter** (`Counters_proofs`). `WindowsCurrent` needs lemmas of the calendar (windows are
monotone and a day's is inside its month's) and that no row is of a day that is not open yet (`DaysPast`).
`ChatIsLimited` and `WalkIsLimited` are the refinements: initial states map to initial states, and each action lends,
pays, eases or does nothing to the limiter (one lemma for each action, over a lemma on what one recording
does to the open day's row, whole or broken off). A window that opens is the limiter's `Roll`; what is counted past every gate,
its `Bypass`. What a limiter is worth is one lemma on numbers and sets, `WithinKept`: the count and what is still owed stay
below the cap, the requests that may be in flight times what one of them counts, and what passed no gate. Whoever owes was let in
below the cap, and where the cap is zero nobody is. `LimitHolds` says it of every `Limiter`, `ChatOvershoot` and
`WalkOvershoot` of the rows.
`BooksAreNested` compares what all the rows of a key hold in days, in months and in total, where a recording may break off
between them. A sum of a table is stated as the size of a set of units (`Units`), so that a row that grows by a request is a set
that grows by an element, and no sum is defined by recursion. `Nested` is the invariant: the sums are finite and nest.
`BilledCallsAreCounted` says that no call that went out on a walk is missing from its provider's books but for recordings that broke off;
`Billable` adds that a walk between its record and its call is covered already.

**Media** (`Media_proofs`). `AnswerStands` reads the whole chain at the end of a request; `MediaInv` says at
every position what the failures so far allow the answer to be, and of jobs that those of candidates given up are
over, so that only the last one begun may run. That is `NoSecondJob`. Both are of one request, with the other ones
moving the blocks and counts under it.

**ServedTools** (`ServedTools_proofs`). `ToolsInv` has five parts beside the types. `Offers`: what the body offers
of reserved functions is what the declaration gave, less what is held back. `Round`: the renders of a round are the
first of its calls, in order, each with an outcome its function may have. `Spent`: what has run is what the
budget and the caps no longer hold, where the round in progress is charged only at its end. `Ends`: continuations and
what is left of the budget never exceed the budget together, and a body without budget offers no reserved function.
`LegsAsDeclared`: the models asked are those named. `CapsAreKept` follows from `Spent` and from
what `split_calls` lets through (`FirstOnes`, `FitsBound`: of a batch, at most what is left of the budget and of each
tool's cap is run, whatever the order of the calls); `TurnsAreAnswered` from `Ends`, where it matters that every
render is charged, the error results too.

`NothingIsStranded` has an invariant of its own beside `ToolsInv`, `Unstranded`: what the body declares and what is held
back are of what the client declares, each once, and the searches of a round found only what is held back. It rests on
lemmas about filters of sequences: `PickedExact` (what `Picked` takes are the entries at its places, each once), and
from it what names are left and that none is doubled in what is picked, appended, swapped, declared once or stripped
(`PickedNames`, `PickedUnique`, `ConcatNames`, `SwappedNames`, `OnceNames`, `StrippedNames`). `OfferChatNames` says what an
attempt offers, `RunFinds` what a search may name, `ContinueUnstranded` that what is found leaves what is held and joins the body. Of a client
it assumes (`ClientAssumption`) that it declares a function once and forces one it declares; its history may name
functions it no longer declares.

**Stores** (`Stores_proofs`). `AnswersAreFresh` bounds the age of what `find_docs` answers, by a clock that may have been set back.
`DocsInv` says of a row that it carries when it was said, to a fetch, and of a call at each step how old is what
it holds: what is young by the clock is young by the time, but for `back`. `ParsesInv` says of a document under way that the pages done
are told in order and, while it is complete, that some faultless parse begins so; hence what is kept is one, whoever else parses the
same bytes. `NewestAreKept` is an action property: what is removed is too old, or `MaxFiles` newer ones are there at that moment. The list of
what to remove is made earlier, and others write and prune meanwhile. `CaptureInv` says that an artifact is written once
(`Spent`), and that what a pruning has still listed may still be removed (`Doomed`): `DoomedStays` is why another's removal does not
change that, the newer ones of the removed one being newer than this one too.

`CommandsAreKept` is about interleaved steps of many commands and a disk on which the one that is not done yet already
shows. The strengthening (`MemoryInv`) has two cases. `Calm`, while no two commands under way meet but to view: the disk is what it is due to
be but for directories on the way to where a command aims, which it has made, and the one file it has emptied (`Close`), and what each
command found when it looked still stands (`Ready`): the root is there, the directories above its file are, the place a rename
goes to is free, the text it is about to write is the one its file is due to have. `Loose`, once they met: the
disk may differ from what is due only where a race reaches, and the root is such a place. What another's step may change is its
zone, the paths below its aims (`Zone`), or a directory above that was not there; `Apart` and `Undisturbed` say that neither is
where a calm command has looked, so one lemma (`ReadyKept`) keeps what each has found through all steps of the others. `AnswerCalm`
and `AnswerLoose` close a command; what is left is to show, for each kind, that its last step does to the disk what `Done` does to
`ideal`. An edit's text is `OneHit`: the search from left to right that steps over what it found ends after one hit just where all
places there are overlap the first. Assumed are a tree of paths closed under what is above (`MemoryAssumption`) and a directory that is a
tree at first (`TreesAssumption`): what is there is in a directory.

**Dialects** (`Dialects_proofs`). `BlocksAreInOrder` is the refinement of `ClientTurn` by everything between an upstream's
events and what an Anthropic client makes of the last one: filter or translator of the upstream, relay, translator of the client.
Each of them is a fold over sequences of any length, so the proof has its own principle of recursion (`Recursion`: a function
unfolded from 0 stays in the sets its step keeps) and one lemma of each fold. What a list of events may do to a client is
`Leads`: there is a path of what the client knows, from one stage to the other, of which every event is allowed where it
comes. Paths are joined (`LeadsOn`) and read from the front (`LeadsHead`). On the client's side, an event that is allowed makes an action
of `ClientTurn` (`AnthropicReads`). On the translator's, its state says what the client will know when all it wrote is read:
`Dense(M, O)`, the blocks 0 to M - 1 of which those in O are open, O being the text or thought block and the blocks of the calls
(`AState`); each chunk leads from there to where it leaves the state (`AOnGoes`, over `ATextOK`, `AToolOK`, `AServedOK`, `AFinishOK`). The
end is once: the relay passes `[DONE]` on once and nothing behind it (`ARelayedOK`), if it is the last of what the
upstream's side makes and comes only of its last event, with the filter's buffer let out before it (`Tells`, `Adapts`,
`Drained`; `ThinkPushOK`, `CallPushOK`, `GOnOK` for the two filters and the Responses upstream). `BlocksInv` puts it together:
from what the client has read, what is on its way leads to the translator's state.

Proved and checked by no run, because the operators or the argument are all there is to them: `BlocksBounded`,
`WaitExact`, `LadderDoubles`, `BudgetKept`, `NoPhantoms`, `ClosedOnce`, `OneRowPerCall`, `RateOvershoot`, `BilledIsCounted`, and the bounds of `Limiter`
carried to the rows.

**Only model-checked**, and why:

- `Answered`, `TurnEnds`, `MediaEnds`: liveness under fairness.
- `ResponsesItems`, `ContentArrives`, `CallsAgree` and `BodyIsStream` of `Dialects`: what a Responses client is sent needs the
  translator's items as an invariant of their own; the other three compare all that was read with all that was sent, which is
  induction over the stream.
- The properties of `Conversation` and `Frames`: `Settings` and `Frames` use RECURSIVE operators, and what a translator makes of a
  whole history needs induction over it.
- `ReportsStand`: names, sums and percentiles are folds and filters (`SelectSeq`) of sequences, of which
  nothing can be proved for every sequence without the library's induction theorems.
- `WalksWhatWasListed`: what every spelling of every entry of a configuration leads to is a computation on
  data.

## 7. Where the code disagrees with itself

Each is an entry under `findings` of `PROJECT.json`, with the line it contradicts quoted. They were met while
translating; none has a run, and where a property would be broken by one, the property names the case and leaves it out.
Six claims of the code are kept as definitions beside the properties, so that the difference can be
read: `DeadKeyNotRefired`, `QuotaBlockHolds`, `OverloadedIsRetryable` (`Failover`), `NothingFollowsClose` and `NothingToldTwice` (`Stream`),
and `RestartForgetsNothing` (`Cooldowns`).

- `capture.rs:129`: prune looks at names that end in .json only, so the .pxy-tmp file of a write a crash cut short
  stays for ever.
- `docs.rs:39`: pick_library takes Context7's first entry.
- `media/audio.rs:277`: attempt_speech counts the characters and clears the blocks of the provider before it looks at
  the body, which may hold no sound at all (Reads in Media).
- `media/mod.rs:200`: a candidate that preflight stops leaves pxy's own 429 as the answer even when an earlier one was
  asked and failed, so the client of a chain of two reads "cooling down" and not the failure.
- `media/mod.rs:320`: A media leg's row is dated by the end of the leg (MediaLegEnds in Stats).
- `memory.rs:153`: delete compares the path as it is spelled with /memories, so "/memories/" removes the whole store
  (IsRoot in Memory).
- `router.rs:231`: The chain is ranked before expand_accounts, so remaining_headroom asks for the usage of the bare
  provider name, where a provider with accounts has none, and always ranks it untouched.
- `router.rs:360`: A listed id that ends in a level is stripped when the id without it is listed too ("q" beside
  "q-max", a group "g" beside "g-max"), and the longer one cannot be asked for.
- `router.rs:378`: resolves_id asks is_listed of the spelling as it came, so a level on a mirrored or marked id
  ("claude/zai/glm-high", "zai/glm[1m]-high") is not stripped, and resolve() makes up a model of that name and sends
  it upstream.
- `router.rs:514`: parse_file_parts replaces parts of type "file" only and runs (router.rs:673) before
  anthropic_to_openai.rs:221-245 makes an Anthropic `document` block a "file", so a PDF of an Anthropic client is
  never parsed and a chat upstream is sent the raw file (AsItIs in Parses). README.md:168-170: "Attach a PDF - a chat
  `file` part, an Anthropic `document` block, a Responses `input_file` item - and pxy parses it before it picks a
  model, so the document reaches every model as text".
- `router.rs:544`: The key of a kept parse is the hash of the bytes alone, while what is kept depends on the engine
  the first client asked for and on whether there was an ocr_model: a later turn that asks for `ocr`, or one after an
  ocr_model was configured, is told the earlier text (KeepsFaultless in Parses quantifies over both).
- `router.rs:705`: The pin is read at 705-710 for the binding and again in resolve_candidates (241-245) for the walk.
  A `pxy route` between the two reads lets a win of the pinned model bind the session.
- `router.rs:941`: A candidate passed over because the token estimate exceeds its window sets neither ctx_too_small
  nor other_failures, so a chain ruled out by the estimate alone ends in a 429 overloaded_error.
- `router.rs:1298`: is_quota_failure reads a cooldown's reason text, and several texts pxy itself writes for quota
  ("429 credits reported exhausted", "x-quota-5h at 100%", "free allowance spent", "total request budget exhausted")
  hold no window word, so a free-first chain holds its paid step although every obstacle was quota.
- `router.rs:1849`: drop_params of a Responses upstream is applied to the chat body, before the translation to
  Responses, so keys the translation adds or renames (store, max_output_tokens, reasoning, text) cannot be dropped.
- `router.rs:1937`: clear_cooldown runs for every success status, so a request that was in flight when another one's
  headers reported the allowance spent lifts the provider-wide block, and its own headers need not carry the report
  again.
- `router.rs:2303`: The cooldown of an error rule is keyed by cand.provider while every reader uses state_provider(),
  so on a provider with several accounts it blocks nothing. config.example.toml:321: "also sets a model-scoped
  retryable cooldown".
- `router.rs:2354`: A 401 is cooled for the ladder's 3 s with retryable = false. recovery_wait ignores it, but another
  candidate's retryable wait of more than 3 s makes the same request walk again after the dead key's entry expired,
  and the key is called once more.
- `router.rs:2515`: record_allowances cools for the free window and then for the plan window, each setting the block
  anew: a plan window that names no reset (an hour) replaces a free window's block of days (Reported in Failover).
- `router.rs:2921`: A batch whose only calls are reserved names the turn does not offer is dropped by split_calls
  after rewrite_chunk_server_calls has withheld the call and its finish reason: the turn is closed with nothing in it
  (Close in ServedTools).
- `router.rs:2972`: commit charges the turn budget for every render, the error results of calls over the budget and of
  calls never run included; that the loop ends depends on it (TurnAnswered fails when runs alone are charged).
- `router.rs:3259`: Only finish_reason tool_calls is nulled when reserved calls are queued. A call that finishes with
  another reason (length) closes the client's turn and the continuation's answer follows it.
- `router.rs:3511`: For an Anthropic upstream pxy:* tools are dropped from tools after the choice is copied and
  settle_tool_choice is not run, so tool_choice may name a tool that is gone, or stand with no tools at all.
- `router.rs:3568`: rewrite_chunk_tools numbers a call by filter.calls - 1 after the whole chunk was pushed, so two
  text calls completed by one chunk both get the last one's index and id and reach the client as one call with two
  names.
- `router.rs:3762`: Both filters let out what they hold at [DONE], after the finish reason: a client of the Responses
  API whose usage came before reads deltas after response.completed.
- `router.rs:3911`: The assistant message of a continuation carries tool_calls and content null, no reasoning_content;
  backfill_openai_reasoning runs on the first body only (router.rs:1573-1578), so a provider that requires its
  reasoning back refuses every continuation of a served call.
- `router.rs:3911`: When the turn budget is spent the reserved functions are taken out of the body, but a model that
  calls one again is told its call was over budget, and the call is replayed to a body that no longer declares it.
- `router.rs:3983`: The continuation banks and empties the translator's usage but leaves StreamCtx.usage, so a client
  that leaves before the next chunk has the first call's tokens recorded twice; resend() banks the dead attempt's
  usage nowhere, although Leg's doc (router.rs:4598-4602) says a leg is written where its tokens are banked.
- `router.rs:4052`: resend() knows a closed turn by client_done only, which process() never sets for AnthropicPass and
  ToAnthropic. A turn that the upstream closed after reasoning alone is sent again: a verbatim client gets a second
  message after message_stop, and a translated one is billed for a call whose bytes are swallowed.
- `router.rs:4107`: resend() writes the dead attempt's row with the usage StreamCtx holds, keeps that usage and does
  not bank it: the row tells tokens no quota window counts, and the next row may tell them again.
- `router.rs:4118`: upstream_closed reads client_done, which is never set for AnthropicPass and ToAnthropic, so the
  rows of turns those upstreams ended cleanly say truncated or dead.
- `router.rs:4139`: For an OpenAI client only the tool-text filter is flushed at an abrupt end; what the think filter
  holds back is dropped (Unflushed in ContentArrives).
- `router.rs:4169`: A verbatim Anthropic stream that stalls or breaks is ended with no message_stop.
- `router.rs:4269`: Of an Anthropic upstream stream_event_output counts content_block_delta alone, so a turn that
  thought, had the start of a tool_use block relayed and died is sent again, and the client is told of two calls
  (NothingToldTwice). The state of openai_to_anthropic.rs outlives the re-send, where a block finds the first entry of its index:
  the second attempt's arguments go to the first attempt's call. router.rs:4255: "True when this event carries the
  turn's ANSWER: text, or a tool call."
- `router.rs:4484`: Stalls and transport errors inside the router's stream end in Ok(tail) with a synthesized `stop`,
  so the wrappers of /v1/responses and /v3/ai/language-model never see an Err and state.fail() never runs: a truncated
  turn is told as completed.
- `state.rs:702`: set_cooldown drops the map's lock before it takes the db's, so two failures of one key can write
  their rows in the other order: the row keeps the shorter, older block and a later restart forgets the one the map
  held.
- `translate/anthropic_sanitize.rs:55`: The cache marker of a dropped block is moved onto the block kept before it, a
  signed thinking block included.
- `translate/anthropic_sanitize.rs:162`: A tool_result without its call is rewritten as text without the cache_control
  it carried.
- `translate/anthropic_sanitize.rs:206`: trim_trailing_assistant runs after strip_invalid_blocks, so a last assistant
  text of white space alone becomes an empty text block that nothing removes any more.
- `translate/anthropic_to_openai.rs:432`: A content_filter ends a turn as end_turn for an Anthropic client, and a
  response cut by its content filter ends as stop (responses_upstream.rs:262), so a refused turn reads as a complete
  one (AReason and GReason in Translators). openai_to_anthropic.rs:299: "A refused turn must not read as a normal short answer".
- `translate/heal.rs:57`: A run of the prose that opens a line and is longer than the answer is served instead of it,
  and so is a longer list in front of an answer that shares its line; a bracket that opens a line inside an answer
  that does not, as in "Here: {" with its members on lines of their own, outranks the whole (Displaced in Frames).
  heal.rs:32-33: "a long list in mid-sentence prose never displaces a short value"; the test at heal.rs:290 is named
  a_line_opening_run_in_the_prose_never_beats_the_real_value.
- `translate/heal.rs:60`: Of a value that no closers make JSON, a container inside it or a list in the prose is served
  if it parses: `{"a": [1], "b` is healed to `[1]` (Displaced in Frames). heal.rs:9-12: "a body no closer set rescues
  (a `max_tokens` truncation mid-token, say) reaches the client exactly as the upstream sent it".
- `translate/responses.rs:92`: A reply item that follows a call of the same turn, when that turn already has text,
  flushes the assistant message that holds the call; the result of the call then follows another assistant message,
  which chat upstreams refuse (Split in Conversation).
- `translate/responses.rs:606`: The usage a call reported before a served search stays in chat_usage, so the finish
  reason of the continuation completes the response at once, with the usage of the first call, and the trailing usage
  chunk of the second is not waited for.
- `translate/responses.rs:731`: text_delta and reasoning_delta go on adding to an item that close_message or
  close_reasoning has closed: after a tool call or a served search, more text comes as deltas onto an item whose
  output_item.done is already out, and is in no done item nor in the output of response.completed.
- `translate/server_tools.rs:88`: serve_calls answers a call its executor refuses with an error result and replays it.
- `translate/server_tools.rs:1680`: A declaration with an empty model hides the model the call names: or_else is not
  tried on Some(""), and filter then falls back to the client's.
- `translate/think.rs:107`: extract takes a text with tags but no thought between them for one without tags and
  extract_think_from_response leaves the content as it was: `<think></think>hi` keeps its tags in a whole reply and
  loses them in a stream (TwoReadings in Dialects).
- `translate/tool_text.rs:230`: a call found in the text of a whole reply sets finish_reason to tool_calls even when
  the upstream cut the turn off with length or content_filter; the same turn streamed keeps the reason, as only stop
  is rewritten there (TwoReadings in Dialects).
- `translate/web_search.rs:60`: The id of the block is the upstream call's own (ctx.call_id), never srvtoolu_.

## 8. What is not modelled

- Two clocks: the map's deadlines are `Instant`s and the rows' are epoch milliseconds. The models
  have one clock; a suspended machine or a stepped wall clock is outside them, but for
  `SlidingWindows`, `Affinity` and `Stores`, which set the wall clock back. In `Counters` it goes forward.
- Texts: JSON, headers and wording, where no property is about them. How a reason
  text is read back is about one, and is modelled (`Causes`); so are tags split over pieces (`TextFilters`) and
  broken JSON (`Frames`).
- What sliding windows say to the walk (`Gates` is a choice), what an upstream says (a
  choice restricted by its protocol, section 3), how full an allowance is when a chain is ranked.
- Of the stream: one reply collected from an Anthropic upstream, both text filters at once, a filter with a served
  search, a re-send (its translator keeps its state over it, see router.rs:4269 in section 7). A call with an id and no name, an upstream that repeats all
  arguments to a client other than Anthropic's are outside the routes: what the code does with them is
  not told by any protocol.
- Of ids: a group with the name of a model of provider `claude`, `auto/free[1m]`, pins of groups that
  have left the file; `resolve_chain`, which media commands use.
- Of media: units, rows, the layout of bodies, how a chain is listed. Of voyage's rankings and vercel's systemone,
  a body of another shape is rewritten to an empty result (`PassedOn` tells only that it is not walked past).
- Of frames: the bound on candidates for healing, the escapes of JSON other than of a quote and a backslash, data of several
  lines, bytes that are no UTF-8.
- Of the stores: names and links in the memory directory, how it is listed and where a view is cut, masking in captures, how
  Context7's answers, a provider's model list and the bytes of a document are parsed.
- Of served tools: the texts of the executors that ask no model of the chain (`Informs` and `Other` in `ToolRuns`).
- Configuration, secrets, launcher, diagnostics, and the command line's media helpers keep no state that
  outlives a call; they enter as constants. Of the server, the ends of streams are in `Dialects` and the rest is I/O.
