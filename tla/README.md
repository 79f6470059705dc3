# A formal model of PTK

PTK ("proxy token killer") shortens what a coding agent reads. A CLI (`src/src`) runs
commands and filters their output, hooks into the agent, and leaves what it elided in
files and tables from which it can be recalled; a long-running daemon (`src/proxy`,
`ptk llm-proxy`) sits between the agent and the LLM provider, rewrites requests to
save tokens, and accounts for what was saved. This directory specifies in TLA+ the
parts where the hard behaviour is: the daemon's request path, and what the
CLI's many short-lived processes do to the state they share. The modules are
model-checked with TLC on small instances, and their safety properties proved with TLAPS for
every value of the constants.

Paths below are relative to `src/`; those of the CLI begin with `src/`, those of the daemon with
`proxy/`. Comments in the modules name CLI files by their last
part. `PROJECT.json` holds the definition-to-line map.

| module | models | checked by | proved in |
|---|---|---|---|
| `PinRegistry` | the in-memory tally that pins blocks the model keeps asking back | `stores` | `SharedStateProof` |
| `ProxySettings` | the `ccr` setting: live flag, database row, boot gate | `ccr_pair`, `settings_race`, `ccr_precedence` | `SharedStateProof` |
| `Relay` | the single-shot relay: attempts, streams, disconnects, the usage row, the lent credential | `stores`, `processes`, `relay_break` | `RelayProof` |
| `Exchange` | abstract: one answer and at most one row per exchange | implemented by `Relay` in run `processes` | `RelayProof` |
| `CcrProxy` | requests of concurrent clients through the daemon, with sweeps, hang-ups and restarts; composes `PinRegistry` and `ProxySettings` | `ccr_pair`, `ccr_loop`, `ccr_leak`, `ccr_usage`, `ccr_scope`, `ccr_pins` | `CcrProxyProof` |
| `TeeFiles` | recovery logs written and rotated by concurrent processes | `stores` | `TeeFilesProof` |
| `RecallStore` | the recall table: store, retention, eviction, the posthook trim | `stores`, `recall_families` | `RecallProof` |
| `RecallStats` | recall marks and counters, resets | `stores` | `RecallProof` |
| `HookGate` | what a hook decides about a shell command | `stores` | `ApprovalProof` |
| `Pipelines` | installing, trying, promoting and publishing a shared pipeline | `stores` | `ApprovalProof` |
| `TrustStore` | reviewing project files, and loading only what was reviewed | `stores` | `ApprovalProof` |
| `Installer` | the agent's settings file under init, migration and uninstall | `stores` | `InstallerProof` |
| `ChildRun` | a command's run: pipes, the signal relay, its watchers | `processes` | `ProcessesProof` |
| `Starts` | agents, commands and hooks that bring the daemon up | `processes` | `ProcessesProof` |

`MCCcrProxy`, `MCStores` and `MCProcesses` instantiate them for TLC.

## 1. The system

### How a request flows

`server.rs handle` buffers the body, remembers the client's credential
(`relayed_auth.rs`), and calls `forward.rs apply`, which runs the request
transforms in order: ingest filter, cache alignment, normalisation, engine
methods, pixel compression, and CCR (compress and retrieve) last. CCR replaces
large blocks of the history by markers that name an id, stores the originals in the
ICM memory under `ccr/<session>/<id>`, and injects a tool `ptk_retrieve`.
`handle` then chooses: a body that carries a marker and the tool goes to the
retrieve loop (`ccr_forward.rs execute`), which answers retrieve calls itself and
re-calls upstream; everything else goes to the single-shot relay (`forward.rs
relay`), which retries and streams. Either way a usage row is spawned
(`server.rs record_usage`).

Handlers run concurrently on a multi-threaded runtime and share: the runtime
flag (an atomic), the pin registry (a static mutex, locked per lookup), the ICM
store (a mutex plus a SQLite file), the usage store (one SQLite connection
behind a mutex) and the remembered credential.

### Inventory

For each component: the state it keeps, its operations, what is hard about it,
what makes it correct. `PROJECT.json` lists the same parts with their status.

**Pin registry** (`proxy/src/pipeline/ccr/mod.rs:188-330`). State: session → id →
u32 count, process-wide. Operations: `note_retrieve`, `is_pinned`. Hard: two
caps that refuse newcomers but not known ids; a saturating counter; state lost at a
restart while sessions go on. Correct: caps never exceeded, pins are sticky.

**Runtime settings** (`settings.rs`, `server.rs put_settings`, `lib.rs
AppState::new`). State: boot gate, live flag, `app_settings` row. Operations:
boot, `PUT /admin/settings`. Hard: flag and row are written on either side of an
await. Correct: no setting exceeds the gate; the flag survives a restart.

**CCR stage and retrieve loop** (`pipeline/ccr/*`, `ccr_forward.rs`). State: cache
topics, decision log, and the locals of each handler (markers, round, last
response, prior usage). Operations: compress a block, record decisions, store
entries, post, resolve a call, bump the log, finalize. Hard: every await lets
other requests, the sweep or a restart in; four different exits of the loop; one
flag read twice; one namespace computed twice. Correct: retrieve calls do not
reach the client, a lookup that misses neither counts nor keeps the request going,
usage is exact, pinned blocks stay verbatim.

**Plain relay** (`forward.rs relay, send_with_retry, tee`). State: attempts, a body
stream, a one-shot for the token counts. Hard: retries of billed calls,
mid-stream failure, a client that leaves. Correct: at most one usage row per
request, after the answer, with what was charged.

**Usage store** (`store.rs`). Append-only rows, decision log, settings. Writes
are spawned and errors are dropped. **ICM memory** (`memory.rs`): an external
store on disk with exact-topic put/get and an expiry sweep, at boot and daily, over a
connection of its own. **Relayed credentials** (`relayed_auth.rs`): one
last-writer-wins cell lent to requests without a credential. **Other request
transforms** (`pipeline/*.rs`): pure body rewrites. **Configuration and service**
(`config.rs`, `main.rs`, `service/`): boot-time only.

**Daemon lifecycle** (`src/llm_proxy.rs`, `src/hooks/session_start.rs`). State:
the port, the daemons, each launcher's deadline. Operations: probe, spawn, wait, give up,
bind or exit, stop, choose the agent's base URL. Hard: starters race, daemons die at any
point, the port may be a stranger's. Correct: an agent is routed to the proxy
only if one served, and a launch always ends.

**Tee files** (`src/core/tee_file.rs`, `tee.rs`). State: a directory of logs named by
time and slug. Operations: name, create, write, list, remove the oldest, print the path.
Hard: concurrent processes rotate from stale listings. Correct: the newest logs stay,
posthook logs are not overwritten, a rotation meets the budget.

**Recall store** (`src/core/retriever.rs`, `tee.rs`). State: a SQLite table
of elided outputs and a table of counters. Operations: upsert, expire, count, evict, trim, mark
as recalled, count elisions and recalls, reset. Hard: each statement is a transaction of its
own. Correct: the hash printed resolves, eviction meets the budget and takes the
oldest, recall rates are shares.

**Trust store and hook integrity** (`src/hooks/trust.rs`, `integrity.rs`). State: a
JSON file that maps a path to the hash of its reviewed content. Operations: load, trust,
untrust. Hard: an unlocked file rewritten in place, contents that change
between review, trust and load. Correct: only reviewed bytes are loaded. The sidecar
hash of `integrity.rs` is only verified, for the hook script of an older PTK; nothing
writes it any more.

**Pipeline configuration and sharing** (`src/core/pipeline_*.rs`). State: a live
and a shadow file, the evaluation candidate, the install ledger. Operations: add, promote,
discard, eval, publish. Hard: four unlocked files, one of them
rewritten in place, and a user to be asked between read and write. Correct: nothing
goes live unseen, records survive each other.

**Permission decisions** (`src/hooks/permissions*.rs`, `decision.rs`). State: settings files,
read one after the other. Operations: load, judge, rewrite or not, hand the approval over. Hard:
precedence over chains, prefixes and wrapped scripts; unreadable files. Correct: an
approval is earned by every segment.

**Installer** (`src/hooks/init/`). State: the agent's settings file, the script
of an older PTK. Operations: migrate, patch, on-ramp, uninstall. Hard: read,
ask, rename over a file the user edits. Correct: the user's entries are theirs, PTK's are
there once or not at all.

**Command runner** (`src/core/stream.rs`, `runner.rs`). State: three atomics
shared by signal handler, watchers and main thread; the child; signal
dispositions. Operations: spawn, relay, read, wait, escalate, restore, die. Hard:
stubborn children, pipes held by others, a second signal, inherited `SIG_IGN`. Correct: no
signal is swallowed, and a relayed one ends the run.

**Agent hooks, output filters, filter engine, tracking and telemetry, analytics,
plugins**: sequential text or config processing, one process per call; see section 7.

## 2. The plan

In order of what matters to the running system:

1. `PinRegistry`, `ProxySettings`, `CcrProxy`: done, with their proofs.
2. `Relay` and the abstract `Exchange` it implements: done, with their proofs.
3. `RecallStore`, `RecallStats` and `TeeFiles`, CLI processes as actors whose steps are the
   autocommitted statements and system calls: done, with their proofs.
4. `HookGate`: done, with its proofs.
5. The other shared files, `TrustStore`, `Pipelines` and `Installer`: done, with their proofs. A common
   `JsonLedger` for the first two was dropped: they share the unlocked rewrite, but
   what is at stake differs.
6. `Starts` and `ChildRun`: done, their safety proved, their liveness checked.
7. Open: `Exchange` implemented by `CcrProxy` too, by splitting the usage row off
   the handler there and replacing its one-step relay by `Relay`'s, so that the
   loop's fallback is covered (`post_once` neither retries nor lends, the relay does
   both).

## 3. The modules

### PinRegistry

`pins[<<s, i>>]` stands for the nested maps: an entry is created with count 1, so
0 is "no entry". `Noted` is `PinRegistry::note_retrieve` with both caps and
`saturating_add`; `IsPinned` is `is_pinned_at`; `ForgetPins` is process exit.
`MaxCount` stands for `u32::MAX`. `forget_session` has no caller outside tests
and is left out. A session entry without an id cannot arise because
`MAX_PINNED_IDS_PER_SESSION` is positive (`PinAssumption`).

### ProxySettings

`SetFlag` is `put_settings` up to its first await (it stores `v && gate`),
`Persist` what follows (it writes the *raw* value, or the write fails and is only
logged), `Reboot` a crash or shutdown followed by `AppState::new`, which
resolves `effective_ccr(gate, row)`. `GateChoices` is what config and pipeline
rules may resolve to at a boot, and may differ from boot to boot.

### CcrProxy

One record per handler slot, `rq[r]`. Its `pc` names where the handler is suspended:

| `pc` | action | code |
|---|---|---|
| none, done | `Arrive` | `handle` entered with a new body |
| ccr | `CcrStage` | `CcrTransform::on_request` reads flag and store |
| scan | `CompressBlock` | one block: `is_pinned`, then marker or verbatim |
| decisions | `RecordDecisions` | `record_decisions`, INSERT OR IGNORE per row |
| store | `StoreEntry` | one `put_exact` of `store_entries` |
| dispatch | `Dispatch` | `handle` reads the flag again and chooses the path |
| relay | `Relay` | the single-shot relay, answer included |
| round | `PostAnswers`, `PostFails` | top of the loop and `post_once` |
| resolve | `Resolve` | `resolve_one`: lookup, tally |
| bump | `BumpRetrieve` | `bump_retrieve`, with `pinned` computed before the await |

`HangUp` (the server drops the handler of a connection that is gone; work a
blocking thread has begun completes, which is the step followed by the hang-up),
`Expire` (the sweep at boot and daily), `ChangeSetting` and `Restart` (crash or graceful
shutdown at any point) interleave everywhere.

Abstractions of `CcrProxy`, and why they are faithful:

- A body is a record of what CCR looks at: namespace, compressible blocks,
  blocks in the first user message, whether it quotes a marker. Text is
  a model value.
- Blocks are scanned and stored in any order. The code goes front to back; the
  model allows more orders, never fewer.
- Lookup and tally are one action: after the lookup's await they run without
  another, and the lookup of a held topic commutes with other handlers' steps.
- The sweep may delete any row at any time, what a running request has just stored
  included: the age it allows may be one second (`config.rs:142`). So nothing says that a
  marker resolves to the loop that sent it; the code does not promise it either.
- Google bodies and bodies that are not JSON take the relay untouched, like a
  request with the flag off.
- The decision log is written only: as in the code, no action reads the column `pinned`
  back (see `ccr_pins` in section 6).
- A usage block bills 1 unit; only sums are compared. A body is offered to the
  model with the tool or without; without it the model calls no `ptk_retrieve`.
- Ghosts: `late` (pinned when the request arrived), `billed`, `cut`.
- The SQLite settings store is assumed to open; the ICM store may not
  (`MemoryChoices`).

### Relay and Exchange

A slot holds one exchange and what it leaves behind: the task that writes the
usage row outlives the handler (`task`), and the slot is not reused before that
task is over. `pc` follows `relay`: `send` (build the request, look up the
credential to lend) → `await` → `Answers` or `SendFails`, which retry transient
statuses, timeouts and refused connections through `BackOff` while attempts
remain → `buffer` or `stream`. A stream's handler has returned by then;
`StreamReports`, `StreamEnds` and `StreamBreaks` are the body generator.
`Record` is `Store::record`, which may be refused by SQLite.

`StreamBreaks` rests on one fact about the server library: a response body that
yields an error is dropped and its connection aborted, it is not polled again.
The generator sends its outcome after the yield, so the channel closes empty.

Abstractions: one provider, hence one credential cell (in the code OpenAI and Google
requests share one); usage is the number of reports seen, since `merge` keeps
the latest value of cumulative counters; error statuses charge nothing
(`server.rs:384-386`); a 502 of the proxy's own is class `unanswered` after a timeout or a
refused connection, which a retry may cure, and `failed` otherwise; the store
is open. `charged` and `whole` are ghosts.

`Exchange` says what a client and the ledger may rely on: an exchange is
answered or left, never both, and its row is written at most once, after
the answer. The refinement maps the five open states to `open`, `done` to
`answered`, `gone` and `broken` to `left`.

### TeeFiles

| action | code |
|---|---|
| `Begin` | `write_tee_file` or `posthook_tee_hint` makes the name from clock and slug |
| `Open`, `Write` | `write_named_tee_file`: open with create and truncate, write |
| `List`, `Remove` | `cleanup_old_files`: list and sort, then one `remove_file` at a time |
| `Hint` | the path is printed |
| `GiveUp` | a failed open or write, or a signal |

Names sort by time first, so a name is its place in that order, `tick * Tags + tag`;
the tag is the slug, and in the posthook directory the process. Posthook logs live in a
subdirectory that is rotated by itself; `site` says which of the two
a behaviour is about. `written`, `author` and `since` are ghosts.

### RecallStore and RecallStats

`Store` makes and stamps the row, `Insert` is the upsert, `Expire`, `Count` and `Shrink` are
the three statements of `evict`, `Trim` is `trim_family`, `PrintHint` prints the hash. Only the order
of rowids matters, so `rowid` is a rank: an insertion takes the next one, a deletion closes
the ranks. A statement that fails after the insert is ignored, as in the
code; `GiveUpStore` is the failed insert, or a signal anywhere. `drift` and `taken` are ghosts: what others
did since the process counted, and whether they deleted its row.

`RecallStats` models the column `recalled` and the counters: `RowInserted`,
`ElisionCounted` or `ElisionLost`; `RecallBegins`, `Mark`, `RecallCounted`; `ResetStats`, which is the one
real transaction. Which rows are evicted is `RecallStore`'s business; here any may be, at any
time (`Evicted`). `unbooked` is a ghost: elisions on no book.

### HookGate

`Load` reads one settings file and adds its rules, `Judge` is
`check_command_with_rules_and_prefixes`, `Decide` the gates of `decide_with_params`, identity
suppression and `ApprovalOwner::apply`; the user may `Edit` any file between two loads.
A *reading* is one way to read a segment: as written, without its
prefixes, or what a wrapped script would run. A rule is the set of readings it
matches, so that how commands are split, peeled and matched against patterns is data, and every outcome of
it is a value of `Commands` and `Contents`. An unreadable file adds the rule "ask
about everything": this is the loader of Claude's settings. The loaders of the other agents differ
(Gemini's skips a project file it cannot parse, `permissions.rs:424-441`) and are not modelled. `seen` is a ghost: the files as they were read.

### Pipelines, TrustStore, Installer

All three read a file, perhaps ask the user, and write the result, without a lock.
The first two write in place: a truncation and a write are two steps, a
file in between does not parse and is read as empty, and a write over another's may
leave garbage. The last renames a complete file.

`Pipelines`: `AddShows` (fetch, validate, show the rules), `AddReview` (the change against
the live text), `AddLive` or `AddShadow` with `AddArms`, then the ledger's
`LedgerRead`, `LedgerTruncated`, `LedgerWritten`. `PromoteShows` and `PromoteMoves` are apart because
the shadow file is renamed, whatever it holds by then. `EvalStarts`, `EvalStops`,
`Discard` with `Disarms`, `Publish` (a gist) and the user's own `Place`. The pipeline
and evaluation files are small and are written at once.

`TrustStore`: `LoadReads` and `LoadChecks` are `check_trust_with_content` (the bytes are read once and
hashed; the store is read afterwards). `TrustReads` shows the content, `TrustAlready` reads
the file again, `TrustConfirmed` is the user's yes, `StoreRead`, `StoreTruncated` and
`StoreWritten` are `read_store` and `write_store`. `run_trust` visits several paths one after
the other; each is a visit of its own. A content stands for its hash.

`Installer`: `settings` keeps the hook groups, each with event, matcher and hooks, and the
base URL. The groups of an event are an array in the file; the code searches and filters it and
appends to it, and no decision depends on the order, so a group has a place and no neighbours (`Pushed`). `Migrate`, `LegacyReads`/`LegacyWrites`, `PatchReads`/`PatchWrites` and
`OnrampReads`/`OnrampWrites` are the up to three rewrites of one `init -g`; the reads and
writes are apart because a prompt may lie between them. `UninstallReads`/`UninstallWrites` are
`--uninstall`. `UserSaves` is anybody's edit. The script of an
older PTK is assumed to lie in the same configuration directory as the settings.

The ghosts `calm` (trust store), `whole` (ledger), `kept` and `cut` (settings), and `taken` in `RecallStore`, say
what the properties exempt: a write that overlapped another or a crash, a save lost between read
and write, an interruption between script and entry, a row that another process evicted. In these cases
the code may lose what was written, so the exempted races are exactly those that no property here would
catch; a property claims everything outside them. `shown` in `Pipelines` collects what *any* `add`
has shown, so `NothingGoesLiveUnseen` checks the review of `add`, not that `promote` moves the
text of its own prompt (section 6).

### ChildRun and Starts

`ChildRun` is `run_streaming` step by step: `Spawn`, `Install` (the atomics), `Handle` (one
`signal` call each, `PutBack` for an inherited `SIG_IGN`), `Watch`, the ends of
reading, `Wait`, `Report`, `Drop`, `Restore`, `Guarded` (the guard that reaps the child),
`PrintOut`, `Die`. A process may run several commands. `Signal` is a delivery
together with the handler, which runs to its end; `Poll`, `KillChild` and
`GiveUpRun` are a watcher. The child ends when it likes, and another process (`heir`) may
hold its pipes longer. `heard` and `failed` are ghosts.

`Starts`: `Launch`, `Probe`, `SpawnDaemon` or `SpawnStart` (the hook starts `ptk llm-proxy start`),
`Answered`, `Deadline`, `Finish` with `Plan` (`launch_plan`); a daemon's `Bind`, `Stops`, `DaemonDies`. The
port is free, a daemon's or a stranger's. `served` is a ghost. An inherited base URL is `proxy` only if
it is the string the proxy uses; another spelling of the same address (`localhost`) is `other`, as in
the code, and `RoutesAreEarned` says nothing of it.

## 4. The runs

| run | instance | shows |
|---|---|---|
| `ccr_pair` | 2 slots, 1 block, 2 namespaces, 2 rounds of 1 call, 1 admin, restarts into either gate, with and without memory | the concurrent properties below |
| `ccr_loop` | 1 slot, 2 blocks, 3 rounds of up to 2 calls, registry with room for one block | the loop's exits, accounting, termination |
| `relay_break` | 1 exchange | violation, see section 6 |
| `settings_race`, `ccr_precedence` | 2 admins; 1 admin | violations, see section 6 |
| `ccr_leak`, `ccr_usage`, `ccr_scope`, `ccr_pins` | 1 slot | violations, see section 6 |
| `stores` | 2 actors in each part, see below | the CLI's files and tables, the gate, the registry alone, the relay |
| `processes` | 2 runs of commands and 2 signals; 2 launchers; 2 exchanges | signals, launches, and that exchanges implement `Exchange` and settle |
| `recall_families` | 1 process, room for 2 rows | violation, see section 6 |

Properties of `ccr_pair`: `PinnedBlocksStayVerbatim` (a block pinned before a request arrived is not compressed by it, whatever
is retrieved meanwhile), `NoCcrAgainstTheGate` (CCR neither starts nor continues
against the boot gate or without a store, the second flag read included),
`SettingSurvivesRestart` (holds with one admin), `PinnedRowsAreSticky` (updates of the
log land in any order and none unpins a row), and `PinSpec`: the daemon is an
implementation of the registry's own specification. `ccr_loop`:
`LoopAnswersAreClean` (no exit of the loop hands out a retrieve call),
`UsageIsBooked` (the row is exact unless upstream was lost midway, and never
short), `OnlyCachedBlocksAreTallied` (made-up ids and misses consume no registry
capacity, the sweep's doing included), `EveryRequestEnds`.

`stores` (about 1.16 million distinct states) checks nine modules in one run. They have no state in common,
so every behaviour is one of a single `part` while the others rest, and a conjunction of
their invariants is what nine runs would check.

- tee: `NewestLogsAreKept` (a log that is gone has at least `MaxFiles` newer ones),
  `PosthookLogsAreTheirAuthors` (a printed path leads to the log of the process that printed it),
  `RotationMeetsTheBudget` (up to logs created since the listing).
- recall: `FailureHintsResolve` (the printed hash of a failure's output resolves,
  unless another process evicted the row: `taken`), `EvictionIsExact` (from a stale count, the budget plus the drift
  since), `EvictionTakesTheOldest`.
- stats: `RatesAreShares` (no more recalls than elisions, whatever is stored again, evicted,
  reset or lost in between).
- gate: `AutoAllowIsEarned`, `RewritesRespectTheRules`, `ChainsAreNoLooser` (a chain is judged
  at least as strictly as each part of it).
- pipelines: `NothingGoesLiveUnseen`, `RecordsOutliveEachOther` (while `whole`).
- trust: `OnlyReviewedIsLoaded` (through edits, torn stores and concurrent commands),
  `StoreIsWhatWasDecided` (while `calm`).
- installer: `SettingsStaySound`: the user's entries are what the user made them, PTK's are
  there at most once, not at all after an uninstall, and none dangles.

- pins (3 sessions × 3 ids, caps 2 and 2, threshold 2, counter up to 3): `PinTypeOK`, `CapsHold`,
  `PinsAreSticky`.
- relay (2 exchanges, 2 credentials, 2 retries, 1 usage report, buffered or streamed):
  `OwnCredentialIsKept` (a request that authenticates itself is sent as itself on every attempt
  while others overwrite the remembered credential), `RetriesAreSpent` (no transient status, timeout or
  refused connection reaches the client before), `RowsTellTheTruth` (a row is a success only for a
  whole answer, books a whole answer exactly and never more than was charged),
  `EndedExchangesAreBooked`, `TypeOK`.

`processes` joins three modules in the same way: `NoSignalIsSwallowed` (a run through the runner that was signalled does not exit as
if nothing had happened), `SignalsEndTheRun` (a relayed signal ends ptk, whatever the
child does, unless printing `failed` first), `RoutesAreEarned` (an agent gets the proxy's
address only if a daemon served while it was launched), `LaunchesEnd`, `ImplementsExchange` and
`EveryExchangeSettles`. The last two need no credentials and are checked without any here.

`CHECK_DEADLOCK FALSE` is set where commands are bounded in number: once all have ended
nothing is left to do.

**Why the bounds are enough.** Two processes on one file give every interleaving of two read-modify-writes,
and with a third command (three trust visits, four pipeline commands, two set-ups around a
save) one that starts from what they left. Budgets of one file or row make every second
write rotate; three outputs, of which one is a tool result, have a victim, a survivor and the
row in hand; two ticks separate same-time names and rows from later ones. Two settings files
of seven contents each and 28 commands cover all pairs of allow, ask, deny and unreadable
with plain, prefixed, wrapped and chained segments. Two runs let a watcher outlive its own; two signals
are the relayed one and the one that kills. In the relay two exchanges share only the credential
cell, so two credentials and two slots give every overwrite between two
attempts; two retries have a first, a second and a last attempt. In the
`CcrProxy` runs, every shared variable is touched per (session,
block) pair by one handler at a time, so two handlers on one pair exhibit each
pairwise interleaving. Threshold 2 is the least at which a block is tallied without
being pinned; counter 3 saturates above the threshold; caps are one
below what the instance can fill, so refusals occur; three rounds have a first, a middle
and a last; two calls make a round with a hit and a miss. Handlers are
symmetric in `ccr_pair`, which uses it; no other run does. The proofs lift the
safety properties to all bounds.

**Fairness.** `EveryRequestEnds` and `EveryExchangeSettles` assume weak fairness of each handler's own
steps: the runtime polls every handler that is ready, and the HTTP client sets
a connect and a read timeout (`lib.rs:92-118`), so an upstream call returns or
fails. An upstream that trickles bytes for ever resets the read timeout and is
outside the assumption. `SignalsEndTheRun` assumes that ptk's main thread goes on when it can and that
a watcher's sleep ends (`Threads`); nothing makes the child, its heirs or a signal
come or end. `LaunchesEnd` assumes that a launcher that runs goes on, its
deadline included (`Going`); daemons and strangers owe nothing. Nothing is
assumed fair about clients, the sweep, admins, restarts, users or crashes.

**Mutants.** Each property of a passing run is broken by a small change of a mapped definition
(`...Not`, `...OffByOne`, `...Always`), defined beside it and marked `Mutant:`.

## 5. The proofs

`SharedStateProof`, on the registry: `PinTypeCorrect`, `RegistryIsBounded`, `PinsStay` for all
sessions, ids, caps and thresholds. The cap argument needs that a newcomer is
admitted only below the cap and that a tracked set grows by at most that newcomer; the
cardinality facts need the tracked sets finite, so finiteness is part of the
inductive invariant (`Capped`). `Sessions` and `Ids` themselves may be infinite.

`SharedStateProof`, on the setting: `GateAlwaysHolds` for any number of admins, and
`LoneAdminSettingSurvives` for one admin and writes that succeed. Its inductive
strengthening says that an idle admin's flag equals what the row resolves to and a
busy one's flag equals its pending value under the gate; with two admins it is
false, as `settings_race` shows.

`CcrProxyProof`: every safety property of `ccr_pair` and `ccr_loop`, and that
each step of the daemon is a step of `PinRegistry` and one of `ProxySettings` or
leaves their variables alone (`ImplementsPinSpec`, `ImplementsSettingsSpec`), from
which the two modules' own theorems carry over (`ProxyPinsStay`,
`ProxyRegistryIsBounded`, `ProxySettingSurvives`). `IInv` is the inductive
invariant:

- the registry's and settings' invariants and the types of all variables;
- `HandlerInv` of each handler: pending calls exist while it resolves;
  `Accounted`, the running identity between `prior`, the last response
  and `billed`, which differs between the top of a round and its middle (this is why
  `UsageIsBooked`, which speaks of finished requests only, is not inductive);
  `Clean`, a finished loop answer carries no calls;
- blocks pinned at arrival are still pinned (`LateArePinned`, by `PinsAreSticky` of
  the registry), from which `PinnedBlocksStayVerbatim`;
- the gate: an engaged handler implies gate and memory.

The preservation proof has one lemma for a handler's own steps (`IInvSlot`, resting on
lemmas that say which fields a step may advance and what it keeps) and
one for each of the sweep, the settings and the restart.

Three theorems are the safety halves of liveness properties. `RequestsAdvance` (`CcrProxyProof`),
`ExchangesAdvance` (`RelayProof`) and `LaunchesAdvance` (`ProcessesProof`) say that each
step of a request, an exchange or a launcher leaves it later in an order without infinite
ascent (`Later`, `Turn`), and that nobody else's step takes it back. What they leave to
TLC is that some step of its own is always enabled; the order itself ascends finitely
because rounds, attempts and a stream's usage reports are bounded, a response has finitely many
calls and a body finitely many blocks.

`RelayProof`: the five invariants of the relay, and
`RelayImplementsExchange`. `IInv` there says of an open exchange that nothing is
written, that a stream has reported exactly what it was charged, and that a
transient status in hand means the retries are spent (`OpenInv`); of an ended one
that its outcome is sound, a failure that may pass came last of the retries, and its row is
still due, written once or refused
(`EndedInv`). Each action has one lemma, which shows that it replaces the
exchange by one that satisfies the invariant *and* moves as `Exchange` allows
(`Advances`); invariance and refinement both follow from those lemmas.

`TeeFilesProof`: `NewestAreKept`, `PosthookAuthors`, `RotationsMeetTheBudget`, for any number of
processes and any budget. That a lost log has `MaxFiles` newer ones is not inductive: a process may be
about to remove logs it listed long ago. `TeeInv` therefore speaks of logs that are gone
*or doomed* in some listing (`GoneOrDoomed`): when a doomed log goes that was one of the newer
ones of another, its own `MaxFiles` newer ones take its place. `Accounted` bounds the directory by what a listing keeps, dooms, and
has not seen; `OwnName` ties a posthook name to its process.

`RecallProof`, on the table: `FailureHints`, `EvictionLeavesTheBudget`, `TheOldestGo`. `RecallInv` says that rowids
are the ranks `1 .. n` of the rows (so `Older` is a linear order, and the `n` oldest
are exactly `n`), that a stale count plus the drift since is the number of rows (`Counted`), and that a process's row is there
until it is taken or trimmed (`Spared`).

`RecallProof`, on the counters: `RatesAreSharesHolds`. `StatsInv` strengthens the property to a balance: recalls counted, recalls about to be
counted and rows *not yet marked* never exceed elisions counted, about to be
counted, or on no book. The unmarked rows are what makes it inductive: each is one recall still to come.

`ApprovalProof`, on the gate: `ApprovalIsEarned`, `RewritesAreRuled`, `ChainsAreJudgedWhole`, for all rules,
commands and numbers of files. `GateInv` says that the rules gathered are those of the files
seen, with "ask about everything" if one could not be read (`Gathered`), and that verdict
and decision are the operators' values of them.

`ApprovalProof`, on what is reviewed: `LoadedIsReviewed` and `StoreIsDecided` of the trust store, `NothingUnseen` and
`RecordsStay` of the pipelines, for any number of processes, files and texts. Both invariants have two
halves. The first follows what a process holds: every entry of the store, and of
a copy about to be written, was confirmed (`AllReviewed`, `WritesReviewed`); what a review showed runs
no command, and what an install holds was shown (`ShownRunNothing`, `Shown`). It needs nothing of the
interleaving, so it survives torn files and stale copies. The second is an ownership argument, and
holds while the writes do not overlap: a process that writes has the file to
itself, its copy is what was decided plus its own change, and one about to begin with a current copy holds
the file plus its change (`Undisturbed`, `Orderly`).

`InstallerProof`: `SettingsSound`, for any commands, users' saves and interruptions, and any file that an
older PTK may have left. A settings file is told by the hooks it runs (`Fires`) and by its base URL; what
each operator does to these is a lemma (`PatchedFile`, `ModernFile`, `RemovedFile`, `RoutedFile`,
`EditedFile`), and so is that it keeps a file `Wellformed`: PTK's hook once per event, an older PTK's
under one event only. `InstallerInv` adds what `SettingsStaySound` leaves out: the copy a command holds is
what it makes of the file *as it is now*, unless someone wrote since (`RecordOK`), so that an undisturbed
write is the operator applied to the current file; and an entry whose script is gone has a command under way
that is about to remove it.

`ProcessesProof`, on a run: `SignalsAreNotSwallowed`, for any number of runs and signals.
`RelayIsScoped` says between which steps a handler may be installed, and which dispositions
a drop in progress has yet to restore; `SurvivedIsRemembered`, that a signal which ptk survived is in
`RELAYED` until `Die` looks, because every later `Install` lies beyond a `Die`.
`NoWaitIsUnwatched` is the safety half of `SignalsEndTheRun`: wherever the main thread can block on a child or
its pipes, the watcher of that run is awake or asleep on its way to kill, and only after a failed print
does ptk wait alone. A passthrough, which returns before all of this (`stream.rs:430-449`), has neither relay
nor watcher and is not spoken of. `WatchInv` adds that the watcher of the current run which gives up finds
a signal to raise, and that a run has no watcher before its handlers are set, so that none
can be sent home by the `FINISHED` of the run before it.

`ProcessesProof`, on launches: `RoutesEarned`, for any number of launchers and daemons.
`ServedIsSeen` says that a launcher under way has seen every daemon that serves, which holds because binding
is one step, and `FoundServed` that one which found the proxy up did so while a daemon served.

Assumed: `PinAssumption`, `SettingsAssumption`, `CcrAssumption`,
`RelayAssumption`, `TeeAssumption`, `RecallAssumption`, `StatsAssumption`,
`GateAssumption`, `TrustAssumption`, `PipelinesAssumption`, `InstallerAssumption`, `ChildRunAssumption` and
`StartsAssumption`: the typing of the constants, that live processes differ in
`PidTag`, that what stands for a port without a daemon of PTK is no launcher's name, and that the settings file to start with is one PTK may have
written (its hook once per event, an older one's under `PreToolUse`). TLC evaluates each in the runs of its module.

Model-checked only: `EveryRequestEnds`, `EveryExchangeSettles`, `SignalsEndTheRun` and
`LaunchesEnd`, liveness under fairness and out of the prover's reach; of each, the safety half above is proved. The eight violations are TLC's counterexamples.

## 6. Where the code and its documentation part

- **`relay_break`**: a stream that breaks upstream is meant to be booked as a 502
  (`forward.rs:478-481`), but the outcome is sent after the error has been
  yielded, to a body the server no longer polls: no row is written, and the
  failure is missing from the statistics. The unit test covers the function that
  builds the outcome, not its delivery.
- **`settings_race`**: `put_settings` stores the flag, then awaits the row. Two
  PUTs can finish with the flag of one and the row of the other, so the next boot
  resolves to the opposite of the live setting.
- **`ccr_precedence`**: with `config.ccr` off a persisted `true` is ignored at boot
  (`effective_ccr`, `lib.rs:317-319`), though the doc of `Config.ccr` says "A persisted runtime value
  wins over this" (`config.rs:113-115`) and `lib.rs:174-176` speaks of "DB wins, same precedence as
  CCR". The comment at `lib.rs:220-225` and the test at `tests/functional.rs:894-896`
  side with the code; `NoCcrAgainstTheGate` states theirs, `PersistedValueWins` the other.
- **`ccr_pins`**: a pinned block is "exempted from compression for the remainder of the session"
  (`mod.rs:194-195`), but the registry is lost with the process and nothing reads the `pinned` column
  that survives it: after a restart the session's next request compresses the block again.
- **`ccr_leak`**: the tool is in the body, but the loop's first call
  fails (or the flag is switched off between stage and dispatch) and the body goes through
  the relay; a retrieve call then reaches the client, against
  `mod.rs:726-729`.
- **`ccr_usage`**: after a later round's upstream failure the previous
  response is counted in `prior_usage` and again in `finalize`.
- **`ccr_scope`**: without a session header, compressing a block of the first
  user message changes the hash that the loop later computes, and every retrieve
  misses.
- **`recall_families`**: `evict` counts and deletes over the whole table
  (`src/core/retriever.rs:450-463`) before `trim_family` gives posthook rows their own
  budget, so storing a tool result can evict a failure's output, against
  `src/core/tee.rs:110-111` and the test at `tee.rs:237-275`. One process suffices.

Smaller ones, seen while modelling and not run:

- A posthook row's own hint may be trimmed: `trim_family` keeps no hash, and rows of the same second
  are ordered by rowid, which a refreshed row keeps. `FailureHintsResolve` claims
  nothing of posthook rows.
- `add --shadow` moves the ledger's pin at once, so the next review shows the change of pins
  against a live text that was installed from another (`docs/guide/pipelines/commands.md:201`).
- `ensure_running` answers that it started the daemon (`src/llm_proxy.rs:804-806`) also to
  the loser of a race, whose daemon exited at `Bind`. That daemon pruned the cache
  before it tried to bind, next to the one that serves, and its spawn truncated the log of that one.
- `git_cmd.rs:2991`, `uv_cmd.rs:75` and `search.rs:537` call `run_streaming` by themselves and do not
  die of the relayed signal as `runner::run` does; hence `viaRunner` in the properties.
- When printing fails, the relay is dropped before the child is waited for: a stubborn child
  then keeps ptk waiting, and a watcher that slept past its run may act on a process id that
  is another's by now.
- With `tee_max_files = 0` a process rotates its own log out and prints its path.
- `ContextGuard` says "On by default" (`proxy/src/pipeline/ingest_filter.rs:524`) and "Off by
  default" (`:536`); it is off.
- `refresh_hook_matcher` rewrites the matcher of a group that holds the user's hooks too, though
  "Never touches non-PTK entries" (`src/hooks/init/claude.rs:524`).
- "Promoting an update replaces the live file after the same review an install gets"
  (`src/core/pipeline_cmd.rs:854-856`), but the rename (`:917`) takes the shadow file as it is after the
  prompt; an `add --shadow` in between makes live what that prompt did not show, though an `add` did.
- An init that ends between the removal of the old script and of its entry leaves the entry, and every later
  init finds "hook already present" (`claude.rs:633-658`, `804-867`): the `cut` in
  `NothingDangles`. A save during a prompt is lost: the `kept`.

## 7. Not modelled

Text: how blocks are rendered, previews, SSE synthesis, the filters of the
command runner, reports. Pure transforms that precede CCR only determine which
blocks it sees, and every set of blocks is allowed. Boot-time configuration
becomes constants. `redact`, `image_opt` and `model_route` are not wired into the
daemon. In `CcrProxy` the relay is one step and the usage row
part of the last; `Relay` splits both.

- **Command filters** (`src/cmds`, the larger part of the source): pure functions from output
  to shorter output. They have no state that a step could break, and what is right about them is
  a matter of text, which their unit tests state by example.
- **Filter engine** (`src/core/toml_filter.rs` and the engine's chains): pure as well; its
  worker with a timeout (`ProcessMethod`) is registered by no method.
- **Ingest filter**: its memory across requests serves only the `dedup_only` mode, which the
  daemon sets to false (`proxy/src/lib.rs:249-252`); the rest is pure per block.
- **Tracking and telemetry**: append-only rows; the daily marker is touched before the ping is
  sent, so a ping is lost rather than sent twice, by design.
- **Discovery, learning, analytics**: reports over logs, read-only.
- **Plugins and editor integrations, hooks' input and output, the OpenCode adapter**: translation
  of JSON.
- **Parts of modelled components**: the CI override of the trust store; `integrity.rs`; the filter
  for standard input; counters of tee reads; the log and pid files and `stop` and `status`
  of the daemon; publication to a repository and the log of
  evaluations; `PTK.md`, `CLAUDE.md` and the files of other agents, which the installer edits by the
  same pattern.
