# APEX Velox in TLA+

Specifications of the parts of APEX Velox (`src/`) that keep state which several
threads, processes or providers change, with TLC instances and TLAPS proofs.
Every definition is translated from the Rust source; `PROJECT.json` maps each one
to its lines.

## The system

APEX Velox is a Windows tool. A desktop shell (`velox-app`) starts a local HTTP
server (`velox-server`), and a command line program (`velox-cli`) does the same
jobs from a terminal. Both link the library `velox-core`. There is no database
and no resident service: **all state is in files of the data directory**, read,
changed in memory and written back whole. The server runs its handlers
concurrently, and any number of CLI processes, one of them possibly the daemon,
work on the same files. Processes are killed (closing the window kills the
server; Windows may blue-screen), providers take up to 90 seconds, fail, or send
anything.

| Component | Source | State it keeps | Operations | What is hard | What makes it correct |
|---|---|---|---|---|---|
| Usage ledger | core `ledger.rs`, `ai.rs` (`atomic_write`) | `velox_ledger.json`, its `.lock`, `.tmp`, quarantined copies; one mutex per process | record, clear, set_enabled, set_retention_days | two locks, stale-lock takeover, crashes, shared `.tmp` name | writes behave like whole operations on one book; acknowledged records survive; waits are bounded |
| Consent and policy gateway | core `policy.rs`, `ai.rs` | `velox_policies.json`, `velox_models.json` | grant_consent, revoke_consent, set_model, authorize, execute_agent | unlocked read-modify-write, check before a long await, dropped futures | a revoked provider is not called; every call has one truthful record |
| Council | core `council.rs`, server `council_stream` | one session: stage, proposal, reviews, cancel flag, event channel | propose, review, revise, gate, finalize | untrusted answers, a client that leaves, a cancel flag set by an event nobody received | what is approved is what was reviewed; scope; every session decides |
| System actions and checkpoints | cli `diagnose.rs`, core `checkpoint.rs`, `action.rs` | Windows' active power plan, `velox_checkpoints.txt` | diagnose [--fix], daemon reactions, checkpoint save, restore | decisions on old readings, appends in pieces, crashes, two writers | only wanted, whitelisted, plausible actions; the checkpoint brings the old plan back |
| Daemon loop | cli `daemon.rs` | hot streak, last reaction | tick, react, sleep, Ctrl+C | glitches, flapping, streak that goes on during the cooldown | reacts to lasting heat only, and to all lasting heat |
| Storage transfers | core `storage.rs` | `velox_storage.json`, part files and copies in the destination folder | send, retry, add and remove the destination | names looked up before they are used, sources that change, a folder that comes and goes, whole-book rewrite after a long copy | nothing that was seen is overwritten; stored means compared; a waiting transfer is kept |
| Conversations and chat | core `conversation.rs`, cli `chorus.rs`, server `chat_*` | one JSON file per conversation, a chat lock in the server only | create, send, delete, set_model | two appends per exchange, a provider call of up to 95 s in between, failing writes, kills | the file is a transcript: no turn lost, an answer behind its question and naming its model |
| Metrics | core `metrics.rs`, cli `main` | counters, one session marker file | record_start, update, record_clean_exit, clear | killed anywhere between marker and counter; failures nobody is told of | a crash is counted once, and never without a reason |
| Shell and server lifecycle | `velox-app`, server `main` | child process, port | pick port, spawn, wait, kill | port taken in between, server slow or dying | no server left behind; the shell settles |
| Plans | core `plans.rs` | `velox_plans.json` | upsert, remove, confirm, next_renewal, upcoming, totals | month arithmetic, whole-book rewrite, unreadable book | renewals do not drift; an edit touches one entry |
| Usage pages, prices, budgets | core `pricing.rs`, `ledger.rs`, `plans.rs` | `velox_pricing.json` | set_price, remove_price, estimate, budget_status, groups | three providers' notions of input and cache, missing prices and usages | never more than the bill; exact only if complete |
| Evidence and privacy | core `evidence.rs`, `privacy.rs`, `health.rs` | none (values) | build, minimise, bundle | what leaves the machine | only what the scope allows |
| Streamed diagnosis | server `diagnose_stream` | one stream | measure, preview, ask two providers | a client that leaves | what is sent was shown, once, in scope |
| Projects | core `project.rs` | none (a scan) | walk, ignore, limit, evidence | limits, links, unreadable folders, glob matching | every file accounted for, or the scan says it is cut |
| System view | core `sysmanage.rs` | `velox_system_baseline.json` | collect, save_baseline, diff | each part may fail to be read | "nothing changed" is never said of what was not compared |
| Snapshots and reports | core `snapshot.rs`, `report.rs` | files chosen by the user, baseline | collect, compare, build | empty lists of failed queries, noise | a change is told, an improvement is not one both ways |
| Model panel | cli `chorus.rs` | one command | bench, consensus | answers and marks that are missing or out of range | nobody judges itself; complete, ordered, in scale |
| Guidance, benchmark, logging, credentials, displays, extension, site, scripts | the rest | caches, none | reading, formatting | – | – |

Interactions: the Council and every AI feature call `execute_agent` of the gateway,
which calls a provider and then records in the ledger. Server and CLI share only
files. The daemon and `diagnose` share the power plan and the checkpoint file, and
both call the gateway three times for their pipeline. The shell talks to the server
over HTTP.

## Modules

Each component is a module; `MC*` modules extend it with the values of a `.cfg`.
`*Proofs` modules extend it with theorems; `ProcessProofs`
has those of Actions, Daemon and Sessions. `Selection` is what `Vec::retain` and a filtered drain leave
of a list, which several modules use. "Defect:" operators are mutations that
the properties must detect; no specification uses them.

### Ledger, LedgerData, LedgerBook

`Ledger` is what the writers of every process do, one system call at a time.
`pc[t]` is the place in `record_to` / `clear` / `set_enabled` /
`set_retention_days` (they share one skeleton); `mutex[p]` the static mutex of
process `p`, `lock` the lock file with its age, `file` and `tmp` the two JSON files.
`CreateLock`, `CreateLockFails`, `StatLock`, `RemoveStaleLock` are the rounds of
`acquire_lock`'s loop; `Inspect`, `Quarantine`, `LoadAndApply`, `OpenTmp`,
`WriteTmp`, `Rename` the critical section; `DropLock`, `DropMutex` the guards' drops.
`Crash(p)` kills a process: its mutex goes, its lock file stays.
`LedgerData` is what the operations compute (`prune`, the flag, the retention);
a record is an identity and a day. `LedgerBook` is the promise: a file that changes
one whole operation at a time. `ImplementsBook` is the refinement, with the identity
on `file`, `quarantined` and `day`.

Time is in ticks: a lock file ages, a waiter waits, a holder is never in the
critical section longer than `HoldTime`. With `HoldTime < StaleAfter` no *living*
holder's lock becomes stale, which is what the constants of the code (2 s wait,
30 s stale, millisecond sections) aim at.

### Gateway

A task is one call of `grant_consent`, `revoke_consent`, `set_model` or
`execute_agent`. Nothing is locked, so `LoadStore`, `OpenTmp`, `WriteTmp`, `Rename`
are separate steps; so are naming the model, authorising, sending, the answer, and
the record. `Abandon` drops the future at the await. `revoked` and `barred` are
history: the revokes in force and the requests made under them. The settings know the models of
the built-in providers only. One of `velox_providers.json`, custom or local (`Custom`), is asked
with the model of that file (`Send`: any), `set_model` refuses it (`SetModel`), and its record gets
the empty name (`NameOf`), which is all that `OneTruthfulRecord` can ask of it. Endpoint overrides,
tool whitelists (no caller requests a tool) and HTTP bodies are left out.

### Council, CouncilData, CouncilMinutes

`Council` is `run_with` with its stream: `phase` and `role` are the place in the
stages, `Ask`/`Hear*`/`Take*` one call, its answer, and what is done with it.
Answers are *any* proposal or verdict, or nothing. `Emit` is `on_event`: a client
that has left makes it set `cancel`. `CouncilMinutes` is the promise (reviews, at
most one revision, a decision that follows the last review), refined by
`ImplementsMinutes`.

### Checkpoints, Actions

`Checkpoints` is the text file at the level the code cares about: four fields per
line, an open last line, and one append per piece that `writeln!` formats.
`Actions` has one process per CLI call and daemon; `job[a]` is what it read,
decided and was told. `PipelineUnavailable` is the rule-based fallback, `Decide`
the reality check and the flags, `Query`/`WritePiece` are `save_silent`,
`Apply`/`Verify` `execute_with_safety`, `ReadCheckpoint`/`RestorePlan`
`restore_latest`. The user can change the plan in Windows at any time; processes
can be killed anywhere.

### Daemon

The streak and the cooldown of the loop. `watch` remembers what the latest ticks
brought, `watch[1]` the last. The code measures the cooldown in seconds from the end
of a reaction; only sleeping lies between that end and the next reading, so the
model counts ticks (the constant is the cooldown over the interval, rounded up).

### Storage

A process is one CLI command: `Load*` read the book, `Attempt` is the head of
`attempt`, `Look` to `Clean` are the file system calls of `copy_verified` in their
order, `Settled` is what `attempt`, `send_at` and `retry_pending_at` do with the
outcome, `OpenTmp`, `WriteTmp`, `Replace` are `save_to`. `job[c].book` is the copy
of the book the process works on. A place in the folder is a name, a stamp (0: the
original name) and a number, as `conflict_name` makes them. `content` and `checked`
are history: what the comparison saw. A save that fails (disk full) is the same as a
process killed at that point. There is one destination; others only add files to the folder, under
original names. `exists()` says *no* for an unreachable folder, as in Rust.

The code cannot make "it is free" (`PlacePart`) and "rename onto it" (`Rename`) one step. Two
variables of history watch that gap: `late` has the commands whose target appeared after their last
look, because others put a file there, the folder came back or another command renamed first, and
`replaced` the places such commands renamed to. `NeverOverwrites` allows a file to be replaced by
a late command only, and `StoredAsCompared` excuses a transfer only if its copy is at such a place.

### Chat, ChatData, Transcript

A call is a handler of the one server process (`Tasks`) or a command of `velox chorus`
(`Commands`). `lock` is `AppState.chat_lock`, taken with `try_lock` (`Busy` is its 409)
and dropped with the handler (`Leave`). `Check` is what `chat_send` and `ask_in` read
before the provider is asked, `Query` the call that `execute_agent` makes with the model
configured *then* (`Asked`: of a custom provider, any), `GiveUp` an error, the timeout, or a client that has gone. `Load`, `OpenTmp`,
`WriteTmp`, `Rename` are `append` and `save`, first for the question, then for the answer;
any of them may fail, and the server (`and_then`) and the command line (which goes on) differ in
`AppendFails`. On the command line the name stored under an answer is `model_name` again, which is
empty for a custom provider (`Named`); a handler of the server gets the name with the request, and
refuses custom providers and any name but the configured one (`Acceptable`). A text is its length, counted against `MAX_TEXT_CHARS`. `Transcript` is the
promise; `ImplementsTranscript` refines it with the files as the transcript.

### Metrics, Shell, Sessions

`Metrics` is `main` of the command line: look for the marker, count, set the marker, work,
remove the marker, count; each `update` is a `Load` and a `Save`. Each file operation works or fails
without anybody being told (`Works`, `Fails`): what cannot be read counts as empty, what cannot
be written or removed stays. History counts who died, who died in a session, the markers
that stayed (`stuck`), and the crashes that a failure can have lost (`lost`). `Shell` is `main` of the
shell: `Endpoint` (bind and let go), `Spawn`, the rounds `Look`/`Connect` of
`wait_for_server`, `StopWaiting`, `OpenWindow`, `Close`; beside it the server binds or dies
and others take the port. `Sessions` composes them: processes of the command line are started by
the user, or by the server (`/run/:cmd`) while a window is open.

### Desk and its parts

Seven parts that share no state with each other are checked in one specification: a behaviour of
`Desk` chooses one of them (`focus`), the others rest.

* `Calendar`: the three date computations (`plans.rs`, `pricing.rs`, `ledger.rs`), translated line
  by line, and `AddMonths`. `Plans` adds the book, its edits (load, change, write, rename) and renewals.
* `Usage`: records carry, as history, what the call really used; `Usage` is what the provider's
  dialect reports of it, `Estimate` and `Display` what the page says, `Bill` (property only) what
  the provider charges.
* `Project`: a scan reads one entry per step, in any order; `GlobMatches` is the greedy search of
  `glob_matches` over sequences of characters, compared with what a star means (`Means`): a run of
  letters from a given set, at every place it may end. With all letters but `/` that is the
  sentence above the function; the search finds whatever it covers, and more only across a `/`.
  Entries the scan skips because they, or their metadata, cannot be read (`project.rs:457`, `465`,
  `492`) are not part of the tree.
* `Evidence`: items with identity, sensitivity and what each tells; `Bundle` is the constructor with
  its refusals, `ContextTells` the other road, which takes all of `SystemInfo`.
* `Inventory`: a view has four parts, each possibly `Unread`; `real` is history.
* `Snapshots`: the PC, the files of captured measurements, `Compare` (CPU and drivers; memory, OS, kernel,
  power plan and GPUs, compared the same two ways, are left out), `Build`.
* `Diagnosis` extends `Snapshots` and `Evidence`: the stream measures the PC, previews, asks.
* `Panel`: `bench` with its jury, `consensus` with its synthesizer. Scores are in sixths.

## Runs

| Run | Instance | Shows |
|---|---|---|
| `nominal` | 3 threads in 2 processes, 1 call each of any of 5 operations, ledger good or garbage, at most 2 records, retention 1 day, 2 days | lock, refinement, records obey the settings, every call returns |
| `crash` | 2 processes, every disk operation may fail, 1 kill, any initial file | acknowledged records survive, no torn ledger |
| `stale_race` | 3 processes, 1 kill | **violation**: two waiters remove "the" stale lock, the second removes a fresh one |
| `consent` | 3 overlapping tasks, a cloud and a local provider, 2 scopes, 2 models, the local provider a custom one, 1 kill, edits one at a time | revoked means not called; records truthful |
| `lost_revoke` | the same, edits may overlap | **violation**: a concurrent grant for another provider undoes a revoke |
| `session` | 2 evidence ids, 2 scopes, all answers | review, gate, scope, cancellation, stream, closing, refinement |
| `rails` | a CLI user and a daemon, a whitelisted plan and another, failures, 1 torn line | safety rails; an undisturbed checkpoint is the plan that was replaced |
| `daemon` | streak 3, cooldown 5 ticks | sustained heat, no early repetition, no lock-out |
| `alone` | 1 process at a time, 3 commands, 2 contents, a log of 2, 1 kill, 1 outage, 1 edit of the source, files of others | nothing replaced but what appeared too late to be seen, stored means compared, nothing that waits is lost |
| `chat` | 2 handlers, 1 command, 1 conversation of at most 3 messages, a built-in and a custom provider, 2 models, 1 kill, 1 change of consent | transcript, model named, context not stale, every call ends |
| `sessions` | the shell, 2 command line processes, foreign listeners, 1 update, 2 failing file operations | crashes counted once, no orphan, the shell settles |
| `desk` | one part at a time, each on the instance described below | renewals keep their day, an estimate is honest, a scan accounts for every file, no change is hidden, ignore rules mean what they say, evidence stays in scope and was shown, nobody judges itself, edits are local |

The two violations are disagreements between the code and its own documentation; each is a
finding in `PROJECT.json` with the sentence it contradicts. Smaller ones, met on the way, are
under *Noted without a run*.

**Bounds.** Two writers contend for a lock, three are needed for the stale-lock
race (a dead holder and two waiters); two calls suffice for every lost update, the
third is the request that suffers from it. A second call per thread adds no new
interleaving because a call leaves nothing behind but the files, which other
threads' calls change too. Two evidence ids tell "in the bundle" from "not in the
bundle"; one finding set per proposal ranges over all sets of sets of ids. Two plans
tell "whitelisted" from "not". The cooldown is longer than the streak so that both
conditions hold a reaction back. A log of two transfers and three sends make it
overflow with and without waiting ones; one edit is enough to fall between any two steps
of a copy. `MaxTears`, `MaxKills`, `MaxOutages`, `MaxFailures`, `MaxEdits`, `MaxTransfers`, `MaxNow`, `MaxCrashes`, `MaxCalls`,
`MaxDay` bound faults, calls and days; every one of them is exercised.
`chat`: one conversation suffices because conversations share nothing but the lock; three
messages make the window of two and the limit of three both bite; a text is blank, fits or is
too long. `sessions`: two processes show a marker left behind, and two failures what one leaves of a
crash and the next makes of it. `desk`: the days are month ends, leap days, a century that leaps and one that does
not; two plans and inputs that must be refused; two calls with every way of reporting; project limits of
three files and four bytes, overrun in some order; relative paths and patterns up to four characters; PCs
that differ in one respect each, drivers listed twice or with two versions; systems that differ
in each part; three judges of whom any may lack a key, two prompts.

**Fairness.** `nominal`: weak fairness of every thread's next step and of the clock –
the OS schedules threads. No thread can be starved of the lock for ever, because
`acquire_lock` gives up after `LOCK_WAIT`, and the mutex passes on within bounded
calls. `session`: weak fairness of the spawned task: every provider call ends, with
an answer or with the HTTP client's 90 s timeout. `daemon`: weak fairness of the loop.
`chat`:
weak fairness of every call's next step: an await ends in an answer or in the timeout, file
operations return. `sessions`: weak fairness of the shell's own steps (its main thread is
scheduled; `wait_for_server` has a deadline); none of the server, which may hang.
`desk` states no liveness. Nothing is assumed about users, clients, providers or crashes.

**Deadlock** is not checked where the system may stop: a session that is closed,
a daemon that was stopped, users who give no more commands, a scan that has ended.

## Proofs

TLAPS proves, for every value of the constants that satisfies the named assumptions, every safety
and action property that a passing run checks. The theorems, what they assume
besides the `ASSUME`s of the modules, and the invariant each rests on:

* `LedgerProofs`. Two layers. That the lock file is a lock (`LedgerMutualExclusion`,
  `LedgerImplementsBook`) needs `Dependable`: removals and renames do not fail, no process is killed,
  holders are faster than `StaleAfter`; without it, it is false (`stale_race`). The invariant
  says which step owns mutex and lock file, and that a holder's clock has not run longer than the
  lock file's age; the refinement adds that `buf` is the operation applied to the present file. What
  `atomic_write` and the operations do inside follows from `[]MutualExclusion` alone, with kills and
  failures anywhere: `SavesAreAtomic` (`SaveInv`: whoever is about to rename holds a whole
  operation on the ledger that is still on the disk, and the temporary file is his),
  `AcknowledgedIsKept` (`KeepInv`: what was acknowledged is in the file, and there is room for
  every call that is still open; assumes `NothingDrops`, that no call asks to drop records and that the
  ledger has room, which is also how the run `crash` is set up), `RecordsFollowSettings` (`OrderInv`:
  records have different identities, none of them of an open call, and are in the order of their days;
  assumes `TidyStart`, the same of the first file).
* `GatewayProofs`. `RevokeIsFinal` and `RevokedIsNeverCalled` assume `SerialEdits` (the user
  finishes one consent edit before the next); the invariant says that the only editor's buffer
  agrees with the store except for its own provider, and that a barred request has not passed the
  check. `RecordsTellTheTruth` and the types assume nothing of the sort: `TruthInv` says what a call
  has sent and recorded at each place, and that the name in its record is that of what it sent,
  unless the model was renamed meanwhile, or none if the provider is not built in.
* `CouncilProofs`: types, `OnlyReviewedIsApproved`, `CouncilStaysInScope`, `LeavingStopsCalls`,
  `StreamTellsTheDecision`, `CouncilImplementsMinutes`. `CouncilInv` ties `phase` and `role` to the
  number and the last verdict of the reviews; the stream needs `Announcing`, which counts the events
  delivered against the minutes, the review that was heard and not yet announced being one short.
* `ProcessProofs`: the agents, the daemon and the sessions. `ActionsStayWithinRails`: `RailsInv`
  says what a job holds at each place: proposals are whitelisted from the pipeline on,
  plausible and wanted from the decision on. `SavedIsReversible`: `SaveInv` adds the shape of the open
  line after each of the five appends, and that an agent whom nobody disturbed
  will find in the file the plan it replaced. `ReactionsAreSustained`: the streak counts the
  latest entries of `watch`, and the rest is not longer than the distance to the last reaction.
  `NoServerIsOrphaned`, and the types of the sessions, overlapping or not. `CrashesAreCountedOnce` assumes `~Overlap` (runs of the command line do not
  overlap; the code counts a running session as a crash): `CrashInv` has the crash a marker
  announces as owed to the counters until the start that finds it has saved them, and every failure
  on the way as paid by `lost` or `stuck`.
* `StorageProofs`: types, and `OverwritesOnlyLate`, for any number of commands with any outages, kills,
  edits and other users: a command about to rename has found its target free, or is `late`. For one
  command at a time (`Alone`): `CompletedIsThere` (`SoundInv`: every book, on the disk or in hand,
  names only what is there, unless its place is one of `replaced`, and a part between comparison and
  rename is what was compared), `WaitingIsKept` (`QueueInv`: the stored book's transfers are in the
  process's book, at their places while it copies, somewhere if they wait when it saves; trimming
  drops others first).
* `ChatProofs`: types; `ChatImplementsTranscript`, `AnswersNameTheirModel` and `AnswersToWhatWasShown`,
  the last three for `~Overlap` (a command of the command line does
  not run beside another program, with which it shares no lock). The invariant says that a
  handler works exactly while it holds the lock, hence that one call at a time is under
  way, and what that call knows at each place (`InPlace`): before its question is
  stored no file has a message of it and the conversation is the one it read; after
  it, the conversation ends with its question; the buffer is the file with one turn
  more; the model asked is the one that will be named. The refinement follows: a rename
  is `Begin`, `Ask` or `Answer`, a removal `Delete`, everything else a stutter.
* `DeskProofs`, each part with an invariant of its own that the others leave alone:
  * `SentWasShown` (`StreamInv`: what was shown is the bundle the stream holds, and a client that has left
    ends it at the next push); `EvidenceStaysInScope` (an item's identity determines the item, so
    no constructor refuses its own evidence; what the items of a scope tell is compared with
    `AiContext` kind by kind, and differs by the kernel).
  * `EditsAreLocal` (`EditInv`: between reading and replacing the book, the buffer differs from
    it in one entry; one edit at a time).
  * `NothingIsHidden` (`ViewsInv`: a baseline was read in one moment of a PC that existed);
    `ComparisonsTellChanges` (`CaptureInv`: so was every capture; the rest is about lists as maps and about
    products of differences with noise levels).
  * `EstimatesAreHonest` (`UsageInv`: a record is what its call reported; the sums
    are compared term by term, and regrouped by model).
  * `PanelsAreFair` (`PanelInv`: rows are filled exactly up to the contender and prompt that are
    next, marks are on the scale, who was heard is not asked again; the ranks of a
    total order are the places of the list).
  * `ScansAccount` (`ScanInv`: what waits on the stack or unread lies in disjoint subtrees, and what
    does not wait is found, counted, ignored or cut).
  * `RulesAreRead`: of every name and every pattern the greedy search says what the pattern
    means with stars over the letters of the name, hence finds all that it means with stars that stop
    at `/`. After each piece it stands at the least place of the name where the pattern so far may
    end, or that place does not exist; the last piece may then be taken from the end of the name.
  * `RenewalsAreInSeries` (`BookInv`, and `FiniteInv`: the books are finite, so the totals may count
    them). The k-th date of a series is k cycles of months after the date entered, so it is ordered
    like its month (`CyclesInOrder`). The first guess of `next_renewal` is at most one cycle too small and
    never too large (`GuessIsClose`), so the date it ends with is the first of the series from today on
    (`NextIsFirst`), and lies within the years that `Series` lists. What is due soon follows from
    the order of dates being the order of their days; the renewals of one year are one or
    twelve (`RenewalsOfAYear`), and subscriptions with and without an amount and API
    accounts are a partition of the book (`EntriesAreCounted`).
  * `DeskTypeCorrect`: the types of all parts, with `BookInv` (every book, also the buffer of an edit,
    holds only entries that the constructor accepts) and `RoleInv` (which role the stream is at).
* `LibraryProofs`, the library of the others: what a filtered list keeps, and in what order; what a
  sum over a finite set is, that it grows with its terms and splits; and three facts that stand
  for induction, which the provers cannot instantiate. Each is proved from a least
  counterexample (`LeastNatural`, from the well-foundedness of `<`): a property as a set of numbers
  (`CountUp`), a recursion up to a number (`ChainExists`), a property of finite sets (`SubsetsBySize`).
  Its second half is the calendar. A date's day is the start of its March year, a
  sum of quotients by 4, 100 and 400, and a place in that year (`ToDaysIs`). `CivilFromDays` finds the year
  and the month again, leap days and the ends of centuries included (`YearOfTheDay`, `MonthOfTheDay`), so it
  is the inverse of `ToDays` (`ThereAndBack`); dates and their days have one order
  (`DaysInOrder`); and `EveryDayIsADate` counts up from 1970-01-01 by `TheNextDay`. `AddMonths` moves
  the month and clamps the day, once (`AddedMonths`). The numbers are unbounded integers: the years
  a user can type have four digits, far from the limits of the code's types.

The `ASSUME`s say what a value of a constant is, not how the program behaves: a PC has its parts
(`SnapshotsAssumption`, `InventoryAssumption`), what the user can enter is a plan (`InputsAssumption`), a
folder has the parents of its entries and every path, name and pattern is a list of characters
(`ProjectAssumption`), a cached token does not cost more than another (`UsageAssumption`), no model
is listed twice (`PanelAssumption`), a date that users type is three numbers, in the calendar or not
(`PlansAssumption`). TLC evaluates each on the runs of its module.

Every safety and action property of a passing run is a theorem. Only model-checked is the liveness:
`EveryCallReturns`, `EverySessionCloses`, `LastingHeatIsReactedTo`, `EveryCallEnds` and `ShellSettles`
(fairness speaks of ENABLED, which is out of the prover's reach). The violation runs are
counterexamples and need no proof.
The types of `Ledger`, `Gateway`, `Actions`, `Daemon`, `Storage`, `Chat` and `Sessions` are proved, and
no run checks them besides.

## Noted without a run

* A ledger that is not UTF-8 is not quarantined but read as empty and overwritten
  (`ledger.rs:229`); the abstract book does the same.
* `acquire_lock`'s `continue` after a failed removal of a stale lock skips the
  deadline and the sleep (`ledger.rs:212`): with a removal that always fails, the
  call spins for ever. `nominal` therefore has no failing removals.
* After the last review no cancel check follows (`council.rs:426`): a client that
  leaves in that review is noticed, and the session approves all the same, against
  the comment at `council.rs:329`. `AtMostOneCallAfterLeaving` covers what remains true.
* The rule-based fallback counts as confirmed (`diagnose.rs:335`): its action is
  executed without the Confirmer of `README.md:74-75` and `daemon.rs:6`.
* A file that others put under the name after the check at `storage.rs:365` is replaced by the
  rename, and so is one that `exists()` did not see because the folder was out of reach for that
  moment only; rule 1 in the header of `storage.rs` says that nothing is overwritten.
  `NeverOverwrites` says that no other file is.
* The record of a call to a custom or local provider names no model: `model_name` (`ai.rs:187`)
  knows the built-in ones only, and `policy.rs:378` writes its empty answer, while `ai.rs:442-448`
  asked the model of `velox_providers.json`. The command line stores such an answer in a conversation
  under the empty name too (`chorus.rs:94`).
* Whatever fails in `metrics.rs` is ignored: a marker that cannot be removed (`:126`) is a crash nobody
  had, one that cannot be written (`:121`) hides a crash, and counters that cannot be read (`:82`) begin
  again at nothing. `CrashesAccounted` bounds what this can add and lose.
* A file sent twice that had a name conflict is stored twice (`storage.rs:349` compares
  with the original name only), against rule 3 in the header of `storage.rs`.
* A process killed in the copy leaves its `.apex-part-` file; no later command
  removes it, against rule 2.
* A call whose future is dropped after it was sent (the 95 s timeout of `chat_send`, a client
  that disconnects) leaves no record: `execute_agent` records after its await only
  (`policy.rs:398`), while `policy.rs:373-374` says that no entry can be missing. `OneTruthfulRecord`
  speaks of calls that ran to their end.
* A checkpoint save that stops within its line swallows the next checkpoint
  (`checkpoint.rs:57`), against "Always reversible" of the repository's `README.md:80-81`.
* Two storage commands at a time: the later whole-book rewrite drops the other's
  waiting transfer (`storage.rs:546`), against the comment at `storage.rs:161`.
* With `Overlap` set, `chat` fails: a conversation that the command line deletes while the
  server appends comes back, and appends of both are lost (`conversation.rs:244` has no lock).
* The shell's `OpenWindow` panics if the window cannot be made, and a shell that is killed
  cannot kill its child: both leave a server behind. A foreign program that takes the port after
  `main.rs:61` of the shell let it go is shown in the window.
* Command lines that overlap count running sessions as crashes (`metrics.rs:111`) and
  lose each other's counters (`metrics.rs:98`).
* Two edits of the plans at a time lose one of them (`plans.rs:419`). A price table that
  cannot be read counts as empty, and `set_price` then overwrites it.
* A record with output tokens only counts as priced and complete.
* The TODO limit and files that are too large drop TODOs without setting `truncated`.
* `*` matches across `/`, against the comment of the function (`project.rs:241`): a rule can ignore
  more than it says, never less. `RulesMeanWhatTheySay` says so.
* `AiContext` clones all of `SystemInfo` (`privacy.rs:43`), the kernel version included, which neither
  the list of the scope `System` (`privacy.rs:14`) nor the evidence has.
* Two devices of one name and different versions can hide or fake a driver change. A failed
  driver query is an empty list: compared with a good one every driver looks removed, and two
  failed ones look unchanged.
* `save_baseline` of the server answers *saved* though the write failed
  (`velox-server/src/main.rs:588`), and a comparison whose reading fails compares the
  baseline with itself (`:610`).
* Disks and adapters that appear or disappear are not in the system diff, which says that
  nothing has changed. `NoSilentChange` speaks of those that are there both times.
* The evidence of a comparison tells changed driver versions in the scope `System`, which
  `privacy.rs:17-18` keeps for `Drivers`.
* `report.rs:18` compares benchmarks of one version only, but measurements carry no version.
* `parse_score` takes the first number of an answer, so "8/10" is 8 of 1000. The model of the only
  judge is not judged and gets 0, like one that failed. The synthesizer is Claude whenever
  it has a key, also when it did not answer.

## Plan

Done: all modules above, model-checked, and a theorem for every safety and action property the
runs check.

Left:

1. A composition of Council, Gateway and Ledger: the calls of a session are consented
   and recorded.
2. Snippets and path resolution of `project.rs`, and the redaction of secrets in texts: they
   need a model of characters.

## Not modelled

* Guidance, benchmark, paths, logging, credentials: texts, a timed computation, a one-time
  move of files, a log file, calls of the Windows credential store. Straight-line code, whose
  results no later step combines.
* Measurements and displays of the command line: Windows queries, ETW sessions and what
  is printed of them.
* HTTP and HTML: routes that only read, pages, report layout, prompts, CSV.
* Characters: redaction of secrets, snippets, file names.
* The browser extension (a pure conversion of a page started by a click), the site,
  installers and scripts.

`PROJECT.json` names the sources of each.
