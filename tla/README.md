# Verification of quant-signal

TLA+ models of the parts of quant-signal whose correctness depends on the order in
which processes, crashes and file or database operations fall; TLC runs that check
them on small instances; and proofs, checked by TLAPS, that the central properties
hold for every instance. Paths below are relative to the repository; `recommendations.py`
and the like are files of `app/`.

1. [The system](#1-the-system)
2. [Modules](#2-modules)
3. [Scan lock](#3-scan-lock-recommendationlock)
4. [Publication](#4-publication-dailycap-publication)
5. [Service](#5-service-recommendationservice)
6. [Experiment ledger](#6-experiment-ledger-experimentlifecycle-experimentledger)
7. [Precompute launch](#7-precompute-launch-precomputelaunch)
8. [Formal supervisor](#8-formal-supervisor-formallaunch)
9. [Portfolio selection](#9-portfolio-selection-portfolioselection)
10. [Point-in-time generations](#10-point-in-time-generations-pitgenerations)
11. [Receipts of single answers](#11-receipts-of-single-answers-pitreceipts)
12. [Records without a lock](#12-records-without-a-lock)
13. [Runs](#13-runs)
14. [Proofs](#14-proofs)
15. [Where code and documents disagree](#15-where-code-and-documents-disagree)
16. [Not modelled](#16-not-modelled)
17. [Plan](#17-plan)

## 1. The system

quant-signal is a research and recommendation program for A-shares: some 170 000 lines of
Python, a web page and a native broker in C. It has no database server. Processes meet in
files (JSON documents, JSON-lines logs, lock files) and in one SQLite database. The
processes are a uvicorn service, systemd timers (daily recommendation, intraday monitor,
planned exits, health, cache warming), command-line jobs (`jobs.py`) and research
programs, all free to run at the same time.

| component | state | operations | interacts with |
|---|---|---|---|
| Scan lock (`recommendations.py` 1529-1575) | a lock file with a token and a start time | acquire (create, judge stale, reclaim), release | every scan; health reads it |
| Publication (`recommendations.py` 1741-2612, `recommendation_contract.py`, `storage.py`) | publication ledger, history, latest snapshot, audit log | gates, scan, revalidation, daily cap, three writes, `latest()` | scan lock, current pool, monitors read the history |
| Monitors (`recommendations.py` 2614-3061) | alert file | evaluate, append, post to a webhook | history, market data |
| Production health (`production_status.py`) | notification state | checks, notify on change or reminder | reads everybody's files |
| Experiment ledger (`research_validation.py`) | chained log and its lock file | register, launch, complete, fail, claim, decide, generic append | precompute control, research programs |
| Precompute control (`research_precompute_control.py`, supervisor, launcher, parent) | claims, leases, ready messages, results | authorise, launch, supervise, seal | experiment ledger |
| PIT store (`research_pit_store.py`) | SQLite tables: attempts, events, receipts, generations, heads; raw files | record, stage, begin or resume, publish, promote, recover, audit | collectors, universe artifacts |
| PIT collector (`research_pit_collector.py`) | one run's local state, network slots | collect a session or the security master, retry, cancel | PIT store, provider |
| Plan publication and successors | files published once under a claim | publish, verify, chain | precompute control |
| Current pool (`current_pool*.py`, `jobs.py`) | one audited document | build, publish with rollback, load | publication gate |
| Live data and caches | JSON caches, status file | read, fetch, replace | scans, monitors |
| Personal book, holdings, watchlist | state, ticket, fills | build ticket, record event | a person and a job |
| Backtests, portfolio, signals | none | pure functions | research programs |
| Formal V3 supervisor and native broker | process tree, pipes, sealed files | bootstrap, launch, verify | precompute, Windows |

What is hard here is not the arithmetic but the following; `PROJECT.json` lists each
place under "hazards", with its line.

- *Several files stand for one fact.* A publication is a ledger row, a history row and a
  snapshot, written in that order; a process can die between any two.
- *Locks are files.* Creating, reading, judging and unlinking are separate system calls;
  a lock outlives the process that made it.
- *Decisions are made on data read earlier*: prior symbols of a day, the tip of a ledger,
  the staged datasets of a generation, a clock.
- *Any process may be a recovering one*: opening the PIT store closes attempts other
  processes are still working on.
- *Compare-and-swap on a log's tip* lets a legal sequence of other people's operations
  take the tip away.

What makes each part correct: one scan at a time and no lock left behind; per date a
growing set of at most three symbols, whatever crashes, and a reader that sees only what
the ledger commits; an experiment that moves along its path once, a launch that starts
alone, nothing that is stranded unnoticed; a head that names the newest complete
generation, published data that never changes, interrupted collections that resume;
alerts that are on file once as far as a run can see; a health change that is reported;
receipts that agree with their events; a launch that has a result if it is completed, and
is closed; a signed authorization that is used once; a book its fills explain; a pool that
survives a failed publication; caches that hide no news; a portfolio within its capacity.

## 2. Modules

| module | models | theorems in |
|---|---|---|
| `RecommendationLock` | the lock file, one step per system call | `RecommendationLockProofs` |
| `DailyCap` | what publication promises to a reader | |
| `Publication` | a scan from its gates to its audit row, and `latest()`; shown to implement `DailyCap` | `PublicationProofs` |
| `RecommendationService` | both together: publication under the lock as it is; shown to implement both | `RecommendationServiceProofs` |
| `ExperimentLifecycle` | what the experiment ledger promises | |
| `LaunchLedger` | what the experiment ledger is to one controlled launch | |
| `ExperimentLedger` | the file, its lock and bootstrap, every operation; shown to implement `ExperimentLifecycle` and, for each controlled launch, `LaunchLedger` | `ExperimentLedgerProofs` |
| `PrecomputeLaunch` | one supervised launch: parent, handshake, child, exception handler, reconciliation; shown to implement `LaunchLedger` | `ResearchProofs` |
| `FormalLaunch` | the execution ledger of the formal supervisor | `ResearchProofs` |
| `PortfolioSelection` | which candidates a portfolio takes | `ResearchProofs` |
| `PitGenerations` | generations of the PIT store and the collectors that fill them | `PitGenerationsProofs` |
| `PitReceipts` | receipts of single answers, their attempts and events, the workers of a collector | `RecordsProofs` |
| `MonitorAlerts` | the file of alerts and the webhook | `RecordsProofs` |
| `HealthAlert` | the notification of production health | `RecordsProofs` |
| `PersonalBook` | state, fills and ticket of the personal book | `RecordsProofs` |
| `PoolPublication` | replacement of the current pool's audit, with rollback | `RecordsProofs` |
| `ContextCache` | the caches a scan reads and writes whole | `RecordsProofs` |
| `Logs`, `LogLemmas` | files of lines: what an append leaves, also behind a line cut short; the last of a set of positions, and facts about it | `LogLemmas` |
| `MC...` | instances for TLC: functions of model values, symmetry; `MCResearch` and `MCRecords` choose one of several components at the start of a behaviour | |

`Mutant:` in a comment marks a variant of the definition next to it, as a plausible bug
would leave it. Such definitions are used by nothing here; they are what a property of the
run was tested against: put in the definition's place, the property fails.

"map" in `PROJECT.json` names the source lines of every definition.

## 3. Scan lock (`RecommendationLock`)

`generate_daily_recommendations` scans between `_acquire_recommendation_lock` and
`_release_recommendation_lock`. Acquisition tries twice: create with `O_CREAT|O_EXCL`; on
failure read the metadata; if they are too old and this was the first try, unlink and try
again. Release reads the metadata and unlinks if the token is its own.

| code | model |
|---|---|
| path and inode of the lock, its content | `lockFile`: `NoFile`, or who created the inode and whether it is written |
| `os.open` / `FileExistsError` | `CreateExclusive` / `CreateFails` |
| `read_json`: `exists`, then open and parse | `Look` / `ReleaseLook`, then `ReadMetadata` / `ReleaseRead` |
| `_lock_is_stale` ({} is stale) | `Stale` |
| `unlink` by path | `Unlink`, in `Reclaim` and `ReleaseUnlink` |
| write through the descriptor | `WriteToken`: reaches nobody if the path was unlinked meanwhile |
| an exception in acquisition or release | "raised" |
| death of the process | `Crash`, at every step |

`evicted` is a history variable: runs whose file somebody else has unlinked.

The lock cannot promise exclusion: two holders exist when a lock is judged stale under a
live scan, and also when a contender's metadata read finds no file, which counts as stale.
What it does promise: a second holder appears only after an eviction
(`AtMostOneUnevicted`); a lock on disk belongs to a live or a dead holder
(`NoLeakedLock`); an empty lock file of a dead creator blocks for ever
(`WedgeIsPermanent`, an undesirable property, stated so that a change of it is seen);
every attempt ends (`EveryAttemptEnds`); a complete lock of a dead run does not outlive
the first attempt after it became stale (`StaleLockIsReclaimed`).

*Fairness.* `FairSpec` asks for weak fairness of each run's own steps: a thread the
system schedules takes its next system call, and the scan in between returns or raises.
No step waits for another process, so nothing stronger is needed. Nothing is assumed of
`Begin`, `Crash` or `Tick`.

*Bounds.* Three runs: a holder, a contender that acts on old metadata, and a third whose
fresh file is the victim; the races need no fourth. `StaleAfter` 0 and `MaxTime` 1 give
locks that are fresh and stale; a step may fall before or after each tick.

## 4. Publication (`DailyCap`, `Publication`)

| code | model |
|---|---|
| gates before the scan | `BlockAtGate` |
| pool revalidation, prior symbols, scan, evidence, cap, snapshot contract | `Revalidate`, with `Capped` for `cap_daily_publications` |
| `_commit_publication_ledger` | `CommitNothing`, `BuildRow`, `AppendLedger` |
| history, snapshot, audit | `AppendHistory`, `WriteLatest`, `AppendAudit` |
| any exception, writing a "failed" snapshot | `Fail` |
| death between two writes | `Crash` |
| an append cut short by death, or by an exception | `TearAppend`, `AppendRaises` |
| `validate_publication_ledger` | `RowOK` per row, `Valid` |
| `latest()` | `Visible` |
| another process replacing the pool audit | `ChangePool` |

Which symbols a scan selects, and whether evidence and gates pass, is left open: any
selection of at most `Limit` admitted symbols, any verdict. The shipped build fixes two of
the gates to fail (`_recommendation_input_gate`, and
`production_recommendation_eligible` of the pool), so nothing is published until they are
opened; its tests patch them, and the model covers the program with them open. The
row hash is the run that built the row: a run commits once.

*Appends.* `append_jsonl` and `append_jsonl_durable` open a file to append and write at once,
whatever it ends with (`Logs!Written`). What is cut short leaves a part of its line, or the
whole line but the newline (`Tear`); the file is then `cut`, and the next append goes on on that
line. A line that holds more than one record does not parse: a torn line (`Torn`) is the set of
runs that wrote on it. So an append that returns may lose its record, and may destroy the row
before it, which readers had accepted. Whether the cut falls within a character, so that the
file cannot be decoded, makes no difference to the strict readers, which refuse it either way.

`DailyCap` is the promise to a reader: per date one growing set of at most `Cap` symbols, until
the record breaks; from then on a reader is told nothing, for good (`Break`). `KeepsDailyCap`
maps it to what the strict reader tells of the ledger (`Committed`). It holds even with runs
that overlap, and with a torn line anywhere: a second row on one state, a torn line and a row
destroyed by the next append each end publication, and none of them changes what was told into
something else, because the reader refuses the whole file. A reader of the rows before the first
bad one would not have this: an accepted row can be destroyed.

`ShownIsRecorded` relates the three files over crashes and races: what a reader is shown is in
the history and in what the ledger shows of the date, and what the history names a ledger row
had committed. The one excuse is `Swallowed`: the record's append went through, on the line that
another run, since ended, had left unfinished. That happens in the code: a run that dies in its
history append does not stop the next one of the date, which reads only the ledger
(`recommendations.py:1730`), and whose history record is then unreadable while it is shown.

`PublishedIsShown` is the converse, for runs of which none began beside an active one (the
history variable `overlapped`): with no run active, a live snapshot is shown in full, unless its
audit changed, a torn line broke the ledger, or a later run died after its row. It also catches
a selection made under an audit that was replaced during the scan: it would be published and
not shown.

*Bounds.* Two runs, three symbols, two dates when runs follow each other and one when they
overlap, two audits (one admitting all, one a single symbol), limit and cap 2, and an initial
history that is empty or has one entry, of the first date, from before the ledger. Two runs
suffice for a race on one row; three symbols exceed the cap; the second audit makes a
selection that is no longer admitted. Dates meet only in the chain of rows, which the two
dates of runs that follow each other share. `MCPublication` keeps overlapping runs to one
date (`OverlapOnOneDate`), and has at most one of the two files without its last newline
(`OneFileCut`): no operation compares the ends of both, and the proofs have neither bound.

## 5. Service (`RecommendationService`)

The lock and publication composed: `Scan` needs the lock's "hold"; a release follows the
end of the run, also when it raised. The publication steps are those of `Publication`, which
lets runs overlap, so exclusion comes from the lock alone, with its reclaim races.
`LockProtectsLedger`: as long as no lock was taken away from its holder, only a torn
append breaks the ledger, and with no run active a live snapshot is shown in full. Two runs,
one pool, two symbols: the composition adds no rule on symbols.

## 6. Experiment ledger (`ExperimentLifecycle`, `ExperimentLedger`)

Every operation opens the lock file, takes `flock`, reads and validates the whole log,
decides, appends a row and releases. The log and its lock are created together: `O_EXCL`
on the lock, a marker byte, then the first append.

| code | model |
|---|---|
| `_ledger_lock`, bootstrap | `Enter`, `CreateLock`, `CreateLockFails`, `WriteMarker`; `Free` is `flock` |
| `_append_experiment_event_locked` | `Propose` (checks under the lock), `Write` |
| `_validate_event_transition` | `Follows` |
| `append_experiment_event` | `AppendEvent` with `CanAppend` |
| `register_experiment_if_tip_matches` | `Register` with `CanRegister` |
| launch: authorise, complete, fail | `AuthorizeLaunch`, `CompleteLaunch`, `FailLaunch` |
| registered: fail, complete, claim, preflight | `FailRegistered`, `CompleteRegistered`, `ClaimRegistered` |
| precomputed: fail, claim | `FailPrecomputed`, `ClaimPrecomputed` |
| validation: fail, complete, decide | `FailValidation`, `CompleteValidation`, `Decide` |
| a refused operation | `Refuse`; arguments are left open, so any operation may be refused |
| death, also in the middle of a write | `Crash`, `CrashWriting` (nothing, part of a line, all but its newline) |

Rows are experiment and event type; the record hash is the row's index, as the file only
grows under the lock. Experiments have the kind of their registration contract, which
decides their path. The quarantine of `research_control_quarantine.py` is a set of
experiments.

`KeepsLifecycle` says the rows implement `ExperimentLifecycle`: each experiment moves along
the path of its kind, once, whoever competes for it; a launch starts when nothing is open
but sleeping quarantined experiments, and nobody registers beside one. `LaunchKeepsTip`
says how a launch can lose the tip its end depends on: only a v4 launch, only to an
experiment in quarantine that is failed, completed or claimed meanwhile.
`StrandedStays`: who lost the tip never ends. `OpenCanMoveOn`: everybody else has a next
operation. `OrphanStays`: a bootstrap left half done is never repaired.
`SeenByLaunches` says what the ledger is to one controlled launch: `OwnRow` and `OwnTip` (the
last row of the experiment, and whether it is the tip) implement `LaunchLedger`, whatever the
other users of the file do. It is proved, and no run has it (section 14).

*Bounds.* No bound on the log is needed: each experiment has a path of bounded length.
The run `ledger` has two
processes and, chosen at the start, one of two ledgers: one with three experiments, one in
quarantine, one v4, one v3 (the smallest set in which a launch, a quarantine and a rival
coexist), and one with the kinds that the generic append serves, a supervised experiment in
quarantine and a plain one.

## 7. Precompute launch (`PrecomputeLaunch`)

The parent command takes a named mutex, reconciles a launch that lost its parent or
selects a registration, and calls the supervisor: authorise in the ledger, create the run's
files, verify, start the child suspended in a job, answer its READY, wait, record the
result, complete in the ledger. An exception handler finds out what became of calls that
raised, and seals the launch as failed where it is still open.

| code | model |
|---|---|
| `_exclusive_parent_guard` | `owner`; `Begin`, `Ends`; a death frees it |
| `main` of the parent: reconcile or select | `Reconcile`, `ReconcileFails`, `Select`, `SelectNothing` |
| `run_registered_precompute_supervised_v2` | `Authorize`, `Materialize`, `PublishClaim`, `Verify`, `Record`, `Complete` and the ways they are refused |
| its handler, `_read_exact_v2_launch_state` | `Consults`, `State`, `Recover`, `Reraise`, `ToSeal`, `Seal`, `SealRead` |
| `run_supervised` | `Spawn`, `Attach`, `Acknowledge`, `GiveUp`, `Join` |
| the child: lease, READY, acknowledgement, second verification, output | `Consume`, `SayReady`, `SeeAck`, `Reverify`, `WriteOutput`, `Exit`, `ChildFails` |
| the job object of a dead parent | `JobCloses` |
| an append that raises before or after its row is durable; a death | `Fault`, `Crash` |

The experiment ledger enters as the last row of the experiment and whether it is the tip.
`OthersAppend` and `OthersMove` are what `ExperimentLedger` lets others do to these two: beside
an open launch only an experiment in quarantine appends, and the launch's own row moves under
it only where it is a registration given up or a result claimed. `LaunchLedger` writes this
down once: `SeenByLaunches` says that the ledger allows no more, `MovesItsRow` that the launch
itself does no more and its environment here is that one. Files never exist before they are
created, as a registration is launched once, in a fresh directory. Terminating a child is taken
to work. A parent that dies between `Spawn` and `Attach` leaves a suspended child outside the
job for good: it never runs, and the model keeps it. The uncontrolled (v1) launch is not
modelled.

Shown: a completed launch has its output and result on file and its child ended well
(`CompletedHasResult`); a call that got as far as a result returns exactly if the launch is
completed at the tip, whichever of its calls raised (`OutcomeIsTrue`); nobody works for a
launch that is not open, but for a child whose job is being closed (`SealedIsQuiet`); a
launch is closed although its parent died or could not seal it, unless the quarantine took
the tip (`LaunchIsClosed`).

*Fairness.* Each parent's steps and the child's are weakly fair: both are running processes
whose waits have timeouts. So is `JobCloses`, which Windows does for a dead process, and
`Begin`: somebody runs the command again after a crash. Without the latter an orphan stays
open for ever. Nothing is assumed of faults, crashes and other appenders.

*Bounds.* Two parents, of which one holds the mutex; two faults, so that a call raises and
the handler's own call raises too, or a parent dies and its successor's call raises.
`Quarantine` is TRUE, which adds the lost tip and takes nothing away.

## 8. Formal supervisor (`FormalLaunch`)

A signed authorization starts a run, or resumes one. The supervisor uses it up by files
that are written once: the claim, then the bootstrap authorization, the id and the nonce for
a run, or the transition for a resume; then the worker, its terminal and the completion. A
resume opens the files of its original first.

| code | model |
|---|---|
| `_ledger_write_once` (lease, staging, rename without replacing, recovery of a stale staging file) | one step, `WriteClaim`, `WriteKey`, `WriteTransition`, `WriteTerminal`, `WriteCompleted`; `Wrote` also ends the supervisor after the file appeared |
| `_HeldLedgerFile`: the handle open for writing, which bars other openers | `HoldsClaim`, `HeldBySomebody` |
| `_validate_resume_status` | `CheckOriginal`, `OpenOriginal` |
| `_reject_completed_resume`, three times | `Uncompleted` in `CheckOriginal`, `Recheck`, `Confirm` |
| `_run_worker` | `StartWorker`, `WorkerEnds`; `SupervisorDies` leaves its worker behind |
| any check that raises | `Stop` |

`UsedOnce` is the point of these files: of authorizations that share an id, a nonce or a
bootstrap authorization, a resume among them, at most one is completed; no two of them have a
worker under a living supervisor; and beside the worker of a dead one only the resume of its
run has one (no job object ends a worker with its supervisor, so this does happen). A resume
whose original completes between its first look and its claim does start a worker; the
later look keeps it from completing. `SpentStays`: a run whose supervisor left a key unwritten,
or whose one resume is gone, starts no worker any more, whatever is signed for it.

*Bounds.* Two supervisors; run `a` with two resumes, and run `b` that shares its id but not
its other keys: a race for a claim, for a transition, and for one key of three. No fairness:
nothing here must happen.

## 9. Portfolio selection (`PortfolioSelection`)

Three selectors share one scan over the signal days and the ranked candidates of a day:
`_select_with_portfolio_controls_receipt`, `_select_with_correlation_budget` and
`_select_with_industry_cap_receipt`. The constants say what each of them checks. Candidates
are any: the next one is chosen when the scan gets there, which covers every input at once.
Entry and exit are at most `MaxHold` days off, since a symbol may not trade. Ranks, returns
and correlations are floating point and left out: a correlation skip may always happen.

`HeldOnce`: a symbol, and under the cap an industry, is taken again only after its last
position has left, and a symbol not before its cooldown is over. The scan only looks at what
is active and at the last exit; this is about every pair of positions. `BudgetAccepts`: the
probability budget (`_validate_selected_active_capacity`), which counts open positions in
its own way, on entry dates rather than signal days, never refuses a selection for its
capacity. It holds as positions that are counted when they are signalled are counted too
early, never too late. `top_n` is looked at after a candidate was taken, so that a `top_n`
of 0 takes one a day; the model keeps that.

*Bounds.* Three symbols, two industries, `TopN` 2, two positions, cooldown 2, three signal
days, two days of delay. The run uses four settings: as given, with receipts of version 1
(exits on the signal day still count), with the industry cap, and with `top_n` 0. Its
properties are evaluated with the given constants, which for the variants is the weaker
reading (version 1 holds longer; the cap is not asked for); the theorems cover every
combination.

## 10. Point-in-time generations (`PitGenerations`)

A generation gathers one captured answer per shard: the four datasets of a trade date, or
the eight partitions of the security master; the methods are the same. It becomes
visible when the head moves to it. Each method of the store is one `BEGIN IMMEDIATE`
transaction and one action; between two, anything happens.

| code | model |
|---|---|
| every constructor: `_recover_orphan_promotions_on_connection` | `OpenStore` |
| `collect_market_session_generation`, `collect_security_master` | `Start`, `ReadClock`, `Begin`, `Check`, `BeginAgain`, `Fetch`, `Stage`, `Publish` |
| `begin_or_resume_..._generation` | `Resume`, `Replace`, `ClockRefused` |
| `_staged_generation_matches_request_semantics` | `Matches` |
| `record_fetch_attempt` | `Fetch` |
| `stage_..._attempt` | `CanStage`, `Stage`, `StageRefused` |
| `publish_..._generation`, the manifest checks | `CanPublish`, `Verifies`, `Publish`, `PublishRefused` |
| death, network exhausted, clock not attested | `Fail`, at every step |
| a security listed or delisted between two fetches | `Move` |

A run of a collector is configured anew at `Start`: whether it resumes, and what it
requests (`Semantics` stands for the digests of request and provider). The order of the
fetches is left open, where the code has a fixed one. Answers that are not accepted
leave an attempt nobody stages and are left out, with the vintage label
(`research_pit_store.py` 3472), receipts and raw files; `PitReceipts` has the receipts.

Shown: the head is the newest published generation, whoever publishes when
(`HeadIsNewest`); a published generation verifies for ever although any process may
recover, abandon and stage around it (`PublishedVerifies`); what is published is never
rewritten (`PublishedStays`); that shards and events correspond (`StagedOnce`) is a theorem
only. For a collector that has the store to itself: its resume never
meets a staged dataset (`NoConflict`; the symptom `HANDOFF.md:82` reports needs a rival or
another cause), it resumes what is fresh (`FreshPartialResumes`), and what is complete can be
published as long as securities stay where they are (`CompleteIsPublishable`).

*Bounds.* `gens_rivals`: two collectors, two datasets, two generations, four answers, so
that two generations can be published and their publications race; window 0 and clock 1 make
answers and readings both in time and late. `gens_alone`: one collector, which may ask for
something else each time it starts, two datasets, three answers. Both bounds stop the
system (attempts are never removed), hence `CHECK_DEADLOCK FALSE`.

## 11. Receipts of single answers (`PitReceipts`)

The other way into the PIT store: `fetch_partition` records each answer as an attempt,
promotes an attempt to the receipt of its part and closes it with one event, in four
transactions. Opening the store, and reading its index, closes every attempt that has no
event, those of living collectors among them.

| code | model |
|---|---|
| `PITReceiptStore._initialize`, `_recover_orphan_promotions_on_connection` | `Open`, `Recovered` |
| `_run_phase`: workers, cancellation | `Invoke`, `cancelled`, `Fail` |
| `fetch_partition`: the index read by one worker for all | `StartLoading`, `Load`, `LoadFails`, `UseIndex` |
| the request and `record_fetch_attempt` | `Post`, `Record` |
| an answer the collector rejects, retries | `CloseFaulty`, `RetriesLeft` |
| `promote_fetch_attempt` | `Promote`, `Ingest`, `Close` |
| `_append_promotion_event`: the first event of an attempt stays | `FirstEvent`, `Told` |
| `_collect_once`, the last look at the index; a crash | `End`, `Crash` |

`EventsMatchReceipts`: an accepted attempt has the body of its part's receipt and a conflict
has another, whoever wrote the event. `ReturnedMeansIndexed`: a part whose fetch returned is
in the index. `RecoveryRepairs`: whoever closes an attempt whose body is the receipt brings
its part into the index, so a crash between receipt and event costs nothing.
`EveryRunEnds`: the wait for the one worker that reads the index ends although the reading
may fail.

*Bounds.* One collector has two parts, the other one of them. Two instances: `Rivals`, two
runs, of both or of one twice, with one try; and `Solo`, one run with two tries and a body
the store does not take ("invalid" outcomes appear only here).

*Fairness.* A worker that can go on does, and a collector whose workers are through ends;
requests have timeouts. Nothing is assumed of openings and crashes.

## 12. Records without a lock

Five small components (`MonitorAlerts`, `HealthAlert`, `PersonalBook`, `PoolPublication`,
`ContextCache`) in which processes read a file, compute and write it back, with nothing to
exclude each other. For each the question is what survives that, and the properties say
under which conditions: history variables (`overlapped`, `quiet`, `disturbed`, `doubtful`)
record when two operations met or a write failed, so that a property says both what holds
without such events and what cannot happen with them.

**MonitorAlerts** (`monitor_recommendations`, `monitor_planned_exits`). A run reads the ids on
file (`ReadKnown`: only the last rows, 3000 in the code, `Window` here), then files and posts
one alert after the other (`FileAlert`, `PostAlert`). A post that fails is swallowed and the
alert is on file, so it is lost; so is one whose run died in between; any other exception ends
the run (`MonitorEnds`). Nothing in the code posts an alert again or promises that each
arrives, so no property says so. An append may be cut short (`TearAlert`) of its newline or of
more, and the next one goes on on its line (`FileLine`, with `Logs!Written`). `read_jsonl` skips
a line that does not parse; a file cut within a character cannot be decoded at all, and every
later run raises before it files anything ("garbled"). `RepeatsAreUnseen`: two lines of one
alert come from runs of which one could not have read the other's line, because it read before,
because the line is past the window, or because it does not parse: an alert whose line went
onto a torn one is posted, and filed and posted again by the next run. And no alert reaches the
receiver more often than its appends went through. The two monitors form different ids, so a
run of the other one does not matter.

**HealthAlert** (`process_health_alert`). Observe, read the state of the last check, post on a
change or when a reminder is due, replace the state. A lost post is swallowed and the state
says it was notified. `QuietIsHeard`: as long as no post failed and no check died or overlapped
another, the receiver knows what the state says. `LastingProblemIsHeard`: a problem that stays
is heard in the end and stays the last thing heard, thanks to the reminder. A *recovery* has no
reminder: after a lost post or a crash in between it may never be reported, although
`README.md:156` says it is notified once. *Fairness*: the timer starts checks for ever and a
check goes on, time passes, and posts do not fail for ever (strong fairness of `Deliver`, as
between two posts none is enabled); without the last nothing could be heard.

**PersonalBook** (`record_event`, `build_and_store`). The state, the file of fills and the
ticket, in that order for a person's events; ticket, then state, for the daily job. The book
has one position at most, so the number of its fills tells whether it holds one; amounts are
left out, and a valuation may set any halt. `BookExplainsFills`: the book never shows a fill
that is neither on file nor caught between the two writes, and it shows all of them unless two
operations overlapped (then the one that writes last drops the other's fill; that can happen in
the code, as the job and a person do not exclude each other). `TicketFitsBook`: with nothing
under way, the ticket does not tell to open a position against a halt or a position, unless
operations overlapped or one died before its ticket and none has ended well since. The code
keeps the last 50 events in the state (`personal_book.py:453`), which the model does not cut,
and never reads `FILLS.jsonl` back, so what a torn append does to it is left out.

**PoolPublication** (`_publish_current_pool_audit`). Replace the target by a verified copy,
synchronise the directory, roll back on failure, synchronise again. `survivors` are the
contents a power failure may leave. A target that is a symbolic link is not read and is rolled
back to nothing; one with the same bytes is left alone, without a synchronisation of its own.
`PublishedSurvives`: what was last reported as published is what readers find and what a power
failure leaves, however many publications failed since, unless one is under way, was uncertain,
cut short or overlapped.

**ContextCache** (`evaluate` of announcements, news and fund flow). Read the whole file, ask the
source if the entry is missing or old, write the whole file. Scans overlap only when the scan
lock was reclaimed. `FreshHidesNoOldNews`: a fresh entry, which keeps a scan from asking, is not
older than news that appeared as long ago as an entry lives, however often scans put back older
copies of the file. `AnswerIsNewestFetched`: without overlap, a scan is answered the newest
payload ever fetched for its symbol, also when the source fails, so that a source that fails
does not let a blocked symbol through; `write_json` failing gives up what was just fetched
(`announcement_context.py:431`) and counts as a disturbance.

*Bounds* (`records.cfg`). Two actors each. Alerts: two ids, three lines, a window of one line, so
that a known alert slides out of it, and one line at a time that lacks its newline or does not
parse (`OneTear`). Health: two problems, a reminder after one hour, two
changes of the world, one death. Book: two fills, an opening and a closing one. Pool: two audits
and three publications, so that one succeeds, one fails and one meets it. Caches: two symbols,
entries that live one hour, two versions of the news, two answers.

## 13. Runs

`CHECK_DEADLOCK FALSE` throughout: runs end, experiments are decided, an orphaned lock
refuses everybody, and bounded counters run out, so the modelled systems really stop.
Symmetry is used in runs that check no liveness. `MCResearch` and `MCRecords` put several
components into one run: the first state chooses one, the others stay still, and fairness is
asked of the one chosen. The type invariants are proved and are not part of the runs.

| run | module | distinct states | properties | shows |
|---|---|---|---|---|
| `lock` | `MCRecommendationLock` | 83 648 | `AtMostOneUnevicted`, `NoLeakedLock`, `WedgeIsPermanent`, `EveryAttemptEnds`, `StaleLockIsReclaimed` | Every interleaving of three attempts with crashes, vanished and empty files and locks that grow stale: what the lock file guarantees, that under weak fairness of each run every attempt ends, and that the complete lock of a dead run does not survive the first attempt after it became stale |
| `lock_second_scan` | `MCRecommendationLock` | violation | `NoSecondScan` | A contender that finds the lock file gone unlinks and recreates it: two scans run at once with no lock older than the limit |
| `publication` | `MCPublication` | 908 106 | `PublishedIsShown`, `ShownIsRecorded`, `KeepsDailyCap` | Two scan runs, one after the other over two target dates or overlapping on one, with crashes, failures and appends cut short: what is shown is in the history and in the ledger unless a torn line swallowed the record, what runs that never overlapped publish is shown unless a later one died between its ledger row and its snapshot, and what a reader of the ledger is told implements the daily cap even in a race |
| `service` | `MCRecommendationService` | 2 960 754 | `LockProtectsLedger` | The scan lock composed with publication: the ledger is damaged by a race, and a finished publication hidden, only after a lock was taken away from its holder |
| `ledger` | `MCExperimentLedger` | 75 433 | `LaunchKeepsTip`, `OpenCanMoveOn`, `KeepsLifecycle`, `StrandedStays`, `OrphanStays` | Two processes that may die anywhere, on a ledger with a v4 launch over a quarantined experiment and a v3 launch, or on one with a supervised and a plain experiment: the rows implement the lifecycle, a launch loses the ledger's tip only to the quarantine, who has lost it never ends, and everybody else has a next operation |
| `ledger_unterminated` | `MCExperimentLedger` | violation | `AppendedIsReadable` | An append that follows a line without its newline returns, and leaves a ledger no reader accepts |
| `gens_rivals` | `MCPitGenerations` | 1 116 379 | `HeadIsNewest`, `PublishedStays` | Two collectors over two datasets while time passes, each resuming or forcing a new generation: the head is always the newest published generation, and nothing published is rewritten |
| `gens_alone` | `MCPitGenerations` | 754 616 | `NoConflict`, `PublishedVerifies`, `CompleteIsPublishable`, `FreshPartialResumes` | One collector that dies anywhere, comes back and may be configured anew: it resumes what is fresh, never meets a staged dataset again, can publish what is complete, and what it published stays readable |
| `gens_resume` | `MCPitGenerations` | violation | `FreshPartialResumes` | A second collector that resumes looks at the staged events after the first has staged one more, takes the difference for foreign requests and abandons the fresh generation under it |
| `gens_overlap` | `MCPitGenerations` | violation | `CompleteIsPublishable` | A security that moves between two partitions while they are fetched leaves a complete generation that is refused whenever it is published |
| `research` | `MCResearch` | 152 328 | `CompletedHasResult`, `SealedIsQuiet`, `OutcomeIsTrue`, `LaunchIsClosed`; `UsedOnce`, `SpentStays`; `HeldOnce`, `BudgetAccepts` | What guards the research runs: two parent commands on one registration with crashes and appends that raise, beside a quarantined experiment; two formal supervisors over a run, its two resumes and a run that shares its id; a portfolio's selection from every sequence of candidates, in four settings |
| `records` | `MCRecords` | 440 383 | `EventsMatchReceipts`, `ReturnedMeansIndexed`, `RecoveryRepairs`, `EveryRunEnds`; `RepeatsAreUnseen`; `QuietIsHeard`, `LastingProblemIsHeard`; `BookExplainsFills`, `TicketFitsBook`; `PublishedSurvives`; `FreshHidesNoOldNews`, `AnswerIsNewestFetched` | Records that actors write without excluding each other: receipts of collectors that race, die and try again; overlapping monitors whose appends are cut short; overlapping and dying health checks; the personal book under its job and a person; the pool's publication under failing synchronisation and power; the caches of overlapping scans |

## 14. Proofs

Each `...Proofs` module takes the component's specification with its constants free: any
number of processes, experiments, symbols, generations. What is assumed is the `ASSUME` of
the component's module, which TLC evaluates in each run.

**RecommendationLockProofs** (`TypeCorrect`, `Exclusion`, `NoLeak`, `WedgeStays`).
`AtMostOneUnevicted` is not inductive: it must be known that the path names the file of its
holder. The invariant `LockInv` adds `HolderOwnsFile` (who holds owns the file or was
evicted), from which exclusion follows, as one path names one file, and
`EmptyMeansUnwritten`.

**PublicationProofs** (`TypeCorrect`, `LedgerKeepsDailyCap`, `ShownRecorded`,
`NoOverlapKeepsLedger`, `PublishedShown`, `ReaderSeesAtMostCap`). The refinement needs no
invariant beyond the type, which says that a torn line is no row (`TornApart`). A step leaves
the ledger as it is, adds a line, or replaces the last one by a torn line (`LedgerStep`). A
ledger that has a line the reader refuses is never accepted again (`StaysInvalid`), and one that
is accepted after the step was accepted before and had a row of one date added, which `RowOK`
bounds (`AcceptedPublishes`). `ShownRecorded` has the invariant `Recorded`: a run past its
ledger append has its row in the ledger, one past its history append its entry there, or a torn
line swallowed it (`RunsRecorded`); the snapshot and the history name only such rows
(`LatestRecorded`, `HistoryLedgered`); a run has one row (`OneRowEach`), so that the receipt of
a snapshot identifies what the date shows (`ShownIsCommitted`); and a line without its newline
belongs to a run that ended in that append, so nothing later names it and the next append may
destroy it (`LedgerCut`, `HistoryCut`). It holds with any overlap and needs no validation;
`ReaderSeesAtMostCap` follows from it and from the refinement. `NoOverlapKeepsLedger` says what
exclusion is for: while no run began beside an active one, only a torn append breaks the
ledger. Its invariant `AloneInv` says that one run is active, that what it has selected its
audit admits and the cap allows (`JobFits`), that the row it drafts is the one a reader accepts
next (`DraftFits`), and that the last row of a date is the row of the snapshot or of a run that
has yet to write its own or died before (`WrittenLast`, `LatestLast`). `PublishedShown`
follows.

**RecommendationServiceProofs** (`ImplementsLock`, `ImplementsPublication`, `LockSerializes`,
`LedgerProtected`, `ServiceShowsAtMostCap`, `ServiceKeepsDailyCap`). Every step of the service
is a step of each component or leaves it alone, so the theorems about the components hold of
the service. They are taken from instances of the two proof modules; `SameLock` and
`SamePublication` say that these are the components the service is made of, and `ConstantsFit`
that its constants satisfy their assumptions. `ScansHold` ties the two together: a run that is
active in publication is at the lock's "hold". A run that began beside an active one would be
the second of two holders, which by `Exclusion` needs an eviction: hence `LockSerializes`, and
with `NoOverlapKeepsLedger` and `PublishedShown` `LedgerProtected`. What a reader may see at
most does not depend on the lock.

**ExperimentLedgerProofs** (`TypeCorrect`, `LifecycleKept`, `StrandedForever`, `LaunchTip`,
`OneLaunchAtATime`, `OpenMoves`, `OrphanForever`, `LaunchesSeeTheirLedger`). The conditions of
an operation are read before its write, so the invariant `LedgerInv` says that they still hold:
one process is between the two (`OneWriter`), its draft is still admitted (`DraftsAdmitted`),
and each stage is reached only by the kinds whose path has it (`OnPath`). `AppendImplements`
then maps each write to a step of `ExperimentLifecycle`; every other step stutters. `LaunchTip`
adds `LaunchInv`: beside a launch only the quarantine is open; as it holds no v4 record, two
launches would each have to be in the other's quarantine (`OneLaunchAtATime`). `OpenMoves` adds
where rows are (`RowsPlaced`): a launch right after its registration, the result of a
controlled experiment right after its launch, no review of a controlled one. A result is
therefore chained, which `_validated_precomputed_state` asks for, and a review never blocks.
`LaunchesSeeTheirLedger` maps each write to a step of `LaunchLedger`; `PastFits` tells from the
last row of an experiment what came before it, as a "failed" may end a registration, a launch
or a result. This ties the ledger to the launch: its users do no more under a launch than
`OthersAppend` and `OthersMove`, which `PrecomputeLaunch` has word for word as its environment,
and by `LaunchStaysWithinLedger` the launch does no more itself than the other three actions.

**ResearchProofs**. Of `PrecomputeLaunch`: `TypeCorrect`, `CompletedLaunchHasResult`,
`SealedLaunchIsQuiet`, `ReportIsTrue`, `LaunchStaysWithinLedger`, for any number of parents and
faults. `LaunchInv` adds to the types: who works owns the mutex (`Owned`); a call knows of its
launch and its result exactly where it should (`Known`); the launch it works for is still the
experiment's last row, also after a call of its own raised (`Kept`); a child that lives has a
parent that waits for it or its job is being closed (`Watched`); a result is recorded and
completed only of a child that ended well (`Ready`). Of `FormalLaunch`: `FormalInvHolds`,
`AuthorizationsUsedOnce`, `SpentForever`, for any keys and any way they are shared. `FormalInv`
says what each step of a supervisor has written and holds (`StepsFit`, `HeldAlone`,
`KeysWritten`, `OriginalsOpened`), that a worker and a completion only come after the files
that authorise them (`AuthorizedWrote`, `TransitionsTaken`), and that no two rivals are
completed (`NotTwice`); that files never change once written is shown of every step. Of
`PortfolioSelection`: `SelectionInvHolds`, `SelectionTypeCorrect`, `TakenOnce`, `CapacityKept`,
`BudgetNeverRefuses`, for any candidates, capacity, cooldown and horizon. The invariant adds to
`HeldOnce` and `WithinCapacity`: trades are in the order of their signals (`InOrder`), `active`
is what is still held (`ActiveIsHeld`) and fits (`ActiveFits`), and no trade of a symbol leaves
after its `lastExit` (`LastIsLast`). A trade that is open on some date was active when the last
trade open on it was taken, which is why counting on signal days bounds the count on every
date. `CapacityKept` is `WithinCapacity`, which no run checks, as `BudgetAccepts` says more.

**PitGenerationsProofs**. The actions are first reduced to six shapes of transaction on
the tables (`Transactions`): a store is opened, a generation begins, an answer is recorded,
staged, published, or nothing changes. The invariant `Inv` says that collectors refer to
rows that exist (`Placed`), that only the newest generation is being collected
(`LastCollecting`), that shards are attempts accepted for them (`ShardsBound`), and that
staged events are shards (`EventsBound`); `HeadNewest`, `Verified`, `NeverRewritten` and
`StagedOnceOnly` follow. `CompletePublishable` assumes that no security moves between two
datasets (`Movable` has at most one dataset); `gens_overlap` shows it is needed.
`AloneNoConflict` and `AloneResumes` assume one collector; `gens_resume` shows the
latter needs it. The bounds `MaxClock`, `MaxGenerations` and `MaxAttempts` are arbitrary
natural numbers.

**RecordsProofs** has the records that are written without a lock, each with an invariant of
its own, for any number of actors. Receipts (`TypeCorrect`, `EventsAgree`,
`ReturnedIsIndexed`, `RecoveryIsRepair`): `ReceiptsInv` says that receipts only come from
attempts the store takes (`ReceiptsTaken`), that an index in memory is part of that of the
store (`IndexSound`), that a verdict is what the receipts say (`VerdictTrue`) and that a
fetch at work has its row (`HasRow`). The pool (`SettledSurvives`): `PoolInv` says that a
publisher nobody overlapped finds its own audit in place when it synchronises
(`AloneIsAlone`, `OwnAudit`), and that without doubt what was last reported is in place or is
what the one publisher will put back (`Undoubted`). The book (`FillsExplained`,
`TicketFitsTheBook`): `BookInv` says that what an operation holds in memory is explained too
(`MineIsKnown`) and that without overlap one operation is under way. Alerts
(`RepeatsUnseenHolds`): `MonitorInv` relates what a run knows to the length it read
(`SeenIsKnown`, of the lines that still parse), and posts to lines (`SentIsFiled`: what was
sent, and what is being posted, has a line on which its append went through; the last line of
a cut file, which the next append may take, is not one of them). Health
(`QuietIsHeardAlways`). Caches (`FreshIsNew`, `AnswerIsNewest`): an entry, on file or in a
scan's memory, is the newest version or at least as old as the news it lacks (`OldAsNews`),
and without disturbance what is on file was fetched last, but for the one symbol a scan is
about to write (`Newest`).

**LogLemmas** has what the provers need to know of the last element of a set of positions.

*Only model-checked*: liveness (`EveryAttemptEnds`, `StaleLockIsReclaimed`, `LaunchIsClosed`,
`EveryRunEnds`, `LastingProblemIsHeard`), as fairness and ENABLED are out of the prover's
reach. Every other property of the passing runs is a theorem.

*Only proved*: `LaunchesSeeTheirLedger`, `LaunchStaysWithinLedger`, `OneLaunchAtATime` and
`CapacityKept` state formulas that no run has among its properties; the invariants they rest
on are those of the theorems about the runs' properties, with `PastFits`.

## 15. Where code and documents disagree

Four runs end in a violation (see `findings` in `PROJECT.json` for the lines):

- `lock_second_scan`: `README.md:21` promises that a trigger during a run starts no second
  scan. A contender whose create fails and whose metadata read finds no file takes `{}` for
  stale and unlinks the path, which may by then be the fresh lock of a third run.
- `ledger_unterminated`: a writer dies with all but the newline of its row on disk. Readers
  accept the row, the next append goes to the same line and returns success, and the
  ledger reads no more.
- `gens_resume`: `README.md:482` has fresh partial generations resume. A resuming collector
  compares datasets from one transaction with events from a later one; another collector
  that stages in between makes it abandon a fresh generation.
- `gens_overlap`: a complete generation is taken for publishable at any time. A security
  delisted between the fetches of two partitions is in both, publication refuses, and as a
  complete generation never expires every resume is refused again.

Three more statements are written down as definitions that no run checks, since they are
smaller: TLC refutes them with the configurations of the same modules.
`TriggerReturnsStatus` (a trigger during a run gets its status: `README.md:21`; it may also
raise from `read_json` on a file that is empty or has just gone, `recommendations.py:1551`).
`RefusalLeavesNoLock` (`tests/test_research_validation_ledger_safety.py:120`; an operation
refused after the bootstrap at `research_validation.py:1333` leaves an orphan lock).
`RejectedWasInterrupted` (the comment at `research_pit_store.py:7219` takes an attempt
without an event for an interrupted one; a live collector between recording and staging has
such an attempt, and is then refused).

## 16. Not modelled

`PROJECT.json` lists every part with its reason. In short: numerical code (signals,
indicators, backtest returns, learned rankings) is floating point without shared state;
document authorities and materializers run once and bind content by hash; provider
adapters are network input and parsing; offline replays and fixtures have no observers.

Of the modelled parts, left out are: hashing and formats (represented as above); network
slots and clock attestation of the collector; the vintage label of a generation; the
membership and ETF generations (`research_pit_store.py` 3915-6305), which live like those of
the market session but have their own rules on what a batch may span; the coverage audit;
the uncontrolled launch of version 1; the epoch lease of the formal supervisor's parent
sources (`factor_v3_formal_trusted_supervisor.py` 735-1380) and the native broker in C; amounts
in the personal book; holdings and watchlist, whose whole list a request replaces; and
`research_partitions.py`, which is a table of dates.

Most of the repository's lines are in the parts of the first paragraph. The models cover what
is shared between processes; it is a small share of the lines and most of the hazards that
tests do not reach.

## 17. Plan

Done: the modules of section 2 and their proofs. Left, by weight of what can go wrong:

1. The epoch lease and retirement of parent sources of the formal supervisor, composed with
   `FormalLaunch`: a retired epoch must not start a worker.
2. Membership and ETF generations, as a second instance of `PitGenerations` with the rule of
   which dates a batch may span, and whether a publication may mix vintages.
3. Network slots (bounded, shared between collectors) and the clock's attestation.
4. Publication of plans and their successors under a claim.
