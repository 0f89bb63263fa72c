# TLA+ models of NorthStack

NorthStack drives a language model through a project: it compiles a request into
a contract, plans a graph of cells, runs the cells with workers, verifies the
result and pronounces an outcome, and writes every step to an append-only ledger
from which a run can be replayed and resumed. This directory holds TLA+ models of
its core, the TLC runs that check them on small instances, and proofs, checked by
TLAPS, of what holds for every instance. Paths below are relative to the
repository; the Python package is `src/northstack`.

Contents: [the system](#the-system), [modules](#modules-and-the-code),
[runs](#runs), [proofs](#proofs), [findings](#findings),
[not modelled](#what-is-not-modelled), [plan](#plan).

## The system

One process, one asyncio event loop. A coroutine runs alone between two awaits;
what interleaves is other coroutines at awaits, threads behind
`asyncio.to_thread` (ledger appends, artifact writes) and the web server's
thread pool for `def` routes, and, on one ledger file, other processes.

| Component | State | Operations | Interacts with |
|---|---|---|---|
| **Company** (`application/orchestrator.py`, `events/stream.py`) | locals of one coroutine: `current_status`, `cell_outcome`, `terminal_outcome` | `run_async`, `resume_async`, `_verify_and_finish`, `_emit_failure` | drives every other part; the only writer of a run's status and outcome |
| **Run status machine** (`domain/status.py`) | none | `can_transition`, `route` | consulted by Company before each status, by projection on replay |
| **Projection, replay** (`events/projection.py`, `application/replay.py`) | `RunState`, folded from events | `fold` | read by resume, the control plane, the terminal interfaces |
| **Wave loop, scheduler, stall watchdog** (`application/orchestrator.py`, `scheduling.py`, `stall_detector.py`) | `completed_ids`, `failed_ids`, the batch under guard, the last heartbeat | `_execute_cells`, `ready_cells`, `_run_with_stall_watchdog` | starts the cell runner's coroutines, asks the budget authority |
| **Planning** (`application/planning.py`) | none | `validate` | decides which graphs the wave loop may be given |
| **Cell runner** (`application/cell_runner.py`, `retry.py`, `recovery.py`, `routing.py`) | per cell: attempt, profile, usage at start; per run: usage totals, seen signatures | `run_cell`, `next_action`, `route`, `decide` | calls the worker, records spend, emits the audit trail |
| **Budget authority** (`application/budget_authority.py`) | committed and reserved spend, active reservations, under one lock | `reserve`, `commit`, `release`, `record`, `remaining` | called by the cell runner and the wave loop |
| **Ledger** (`adapters/sqlite_ledger.py`) | events with sequence numbers and a hash chain | `append_next`, `events_since`, `tombstone_run`, `verify_integrity` | every component writes through it; readers in other threads and processes |
| **Control plane** (`application/run_supervisor.py`, `run_index.py`, `projection_cache.py`, `interfaces/web`) | supervisors by run, index, cached projections | start, resume, stop, delete, get, shutdown | owns the task that Company runs in; cancels it |
| **Worker** (`application/worker.py`, `application/tools`) | conversation, tool rounds, checkpoint | `run` | gateway, workspace, mutation lease |
| **Workspace** (`adapters/workspace`) | files, one mutation lease | read, list, search, create, write, replace, patch, run command, acquire, release | worker, hard gates, intake scan |
| **Model gateway** (`adapters/providers`) | per profile a rolling window and a semaphore; per stream a parser and an assembler | `complete`, `stream` | worker, planner, compiler, reviewers |
| **Verification, release law** (`application/release_law.py`, `verification/`) | none | `decide`, hard gates, reviews | its verdict is what Company emits |
| **Contract compiler** (`application/contracting.py`) | none between runs | `compile` | first stage of Company |
| **Web assets** (`interfaces/web/static/js`) | polling timers, in-flight requests | `start`, `refreshNow`, `stop` | the control plane's HTTP interface |

### What is hard in it

- **Cancellation at an await.** `POST /stop`, the server's shutdown and Ctrl-C
  cancel Company's task wherever it stands. Appends are shielded, so a
  cancellation and a persisted event are independent of each other, and the
  handler must work from locals that may lag behind the ledger.
- **One step of several failing.** Any append may fail (a locked database, a full
  disk, a closed ledger), the handler's own included.
- **Concurrent cells.** The readers of a wave run together and share usage
  totals and the retry table; one may raise or hang while others go on.
- **Two cancellations with one exception type.** The stall watchdog and an
  operator both cancel the same await.
- **Threads beside the loop.** A view or a deletion runs on a thread: what it read
  of a supervisor or of the projection cache may be stale when it uses it.
- **Loops without a counter.** The attempt loop ends by its ladders when no cap
  is set, the wave loop by its rounds.
- **A conversation with several authors.** The worker's loop, its compaction, a
  schema repair, truncation nudges, the cell runner's retries and the checkpoint on
  disk all shape the list of messages that the provider validates as a whole.
- **Resume.** A run is continued from its ledger, by the same code, possibly more
  than once, after a stop at any point; two resumes may work side by side on the
  same checkpoint files.
- **A shared, rate-limited provider.** Calls queue for a semaphore and a rolling
  window, fail, are retried and cancelled; a connection that ends looks like an
  answer that ended.
- **Criteria made before the work they judge.** What a contract asserts is taken
  from a workspace and from a model's answer, and is judged after edits and
  commands have changed the former.

### What makes each component correct

- Company: at most one outcome; a terminal status only with its outcome, verified
  only with the evidence before it; the caller is told what the ledger says; a
  run that was begun is concluded and stays replayable.
- Wave loop: a mutating cell runs alone; no cell before its dependencies or
  twice; nothing starts on a spent budget or after a verdict; nothing is left
  running; hung cells do not pin the run.
- Cell runner: attempts are bounded, by the ladders and by the configured cap;
  siblings do not spend each other's retries; every attempt is audited; spend is
  attributed to the cell that spent it.
- Budget authority: committed and held spend stay within the limits; settling in
  any order neither leaks headroom nor refunds it twice.
- Worker: every request pairs tool calls with their results and opens with the
  objective; the limits of the contract hold and end every attempt; a write runs
  alone; the lease is given back.
- Ledger and projection: sequence numbers without gap; readers never skip an
  event. Control plane: one task per run, released once; the cached projection is
  that of the events it claims to cover.
- Resume: what a run recorded is not done again, what it kept is used, what it
  spent is carried over, and what it knew of its cells' evidence is found.
- Gateway: no window sees more reservations than allowed, slots are given back
  however a call ends, every call ends; an answer is returned whole or not at all;
  a converted conversation keeps calls and results together.
- Compiler, gates, release law: a verdict rests on tests seen as they were
  compiled; grounding drops no assertion but a repeated one; failed, abstained and
  verified are told apart in the order the law states.
- Workspace: a view that is cut says so; an edit has one place to go.

`PROJECT.json` lists the hazards, each at the line where it bites, with the
properties that cover it or the reason why none does.

## Modules and the code

| Module | Models |
|---|---|
| `RunStatus` | statuses, outcomes, the transition table and its one detour |
| `RunPromise` | abstract: what a reader of the ledger is promised about a run |
| `Company` | one run or resume from its first event to its return; implements `RunPromise` |
| `Waves` | `_execute_cells`: rounds, batches, the guard and its watchdog, results |
| `CellRunner` | the attempt loops of the cells of one wave, concurrently |
| `BudgetAuthority` | the spend authority, called by any number of threads |
| `ControlPlane` | one run in the web server: start, stop, views, deletion, shutdown |
| `Worker` | the model/tool loop of a cell over its attempts: conversation, compaction, limits, tool batches, checkpoint |
| `Wire` | conversations, answers and streams in the three protocols, as operators |
| `Gateway` | calls of one profile: limiter, retries, streams, cancellation; extends `Wire` |
| `Resume` | a chain of runs over one ledger and one set of checkpoints |
| `Workspace` | reads, views, edits, tree digests and the intake scan, as operators on a disk |
| `Acceptance` | from a goal to a verdict: criteria, work, gates, reviewers, release law; extends `Workspace` |
| `MC_*` | constants for TLC |
| `*_proofs` | theorems |

The components compose at narrow interfaces, and each module abstracts its
neighbour to that interface: `Company!ExecuteCells` returns or raises what
`Waves` may leave in `outcome` (`verify`, `failed`, `abstained`, `exhausted`,
`stalled`; `error` and `cancelled` are its exceptions); a cell of `Waves` ends in
the five ways a cell of `CellRunner` ends or is torn down; `Waves!dry` is what
`BudgetAuthority` would report; `ControlPlane!EndRun` is `Company`'s return, and
its `Stop` and `Shutdown` the cancellations `Company` and `Waves` may meet;
the results of `CellRunner`'s attempts are what `Worker!Return` leaves in
`outcome`, and `Worker!Retry` the ladder that sends them round again;
what `Worker!Answer` is given is what `Gateway` leaves in `result`; the seeded cells
with which a `Waves` run may begin are what `Resume!Resume` leaves in `stage`, and
a `Resume` cell ends in the ways of `CellRunner`; `Acceptance!Release` is the
verdict `Company!Verify` takes as any.

### Company

`pc` names the await at which the coroutine stands; an action runs from one await
to the next. `current`, `decided` and `terminal` are the locals `current_status`,
`cell_outcome` or `verdict.outcome`, and `terminal_outcome`. `ledger` is what
`fold` makes of the persisted events, for the fields that matter, and `emitted`
the sequence of outcomes in it. `Emit` is `_emit`: the append persists or fails
and the caller is cancelled or not, in every combination the shield allows.
`EmitVerdict` is `_emit_terminal_outcome`, which returns a cancellation as a value
after the outcome has been noted. `Throw` leads to the two handlers; `PersistOutcome`
and `PersistStatus` are `_emit_failure`, whose `persist` swallows append errors
and the `ValueError` of an illegal transition.

The stages between two events are reduced to what they hand back: a graph or a
rejection, a cell outcome or none, any verdict. The request's text, the contract
and the evidence are data no property needs. `run_async` and `resume_async` share
their second half and differ in `entry`.

Not modelled: a second Ctrl-C that makes `asyncio.run` tear down the loop and the
shielded tasks with it.

### Waves

`graph` is the immutable graph, drawn from those `Accepted`, which states what
`GraphPlanner.validate` says of dependencies, wave numbers and mutating cells.
`completed` and `failed` are the loop's two sets, `task[c]` the state of a cell's
coroutine, `persisted` the cells whose `CellCompleted` is in the ledger. `Guard`
enters `_run_with_stall_watchdog` with a batch; `Watchdog` and `Stop` cancel it;
`EndGuard` and `CutShort` are its return and its `except` clause; in between, at
`unwatch`, the guard awaits its watchdog, where `StopSwallowed` may happen.
`Collect`, `ReturnVerdict` and `WriterRaises` read the results. `storing` is the
shielded append at the end of `run_cell`: a cancellation there may still leave
the completion in the ledger. Time is counted in ticks; `quiet` saturates one
above the window, where nothing changes any more.

A resumed run starts from any set of completed cells closed under dependencies,
perhaps on a spent budget and with another `max_waves` than its source. What a
chain of resumes may start from is `Resume`'s subject.

### CellRunner

One record per cell: the await it stands at, its profile, attempt number, last
failure and action, usage at its start, and the attempt numbers its
`RecoveryTransition` events name. `usage` and `seen` are the run's shared totals
and retry table. `StartWave` is one action because `gather` starts its coroutines
in one pass of the loop: each reads its usage and route before any gets past an
await. The budget a cell runs under and the profiles eligible for it are chosen
in the initial state and never change. A worker's attempt is its result: success
or any failure kind with any spend, or an exception. The profile's score is a
given ranking; the `thin` parameter of a route stands for the money left, which
the model does not count.

### BudgetAuthority

Every method holds the lock throughout, so each is one action; its names say whose
they are (`AuthoritySpec`, `AuthorityNext`), as its proofs stand beside those of
`Resume`. Amounts are integers per axis; the slack of `1e-9` that absorbs float rounding is left out.
`recorded` is a history variable: the spend booked after the fact, the only kind
that may pass a limit. `WithinLimit` also says that what is held is never negative.

### ControlPlane

`supervisor` is the `RunSupervisor` (is it in `app.state`, does it hold its task,
its ledger), `task` the asyncio task, `handler` how far `start_run` or
`resume_run` has come; the two share everything that is modelled. From
`Supervise` to its return the handler holds the event loop, so no other step of
the loop falls between (`LoopFree`). `appending` is an append in a thread, for
which `emit_async` waits whatever cancels it. `get_run` and `delete_run` are plain
functions, each on a thread of its own: `request[c]` is the local state of one
such call, and each read or write of shared state is a step of its own, also the
two reads of `_task` in `is_active` (`Peek`, `Check`) and the two reads of the
cache entry around `events_since` (`ReadCursor`, `ReadTail`, `Project`,
`StoreEntry`). An event is its number and a projection the sequence of numbers
folded into it. `disturbed` is a history variable: a read of the entry overlapped
another, or a stop.

A page that watches a run sends `Receive` on a timer, one request at a time
(`_pollRun` in `poll.js`), and stops for good once a snapshot has a terminal status
(`LooksOver`): it takes that for the run's end, whatever the entry that said so was
worth. `PollAgain` is the request of a page that still polls; a page that is hidden
or paused sends none.

One run is modelled; runs share nothing but tables keyed by their ids. The
release in `_run`'s `finally` and the end of the task are one step, since the
coroutine does nothing between them. uvicorn ends the lifespan when the last
request has been answered, hence the guard of `Shutdown`.

### Worker

`pc` is where an attempt stands: at the top of the loop, at the gateway call, at
its tools, returned. The loop runs alone between two awaits and nothing else
touches its locals, so an action is a stretch of it; `Sibling` is the one thing
that happens beside it, the worker of another cell that gives back the lease the
two share, all workers having the owner name `native-worker`. A message is its
role and a number: the tool calls an assistant turn makes, the call a result
answers, 0 for the objective and 1 for any later user turn. What messages say is
left out, with the elision note, which rewrites the objective's text in place. The
estimate of a request is a weight per role; the constant part that schemas and
tools add is the window's.

`Compact` is `_compact_messages`: of all places where a span starts it cuts at the
first one behind which the rest fits 62% of the window, or is short enough; the
code's loop arrives there span by span. `Starts` and `BatchEnd` are
`_tool_batches`, `RunBatch` a `gather` of one batch: `_execute_tool` turns every
exception into a result. A provider's count may differ from the estimate by the
`over` of `Usages`, and its output respects `max_output_tokens`. The wall clock is
a choice wherever the code looks at it, when there is a limit.

`Begin` is `run`'s start with `resume_from_messages`. The first attempt reads the
checkpoint, or nothing when it cannot be read; a retry or reroute carries the
conversation of the result it had, and nothing when the attempt raised. Which
failures are retried is the ladder's (`CellRunner`); here any of them may be, or
not. `Restart` is the death of the process, or the resume of a failed run: the
disk is what is left. The system prompt, recalled from memory when a cell begins,
is taken to be the same after a restart.

### Wire and Gateway

A message is its role and what of text, images, calls, results it has; a
conversation becomes turns by `OpenAiTurns`, `AnthropicTurns` and `GeminiTurns`,
one for each adapter's `_convert_messages`. Text is a sequence of pieces, a tool's
arguments a sequence of fragments of JSON. `Parse*` read a complete answer, `*Chunk`
one frame of a stream, with what the adapter keeps between frames in `parser`;
`Update`, `Assemble` and `Build` are `StreamAssembler`. What a provider sends
(`ReplyBody`, `Stream`) is outside the repository and written from the fields
the parsers read. A stream is groups of frames: those before the blocks of the
answer, those of each block, those behind them; `reply[c].at` is the frame of a group
that comes next.

In `Gateway`, `pc[c]` is the await at which call `c` stands: the semaphore, the
window's sleep, the request, a retry's backoff, a frame, the file of the response.
`queue` is the semaphore's queue, first come first served; `times` is
`_request_times`, a set of reservations by number, and `ages` how long ago each was
made, as far as the window goes. `Reserve` is one turn of `_enforce_rpm` under its
lock. `complete` and `stream` differ by `profile.streaming`: the one resolves its
key inside the slot and stores its answer there, the other resolves it before it
queues and stores once it has left. `Cancel` may strike at every await, and both
context managers then run their exits. A `TransientReply` is what is retried, a
`RefusedReply` what is not; a stream is never asked for again once it is open.

### Resume

One record per run of a chain. `log[r]` is what `fold` makes of the run's events:
contract, graph with the cells it marks completed, `CellCompleted`s in order,
usage, whether it abstained on a spent budget, whether it is verified.
`checkpoint[c]` is the file of cell `c`, found by the cell's id alone, and
`stage[r][c]` what run `r` knows of the cell. `Resume` is `resume_async` from its
refusals to its first event; `EmitContract`, `EmitGraph` and `EmitCompleted` are
the events it says again, after each of which it may be cut short; `Execute` seeds
the evidence from what has been said again. `Round` writes the checkpoint,
`Finish` stores the evidence and removes the file, `Record` appends
`CellCompleted`. `Crash` ends the process with all its runs; `Stop` cancels one
run and waits for the appends it interrupts (`Shielded`). A file may be there and yet be of no use: what
`_load_checkpoint` cannot read or validate counts as none (`Loaded`, `unread`), and
what `_clear_checkpoint` cannot remove stays behind (`Finish`, `removed`). A run's usage counts
attempts whose result came back (`Account`); the history variables `spent` and
`missed` count what was really spent, `wrote` and `fresh` name the cells whose file a
run wrote, and those it found no file of when it began them.

Only readers are modelled; a mutating cell differs in what may run beside it
(`Waves`). A usage of the ledger is the number of calls.

### Workspace and Acceptance

A path is the sequence of its names, a file that of its words, a digest the
content it stands for; sizes are numbers of words. A proposal of the model is a
record with all the fields a criterion may have (`Fields`), of a kind that may not
exist; the digest of a tree is a disk with the files outside the tree removed.
`Workspace` states `Read`, `Listing` and `Search`, `Create`, `Write`, `Replace` and
`Patch` as functions from a disk to a disk, `TreeDigest`, and `Scan`. The set `shut`
holds the directories that cannot be listed and the files that cannot be opened; a
search passes both over, after it has counted them. `Inspect` is one file of a search
with the directories on the way to it, under all four bounds: directories, files,
bytes of a file, matches. Three things are coarser than the code: a line is a word, the
order of a walk is that of the paths, and since all words have one size, a patch whose
size is compared once, at its end, and a chain of replacements meet the same limit.

`Acceptance` follows one run through phases. `Analyse` is the three analyses of
`compile` with what a model may answer, cut, empty or malformed ones included;
`Propose` coerces, grounds, normalizes and adds the gates, rubrics and pins that
`_upgrade_test_goal_criterion` adds, the tests by one of its three ways (`TestPins`);
`Falsify` and `Validate` may reject. Then the
workspace changes by edits and commands, attempts fail, a run is resumed, and
`CompleteCell` reads the tools used from what is left of the conversation. `Check`
is one criterion of `HardGateVerifier`, in order, where a command may write;
`Review` one rubric; `Release` is `ReleaseLaw.decide`. A command's exit code, what
it writes, a reviewer's vote and whether the budget held are free. `compiled` and
`intact` are history variables.

## Runs

| Run | Question | Bounds, and why they suffice |
|---|---|---|
| `company` | what a run leaves in the ledger and tells its caller, cancelled at any await any number of times, with any append failing; does it implement `RunPromise` | none: the state space is finite as it is |
| `waves` | safety of the wave loop and its ways out of hung cells | three cells in five shapes (independent, join, fork, chain along and against the graph's order), up to two mutating, `max_waves` 1 or 2, no stall window or one of one tick: two readers beside each other, a writer after them, two writers in turn, verdicts in either order, more rounds than cells and fewer |
| `cells` | bounds, audit and progress of concurrent attempt loops | two cells that share totals and table; two profiles, one premium, a cell eligible for both, for one or for none, so that a reroute finds a profile, returns to one, or finds none; no limit, a retry cap, a call limit; one call per attempt. The attempt counter saturates one above what the ladders allow, the total at `UsageBound`, one above the highest overshoot |
| `budget` | arithmetic of reservations in any order | three reservations, estimates and actuals below, at and above the headroom, one late spend, two limited axes and one not |
| `control_plane` | what threads that view and delete a run see while the loop starts, runs, stops and shuts it down | two polling clients and one that deletes, so that two views overlap beside a deletion; two events in pages of one, so that an entry lags behind the ledger and a page ends before it; the second event is a status, so that a fold done twice fails and one done on a plain event succeeds; the second event is the run's last status, so that an entry which has it twice, or early, stops a page that should have gone on. One stop (`MaxStops`): each lets an overlapped entry grow once more. 432 154 states |
| `worker` | what each request holds, what the limits bound, does every attempt end | two attempts, so that a conversation is carried, read back or lost once (`MaxAttempts`); four contracts, each with one limit, on calls, rounds or tokens, with and without wall time and schema; plans with a full batch and a rest, and a read behind a write; a window of ten messages, so that compaction cuts one and several spans and stops at the floor; a fuse of two. The loop's own counters need no bound: the limits end it |
| `gateway` | are limits exact, does every call end, do answers come back whole | two callers and three calls in all (`MaxCalls`), so that one waits for the slot another holds and one for the window; a window of two ticks and a backoff of one; nine profiles: two slots and one reservation, one slot and two reservations, one and one, without key, every protocol streamed and not, lax and strict; an answer of text and two calls with fragmented arguments, and one cut before its first block; a conversation of two rounds of calls whose ids come again, a failed result, a nudge with an image. 156 561 states |
| `resume` | what a chain of runs does twice, carries over or forgets | three cells in a chain, so that a resume finds some completed and some not; three runs, in a line or two side by side; one tool round (`MaxRounds`) and one fault of any kind (`MaxFaults`: a crash, a stop, a retry, a failed append, a file that cannot be read or removed), after which the fault-free part runs to its end; a budget of three calls, spent by two cells. 1 528 570 states |
| `acceptance` | does a verdict rest on what the contract asserts, do views and edits keep their word | three goals; eleven analyses, among them one on a test in the tree, one on its conftest, one with a `tree_digest` of another tree, so that each way to pin the tests is taken; six workspaces (a tree of tests, two tests at the root of which one is pinned, none; a pytest configuration that fits, is too long, is no text, is missing), all readable, or a tree or a file not; one edit or command of the worker, with replacements whose text is there once, twice, or only after another; one restart, two reviewers; bounds of one to three so that each is met. 2 031 746 states |
| `company_replayable`, `waves_stopped`, `acceptance_audit` | claims of the repository's documents and comments that the code does not keep: see [findings](#findings) | as above |

What the passing runs show:

- `company`: `VerdictRestsOnEvidence`, `ReturnAgreesWithLedger` and
  `OutcomeAlwaysRecorded` say what survives every cancellation and append error,
  `UndisturbedRunSettles` what holds when nothing strikes late. `KeepsRunPromise`
  is the refinement; the duplicate terminal status of the first finding is a
  stutter under its mapping, which is why `LedgerStaysReplayable` is a property of
  its own.
- `waves`: `WriterAlone`, `DependenciesFirst`, `VerifyOnlyComplete`, `NoOrphans`,
  and the two liveness properties `HungRunReturns` and `StopFreesHungRun`.
- `cells`: `RetriesWithinCap`, `OwnLadder`, `AuditNamesEveryAttempt`,
  `EveryCellEnds` (by the ladders alone when no cap is set).
- `budget`: `WithinLimit`.
- `control_plane`: `AppendsReachLedger`, `DeletedIsOver`, `CacheIsPrefix` (as long
  as no read of the entry is overlapped), and `EndIsSeen`: whatever overlapping
  reads did to the entry, a page that goes on asking sees a run that has ended whole,
  unless a snapshot had the run's last status. Then it has stopped, with whatever that
  snapshot was.
- `worker`: `RequestsPaired` and `ObjectiveKept` (of every request), `BudgetsHold`,
  `FuseBoundsCalls` (calls are bounded by tool rounds, so that any one limit ends
  an attempt), `EveryAttemptEnds`.
- `gateway`: `ReservationsWithinRpm`, `SlotsAreExact`, `EveryCallEnds` (with calls
  cancelled anywhere, once no further calls come), `AnswerIsWhole` (text, calls and
  cost, parsed whole or gathered from frames; the one cost that is dropped is named,
  `CostDropped`), `WireAnswersCalls`.
- `resume`: `NoWorkTwice`, `KeptRoundsAreUsed`, `SeededUnlessCut`,
  `ExhaustedBuysOneWave`, `UsageCarries`. Each says in its exception what a cut
  costs: a crash or a failed append between the file's removal and `CellCompleted`
  (`Lost`), a run cut while it seeded, a run that never settled its usage.
  `NoWorkTwice` compares a run with its ancestors; two resumes of one run may both do
  the same cell. `KeptRoundsAreUsed` is about the first attempt of a run: it says that
  the file is there, not that it can be read, nor that a later attempt uses it.
- `acceptance`: `VerifiedTestsAreCompiled` (a gate saw the kept files after the
  last command, whatever ran before), `AssertionsSurvive`, `VerdictIsEarned`,
  `ViewsSaySo`, `EditsAreUnambiguous`. `Kept` says which files those are, in the terms
  of the workspace and the proposals and not of the criteria made of them; where a
  proposal lies under `tests/`, or is a `tree_digest`, they are fewer than one would
  think (see [findings](#findings)). `ViewsSaySo` is about what a bound leaves out, of
  the disk as far as it can be read. `EditsAreUnambiguous` relates a patch of two to its
  replacements in turn, and names the texts for which it does something else.

The type invariants are proved (`TypeCorrect`, `AuthorityTypes` and
`AcceptanceTypes`) and not run again. Some safety properties are proved and not run
again either: see [proofs](#proofs).

Every property of a passing run has a mutant in `PROJECT.json`: a definition
kept beside the one it alters, that makes a plausible mistake
(a dropped guard, a forgotten filter, a local assigned too late) and with which
TLC finds the property violated.

Deadlock is checked everywhere but in `budget`, whose ids and late spends run out
by bound, in `worker`, where a cell that is over has nothing left to do, in
`gateway`, whose calls run out by bound, and in `resume`, whose runs do; the others
end in an explicit stuttering step.

### Fairness

- `CellRunner!FairSpec`: weak fairness of `StartWave` and of each cell's own work.
  The event loop runs every ready coroutine; appends and backoff sleeps end; a
  worker's call ends by its wall-time limit or the provider's timeouts.
- `Waves!FairSpec`: weak fairness of the loop, the watchdog, time, and of each
  cell until it ends or hangs, which `EveryCellEnds` justifies. Nothing is assumed
  of heartbeats, of hung cells or of cancellations from outside. A cell that kept
  beating for ever would pin its hung siblings: the detector watches the run, not
  the cell, and it is the end of the beating cell that lets it trip.

- `ControlPlane!FairSpec`: weak fairness of each request that was received: its
  handler's thread goes on running. That a page asks again is not part of the
  specification, since a page that is hidden or paused does not: `EndIsSeen` takes it
  as a premise, page by page, and only for as long as no snapshot looks final
  (`PollAgain`). Nothing is assumed of the run, of deletions, of stops or of shutdown.

- `Worker!Spec`: weak fairness of the attempt. The gateway's own timeouts end every
  call, a tool runs to its end, and nothing else is needed for the loop to go on.
  Nothing is assumed of retries, restarts or siblings.

- `Gateway!Spec`: weak fairness of time and of each call's own steps. The event loop
  runs what can run, and the request timeout ends every wait for the provider, as a
  failure if not as an answer. Nothing is assumed of callers or cancellations. A
  call that waits for the semaphore relies on the fairness of those that hold it
  and on the queue's order. The window has no order: whoever wakes first takes a free
  place, and while callers keep coming a sleeper may be overtaken for ever. That they
  stop coming is a premise of `EveryCallEnds` (`CallersStop`) and not left to the
  bound of the run.

Resume and Acceptance state no liveness: a chain may end with any run. Company
states none either: what it owes at its end is said of `pc = "done"`, and
that no await is left without a way on is what the deadlock check shows.

## Proofs

All theorems are checked by TLAPS from the modules' named assumptions on their
constants and nothing else. The assumptions are types: of budgets, limits and counts,
of graphs and plans, of what a model or a provider may answer; finiteness where
something is counted or put in order (`Paths`, the cells of `Resume`); that the
marker `None` is no value of the kind it stands beside; in `Acceptance`, that
the names of kinds are strings, which is so for every literal and which the provers
have to be told, and that a disk is a tree: what is a file is no directory; in
`Gateway`, that a request is a conversation in which every call is answered right
behind it and nothing else is, which is what `RequestsArePaired` proves of the
`Worker` that sends it, and an answer is texts, thoughts and calls at a cost whose
thoughts are counted in its output.

**`Company_proofs`** has no constants and no bounds to generalize, but its
invariant explains why the code works. `IInv` says, await by await, what each
local is and what the ledger says: `StatusKnown` (the two agree, except that
`_verify_and_finish` does not move its caller's `current_status`), `OutcomeKnown`
(`terminal_outcome` knows of every persisted outcome but the handler's own),
`HandlerLag` (how far the ledger may be ahead of the handler), `LeavingKnown`.
`OneOutcome` alone is not inductive: that no second outcome is emitted needs
`OutcomeKnown`, and that the handler's status matches the outcome needs
`HandlerLag`. From it follow `TypeCorrect`, `AtMostOneOutcome`,
`TerminalStatusBacked`, `VerifiedOnEvidence`, `ReturnAgrees`, `OutcomeRecorded`,
`UndisturbedSettles`, and `Implements`: every step is an `Advance`, `Pronounce` or
`Settle` of `RunPromise`, or a stutter.

**`Waves_proofs`** holds for every set of cells, every graph, number of rounds and
stall window. `IInv` says where cells may be: only the batch under guard is
active (`Confined`), a batch is of readers or of one cell (`LoneWriter`), the
ledger's completions are `completed_ids` plus those of the batch (`Accounted`),
every touched cell is in the batch, completed or failed (`Touched`), what may
start has its dependencies (`Unlocked`), cancelled tasks belong to a cancelled
guard (`Undisturbed`), and between two batches the budget is not spent but on a
resumed run's first (`BetweenBatches`). The theorems are those of all its safety
and action properties.

**`CellRunner_proofs`** holds for any number of cells and profiles, any ranking,
eligibility and budget. Its invariant speaks of each cell by itself (`CellInv`):
between attempts the shared table counts no more consultations of a cell's own
signatures than the cell has had attempts, as far as the transient ladder goes
(`OwnCount`), so a failure given up is not the first (`GivenUp`); an attempt at
the cap selects `terminate` (`WithinCap`); the audit names all attempts but the
current one (`Trail`). The lemma `OneCell` says that one cell's step keeps the
others' part; there is then one lemma for each kind of step. From it follow
`TypeCorrect`, `RetriesHoldToCap`, `LadderIsOwn`, `AuditIsLossless` and
`ReroutesMoveOn`.

**`ControlPlane_proofs`** holds for any clients, events, status events, page size
and number of stops. `IInv` adds to the properties who owns what (`Owned`: a task
that is not done is the supervisor's, with the ledger), what a request that was
told "inactive" may rely on (`Answered`), and what a reader of the entry knows
while nothing overlaps it (`ReadsAlone`: its cursor is still the entry's, and its
tail ends within the ledger). The lemma `TailContinuesPrefix` is the arithmetic of
the cursor: the tail read from a cursor continues the prefix that ends there. From
it follow `TypeCorrect`, `AppendsFindLedger`, `HandlesAreReleased`,
`OnlyOverIsDeleted` and `UndisturbedCacheIsPrefix`.

**`Worker_proofs`** holds for any budgets, window, span floor, fuse, batch cap, tool
plans and providers, and any number of attempts. Its first half is about the
operators: `Min` and `Max` of sets of positions (`MinFacts`, `MaxFacts`), what an
eviction keeps and where it ends up (`EvictFacts`), that exactly the prompt is
pinned (`PinnedPrompt`), and that cutting where a span starts keeps a conversation
well formed (`EvictWellFormed`): a result behind the cut answers a call behind the
cut, because all results of a call stand in a row and the cut is not at a result.
`Open` says what a conversation looks like in the middle of a round;
`AppendOpens`, `ResultsKeepOpen` and `OpenCloses` lead from one well-formed
conversation to the next. `BatchFits` is the arithmetic of the batches. The
invariant `IInv` is `Conversations` (what is sent, carried on or on disk is well
formed), `Counts` (a call is made only with a round and tokens left), `Fused`
(every call is a round, a truncated turn since the last round, or the repair) and
`Batched` (the next batch opens where one may). From it follow `TypeCorrect`,
`RequestsArePaired`, `ObjectiveIsKept`, `BudgetsAreKept`, `FuseBounds` and
`WritesRunAlone`.

**`Resume_proofs`** holds for any graph, any number of runs that resume one another
in any pattern, any limit and any number of faults. Its invariant speaks of each
run (`RunInv`): a run that seeds has begun no cell (`Early`); between waves nothing
is half finished, and a run that is over left something so only by a crash
(`Clean`); the graph it emitted marks what it was given (`Marked`); what it was
given is said again or still to say, and then has evidence (`Evidenced`); its
ancestors are over and what they recorded it was given (`Descends`); what it began
without a file nobody had written, or somebody finished (`Fresh`). `Kept` says of each
cell that its file is there from the first write until it is finished. `NoWorkTwice`
is not inductive: that the marks of a run cut while seeding still reach its
descendants needs `Marked` and `Descends`, and that only a crash or a failed append
loses a completion needs `Clean`.
The lemmas `OneRun` and `Steady` say that one run's step keeps the others' part,
`CellMoves` what any step of a cell leaves alone. From it follow `TypeCorrect`,
`WorkIsDoneOnce`, `EvidenceIsSeeded` and `RoundsAreKept`.

Two of its theorems count. `UsageCarries` speaks of sums over sets of runs and
cells, which the library leaves to a fold over a set; a section of lemmas shows that
a sum over a finite set exists, is natural, and moves by the difference when one
summand does, by induction over the finite subsets (`FS_Induction` cannot be cited,
so the induction is the well-foundedness of strict inclusion among them). `UseInv`
is then the balance of a chain: what a run counts and what it missed is what its
ancestors counted and what its own attempts spent. From it follow `UsageIsCarried`
and, with what a wave may start once the budget is spent, `OneWaveIsBought`.

The same sums prove the `BudgetAuthority`, for all axes, limits and spends and any
number of reservations: `HeldIsTheSum` is the fact that carries it, that each
counter of held spend is the sum over the active reservations, whatever the order
in which they settle. Without it neither that no counter is negative
(`AuthorityTypes`) nor `LimitHolds` is inductive: a settlement subtracts a summand,
and only the sum says that there was as much. `SettlingFrees` is the action property.

**`Gateway_proofs`** holds for any callers, profiles, window, backoff and answers and
any number of calls. `RemoveFirstFacts` says what a
cancellation leaves of the queue. The invariant says that the pruned list still
holds every reservation that counts (`Remembered`), which is why comparing its
length bounds the window; that the slots are counted (`Counted`) and held by who is
inside (`Held`); that nobody stands twice in the queue or elsewhere at the same
time (`Lined`); that a response is open only while it is read and a result there
only at an end (`Clean`); and how many requests a call has sent where it stands
(`Tried`). From it follow `TypeCorrect`, `WindowHolds`, `SlotsHold` and
`RetriesHold`; the last proves `RetriesAreExact`.

`WireHolds` is about operators alone: that the body of every request pairs calls and
results as its protocol demands, for conversations of any length with any number of
calls to a turn. The three conversions are recursive functions along the messages;
`RunExists` shows, once, that such a function exists and takes the steps it looks to
take, and `Climb` is the induction on the position. What holds at each position is
`Shape`: how many turns have been made, that all of them but the last are settled,
and what the last one still waits for. While the results of a call come in, they
stand in a row behind it (`Row`), and Anthropic's and Gemini's conversions add them
to the one turn they have opened (`AnthropicStep`, `GeminiStep`); the step that ends
the row settles that turn. Gemini's results are answered by name: `NamedFacts` shows
that the table of names `_tool_call_names` builds gives each result the name of its
call, since the latest call with its id is one of the turn it answers. Dropping the
images or tools a profile does not support changes none of this (`VisibleFacts`).

`AnswersAreWhole` says that nothing of an answer is lost on its way to the caller, for
answers of any number of blocks, none included, with calls cut into any number of
fragments; `CostDropped` is the one exception, and concerns the cost alone. What is
read whole is `ParseMeans`. For what is streamed the invariant besides `IInv` is
`AnswerInv`: the reader of a stream has followed it, or has seen it cut before a
terminal frame (`Reads`). `Followed` is what was read at each place of a stream:
before the blocks, in front of a frame of some block, at the status frames, at the
end. Everywhere `HeardTo` holds: the assembler has the text of the blocks behind, and
under each index a provider uses the call it belongs to, the last one up to the
fragment that has come (`Gathered`); and `Metering` says what the parser holds of
numbers and usage, which Gemini needs to number its calls and Anthropic to add the
output to the usage of its first frame. One lemma for each kind of place shows that
the next frame leads to the next place (`StartStep`, `BlockStep`, `OpenAiClosing`,
`AnthropicClosing`, `GeminiClosing`); only the last frame is terminal
(`FollowedEnds`), which is why a strict stream that ends without one must fail. That
the calls come out in the order of the answer rests on `ImageInOrder`: the k-th of
the indices, sorted, is that of the k-th call, since every provider numbers them
upwards, Anthropic with gaps.

**`Acceptance_proofs`** holds for any requests, replies, files, words, commands,
panels, calibrations and bounds. The operators of `Acceptance` are folds over
sequences, of which the provers know the definition alone. `FoldExists` shows, once,
that the function a fold chooses exists and takes the steps it looks to take;
`LeastMember` and `Climb` are the induction over numbers that the library's theorems
with operator parameters would give; `InOrderFacts`, `FlattenFacts`, `GroundedFacts`
and `SubstituteFacts` then say what comes out of each fold. On these rest the types
of every stage of a proposal (`ProposalsFacts`, `NormalizedFacts`, `UpgradedFacts`,
`SynthesizedFacts`) and four invariants beside `TypeOK`:

- `Judging`: a verdict is what `Decide` makes of all results of a contract that is
  not empty, and a rubric is accepted by a calibrated panel alone. Hence
  `VerdictsAreEarned`.
- `Backed`: while criteria are proposals, one stands for each asserted file;
  `GroundedFacts` is where a needle nobody asked for is dropped without the last
  assertion. Hence `AssertionsAreKept`.
- `Guarded`: in a contract for tests, some criterion behind the last command holds
  each kept file to its compiled content. `KeptFacts` takes `Kept` apart by the three
  layouts, `UpgradedFacts` shows that the pins are appended behind the commands, in
  each of them, and that a tree digest stands for the files below it. `Fresh` says that the pins were taken of the files the run started from.
- `Watched`: what such a criterion was found to hold is intact, and since no command
  follows it, stays so until the verdict. Hence `VerifiedTestsStand`.

`ViewsAreWhole` is about the three bounded views of a disk: whatever the bounds, and
whatever of the disk cannot be read, the intake scan, a search or a listing shows all
else there is to see or says that it is cut. `ListingFacts`, `InspectFacts` with
`SearchMeans`, and `ScanMeans` follow the folds: what a step leaves out raises the flag,
and no later step lowers it.

`EditsStand` needs types alone: one occurrence is one place (`SubstituteFacts`). A patch
of two is the two replacements in turn wherever the first text had one place and the
second has one when its turn comes (`PatchMeans`), which is all that may be said of it.

Proved and not run again, since the theorem says more than the run did:
`OneOutcome`, `TerminalStatusIsOutcome` (Company), `StartsOnce`, `StartsJustified`
(Waves), `RerouteMovesOn` (CellRunner), `SettlingFreesHeadroom` (BudgetAuthority),
`HandlesReleased` (ControlPlane), `BatchesRespectWrites` (Worker),
`RetriesAreExact` (Gateway).

Model-checked only: liveness (`EveryCellEnds`, `HungRunReturns`,
`StopFreesHungRun`, `EndIsSeen`, `EveryAttemptEnds`, `EveryCallEnds`), which is
beyond the prover. Every invariant and every action property of the passing runs is
stated by a theorem.

## Findings

1. **A terminal status may be appended twice** (`company_replayable`). A
   cancellation during the append of the last `StatusChanged` is raised once the
   event is stored, before `current_status` is moved. The handler finds its stale
   status legal and appends the terminal status again; `fold` rejects the second,
   and the run can never be replayed or resumed.
2. **A stop may be swallowed** (`waves_stopped`). A cancellation that lands in the
   tick in which the guard awaits its cancelled watchdog disappears in the guard's
   `suppress(CancelledError)`; the run goes on although the request was answered.
3. **The tool audit forgets** (`acceptance_audit`). What `hard_gates.py:394` calls
   the authoritative tool audit is read from the conversation the last attempt of a
   cell came back with. A forbidden tool whose round compaction dropped, or that ran
   in an attempt that raised or before a resume, is not in it, and the gate passes.

Also seen while modelling, without a run of their own. In runs and resumes:

- A run may stay in VERIFYING for ever. While `_verify_and_finish` runs, its caller's
  `current_status` is EXECUTING; when a cancellation strikes as a verified or
  abstained outcome is appended, the handler asks for a transition the table does
  not have (`orchestrator.py:866`), and the outcome stands without terminal status.
- Concurrent cells report each other's spend: a cell's usage is a difference of run
  totals, taken around awaits (`cell_runner.py:456`). They may also overshoot
  `max_calls` by one attempt each.
- An accepted graph may starve: a chain of more than `max_waves + 1` read-only cells
  passes validation and fails for want of rounds (`orchestrator.py:606`). Resume
  runs with the default `max_waves`, whatever its source had.
- Two GETs of an active run that overlap, or a stop between a GET's read of the cursor
  and its fold, leave a projection that counts events twice or has lost them
  (`routes_runs.py:414`). Views stay wrong until the run ends; and a page whose last
  snapshot was made of such an entry, or before the run's last events, but after its
  last status, has stopped asking and keeps it (`poll.js:105`, `EndIsSeen`).
- A resume of a run that was cut while it re-emitted its `CellCompleted`s is not
  seeded with the evidence of those it had not said yet, though `orchestrator.py:438`
  says a resume is (`SeededUnlessCut` states the exception).
- Only `BudgetUpdated` carries usage to a resume: what a run that failed, was stopped
  or crashed had spent is forgotten.
- A crash between `cell_runner.py:444` and `CellCompleted`, or a `CellCompleted` whose
  append fails, has the next run start the cell from its prompt in a workspace that
  holds its work; `tests/test_resume.py:8` says completed cells are not run again.
- Nothing keeps two resumes of one run apart (`routes_runs.py:248` asks for the source
  alone): side by side or one after the other, both may do the same cell, and they share
  its checkpoint file.
- A checkpoint that cannot be read or validated counts as none, without a word
  (`cell_runner.py:253`): the cell starts from its prompt though its rounds were kept.
- `RunSupervisor.is_active` reads its task twice (`run_supervisor.py:84`).

In the gateway:

- A stream's finish reason and usage may differ from those of the same answer
  complete (`gateway.py:2161`): an Anthropic answer cut before its first block has
  usage in the one and none in the other, which returns before it reads the usage
  (`gateway.py:1643`). `AnswerIsWhole` excepts that cost (`CostDropped`): it is never
  charged to a budget.
- Retries are not counted against the window (`gateway.py:1904`), and sleepers are
  not served in order (`gateway.py:1939`): each new caller may take the place a sleeper
  woke for, so under a load that does not end a call may wait for ever.

In acceptance:

- Soft rubrics are judged whatever the gates found (`orchestrator.py:404`), where
  ADR 0003 and `architecture.md:64` have them only after the gates.
- A command criterion is accepted when no commands are configured
  (`contracting.py:883`) and can then never pass.
- An answer of the falsifier that is no JSON counts as a counterexample;
  `falsification.py:9` says an unparseable one returns None.
- A criterion on a pytest configuration keeps the pin on it away even if the
  criterion is dropped later; an unparsable proposal can take along another's
  assertion that its file exists; a pin of a file over 1 MiB or no UTF-8 never passes.
- An alias of a configured command is rewritten to the one that runs pytest.
- Risks or ambiguities of the wrong type raise out of `compile`.
- A command's gate looks at the exit code alone, also when it timed out.
- The docstring of the test gate says that added, edited or deleted test files
  fail the contract (`contracting.py:936`). An added one does not where tests lie at the
  root, nor where a proposal of the model lies under `tests/`, since then files are
  pinned one by one, fifty at most. A `tree_digest` the model proposes, of whatever
  tree, switches the tests' own pin off altogether (`contracting.py:1013`), and a
  criterion of the model on a test or a pytest configuration takes the pin of that
  file away. `Kept` follows the code.
- `patch` checks that every old text occurs in the original and no more
  (`restricted.py:851`): one with several places is made at the first, where `replace`
  refuses; one that an earlier patch removes is skipped in silence, and one that an
  earlier patch doubles is made at the first place. `EditsAreUnambiguous` names these
  cases. `_atomic_write` makes directories outside its `try`.
- A search passes over what it cannot open or list, and does not say so
  (`restricted.py:565`). The scan of intake takes a directory that it cannot list for a
  file, and a root that it cannot list for an empty project, not truncated
  (`intake_scan.py:155`, `190`). It sees two levels.
- Tool descriptions differ from the tools: `replace` refuses what is ambiguous,
  `write` creates, `search` looks into contents and not at names.

In cells and workers:

- `max_retries` 0 means no cap (`cell_runner.py:354`), where ADR 0004 says it means
  a single attempt.
- When an attempt raises, `cell_runner.py:382` carries nothing, and the retry starts
  from the prompt although the checkpoint is on disk: it is only read at line 299.
  ADR 0001 (line 17) says that a crashed attempt resumes from the last succeeded tool
  round. `Worker!Carried` and `Resume!RetryRaised` do what the code does, and
  `KeptRoundsAreUsed` speaks of a run's first attempt.
- JSON output that fits a schema but is no object makes `WorkerResult` raise
  (`Worker!Final`), which the cell runner takes for a transient provider failure.
- `NativeWorker` documents a cost limit (`worker.py:585`) that its loop never reads.
- After a schema failure or a last truncation the carried conversation ends in the
  assistant's turn, and the retry sends it without a user turn behind it.
- Two user turns may follow each other, which the comment at `worker.py:155` wants
  to avoid: a nudge behind an empty first turn, or behind the prompt once
  compaction has dropped what stood between.

## What is not modelled

Wording and formats without state (prompts, pricing, schemas, the views) have no
protocol to check. Path, URL and container policies are predicates on strings and
the file system, and how a command is started, watched and killed is the operating
system's. The ledger's append is one transaction under a lock and is taken as one
step that persists or fails; hashing, redaction and upcasting convert payloads.
Artifacts, memory and atomic file writes are file I/O without a protocol of their
own. Tracing observes and never decides. The history list, the events page, export,
comparison and the loading of the run index only read. The benchmark and
calibration are offline and sequential. The command line and terminal interfaces
drive Company and render the ledger. The `components` of `PROJECT.json` say so one
by one.

## Plan

Done, in this order: `RunStatus`, `RunPromise`, `Company`, `CellRunner`,
`BudgetAuthority`, `Waves`, `ControlPlane`, `Worker`, `Wire` and `Gateway`,
`Workspace` and `Acceptance`, `Resume`, with proofs about each that has state.

Next, by weight:

1. `Ledger`: appends of two processes, with the transaction taken apart, and
   tombstones beside them.
2. `Poll`: the lanes of `poll.js` with requests in flight.
3. The planner's remaining checks as operators against a reference definition.
4. The mutation lease with tokens and expiry, several workers under one owner name.
5. An abstract ledger of a chain of runs that `Resume` implements, as `Company`
   implements `RunPromise`.

Theorems to come: bounds on the attempts of a cell by a count of the consultations
left.
