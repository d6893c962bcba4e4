# A TLA+ development of the decision-analysis backend

This directory specifies the backend in `src/`: the service that accepts a business decision,
runs an analysis pipeline against a language-model provider and a corpus of historical
failures, and publishes a report. The modules model the code as it is. TLC checks them on
small instances; TLAPS proves, for every instance, every safety property and action property that
the passing runs check, that the service implements its abstract lifecycle, and the bounds on the work of an
analysis and of a call that their liveness rests on.

## 1. Inventory

### The components

| Component | Code | State it keeps | Operations | Modules |
|---|---|---|---|---|
| Job service and persisted analyses | `app/services/jobs.py`, `app/db/analyses.py`, `app/api/routes/analyses.py`, lifespan in `app/main.py` | the `analyses` table; the tasks and the semaphore of each process | accept, start, report a stage, complete, fail, reconcile at start-up | `JobService`, `AnalysisLifecycle`, `JobServiceProofs` |
| Provider client | `app/services/llm.py` (`OpenRouterLLMClient`) | the process-wide semaphore; the attempt of each call | call, stream, retry, back off, time out, cancel | `LLMClient`, `LLMClientProofs` |
| Response cache | `app/db/cache.py`, `CachedLLMClient` in `llm.py` | the `llm_cache` table | look up, ask, put with expiry and eviction | `LLMCache`, `LLMCacheProofs` |
| Analysis pipeline | `app/services/pipeline.py` | calls and cost so far; per assumption its packet, evaluation, review and score | eight stages, validations, policies, budgets | `Pipeline`, `PipelineProofs` |
| Evidence-strength score | `pipeline.py` (`_calculate_evidence_strength_score`, `_assessment_from_evidence_score`) | none | score, assessment | `EvidenceScore`, `ReportFigures`, `ReportFiguresProofs` |
| Financial stress test | `app/services/financial.py` | none | margins, burn, runway, break-even, warnings, rounding, position among the IDX quartiles | `FinancialStressTest`, `Doubles`, `ReportFigures`, `ReportFiguresProofs` |
| History | `list_history` in `app/db/analyses.py`, cursors in `routes/analyses.py` | the client's cursor | list a page | `History`, `HistoryProofs` |
| Evidence retrieval | `app/services/retrieval.py` | an embedding model and index, read-only after the start; the work items and threads of the executor | rank, cut, filter; submit, take, finish, give up | `Ranking`, `RetrievalThreads`, `JobServiceProofs`, `ReportFiguresProofs` |
| Data artifacts, preparation | `app/services/artifacts.py`, `scripts/prepare_data.py` | files and a manifest of digests; what a process has read of them | check, read and align; write one file after the other | `Artifacts`, `ArtifactsProofs` |
| Request boundary | `app/core/middleware.py`, exception handlers in `app/main.py` | bytes received of a body; the id of the request | count, refuse, replay, name every answer | `RequestBoundary`, `HttpApi`, `HttpApiProofs` |
| Readiness, health | lifespan and `initialize_retrieval` in `app/main.py`, `services/model_identity.py`, `routes/health.py` | `app.state`: database, retrieval, checks | start, verify the model, load it, report, shut down | `Startup`, `HttpApi`, `HttpApiProofs` |
| Schemas, settings, logging, migrations, tools | the rest of `app/`, `alembic/`, `scripts/` | none at run time | - | not modelled |

`PROJECT.json` lists every part with its sources and the reason where it is left out.

### How they interact

A `POST /analyses` commits a row with status `queued` and schedules a task on the event loop
of the same process. The task waits for one of `max_concurrent_analyses` slots, moves its row
to `processing` and runs one `AnalysisPipeline` under a timeout; the pipeline reports each of
its stages back into the row. Each of its provider calls goes through the cache
(`CachedLLMClient`), and on a miss through `OpenRouterLLMClient`, whose semaphore all analyses
of the process share. Its retrieval is a work item of the event loop's thread pool, which all
analyses share as well. The worker finally stores the report or a public error code. A process
that starts turns every row it finds unfinished into a failed one.

Before any of that, the lifespan has checked the database, the artifacts and the identity of
the embedding model and has left in `app.state` what it found. The routes look at different
parts of it: `/health/ready` at the checks, creating an analysis at the job service and the
retrieval service. In front of the routes the boundary collects the body of each request; an
exception no handler expects is answered outside of it.

Route handlers and repository calls are synchronous: within one process they cannot
interleave. What can interleave is the awaits of the tasks, several processes on one
database, and the clients.

### What is hard

* *Failure in the middle.* The process ends, or the database refuses an operation, between any
  two steps of a worker, also inside its exception handler. Rows survive; tasks do not.
* *Two owners.* A restart that overlaps the old process reconciles rows that the old process
  is still working on.
* *Check-then-act.* The queue limit is a count followed by an insert; only SQLite's
  write lock makes the two atomic.
* *Slots.* Two semaphores, each to be returned on every path out: success, error, timeout,
  cancellation.
* *Timeouts.* The timeout of an attempt runs while it queues for a slot. The timeout of an
  analysis strikes in any stage that awaits.
* *Answers nobody can trust.* Whatever a provider answers, the report must only cite what was
  retrieved, and its costs must stay within the budgets.
* *Threads.* A timeout ends an analysis and frees its slot, but not the thread its retrieval
  runs in, which the next analysis may be waiting for.
* *Bodies in pieces.* A body arrives in chunks, with, without or against its declared length,
  and its client may leave in the middle.
* *Verified and used.* The directory of the embedding model is read once for its fingerprint
  and once to load it.
* *Boundaries.* Sums of rounded binary fractions at thresholds, ceilings, figures that are
  rounded one by one and then once more to a double, off-by-ones in retries and pages, equal
  time stamps, times that lose their zone.
* *Files.* A preparation writes eight files and a manifest one after the other, in place, and
  may stop anywhere; a starting process checks all files before it reads the first.

The list with its lines is `hazards` in `PROJECT.json`.

### What makes each component correct

* Job service: an accepted analysis always has somebody who will finish it; a terminal row
  never changes; no slot is lost; what tasks wait for never closes a circle; the queue is
  bounded; every analysis ends.
* Provider client: no slot is lost; retries use exactly the attempts configured; every call
  ends although the provider may be silent.
* Cache: bounded; never serves an answer beyond its retention and the zone of its session; evicts the least recently used.
* Pipeline: citations resolve; historical failures only contradict; calls are accounted for;
  budgets hold.
* Artifacts: an undisturbed start serves what the manifest names, and is refused only when
  files and manifest disagree or a reader does not accept what was prepared.
* Threads: a retrieval waits only for threads of analyses that were given up, and no analysis
  waits for a thread for ever.
* Request boundary: a body is refused exactly at the limit, the application sees whole bodies
  only, and each request has one answer that names it.
* Readiness: what the readiness route says is what creating an analysis finds; the model in use
  is the one that was verified.
* Figures: more evidence never lowers an assessment; rounded figures, positions and warnings
  agree with each other.
* Ranking: the evidence is what the thresholds admit of the whole corpus, best first, and the
  analogues are the best companies, as many as were asked for.
* History: following the cursors lists everything once, in order, whatever is inserted.

## 2. The modules and the code

**`AnalysisLifecycle`** is the abstract specification: an id is accepted into a bounded queue,
started at most once, and ends exactly once. It knows neither processes nor transactions.

**`JobService`** is the detailed one. `row` is the table; `proc` what a process can do
(`down`, `ready`, `no_evidence` when only the corpus is missing, `no_database` when start-up
failed); `inserting` an open `create_queued` transaction; `task` the background task of an id
with the local `stage` and the exception code it is about to record; `slots` the semaphores.
`CountQueued` and `InsertQueued` are the two statements of `create_queued`; with
`Dialect = "sqlite"`, `CanWrite` is the write lock of `BEGIN IMMEDIATE`. `StartIfQueued`,
`SkipNotQueued`, `ReportStage`, `CompleteIfProcessing` and `FailIfNonterminal` are the
compare-and-set transactions with what the worker does around them; their `...Fails` twins are
the same calls when the database refuses. `RaiseError` stands for a `PipelineError`, any other
exception, and the timeout, which cannot strike in a stage without an await (`SyncStages`).
`Start` is the lifespan with its reconciliation. `Crash` is the end of a process by whatever
cause: a kill loses the tasks, and a shutdown cancels them, which runs no handler of `_run`
that writes to the row. `LoopFree` says that no other synchronous section of the process is in
progress. The refinement mapping reads the public status and code off the rows; the queue
limit it implements is `MaxQueued` plus the number of transactions that can overlap, minus one.

**`RetrievalThreads`** extends `JobService` by the default executor of each process.
`retrieval` is what the call of `asyncio.to_thread` of an analysis has come to, `backlog` the
work items no thread has taken. `Submit` and `Take` hand an item over, `Finish` is the end of
the thread. The stage after the retrieval begins with its result (`Received`). `RaiseError` in
that stage is the timeout; it cancels an item in the queue and abandons one that runs
(`Cancelled`). Every step of the threaded service is a step of `JobService` or leaves it alone.
The size of the pool is Python's default and a constant here. `AtWork` and `CanMove` of
`JobService` say of a task that it has something to do and that nothing holds it up: the slot
it needs is free, the event loop is not in another's synchronous section, the write lock is free.

**`RequestBoundary`** is the middleware: `Begin` looks at the declared length, `Receive` takes
one message of the server, `Replay` hands the whole body to the application. A body is a number
of bytes. `sent` and `complete` are the client's side, which the middleware cannot see.
**`Startup`** is the lifespan in four steps, each with its failures, and `ReplaceModel` is
whoever administers the model directory. `steady` says that the directory stayed as it was
between the fingerprint and the loading. **`HttpApi`** composes the two: the routes answer from
what the start-up left in `app.state`. `answered` remembers what the clients of this process
were told. Its job service is reduced to the answers it may give; the rest of it is `JobService`.

**`LLMClient`** is `complete_json`: `waiting` for a slot, `streaming` with one, `backoff`.
`AttemptTimeout` can strike in the queue as well as in the stream. The errors that are not
retried are one action with several outcomes; so are the retryable ones.

**`LLMCache`** holds the table as a function of the keys, and time in half-days, so that an
offset of twelve hours is one of them. PostgreSQL returns `expires_at` in the zone of its session,
and `get` relabels it as UTC: `Found` are the rows it takes for unexpired in a session that is `zone`
ahead of UTC. The `WHERE` clause of `put` compares instants: `Live` are the rows it leaves. On SQLite the
two are the same. `order` relates two rows when the first was used later: order is all the code uses
`last_accessed_at` for. `Put` shows what `autoflush=False` makes of the overflow query: it does not see the new row.
An answer is `sound` when the pipeline will accept it; the client stores it without knowing.

**`Pipeline`** is `AnalysisPipeline.run`. Texts are gone; of each answer remain the assumption
it is about, its citations and its judgement. `Spend`, `Afforded`, `CallsExhausted` and
`CostExceeded` are `_complete`: the number of calls is checked before a call, its cost after
it. Every provider answer the schema admits is tried, including those the validation refuses.
Strength in three steps abstracts the score of `EvidenceScore`. Error codes of the provider
are merged into `LLM_ERROR`.

**`EvidenceScore`** and **`FinancialStressTest`** are the pure algorithms: components of the
score in hundredths, money in units of 0.0001 as the schema admits it. A sum halfway between
two tenths has no exact binary form, so `Scores` allows both roundings. The financial figures
are decimals in the code and exact here; `Rounded` is `ROUND_HALF_UP` of a quotient, which the
reported figures go through one by one in `ApiResult`, while warnings and the `Position` among
the quartiles are decided on the exact ones. What `ApiResult` and the comparison report are doubles:
`MoneyFloat` and `PercentageFloat` round once more, with the operators of **`Doubles`**. There a
decimal is counted in fractions of its last place that also count the doubles around it, and
`Double` takes the nearest one, halves to the even one. `Significand`, 2^52 in the code, and the
powers of two needed are constants. `FormatPercent` prints four places of such a double. The inputs are all natural numbers
(`FinancialInputs`): the 50 digits of the code's decimal context are more than any amount or product
within the bounds of the schema has, so only quotients are rounded. The threshold of a short
runway, a decimal in the code, is a whole number of months, like its default.

**`ReportFigures`** composes the three: a breakdown that gains evidence, the inputs of a request
with the tables of the benchmark, and the corpus of a query. None of them reads another, so a
behaviour varies one of them. What inputs, tables and corpora there are is a constant: grids in
`ResultsMC`, everything the schema admits in the proofs.

**`History`** is one client following `next_cursor` while others insert. The cursor is
exactly the pair `(created_at, id)` it encodes. `limit + 1` rows are read; the extra one only tells
whether there is another page. The code drops the zone of the cursor's time; `zone` is how far
the session in which PostgreSQL reads it is ahead of UTC, and 0 on SQLite (`CursorTime`); which
zones there may be is a constant. The r-th row of a page is the one with r - 1 newer ones in the
selection (`Rank`): the place a row has after `ORDER BY`, without the sorting.

**`Artifacts`** puts `prepare_data` and a starting process side by side on one directory. A
file is known by the edition of the sources it was made from; opening it for writing makes it
`Torn`. `BeginWrite` and `EndWrite` are the two ends of each write, the manifest's last, and
`Interrupt` stands for a failing validation of `main` or a kill. The process reads the manifest
once (`ReadManifest`), then checks every file (`CheckFile`), then reads every file (`ReadFile`),
in the orders of `load_data_artifacts`, then compares documents with cases (`Align`). `Sampled`
says which files show a change in their size or in the three samples of 4096 bytes. A refusal
also stands for contents the reader of a file does not accept, `Rejected`, though
the preparation has put them there: it checks the embeddings as their reader does, and of the
other files little more than the ids of the companies. `refused` merges
`ArtifactValidationError`, which leaves the process up without evidence, with the exceptions the
readers do not catch, which end it. `Served` takes the embeddings from the disk:
they are memory-mapped. `quiet` says that nothing was written since the manifest was read.

**`Ranking`** is `_rank_indices` and `_filter_ranked_indices`: similarities in hundredths,
equal ones in the order of the corpus, the cut at `top_k` and then the larger of the absolute
and the relative threshold. `InOrder` puts a set in its order by counting the members before
each one. `HistoricalFailures` is all of that; `CompanyAnalogues` ranks the companies without a threshold.

Each module defines, beside an operation it models, the mistakes one could make in it
(`\* Slip: ...`). They take no part in any specification; replacing the operation by a slip
breaks the property named for it in `mutants` of `PROJECT.json`, which shows that the property
depends on that line of the code.

## 3. The runs

| Run | Instance | What it shows |
|---|---|---|
| `job_threads` | 1 process, 2 jobs, 1 slot, 1 thread, queue 2, 2 crashes, 1 fault, SQLite | `SlotsConserved`: no path out of `_run` leaks a slot. `EndedIsTerminal`, `UnfinishedHasWorker`: without a database fault, a worker leaves a terminal row and an unfinished row has a worker. `WaitsForAbandonedOnly`: who delays a retrieval. `EventuallyTerminal`: every accepted analysis ends, although a thread may never |
| `job_overlap` | 2 processes, 3 jobs, 1 slot, queue 1, 1 crash, 1 fault, PostgreSQL | `NoDeadlock`: whatever a task waits for, some task of its process can move. `WorkerOwnsRow`, `TerminalRowsImmutable`: late workers leave a reconciled row alone. `QueueBound`: two transactions exceed the limit by one at most. `ImplementsLifecycle`: the refinement |
| `job_docstring` | 1 process, 1 job, 1 fault | finding: `EveryFailureIsTerminal` is violated |
| `llm_client` | 3 callers, 2 slots, 1 retry | slots, attempts (`UnavailableAfterAllAttempts`, `ProviderWasAsked`) and `CallsEnd` |
| `llm_cache` | 2 callers, 4 keys, 2 rows, retention 2 half-days, 4 instants, zones -1, 0, 1 | `SizeBounded`, `RecentRowsSurvive`, `AnswerStored`; `AnswersExpire`: no answer is served beyond its retention and the offset of the session |
| `llm_cache_replay` | 2 callers | finding: `RejectedNotReplayed` is violated |
| `pipeline` | 2 or 3 assumptions, 2 cases, 1 analogue, 8 calls, cost 1 at prices 0 and 1 | `CitationsResolve`, `HistoryOnlyContradicts`, `CallsAccountedFor`, `CallBudgetSuffices`, `BudgetsHold` |
| `pipeline_no_evidence` | the smallest pipeline | finding: `NoEvidenceIsInsufficient` is violated |
| `results` | grids around 4.95, 5, 7.95, 8 points, six months of runway and the IDX quartiles; doubles of 17 bits; corpora of four rows around the similarity thresholds. 5 ids, pages of 2, 3 instants, zones -1, 0, 1 | the score (`RoundingStaysLocal`, `SupportGrows`), the financial figures (`BreakEvenCorrect`, `WarningsCorrect`, `MoneyCorrect`, `IdxCorrect`) and the ranking (`RankingCorrect`) against reference definitions. `PagesInOrder`: no row twice, none out of order, unless the session is west of UTC. `NothingMissed`: all rows, unless it is east of it |
| `results_net_revenue` | the same | finding: `NoAnalogueWithoutNetRevenue` is violated |
| `results_zone` | the same | finding: `OrderRetained` is violated |
| `server` | 2 editions, interrupted anywhere; documents and failure embeddings escape the samples; the documents of the second edition are rejected. limit 2, messages of 0 to 3 bytes, lengths declared up to 3, 2 models | `StaleOnlyIfUnsampled`: what an undisturbed process serves is the manifest's, but for what the samples miss. `RefusedForCause`: an undisturbed start is refused for a missing manifest, a file that is not the manifest's, or contents a reader rejects, and for nothing else. `BufferBounded`, `AppGetsWholeBody`, `RefusedOnlyIfTooLarge`, `AnsweredOnceWithItsId`: the boundary. `ReadinessPredicts`, `AcceptsVerifiedModelOnly`: the start-up and the routes |

Two runs cover parts that do not depend on each other. `ResultsMC` is about what a client reads: a behaviour
varies the figures of a report or follows the pages of the history. `ServerMC` is about a process
from its start on: a behaviour follows its reading of the files or what clients see of it.
`LoadArtifacts` of `Startup` has every outcome the reading can have, whatever the files are.

**Why the bounds are enough.** In the job service, overlap needs one job that waits, one that
runs and one that arrives: three jobs, on the two processes that can overlap. For the threads
one process is enough, since they end with it. Two jobs, one slot and one thread let a retrieval wait for
the thread of an analysis whose slot it took over, and two ends of the process let a restart
meet the rows of a restart. The theorems of section 5 lift the number of jobs, processes, slots, threads,
crashes and faults. Three callers for two slots make one queue and two hold. Two rows and four keys let a row be the
most recent, the last kept, the first evicted and absent at once; four instants cover a retention of
two completely, with one to renew a row and one to expire, also where the zone of the session adds one. Eight calls are what two
assumptions need at most (2 + 3 * 2) and fewer than three assumptions may need (11), so the
call budget is both met and exceeded. Two editions tell the manifest's edition from another one,
which is all the loader compares; one of them is accepted by every reader and one is not. Doubles of
17 bits are exact in cents below 1024.00 and in 0.0001 percent below 8, and no longer between there
and the largest figures of the grids, as doubles of 53 bits are below 2^46 and 2^39 and between there and the
largest figures of the schema. Five ids over pages of two give three pages, the last of one
row; a client west of UTC may meet the same page again, so it reads four at most. A limit of two
bytes is reached and exceeded by one message, by two and by three, and one message may exceed it
alone. Two models are the verified one and another. The bounds on the number of calls of a
caller, crashes, faults and the clock only make the state space finite.

Ids, processes, keys and callers of the cache, and historical cases are symmetric where a cfg
says so, in runs without liveness. Deadlock is not checked: every instance has a bounded number of
ids, calls or pages, and stops when they are used up.

**Findings.** Five runs contradict a sentence of the repository; `findings` in `PROJECT.json`
quotes each.

1. A database error in `start_if_queued`, or in `fail_if_nonterminal` inside the handler, ends
   the worker with the row unfinished, although `_run` says it turns every unexpected failure
   into a terminal state. The row then waits for the next start of the process.
2. An answer that the pipeline rejects has already been cached, so that trying again, as the
   error message asks, is served the same answer until it expires.
3. An assumption without retrieved evidence is scored all the same and may be reported as
   supported, where the README announces `Insufficient Evidence`.
4. A net revenue that is not positive gets a position among the IDX companies as soon as the gross
   revenue is positive, although the docstring of `benchmark_against_idx` and the name of a test
   exclude it. `IdxCorrect` shows that the position is at least the right one of the gross ratio.
5. The time of a cursor loses its zone, and a PostgreSQL session that is not at UTC takes it for
   another instant, although a comment in `list_history` says that the ordering is retained on
   both databases. West of UTC rows come twice, east of it the next page skips rows;
   `PagesInOrder` and `NothingMissed` state each half of the paging promise where it holds.

Some observations contradict no sentence and are stated by the properties as they are:

* The cache keeps one row more than `LLM_CACHE_MAX_ROWS`: the overflow query runs before the new
  row is flushed (`SizeBounded`).
* A preparation in place changes what a running or a starting process serves:
  `StaleOnlyIfUnsampled` holds of undisturbed processes only.
* In a PostgreSQL session east of UTC the cache serves an answer for longer than its retention, by the
  offset; west of UTC it asks again that much too early (`AnswersExpire`).
* A preparation comes to its end with contents the loader refuses at every start, such as a case
  without a company or a benchmark without its columns (`RefusedForCause`).
* From 2^46 on, which the schema admits, the reported amounts are no longer exact in cents, and
  margin, profit and costs differ by the rounding of two doubles (`MoneyCorrect`).
* The model that was verified is the model in use only if nobody replaced the directory between
  the two readings (`AcceptsVerifiedModelOnly`).
* An abandoned retrieval can delay the retrievals after it until their own timeouts strike. The
  analyses end, as failed ones.
* `RETRIEVAL_MAX_TOP_K` may be set below 5, with which the pipeline always asks: such a process
  reports ready and every analysis fails with `RETRIEVAL_FAILED`. `Pipeline` has this outcome
  among those of `Retrieve`.

## 4. Fairness and liveness

`RetrievalThreads!ThreadedFairSpec` assumes weak fairness of `InsertQueued` (a handler that runs
does not stop in the middle) and of the worker of each job: the event loop runs ready tasks,
asyncio's semaphore serves its waiters in order, and `asyncio.timeout` bounds the stages that
await. Nothing is assumed of the threads: an item may wait in the queue and a retrieval may run for ever,
and the timeout alone ends the analysis. Nothing is assumed about restarts, because `compose.yaml` has no
restart policy: hence `EventuallyTerminal` is conditional on the processes serving infinitely
often. It is also conditional on no database fault, since finding 1 shows that with one it is
false. Faults, crashes and restarts are never fair.

`LLMClient!FairSpec` assumes weak fairness of what the event loop and its timers do: sending when a
slot is free, the attempt's timeout and the next attempt after the backoff. Nothing is assumed of
the provider: `CallsEnd` holds although it may never answer.

## 5. What is proved

Every theorem is about the specification with arbitrary constants, from the named
assumptions of its modules. Each proof finds an inductive invariant, since none of the properties
is inductive on its own; the theorems by name are in `PROJECT.json`.

**`JobServiceProofs`** (all finite sets of jobs and processes, all limits, both dialects, any
number of crashes and faults): the invariants of the job runs, the action property
`TerminalRowsImmutable`, and `LifecycleImplemented`, that every behaviour of `JobService` is one of
`AnalysisLifecycle`. `IInv` adds three facts. `Placement`: a task lives in a process that serves, and
only a ready process has an open transaction, without which a reconciliation could not be known
to leave no task of its own behind. `Freshness`: an id without a row has no task and is being
inserted by at most one process, without which an insert could overwrite a row. `RowShape`: the
status a row can have while its task waits or runs, without which the compare-and-set steps
could not be matched with the lifecycle. The lemmas `WorkerEffect`, `InsertEffect`,
`ReconcileEffect` and `CrashEffect` say what each kind of step changes; then one lemma per part
of `IInv` has one step per action. The queue needs an argument of its own, `QueueInv`: a
transaction that has counted has reserved a place, so queued rows and open transactions are
counted together. On SQLite at most one is open, and the bound is `MaxQueued` itself.

*Nobody is stuck.* `NoDeadlock` needs one fact that `IInv` does not have: `LoopExclusive`, that of
one process at most one task is in a stage without an await.
Then either that task can move, or the loop is free and the argument goes by slots: a waiting task
finds one, or `SlotsConserved` gives a task that holds one, and a holder needs nothing but the
loop and the write lock. `WorkersAdvance` adds that no step is a step back: `StepsLeft`
counts the stages a task has before it, and each of its steps, faults and the end of the process
included, makes the count smaller. What is left of `EventuallyTerminal` is the fairness of
section 4.

*The retrieval threads* (any number of threads) are the last part of the module:
`ThreadsImplementService`, the threaded
service implements `JobService`, and with it every theorem above (`ThreadsDisturbNothing`).
`OnlyAbandonedDelay` needs `Awaited`: a retrieval that is queued or worked on is awaited by a
running pipeline. Running pipelines hold slots, so at most `MaxConcurrent` retrievals are not abandoned;
with one of them
in the queue, fewer than `MaxConcurrent` of the busy threads are theirs.

**`LLMClientProofs`** (any number of callers, slots and retries): slots, `GivesUpAfterLast` and
`AskedInEveryAttempt`. `AttemptsUsed` ties the requests sent to the attempt and the place in the
loop. `EachAttemptSends` is the same as an equation; it holds while there are as many slots as
active callers, for then no attempt can time out in the queue. `CallsAdvance` bounds a call by
three steps for each attempt, `WaitsForStreams` finds, for a caller that waits without a free
slot, one whose timeout frees it: `CallsEnd` then only needs that timers expire.

**`LLMCacheProofs`** (any number of callers, keys and rows, any retention and zones): the size of the
table, the age of what it serves in any zone, and both action properties. The invariant says that `order` is a strict
total order of the rows and that a row expires a retention period after it was written (`Dated`).
Every finite set of rows then has a member used first and one used last (`LastOne`, `FirstOne`,
from the well-foundedness of strict inclusion). The last of the kept rows bounds their number
(`KeptIsBounded`); the first of the others has all rows used later among the kept (`CutOffLast`).

**`PipelineProofs`** (any number of assumptions, cases and analogues, any budgets and prices):
citations, the policy about historical failures, the budgets and the calls. `Counted` says how
many calls were made at every point of the three loops, as the number of assumptions passed that
have evidence or a finding (`Passed`); `Staged` which answers are still missing; `Cited` what
evaluation and review have established about each assumption. `Exhausted` turns the count into
`CallsSuffice`.

**`HttpApiProofs`** (any limit, any messages, any models): `BoundaryInv` says that the boundary keeps all that was
sent and that an answer ends the request (`Kept`, `Answered`). `StateInv` relates the checks of the readiness route to what the other
routes look at, through each branch of the start-up, and both to what clients were told.
`InService` says that a request in progress keeps its process from shutting down.

**`ArtifactsProofs`** (any editions, any samples, any contents rejected by their readers): `Verified` says what a process has found out when it has come
to a certain file, and that it still holds while nothing was written; `Prepared`, that finished
files are whole and that documents were made from the cases beside them.

**`ReportFiguresProofs`** (all breakdowns, inputs, tables and corpora), where TLC only visits
grids. The state hardly moves here, and its invariant only says that it is made of what the
constants admit (`InputsAreAdmitted`); the work is in the lemmas about the operators, in four parts.

* *Score.* `EvidenceIsMonotone`: a better breakdown is never assessed as less supportive, whichever
  way the two sums round. `RoundingIsHarmless`: an assessment that has reached 5.0 or 8.0
  points keeps it, and rounding lifts one over them by 0.05 points at most.
* *Money.* The provers know little of `\div` by a variable. `DivMod` says what a quotient is,
  `HalfUpSide` and `RoundedSide` on which side of a number a rounded one can fall, `CeilingIsLeast`
  what the ceiling is the least of. With them, the break-even volume is the least volume without a
  loss (`BreakEvenIsAlwaysLeast`), the warnings follow the exact figures (`LossesAlwaysAgree`,
  `LowRunwayIsAlwaysExact`), and reported figures keep the relations of the exact ones
  (`MoneyAlwaysAgrees`). `PercentsKeepOrder` and `PositionAgrees` say the same of
  the position among the quartiles (`IdxAlwaysAgrees`).
* *Doubles* (any precision). `SpacingExists` finds the binade of a number from the well-foundedness of
  strict inclusion; `DoublesKeepOrder` and `DoubleIsFaithful` say that rounding to a double is monotone
  and off by half a spacing at most, and not at all below the last exact place. Monotone rounding is why the
  burn stays the loss and the margin above the profit; the other bound is the one in `MoneyAgrees`.
* *Ranking.* `InOrderLists`: a strict order of a finite set puts it in a sequence without gaps,
  since members have different numbers of members before them (`PlacesDiffer`) and, being as many
  as the numbers there are, take all of them (`PlacesAreTaken`). No induction is needed. From it,
  cutting before the thresholds neither loses nor admits a row (`CutIsHarmless`), a larger `top_k` only
  extends the answer (`MoreOnlyExtends`), and the analogues are the best companies (`AnaloguesAreBest`).

**`HistoryProofs`** (all ids, page sizes, clocks and zones): both halves of the paging promise and
its end. `RanksAreTaken` does for a selection what `PlacesAreTaken` does for a corpus, so that a page is
the first part of it (`PageOfSelection`) and what is not on a page comes after its last row
(`OnPageOrAfter`). The invariant ties the cursor to the last row listed (`CursorNamesLast`). In a
session that is not west of UTC, what the cursor selects comes after everything listed (`Sorted`); in one that is not
east of it, a row of the first page's table is listed or still ahead (`StillAhead`). `PagesNeverRepeat`
adds that all pages before the last are full of different rows, so that following the cursors ends.

**Only model-checked**: the liveness properties `EventuallyTerminal` and `CallsEnd`, because the
prover has neither fairness nor `ENABLED`. The five findings are counterexamples, which only TLC gives.

## 6. What is not modelled, and why

* Similarities, embeddings and the text of prompts, summaries, evidence gaps, validation
  experiments and reports: numeric code of libraries, and wording. `Pipeline` has their control.
* Two preparations at once. `prepare_data` is a tool that one person runs; its writes are not
  exclusive and nothing in the code would notice.
* The three IDX files are one artifact, since they are written, checked and read one after the
  other in the same way.
* Requests of several clients at once. The boundary keeps all state of a request in the call that
  handles it, so requests only meet in `app.state`, which they read, and in the job service.
* Paths and methods no route has, which the framework answers, and CORS.
* Schemas, settings and logging: declarative; their limits are constants of the modules.
* Migrations and command-line tools: no state at run time. The start-up check of the schema version is
  `StartFails` and an outcome of `CheckDatabase`.

## 7. Plan

Done, in this order: the lifecycle and the job service with its proofs, the provider client,
the cache, the pipeline, the figures, the history, the ranking, the artifacts; then the retrieval
threads, the request boundary, the start-up and the HTTP API, money and the IDX comparison,
the session zone, and the proofs of the client, the cache, the threads, the pipeline, the API and the
artifacts; then the proofs of the figures, the ranking and the history, of the absence of deadlocks, and
of the bounds on the work of a task and of a call.

Left: a composition of `Pipeline` over `LLMCache`, which would show finding 2 end to end.
