# A TLA+ development of the Adaptive Evidence AI Lab backend

The backend (`src/backend`) accepts documents, chunks and embeds them in a worker, answers
questions over them with retrieval and a language model, records every execution as a trace,
and measures itself with evaluation runs. This directory models the parts of it that keep state
or decide something, checks them with TLC on small instances, and proves what matters most with
TLAPS for all instances.

## 1. Inventory

| Component | State | Operations | What is hard |
|---|---|---|---|
| Upload (`ingestion_service.create_from_upload`, `routes/documents.py`) | `documents` rows, objects in storage, a queued job | check duplicate, put the file, insert the row, enqueue, answer | four awaits, concurrent uploads of the same bytes, a process lost between any two |
| Ingestion job (`run_ingestion`, `tasks/ingestion.py`) | status, error, count of a row; its chunks | PARSING, CHUNKING, replace the chunks, COMPLETED or FAILED, queue the embedding | redelivery, overlapping runs, READ COMMITTED locks, an ORM session that writes only what it believes changed |
| Embedding job (`embedding_service`, `tasks/embedding.py`) | chunk vectors, error of the row | read what is pending, call the provider, write by primary key | everything read is stale after the provider's await |
| arq worker and queue (`workers/`) | jobs and their tries | start, retry, abandon, time out, shut down | at-least-once delivery |
| Evaluation (`evaluation_service`, `evaluation/`) | run status and counts, results, aggregates | create, enqueue, execute item by item, record | redelivery, one item failing, partial transactions |
| Query and tracing (`routes/query.py`, `core/tracing`, `trace_service`) | the span stack of one execution, the persisted trace | begin, nest, fail, end, persist, read back | cancellation, failures at every stage, order lost in storage |
| Retrieval (`core/retrieval`, `app/retrieval`, `core/routing`) | none: pure ranking over two arms | fetch, weigh, fuse, cut | what agreement of two arms guarantees |
| Text (`core/chunking`, `core/parsing`) | none: pure, with a cursor | parse into blocks, cut with overlap | progress, coverage, offsets |
| Answers (`core/reasoning`) | none | prompt, parse, keep only citations of the evidence given | invented citations, abstention |
| Provider client (`models/providers/mistral.py`) | attempts of one call | post, classify, back off, give up | which failures are retried and how often |
| Visualizations (`visualization/`) | none | graph, timeline, comparison, heatmap | orphans, duplicates, stale points |
| Projects, principals, sessions (`project_service`, `api/deps.py`, `db/`) | projects; rows of a request's transaction; the pool of connections | seed the principal, scope, insert, commit or roll back | check-then-insert by several processes, locks and connections held across awaits, a commit after the route has returned |
| HTTP surface (`main.py`, `middleware/`, `api/errors.py`, `core/config.py`, `core/context.py`) | settings; the request id bound in a context; log lines | validate and start, bind, authenticate, envelope errors, log, echo | exceptions that pass handlers and middlewares in turn, interleaved requests, a process that dies |
| Stubs (sources, benchmarks, experiments, reindexing, verification) | none | raise `NotImplementedError` | - |

Components meet in the database (documents, chunks, traces, runs), in the queue (upload →
ingestion → embedding, evaluation route → evaluation job) and by calls (evaluation → retriever →
fusion → provider). Every route runs inside the HTTP surface and a session of the request.

For each component, what makes it correct:

- **Upload**: one row per content, a file behind every row, ids nobody shares, and an accepted
  upload that settles.
- **Ingestion**: what is searchable is nothing or one whole parse; repeated and overlapping runs
  converge; nothing is left half way when nobody works on it.
- **Embedding**: a completed document gets its vectors, computed from the texts they stand beside.
- **Evaluation**: results are whole measurements of the dataset, one failing item fails no run, and
  an accepted run is over in the end; metrics agree with each other and nothing is made up.
- **Query and tracing**: an answer cites what the model was shown, and is traced; a trace blames
  the stage that failed; the graph drawn from it later agrees with the answer.
- **Retrieval**: agreement of the arms wins, each arm's order is kept, nothing is lost or repeated,
  and a search can be explained from what it reports.
- **Service**: names of projects are unique and refused for no other reason, a client is told
  nothing that did not happen, lines and envelopes name their own request, production never serves
  the development principal, and every request is answered whatever holds connections and locks.
- **Text and vectors**: offsets resolve to the quoted text, no visible text is lost, loops advance,
  vectors belong to their texts.

## 2. Modules

| Module | Models | Composed into |
|---|---|---|
| `DocumentStore` | tables, object storage, queue, ORM session; the helpers every job uses | the pipeline |
| `Upload`, `IngestJob`, `EmbedJob`, `ArqWorker` | the four actors, one action per await or commit | `DocumentPipeline` |
| `DocumentPipeline` | the whole pipeline with its faults, and its properties | `MCDocumentPipeline` |
| `RetrievalIndex` | abstract: what retrieval may rely on | refined by `DocumentPipeline` |
| `EvaluationRun` | evaluation runs, their job, redelivery, deletion | `MCEvaluationRun` |
| `RankFusion` | fusion of two rankings, with exact fractions | `QueryExecution` |
| `TraceCollector` | the recorder: nested spans, exceptions passing through | `QueryExecution` |
| `GroundedAnswer` | what becomes of the model's JSON | `QueryExecution`, `EvaluationScores` |
| `AnsweredQuery` | abstract: what a query promises whoever asks it | refined by `QueryExecution` |
| `QueryExecution` | one `POST /query`, await by await, beside a worker that changes the corpus | the next two |
| `SearchHits` | `POST /search`: what it reports of each hit's arms and ranks | `MCQueryExecution` |
| `EvidenceGraph`, `RetrievalComparison` | what the visualizations make of a trace and of three rankings | `MCQueryExecution` |
| `TraceTimeline` | a trace as it is stored, read back in the order of a coarse clock, and drawn | `MCQueryExecution` |
| `QueryAnalysis` | from what a text shows to type, signals and retrieval profile | `MCQueryExecution` |
| `PythonStr`, `TextChunks` | `str` methods; parsing and chunking, one round of a loop a step | `TextToVectors` |
| `ProviderCall` | the transport: classification of failures, retries | `TextToVectors` |
| `TextToVectors` | chunks embedded in batches | `MCTextToVectors` |
| `ItemScore`, `EvaluationScores` | metrics, categories, aggregation; runs and their heatmap | `MCEvaluationScores` |
| `ApiProcess` | settings, tables and start of an API process: validation and `ensure_dev_principal` | `HttpRequest` |
| `HttpRequest` | what every request goes through around its route: middlewares, principal, session and connection, error handlers | `ApiService` |
| `ApiService` | the routes for projects, queries and health over it, the death of processes, and the properties | `MCApiService` |
| `*_proofs` | theorems | - |

In every module a definition whose comment says *Variant* is a plausible slip in the code it
stands next to. Nothing uses it: substituted for that definition, it makes the property that
guards the place fail.

### How state and actions correspond to the code

**Document pipeline.** A row of `docs` keeps content, status, error code and chunk count; a text
is abstracted to the version of the parser that produced it, and a vector to the version it was
computed from (0: none). A chunk's primary key is derived from document and ordinal (`uuid5`), so
`chunks[d]` is a function from ordinals. A job carries what its session loaded (`seen`): a flush
writes only the columns that differ from it, as SQLAlchemy does, and that is what several
findings turn on. Transactions are READ COMMITTED: a job that has deleted rows holds their locks
until it commits, statements of others wait for it, and see what was committed when they go on.
arq is external: a job is delivered at least once, cut short by a restart of the worker and begun
again from the start, up to `MaxTries` times. An exception either leaves the job for another try
or drops it (`RetryRaised`): arq retries only what asks for it, and the code speaks of retrying,
so both are covered by runs. `Redeploy` replaces the parser, which restarts the one worker
process and all it was doing. `configured` says whether the worker has a provider key, which it
reads when it starts; no action changes it. Rows deleted by hand (`DeleteDocument`) and jobs queued by hand
(`Rerun`) come from outside the code.

**Evaluation.** There is one job per run, since `POST /run` is the only place that queues one.
Executing a run is one transaction; what earlier items added is flushed at the next item's first
query, which also takes the foreign-key lock that keeps the run from being deleted (`Locked`). An
item fails before or after that query. `needs` says whether the run's frozen configuration needs
a provider; the key is read at start-up, so `configured` changes only on `Restart`. `calm` is fixed
at the start and tells behaviours apart in which nothing unforeseen happens.

**Query.** A step is what happens between two awaits. A chunk is a number, for ties are broken by
id; the dense and keyword rankings are arbitrary rankings of any of the rows each can match, read by
two statements between which the corpus may change. The dense arm, too, may miss rows, for its HNSW
index (models/chunk.py:45-53) is approximate. Each await may end in a `DomainError`, another
exception or a cancellation, which pass through the open spans as in `TraceCollector`. A citation
index that is negative or no integer is -1; a payload that makes parsing raise is "broken". The
provider key gives generator and embeddings together, so the route's second check for a provider
never fires. `QueryExecution` has no clock; what a clock does to a stored trace is `TraceTimeline`.
`POST /search` retrieves in the same way; `SearchHits` is its response for any hits the arms may
have read, without the latency and the terms a keyword hit matched, and the statement that explains
those terms.

**Timeline.** A recording is what `TraceCollector` keeps of one execution: nested intervals, numbered
as they opened. The row of a span has `started_at` from the wall clock, which ticks once in a `grain`
of instants, and its duration from the performance counter, which is exact. `ReadBack` is every order
`ORDER BY started_at` may return, since the sequence number is not stored; `DepthOf` follows parents,
as `build_timeline` does.

**Service.** A step of a request is what happens between two awaits. The context variable that holds
the request id is `bound[r]`: each request runs in a task of its own. `lateExit` is whether the
installed FastAPI leaves `get_db_session` after the response is sent (0.118 and later) or before it
(earlier); `pyproject.toml` allows both, and it is fixed at the start. A session takes its connection
at its first statement and returns it at commit, rollback or close; `PoolSize` is pool and overflow
together. PostgreSQL lets an INSERT wait for an uncommitted row of the same key (`InsertProject`,
`InsertOrganization`), and a dead process's transaction is rolled back. `POST /projects` stands for
the routes that write, `GET` of one and of all for those that read, `POST /query` for those that await
something slow with a connection in hand. A project's id is that of the request that created it, as
`uuid4` draws none twice. The lifespan's shutdown is a death here: it finishes nothing.

**Query analysis.** Of a text its word count is kept and which patterns it matches: the regular
expressions themselves are not modelled. `IsText` rules out two combinations they exclude (a match
in a text without words, a version without a figure) and admits all others, some of which
no text shows. `Signals` leaves out the last signal the code records, `type:<type>`: with it, what
`ProfilesFollowTheText` says of the signals would hold of any classification. `DEFAULT_PROFILES` has the
code's numbers.

**Text.** A document is a sequence of characters, a step a round of the parser's or chunker's
loop. A PDF's offsets refer to its non-empty pages, stripped and put together with one character
in between, as `pdf.py` counts. The provider answers a batch in any order or with one too few;
that every index comes once is assumed, as the client does.

**Scores.** Quotients are exact, and `None` is a quotient by zero, kept apart from zero. A run is
executed item by item, here with everything it observed kept beside its score, so that the
properties can compare the two.

## 3. Runs

| Run | Question | Instance |
|---|---|---|
| `uploads` | do uploads race safely? | 3 requests, 2 acceptable files of which one is unreadable and one refused, with a provider key and without, lost requests and enqueues, unforeseen failures, timeouts, deletions |
| `reingest` | is a document always one whole parse? does the pipeline implement `RetrievalIndex`? is an untouched document settled and embedded, and do overlapping runs converge? | 1 document, 3 job ids, 2 parsers with different numbers of chunks, a rerun, an interruption, 5 tries, provider failures, deletion; failing jobs are dropped |
| `live` | does an accepted upload settle, and is it embedded in the end? | 2 job ids, 1 parser, 5 tries, failing jobs are retried, 2 interruptions, fairness |
| `evaluation` | are results whole, and is a requested run over in the end? | 2 runs, 2 items, 2 tries, 2 interruptions, fairness |
| `query` | is an answer grounded, does a query implement `AnsweredQuery`, does fusion rank as it says, do search, graph, timeline, comparison and profile tell the truth? | 3 chunks, `top_k` 2, all strategies and profiles, all failures; recordings of up to 3 stages on 3 clocks |
| `text` | do offsets resolve, is nothing lost, do loops advance? | every text up to 6 characters over letter, full stop, space and newline; 9 of words; two-page PDFs; two settings; batches of 2; 2 requests a call |
| `scoring` | do the numbers of a benchmark agree with what was observed? | 2 items in one run or two, 2 strategies |
| `service` | is what clients, logs and processes are told true, and is every request answered? | 2 processes, 2 requests for one name, a pool of one connection, 8 deployments, both orders of commit and response, 1 death, fairness |

and four that show where the code departs from what the repository says of it, each a shortest
behaviour:

- `stale_vector`: a re-ingestion replaces the chunks while the provider computes vectors of the old
  ones; since primary keys are derived, the UPDATE reaches the new rows. Two job ids and two
  parsers suffice.
- `unattributed`: after an outage the embedding is run again with success, and the document stays
  `failed` without an error code.
- `untraced`: a failure that is no `DomainError` leaves no trace.
- `fabricated_zero`: an item with gold evidence whose execution failed is scored as a retrieval that
  found nothing: recall, precision, hit rate and reciprocal rank are 0.

### Bounds, and why they are enough

- *Three job ids* where a rerun is allowed: two overlapping ingestions and the embedding one of
  them queues. With two, the embedding of the overtaking run could never be queued beside them.
  `live` has no reruns, so two suffice there. With three ids or two parsers its liveness check grows
  beyond minutes; overlap and re-parsing are covered by the safety runs.
- *Two parsers*, one of which makes more chunks than the other, so that replacing leaves ordinals
  over and adds new ones. A third parser would only repeat the relation of the second to the first.
- *Tries.* `reingest` and `live` have arq's 5, which is more than their interruptions and clashes use
  up: `IdleIsSettled` and `AcceptedSettles` claim nothing for a job arq gave up on. `timeout` is left
  out there for the same reason (see 6). In `uploads` a single try is the last one.
- *Query*: the depths are scaled down with the corpus (`FetchMultiplier` 1, `MinFetch` 2, adaptive
  multipliers 3 and 5 become 1 and 2), so that arms are cut and `top_k` cuts again. `K` is the
  code's 60. Three chunks allow: found by both, found by one, missed.
- *Text*: blocks of up to 6 characters against sizes 4 and 3 give windows in the middle, at the end
  and with a separator just before or behind a quarter of the size; one setting has an overlap small
  enough for `ChunksReachFurther`, the other has the largest overlap the chunker accepts.
- *Timeline*: three stages give every nesting and order (beside, inside, inside one of two); a grain of
  1 separates all instants, 4 puts most of a recording into one tick.
- *Service*: two processes race to seed the principal, and a third would meet what the second meets.
  Two requests in one process compete for its only connection, in two for the name alone. The
  deployments are a sound development machine, sound production, and one mistake in either at a time:
  each conjunct of `Accepts` decides somewhere. One death can hit any process at any point; the proofs
  of section 5 hold for any number of all of these.
- *Symmetry* is used for documents, requests and job ids in safety runs only.
- `CHECK_DEADLOCK FALSE` stands where the system comes to rest: a pipeline whose jobs are done, runs
  that are settled, a query that was answered, a benchmark at its `MaxItems`, requests that were answered. `text` is checked for
  deadlock and has an explicit end.

### Fairness

`FairSpec` of the pipeline is weak fairness of each request and of each job: the API's event loop
and the worker run what is ready, and arq polls its queue. Nothing is assumed of faults, reruns or
deletions. Every wait is for a lock another fair job gives up, so weak fairness is enough.
`EvaluationRun` assumes the same of the enqueue after a committed request and of each job.
`RequestedRunIsOver` is stated for `calm` behaviours, as the code gives no such promise in others.
`FairSpec` of the service is weak fairness of each request, because the event loop runs what is ready,
PostgreSQL ends a wait when the lock is released, and the provider client has a timeout; and of each
process that has begun to start. Nobody has to start a process or send a request, no failure has to
happen, and a request that waits for a connection need not time out: `EveryRequestIsAnswered` says that
those who hold connections and names let go of them in the end. Weak fairness is enough for finitely
many requests, as each leaves the pool for good; a stream of new ones for ever would need the pool's
queue to be first in, first out.
Termination of the text loops is stated as a measure that every step moves on
(`EveryStepAdvances`), which needs no fairness.

## 4. What the runs claim

*Pipeline.* `ChunksAreOneParse`: what is visible of a document is nothing or one whole parse,
with its count (`ReplacementIsSafe`, which the proof needs, says why, of the runs in flight).
`ImplementsIndex`: parses are published in one step each, and a published chunk keeps text and vector
until the next publication. `IdleIsFinished` (`IdleIsSettled` and `IdleIsEmbedded`): what holds once
nobody works on a document. `RunsConverge`: a readable one then has the chunks of a whole parse, even
when of two overlapping ingestions one failed on the other's chunks; that none is on record as failed is
claimed only while nobody queues a run by hand, as such a run is what ingestions overlap with.
`AcceptedSettles`, `CompletedGetsVectors`: liveness.

*Evaluation.* `ResultsAreWhole`: whatever cut executions short, each item has been measured equally
often. `OnlyConfigurationFails`: no item fails a run. `RequestedRunIsOver`.

*Query.* `CitationsWereShown`: a citation in the response is a passage the model was shown and
cited, with the text as it was then. `ImplementsAnswer`: while the worker changes the index, each arm
finds passages of the index at one moment, the model is shown passages an arm found, one trace is stored
before any answer is told, the answer is the one on the trace, its claims citing word for word what was
shown, and nothing of this is taken back (`AnsweredQuery`, where `record` and `reply` are the stored trace
and the response). That every answer sent has such a trace (`AnswersAreTraced`) follows and is not run by
itself. `TracesBlameTheStage`. `AgreementWins`: a
chunk both arms found precedes any that one found, for equal weights and arms at most `K + 1` deep.
`ArmsKeepTheirOrder`. `GraphAgreesWithAnswer`: with chunks gone, the graph has no dangling edge and
its summary no more supported claims than the answer. `ComparisonIsConclusive`: a chunk unique to
hybrid was found by both arms, a strategy with nothing of its own could be removed.
`ProfilesFollowTheText`: the recorded signals determine how a query is retrieved for, and one
for an exact token never favours the dense arm, whatever the order of the analyzer's rules.
`TimelineTellsWhatHappened`: a stored trace is drawn as deep as its stages were nested, whatever order
its rows come in; stages the clock can tell apart are drawn in their order; and the latency the viewer
shows for a stage is the one the query answered with.

*Service.* `ConflictMeansDuplicate`: every violated constraint is reported as a name that exists, and
it does exist. `LosersFindTheRows`: a process beaten to the seeding ends, and the rows are there.
`LinesNameTheirRequest`. `CreatedIsStored`: told 201 means committed, if the session is left first.
`DeveloperStaysHome`. `EveryRequestIsAnswered`: liveness. `TypeOK` includes the bound of the pool.

*Text.* `OffsetsResolve`, `NothingIsLost`, `ChunksReachFurther`, `VectorsAreAligned`,
`RetriesAreSpent`, `EveryStepAdvances`. *Scores.* `ConditionsAddUp` (items, metrics and failures of
the conditions are those of the run), `HeatmapIsMeasured`;
`MetricsAgree`: with each other, and with the failure category.

## 5. Proofs

All theorems hold for every value of the constants under the named assumptions of the modules,
which say no more than that bounds are natural numbers, weights and sizes positive, sets of items
finite, rankings sequences, and payloads of the shapes `GroundedAnswer` distinguishes. Three theorems
have a further hypothesis: two about the pipeline, which are named below, as what they claim holds
only where the deployment is as it says; and `AgreementAlwaysWins`, for fetch depths up to `K + 1`.

- `DocumentPipeline_proofs`. `TypeOK` is inductive. `UploadInv` (`ObjectBeforeRow`,
  `OneRowPerContent`, `UploadsOwnIds`) is inductive relative to it: a row needs its file because an
  id drawn by an upload is nobody else's before the row is committed. `PipelineInv` is
  `ChunksAreOneParse` with `ReplacementIsSafe`. The former is not inductive alone: a commit inserts
  a parse beside whatever the DELETE left, so one must know of each run that it has deleted
  everything present, or that what is present is the very parse it inserts, in which case its
  insert clashes or changes nothing. A commit is one lemma, steps that change no table follow
  from another. From the same invariant, every step maps to a step of `RetrievalIndex` or to a
  stutter (`PipelineImplementsIndex`).
  What becomes of an idle document is proved under `Dependable`: arq runs again what was cut short
  but not what raised, has a try for every interruption and release, and nothing fails that nobody
  records. `TriesInv` counts a job's tries against interruptions and releases, so arq never gives up
  on one; `OwedInv` says of every document that is not finished which job or upload still owes it the
  rest: the enqueue, the ingestion, or the embedding. With nobody left, nothing is owed
  (`NothingIsLeftHalfWay`). That runs converge is proved under `Repeated`, which lets what raised be
  retried or not, and any number of runs be queued by hand (`RepeatedRunsConverge`). `ParseInv` is about
  documents that are still to be parsed: each has an upload that will queue an ingestion or a job on
  its way to one, and none of its ingestions fails (there are no chunks yet to clash with) or is begun more
  often than it was cut short. A run that clashes finds chunks, and they are a whole parse by
  `PipelineInv`. `SucceedInv` holds while nobody has queued a run: a document then has a single ingestion
  (`OneIngestion`), which deletes every chunk there is and so never fails. Section 6 has what happens in
  other deployments: a timeout leaves a document in parsing, overlapping ingestions one marked as failed.
  Without either hypothesis, `JobsWindDown`: a job is a stretch of points for each try it has left, every
  step or fault of its own takes it on or ends it, and nothing else sets it back or makes other work of
  it. `LocksAreShort`: whoever waits for the rows of a document waits for one transaction, which is at
  its commit. `NeverStuck`: a job is at a point of its own task, and an embedding whose document went
  finds rows missing, so that the guards leave no gap.
- `EvaluationRun_proofs`. `RunInv` relates the stored results to the job: measurements of a run are
  at most as many as tries begun, fewer while one is in progress (`Spent`), and what a running
  job has done and has left is the dataset (`JobFollowsDataset`). `FailInv` follows a failure from
  the check for a provider to the commit. `RunsWindDown` is the same measure as the pipeline's, with the
  items left to score inside a try; `CalmRunsAreDecided` says that in a calm behaviour it only comes to
  zero with the run over; `NeverStuck`, that once an item was measured the provider a run needs is there.
- `RankFusion_proofs`. Fractions are compared by cross multiplication; ranking by score and id is a
  strict total order on what was found, and counting those that outrank a chunk places each exactly
  once. Two contributions of arms at most K+1 deep make at least 2/(2K+1), which is more than
  the best single one, 1/(K+1); one position deeper they may tie. Hence the bound, which the code
  does not state.
- `ApiService_proofs`. `Sound` is inductive: types; the pool bound, for which there must be finitely
  many requests; `ProcessInv`, which ties what a process has found to the rows (once the organization
  alone is there, nobody is inserting both); and `RequestInv`. The latter says that who serves has
  passed validation and has the rows, so that the only constraint a create can violate is the name;
  that a request has its id while it is inside the middlewares and a connection while it works; that
  an inserted name is neither committed nor inserted by another, which is what makes a commit keep
  names unique (`NamesAreUnique`); and that a committed project's request is over, so that no commit
  overwrites one. Some twenty actions change one request and nothing else: what they may do is stated
  once (`Move`), each is shown to be a move, and moves are shown to keep the invariant. INSERT,
  COMMIT, arrival, start and death are treated by themselves. On it rest `RequestsWindDown` (whatever a
  request does or suffers brings it nearer to its end), `WhatIsToldStands` (a client is told once), and
  `WaitsAreShort`: who waits for a connection waits for one who works, who may wait for a name, whose
  inserter waits for nobody; and a full pool is full of requests at work.
- `QueryExecution_proofs`. `QueryInv`: what is open on the collector's stack at each await, which
  hits are rankings, and that results outlive the chunks they came from. From it the types, the
  soundness of citations, and with the fusion theorems the two claims about ranking.
- `QueryViews_proofs`, on top of `QueryInv`. `ViewsInv` says which spans have ended at each await
  and with which status (`SpansInv`), that a trace is stored before an answer is given and says the
  same (`StoredInv`, `RespondedInv`). From it: an answer has its trace, and a failed one blames the
  stage that raised. The graph is shown to have no dangling edge for any subset of chunks that are
  left. `SearchIsExplained`: the arms and ranks a hit is reported with are those it was found by and at,
  and the scores a client recomputes from them order the hits as they came.
  `ComparisonIsConclusive` needs the fusion theorems once more: a chunk only one arm found, beyond
  that arm's first `top_k`, is outranked by those `top_k`, so that a chunk unique to hybrid must have
  been found by both. `PromiseInv` adds to `ViewsInv` that nothing is told before the end, that an arm has
  read nothing before its turn, and that without evidence the answer abstains; with it every step maps to
  a step of `AnsweredQuery` or to a stutter (`QueriesKeepTheirPromise`). The timeline and the profiles are pure: `DepthsAlwaysShowNesting` and
  `TimelinesAreFaithful` hold for recordings of any number of stages on a clock of any grain, because one
  stage fewer runs around the parent than around its child, so that the walk to the parents meets each of
  them once; `SignalsAlwaysExplain` holds for texts of any length, because the type is a function of the
  signals (`TypeBy`). The invariants of the run `query` are these theorems for its recordings and texts.
- `TextToVectors_proofs`. `Inv` has a part for each stage. `TextInv`: blocks are trimmed pieces of
  what was read, in its order, and everything visible before the cursor lies in one; chunks are
  trimmed pieces of their block, and what is visible before the cursor lies in a chunk. For
  `ChunksReachFurther` it also bounds the last chunk by the cursor (`IsBehind`). `CallInv`: the vectors
  of the chunks embedded so far stand in their order, and attempts are spent only on what may be
  retried. `WorkLeft` decreases at every step, whatever overlap is configured. `Joined`, which puts
  pages together, is a recursive function: that it yields texts is shown by taking the least page of
  which it fails.
- `EvaluationScores_proofs`. `ScoresInv`: what has been measured is what the scoring functions make of
  what was observed. Adding fractions commutes and associates; a mean is the quotient of a sum and a
  count; and sums or counts over the parts of a sequence that share a key add up to that of the whole
  (`SumsAddUp`, `CountsAddUp`), again by the least position of which it fails. `MetricsAgree` then
  compares cardinalities of the sets of relevant and retrieved chunks, for every finite set of cut-offs.

Induction over data is out of the prover's reach where it takes a library theorem about all operators;
over one recursive function it was done with the least counterexample, which is first-order. For the
proofs, operators that were folds, or selected from a sequence, were restated: `Total`, `Mean` and
`Aggregate` of `ItemScore`, `Rows` of `RetrievalComparison`, `Resolvable` of `EvidenceGraph`,
`ContributedBy` of `SearchHits`, `Joined` of `TextChunks`, the walk of `DepthOf` in `TraceTimeline`.
Two were wrong: the arms of `WorkLeft` overlapped, so that which one counted was undefined, and
`ConditionsAddUp` said nothing of failure categories.

Every invariant and action property of the passing runs, and both refinements, are theorems. Only
model-checked is liveness (`AcceptedSettles`, `CompletedGetsVectors`, `RequestedRunIsOver`,
`EveryRequestIsAnswered`): fairness and ENABLED are out of the prover's reach. What it rests on besides
them is safety, and proved for all constants: a natural number for every job and request, which each of
its steps lessens and nothing raises (`JobsWindDown`, `RunsWindDown`, `RequestsWindDown`); that it is not
stuck before its end, nor waits in a circle (`NeverStuck`, `LocksAreShort`, `WaitsAreShort`); and that the
goal is reached when nothing is left to do (`OwedInv` and `NothingIsLeftHalfWay`, `CalmRunsAreDecided`). That these
together give the liveness properties under weak fairness is an argument, not a proof. These measures and
the other properties of this paragraph that section 4 does not name are defined in the modules of their
proofs, beside the theorems, and no run checks them.

## 6. Known divergences

Beyond the four findings, the models have these behaviours, and no property claims otherwise:

- two overlapping ingestions of a document: one whose DELETE saw nothing clashes with the rows the
  other has committed, and records a complete document as failed until another run repairs it (its chunks
  stay whole: `RunsConverge`);
- the queue refusing the embedding job of an ingestion that is committed (`LoseEmbedding`): the exception
  leaves the task, arq drops the job, and the completed document is searched by keyword only until
  somebody queues another; `IdleIsFinished` and `CompletedGetsVectors` are checked without that fault;
- an upload whose enqueue is lost leaves a pending document, and the file cannot be uploaded again
  because it "has already been ingested";
- a job cancelled by `job_timeout` leaves a document in parsing or chunking, and an evaluation
  RUNNING, for good; so does an exception nobody expects in an evaluation;
- a run registered by `POST /evaluations` can never be executed, although the route's docstring
  refers to `/run`; an evaluation delivered again after it completed stores a second set of results
  beside aggregates of the last; a run that succeeds after a failure keeps the old error;
- `invented_citation` cannot occur as a category, since scoring gets only citations that survived;
  incomplete items of runs without a generator count as answered without evidence;
- an adaptive pool has no floor like hybrid's `MIN_FETCH_K`: the "wider" pool is narrower for a
  `top_k` of three or less;
- arms deeper than 61 (a `top_k` over 20) let one arm's favourite outrank a late agreement;
- between the arms' statements the corpus may be replaced, and the same chunk id has two texts; an
  evidence graph drawn later shows the text of today;
- a chunk may lie within its predecessor where the overlap is large or white space is long;
- a response that repeats an index attaches vectors to the wrong texts.
- an exception nobody handles is answered by a handler outside the middlewares: its line and its
  envelope carry no request id and its response no `X-Request-ID`, though request_context.py:19-20
  says every log line has it; `trace_id` in an envelope is always null, for the query's
  binding of it ends before its error is enveloped;
- with FastAPI 0.118 or later a 201 is sent before its transaction commits, and a commit that fails
  then is only logged;
- the API process that loses the race to seed the principal exits, and `docker-compose.yml` has no
  restart policy for it;
- in `jwt` mode every request with a token is a 500 (`decode_access_token` is not implemented), so that
  production, which requires that mode, serves health checks only;
- `/ready` reports the database down when the process's pool is exhausted;
- workers never call `validate_runtime_settings`, and bind no context, though context.py:54 says they do;
- spans that began within one tick of the wall clock are read back in any order (models/trace.py sorts
  by `started_at`), which recorder.py:186-189 avoids with a sequence number that is not stored.

## 7. Not modelled

Frontend and migrations (no behaviour; the constraints they create are in the tables of the models);
CORS and the parsing of settings; stubs beyond their 500; tokens and cost; streaming (a stub); Markdown
headings, decoding and what pypdf does within a page; ndcg (logarithms); the text of regular
expressions; the length of pauses between retries; the fields of a project besides its name.

## 8. Plan

1. *Now*: the document pipeline, evaluation runs, query execution with fusion, tracing and grounded
   answers; text, provider, scores, search, graph, comparison and analysis; the proofs of section 5.
2. *Extended*: the API service (start-up, requests, sessions, the pool, projects) with its proofs; stored
   traces and the timeline. The pipeline and the service meet only in the tables, and are checked apart.
3. *Proved since*: what a query stores and shows of itself, the text modules, the scores, what becomes of
   an idle document, the timeline and the query analysis; that a query implements `AnsweredQuery`; the
   safety half of the liveness properties.
4. *Left*: the liveness properties themselves, for a prover with ENABLED; pipeline and query over one
   table of chunks, where `Searchable` would be `Published` of `RetrievalIndex`.
