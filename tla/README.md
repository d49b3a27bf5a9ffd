# SAP Connect: TLA+ specifications

SAP Connect connects to SAP systems over RFC, OData and ADT, extracts their data for
analysis, prepares migrations and lets agents propose changes behind safety and
approval gates. It is one Node.js process: a callback runs until its next `await`, so
the unit of interleaving, and the unit of an action in every module here, is the code
between two awaits. Nothing is preempted; what goes wrong goes wrong because state was
read before an await and used after it, because an answer came late, or because one
call of several failed.

## The parts of the system

| part | source | state | operations | what is hard |
|---|---|---|---|---|
| RFC pool | `lib/rfc/pool.js` | idle stack, busy set, wait queue, drained flag | acquire, release, drain, acquire timer | interleaved opens, late timers, dead connections, shutdown |
| RFC client | `lib/rfc/client.js` | connection, connected flag, a circuit breaker, stateful flag | open, close, call, stateful session | retry on another session, calls that outlive their timeout |
| function caller, BAPI catalog | `lib/rfc/function-caller.js`, `lib/greenfield/bapi-catalog.js` | none; the unit of work is in the SAP session | callWithCommit, createBusinessPartner | several calls that must belong together |
| resilience | `lib/resilience.js` | breaker state, failure and half-open counts | execute, reset | outcomes that arrive in a later state |
| approval gate, tiers | `lib/security/approval-gate.js`, `tier-manager.js`, `tier-config.js` | requests with status and approvals | request, approve, reject, cancel, check, list | several people, expiry in between |
| forensic extraction | `extraction/forensic-orchestrator.js`, `base-extractor.js`, `checkpoint-manager.js` | queue, running set, results, checkpoint files | run, resume | bounded concurrency, crash and resume |
| OData client | `lib/odata/` | CSRF token and its expiry, cookies, breaker | get, post, patch, delete, batch | token shared by concurrent requests, retried POST |
| safety gates, their bridge | `lib/ai/safety-gates.js`, `lib/mcp/safety-gates-bridge.js` | gates, strictness, approvals, audit trail | validate, batch, request, approve, reject, set strictness | state that changes between the gates of one validation |
| agents | `agent/orchestrator.js`, `context-builder.js`, `llm-provider.js`, `sap-gateway.js` | conversation, token usage | run one agent or the workflow | exits of the loop, errors of the check, cut conversations |
| transports | `lib/greenfield/transport-manager.js` | requests, pipelines, promotions | create, release, promote | order of promotion |
| migration run | `migration/objects/registry.js`, `dependency-graph.js`, `objects/base-migration-object.js`, `extraction/migration-bridge.js` | graph, waves, results | plan, runAll | order of the objects, cycles, failures |
| rate limiter | `lib/security/rate-limiter.js` | windows of timestamps per key | middleware | eviction at the limit |

How they interact: FunctionCaller, the BAPI catalog, the table reader and the batch
input engine acquire a client from the pool, call it and release it in a `finally`
block. A client runs each call through its own breaker. OData and Infor clients share
one breaker between all their requests in flight, Infor ones with the retry policy
inside it. The extractors use the table reader and leave checkpoint files behind; the
orchestrator runs them and hands their results to the analysis. Everything else
(process mining, gap analysis, field mapping, catalogs, reports, the user interface)
computes on data it is given and keeps no state that two steps share. `PROJECT.json`
lists all parts with what is modelled of them.

## What makes each part correct

- Pool: a client has one user; nobody waits beside an idle client; a waiter is never
  forgotten; after a drain connections get closed.
- Breaker: it opens at its threshold, is left only by a probe or a reset, and cannot
  get stuck in the half-open state.
- Unit of work: nothing is committed twice; success means committed; failure means undone.
- Approval: the tier's number of different people, the requester not among them; a
  decision is final.
- Extraction: each selected extractor runs once, at most `concurrency` together, and
  the analysis starts on all results.
- Migration: nothing starts before what it depends on, cycles excepted; the list of a
  plan lacks no dependency; the report counts each object once.
- OData: a token that came with a cookie is sent with this cookie; a token known to be
  rejected does not come back; nothing but a lost answer makes a request count twice.
- Safety gates: the verdict agrees, as a whole, with the policy of a level that was in
  force while the gates ran, whatever changed between them.
- Agents: a blocked write is not carried out; every token is accounted for; what is
  sent to the model has the result of each tool call behind it.

## Modules

| module | models | 
|---|---|
| `LeasePool` | what the pool promises, with no queue and no socket |
| `RfcPool` | the pool; `LeaseSpec` is its refinement of `LeasePool` |
| `RfcPoolProofs` | its invariants and the refinement, proved |
| `CircuitBreaker`, `CircuitBreakerProofs` | resilience, and its proofs |
| `BapiLuw` | RFC calls, their retries and the SAP session's unit of work, over one leased client |
| `ApprovalGate` | approvals and tiers |
| `BapiLuwProofs` | its invariants, proved |
| `JobRun` | what a run of concurrent jobs promises, with no queue, wave or counter; the next two implement it |
| `ForensicRun`, `ForensicRunProofs` | the extraction run, its checkpoint files, crash and resume, and its proofs |
| `MigrationRun`, `MigrationRunProofs` | the plan, the waves and the objects of a migration, and its proofs |
| `ODataClient`, `ODataClientProofs` | concurrent modifying requests over one token and one set of cookies, and its proofs |
| `SafetyGates` | the gates of an artifact, run one by one while policy and approvals change |
| `GateProofs` | the proofs about `ApprovalGate` and `SafetyGates`, the two gates that operations pass |
| `AgentRun`, `AgentRunProofs` | the agents, their tool calls, gates, usage and conversation, and its proofs |
| `MC*` | the instances that are model-checked |

### RfcPool

`available`, `busy`, `waitQueue` and `drained` are the fields of the pool. `pc[r]` is
the await at which request `r`, one acquire and the release that follows, is suspended;
`held[r]` is the client it has or is opening and `serving[r]` the waiter its release
opens a client for. `conn[k]` is `isConnected`. One acquire creates at most one client
and one release at most one, so clients are pairs of a request and which of the two
created it: client identity needs no counter. The acquire loop is entered twice, by
`Acquire` and, after the close of a dead client, by `AcquireContinue`, which as in the
code does not look at `_drained` again. `AcquireTimeout` leaves the queue alone because
the `findIndex` of the code never matches. The environment is `HolderCall` (a client
loses or regains its connection in use) and `IdleDies` (a call that outlived its
release clears the flag of an idle client). Resolving a promise twice has no effect,
which `Deliver` and `RejectWaiter` say. The close of a client is instantaneous except
where other code runs during it with a visible difference (`discarding`). The close
that precedes a reopen is part of the wait `releasing`.

### CircuitBreaker

`state`, `failureCount` and `halfOpenAttempts` are the fields; `failureCount` stops at
the threshold since it is only compared with it. Time is `elapsed`, the answer
`_shouldAttemptReset()` would give: a failure makes it false, `Elapse` true. A call is
`running` while the wrapped function is awaited and `sleeping` between two attempts.
`MaxRetries = 0` is the bare breaker of the RFC and OData clients. Any call in flight
may settle in any state. The counters without influence (successes, statistics) and
`onStateChange`, which only reports, are left out.

### BapiLuw

One client of the pool and the callers that lease it in turn (`Acquire` needs that
nobody else is active, which is what `LeasePool` promises). A caller is a program of
one BAPI (callWithCommit) or two (createBusinessPartner), COMMIT, and ROLLBACK as its
catch block. An action is one attempt of `RfcClient.call()`. The SAP session executes
what it was sent in order, also calls the client no longer waits for: `queue` is what it
has not yet executed, `luw` its uncommitted work, `committed` the database. It is
external, as is the node-rfc library. A transient error is a lost connection, and the
session and its uncommitted work end with it; a commit that was being executed may or
may not be done. An open breaker may let a call through at any time, so its timer needs no
variable; the half-open count does not appear because a client has one call at a time.
A call may answer, report an error in RETURN or raise an exception; only the RETURN of a BAPI of
`callWithCommit` is looked at (`ServeMessage`), those of COMMIT and ROLLBACK are not (`CommitUnread`,
`RollbackUnread`), nor those of the business partner's BAPIs.
`trail` is history: whether a caller's client was reopened, its COMMIT sent or answered with an
error, its ROLLBACK refused by the breaker or failed in the server.

### ApprovalGate

The map of requests as functions of the request id; `overdue` is the set whose
`expiresAt` has passed. `OPERATION_TIERS` is a parameter, an unknown operation has
`DefaultTier`. An operation of tier 1 or 2 leaves no record, so it is no step. A
rejection's text, timestamps and the filters of the list are left out (the list expires
requests before it filters).

### JobRun

The abstract run that `ForensicRun` and `MigrationRun` implement: jobs are selected when it begins,
each is started once and settles, never more than `limit` together, and the run is over only
when all have settled. It may be aborted, as a whole. Jobs start together with the
beginning, with the settling of another, or on their own: one uses a place the moment it is free, the other waits for
its wave, and neither may start one twice. The mapping (`JobPhase`, `JobStates`) hides queue, waves,
counters, files and the order of the jobs.

### ForensicRun

`Order` is the registry, `entries` what `options.modules` leaves of it. Starting an
extractor and taking it from the queue is one stretch of code, so `RunNext` starts as
many as there is room for within the step that fills the queue or settles an extractor.
`stage` separates an extractor that works from one whose checkpoint is written and whose
result is not yet recorded. `Crash` may leave the file that was being written torn, and a
save that fails may too. A torn file makes every later resume fail (`ResumeFails`) until
it is removed by hand. In `JobSpec` the first two phases are jobs like the modules, a failed run or a
crash is an abort, and what a resume has read from the files is not settled: only a job of this
run can be.

### MigrationRun

`deps` is the graph, which `setDependencies()` lets be anything; `requested` is the list
given to `runAll()`, or the one a plan of the bridge makes. The plan (phases `planning` and
`planned`) is the traversal of `_addPrerequisites()`: for each object of the first list
(`Traverse`) the recursive calls of `getTransitiveDependencies()` with their visited set
(`Visit`, one call each; `pending` are the calls to come). In the code that is one synchronous
stretch; as no other action is enabled meanwhile, its steps can be told apart without adding
behaviours. They make termination and completeness of the traversal, which the visited set is there for,
something the properties have to find out. `getExecutionWaves()` computes all waves first; since neither list nor graph
changes afterwards, `NextWave` computes them one at a time. `stage[o]` follows `run()` of
an object through its two awaits. An id without a class makes `createObject()` throw:
`runAll()` rejects (phase `rejected`) while the other objects of a parallel wave go on.
The phases of one object between awaits (transform, validate) are in `ToLoad` and
`NotLoaded`. In `JobSpec` the plan does not show and the limit is one object, unless the run is parallel; a rejected run is aborted,
whatever its other objects still do.

### ODataClient

`csrf`, `fresh` and `cookie` are `_csrfToken`, whether `_csrfExpiry` lies ahead, and
`_cookies`. A request awaits the token (`fetching`), the headers of the authentication
(`executing`, for a batch then `built`) and the answer (`sent`). The server is external:
a token request opens a session, a request is accepted if its token is that of the live
session its cookie names. The answer to a token request need not set a cookie (`Cookies`): then the
old one stays, the token is `bare`, and whether the server takes the two together is left open. A
request to a url outside `baseUrl` (`Foreign`) drops a rejected token without fetching another. The
answer to a batch may be one that `batch()` cannot parse (`Unreadable`). A batch builds its headers before the last await and may
combine the token of one moment with the cookie of another, hence `TokenMatchesCookie` is about
the retried requests, and about tokens that are not bare. `lost`, `bare`, `unread` and `rejected` are history. The circuit breaker is
`CircuitBreaker` with `MaxRetries = 0`; here its refusal is one way for an attempt to
fail.

### SafetyGates

An artifact is what the gates find in it, which replaces the pattern tests. `sortedGates` is
computed when a validation begins: `todo` is the set of those still ahead (`GatesFor`), of which
`RunGate` takes the one that no other precedes. Each gate is one step
that reads the strictness and the approvals of its moment. `Finish` is the verdict with
its audit entry; `during` and `knew` are history kept with it. An approval belongs to a
name, so requests are a sequence of names with a status each. The bridge adds the
approvals that are requested under the name of its tool, which approve no artifact.

### AgentRun

`pc` is the await of `_runLiveAgent()`: the model (`asking`), the gates (`gating`), the
gateway (`executing`). A message is its kind and, for a call of tools and its results,
the iteration and the number. `Compressed` is every outcome `compressContext()` may have
for some lengths of the texts: the opening, a marker, and an end of the rest whose first
message is dropped at least. `Execute` may write or not, because a live write that fails
falls back to mock data. Usage is counted in answers; `spent` is what the provider
charged. `evaluate()` is not defined by `SafetyGates` of this repository: it is an external
operation that approves, blocks or throws. A blocking answer whose failures are no list of failures throws in the
orchestrator, and the write goes on as after any error of the gates (`GateBlockLost`); `blocked` are the calls
the agent was told are blocked.

## Runs

| run | bounds | result |
|---|---|---|
| pool | 4 requests, pool of 2 | invariants, liveness and refinement hold |
| pool_lost | 3 requests, pool of 1 | `NoneLost` fails |
| breaker | 3 calls, threshold 2, 2 probes, 1 retry | all hold |
| luw | 2 + 1 callers, 1 retry, threshold 2 | all hold |
| luw_lost | 2 callers | `SuccessMeansCommitted` fails |
| luw_foreign | 2 callers | `RolledBackOnError` fails |
| approval | 2 requests, 4 people, 3 operations | all hold |
| forensic | 3 modules, 2 at a time | invariants, liveness and refinement hold |
| migration | all 512 graphs over 3 objects, one of them without a class, every list, given or planned call by call, parallel or not | invariants, liveness and refinement hold |
| odata | 2 retried requests, one of them outside `baseUrl`, and a batch, 1 retry, 2 sessions | all hold |
| gates | 1 validation, 3 batches, 2 approval requests, 2 changes of strictness | all hold |
| agent | 2 agents, 3 iterations, 2 calls per answer, 2 runs | all hold |

Why the bounds are enough. Four requests and two places give two holders, a waiter and
a fourth that overtakes or times out, with a dead client to replace; every hand-over
involves at most three of them. Three calls let one be a probe, one a late success and
one a late failure; a threshold of two distinguishes one failure from enough, two probes
distinguish one from the limit. Three callers of a client let the work of one be left
behind by it, met by the next and committed by a third. Two approvers and a requester
need three people, the fourth is one too many; the second request shows that requests do
not affect each other. Three modules on two places have one that must wait. Three
objects give chains, forks, joins, cycles of each length up to three and objects that
hang on a cycle. Two sessions let one request drop, or be overtaken by, the token of
another; the third request is the one a batch interferes with. Validations do not read
what another one writes, so one is enough; two changes of the strictness let it leave
and return within one. Three iterations leave room for two rounds of tool calls, so that a cut can
fall before, between and inside them, and for the limit to be met.

The history variables, retry counters and failure counts are bounded by the constants;
the named bounds are `MaxSessions` (sessions the OData server opens: beyond it only the
answer without a token is left), `MaxRequests` and `MaxChanges` (approvals and changes of
the strictness), `MaxCalls` and `MaxRuns` (tool calls in one answer, calls of `run()`). No
other counter can grow since a request, caller or run ends (`ForensicRun` may be started again
any number of times, and its counter is reset).

The violations are what the code does against what it says: the pool's `give them this
connection directly`, the `explicit commit`, the test `should rollback on error`.
`PROJECT.json` quotes each with its line. `SuccessIsCommitted`, `FailureIsUndone` and
`DrainCloses` are the same promises with the exception taken out, so they show that the
exceptions are the only ones: success is committed unless there was a reconnect or COMMIT itself
answered with an error that nobody reads, failure is undone unless the rollback was refused or
failed in the server, and only lost clients stay open after a drain. The two violations of the unit of
work are shown without errors of COMMIT and ROLLBACK in the server.

Other differences between code and words, met while modelling, without a run of their own:

- `_busy.size` is compared with `poolSize` before the await of `open()` and the client is added
  after it (`pool.js:74`), so overlapping opens exceed `poolSize`.
- The RETURN of `BAPI_TRANSACTION_COMMIT` is not looked at (`function-caller.js:80`,
  `bapi-catalog.js:539`): a COMMIT that reports an error is a success to the caller, with nothing
  committed. The business partner code does not look at the RETURN of its BAPIs either and commits
  (`bapi-catalog.js:519`).
- The answer to a token request without `set-cookie` leaves the old cookies in place
  (`odata/client.js:214`), so the new token is sent with those of an older session.
- `batch()` throws when the answer is empty or no JSON (`odata/client.js:133`, `batch.js:161`),
  with the batch executed.
- `approve()` compares the status and not `expiresAt` (`approval-gate.js:103`): a request may
  be approved after its time if nobody has looked at it since.
- `resume()` starts `run()` on everything (`forensic-orchestrator.js:182`): the extractors it found
  complete run again. A torn checkpoint makes `resume()` throw until it is removed.
- An object the user excluded from a plan comes back when another one depends on it
  (`migration-bridge.js:115`). A rejected `runAll()` leaves the siblings of the wave
  running.
- The orchestrator calls `evaluate()`, which the class `SafetyGates` does not define; the
  exception is logged and the write goes on (`orchestrator.js:372`), also when it comes from reading the
  failures of an answer that blocks (`:369`).
- A live `writeAbapSource()` that fails falls through to the mock answer, status `SAVED`
  (`sap-gateway.js:196`).
- The usage of an agent is added to the total when it returns, so a provider that throws
  loses what was spent before (`UsageCounted` has this exception).
- Compression keeps an end of the conversation that may begin with a tool result whose
  call was cut; `RequestWellFormed` is about calls and their results, the other direction
  does not hold.
- In mock and dry-run mode the bridge allows everything.

Deadlock is checked for the breaker alone. The other systems may stop: each request,
caller, validation and approval runs once, and the number of runs is bounded.

### Fairness

Promises that are awaited settle and timers fire: every RFC call has a timeout of its own
(`client.js:298`), and a connection attempt ends in the RFC library with a connection or an
error. So the steps of a running operation are weakly fair.
Every user of the pool releases in a `finally` block (`function-caller.js:64` and `:91`,
`bapi-catalog.js:547`, `bdc-engine.js:161`), so a holder's release is fair. Nothing obliges anyone to
acquire, drain, reset, approve, run or resume. In `CircuitBreaker` the recovery takes "callers go on
calling" as the antecedent of the property. In `BapiLuw` the server may stay silent
for ever; the timeout of the call ends the wait. In `ODataClient` every `fetch()` has a timeout
(`AbortSignal.timeout`, `client.js:201` and `:275`), so while a request is under way some request goes on, whatever the answer; nothing is assumed about which. In `MigrationRun` the
objects read and write through a gateway whose calls settle, and `Promise.all` goes on when
they have. In `AgentRun` the provider, the gates and the gateway answer or throw.
The approval gate and the safety gates have no liveness property: nobody has to decide.

## Proofs

Each `*Proofs` module proves its theorems for every value of the constants, under the
named assumptions of the modules (finite sets of requests, calls or objects, positive
limits, `None` is no client, tiers between 1 and 4, an order of modules without
repetitions, batches that are not empty). Each follows one pattern: an inductive invariant, one step per
action, and the properties from it. The type invariant is part of each and is proved, not run.
`GateProofs` extends both gate modules, which is why `SafetyGates` has names of its own (`SafetyInit`, `SafetyNext`,
`SafetySpec`, `SafetyTypeOK`) for what is `Init`, `Next`, `Spec` and `TypeOK` everywhere else.

- Pool. `LeaseExclusive` alone is not inductive. The invariant adds `OwnerInv` (a request
  has a client exactly while it opens or uses one, and which of its two it is opening),
  `FreshInv` (a client whose creator has not opened it yet is neither idle, nor busy, nor
  with anybody) and `StackInv` (no client is twice in the stack, so the one that is popped
  is gone from it). A client that gets opened is then new to everybody, and one that is
  handed over or pushed back leaves its holder in the same step. From the invariant come
  `LeaseExclusive`, `NobodyWaitsBesideIdle` and `WaiterAccounted`, and the refinement
  `LeaseSpec`: each action is a step of `LeasePool` (ask, grant, refuse, return, hand
  over) or leaves its variables unchanged.
- Breaker. The three invariants are inductive together. In the half-open state the
  counted attempts must be calls in flight, or nobody would be left to end that state;
  this rests on the count being zero whenever the breaker is open, and that on every way
  out of half-open clearing it. The lemmas say that a call that starts adds one to the
  calls in flight and one that settles takes one away.
- Unit of work. `CommittedOnce` follows from `WorkInv`: the copies of a piece of work that are
  still to be sent, in the queue, in the unit of work and in the database are at most one,
  because a step is sent once unless it failed together with its session. For that `QueueInv`
  says that what is in the queue was sent at a step that is past, and `OwnerInv` that what
  follows the work of the active caller in the session is its own, so that its COMMIT finds its
  work there unless the client was reopened. `FailureIsUndone` needs `UndoneAfter`: behind
  the work of a failed caller its own ROLLBACK is queued with no COMMIT before it, unless `trail` says what became of
  it. An unsent ROLLBACK leaves the breaker open (`LeftoverBehindBreaker`), which is inductive with the others.
- Approval. The invariant adds that approvals are of different people and that no
  pending request has enough of them; the last approval then decides. `DecisionFinal` is
  a step property from the guards of all the actions together with it.
- Safety gates. The verdicts look back on results found at different moments, so `ApprovedMeetsWeakest` and
  `BlockedFailsStrictest` need an invariant about the validation in progress. `Running` says that each built-in gate
  that applies is still ahead or has a result, and that each result is `Grounded`: it is what this gate
  says of the artifact at some level in force since the validation began, approved or not: approved if it
  was so before the validation began, and not unless it is so now. Steps of others keep it because levels in force are only added and
  what is approved stays approved (`ApprovalsStay`, itself a theorem). `Says` is what a gate answers as a
  function of level and review, and two lemmas compare it with the policy: if no required gate objects, the artifact
  `Meets` the weakest level (`NoObjection`), and one that objects shows that it does not meet the strictest
  (`Objection`). The custom gate may answer anything, therefore the exception of `BlockedFailsStrictest`.
- Extraction. `EachOnce` and `FullyUsed` hold in the third phase only, so the invariant says
  where extractors can run (`RunningWhere`), when there is a queue (`QueueWhere`) and who may have
  a result (`ResultsWhere`). `NobodyForgotten` then gives `ReportSeesAll` when queue and running set are
  empty, and `SavedIsOnDisk` gives `DataIsOnDisk`. The lemmas are about sequences without
  repetitions: their prefix and rest are disjoint, and the cardinalities add up. `Implementation` maps every
  step to one of `JobRun`. `Selected` (who is queued or runs in the third phase is selected) makes them
  jobs at all; the extractor that settles and those that take its place are one step,
  `Settle`, of the abstract run, and the limit is `Concurrency` by `FullyUsed`.
- Migration. `Staged` and `Layered` say that what has started belongs to a wave and that the
  dependencies of a wave are in earlier ones or lead to a cycle: if no object is ready, what is
  left is a set each of whose members has a dependency in it. `Resulted` and `Counted` relate the
  results and the counters. `Traversed` is the loop invariant of the plan: an object on the list whose
  dependencies are not all there has its traversal or its call still to come, and what is visited has them there, so
  that a call that returns at once leaves nothing out; when no call is left, the list is closed. `Implementation` needs one more invariant, `OneByOne`: unless the run is parallel, at most one object has
  begun and not ended. `SameCardinality` says that `Cardinality` of the instance `AsJobs` is that of
  the module, which the prover does not see by itself.
- OData. `CacheMatches` (a cached token that is not bare goes with the cached cookie: an answer that replaces the
  cookie replaces the token) carries `TokenMatchesCookie`, `BatchOnce` (a batch has no effect before it settles) what
  `EffectsAccounted` says of batches, `TokensKnown`
  (a new token is larger than all before) `RejectedIsDropped`. `LoopBounded` bounds the attempts.
- Agents. `RequestWellFormed` is about what a cut leaves, so the conversation itself must be right at every
  await: complete (`AnsweredTo`) while the model is asked, and complete except for the calls at hand
  (`AnsweringAt`) while tools run. A suffix of a complete conversation keeps with each call its
  results. `Before` says that blocked and written calls are past, so a later call is never one of them.

What is only model-checked is liveness, for which the prover has no rules: `AcquireSettles`, `DrainCloses`,
`CallEnds`, `Recovers`, `CallersFinish`, `RequestsEnd` and the three `RunEnds`. Every invariant, action property
and refinement a passing run checks is a theorem as well.

## Not modelled

- The stateful session of the RFC client (`client.js:192-235`): its COMMIT and ROLLBACK go past
  the breaker and the retries, and a COMMIT that fails clears the flag that the ROLLBACK
  asks for. Nothing in the program calls it.
- `CheckpointManager` of `src/migration`, which has only tests as callers; the one of `src/extraction` is
  in `ForensicRun`. The clearing operations that tests use.
- The reading requests of the OData client, which carry no token, and the renewal of bearer tokens.
- Transports and the rate limiter: operations on a store in memory without an await between check and
  update, read and ranked behind what runs concurrently.
- A selected module whose extractor class is not registered, which `_runExtractor()` skips without a result
  (`forensic-orchestrator.js:189`); the program registers all classes before it runs (`forensic-extract.js:34`).
- Reading and parsing of tables, and all parts listed as not modelled in `PROJECT.json`: field mappings,
  catalogs, configuration templates, process mining, reports, the user interface. They are most of the
  code by lines; they compute on the data they are given and have no steps to interleave.

## Plan

What exists: pool, breaker, unit of work, approvals, extraction, migration, OData, safety gates and agents, all
checked, with all their safety properties and three refinements proved. What is left, most important first:

1. A module that composes `LeasePool` with `BapiLuw` for several clients, with the abstract specification that
   a unit of work is done or undone, and a proof that leases keep the units of work apart.
2. Theorems about the abstract specifications themselves, from which their users could reason without the
   implementation: a lease has one holder, a run that is over has settled every job.
3. The stateful session as a second kind of caller in `BapiLuw`, should the program come to use it.
4. `TransportPipeline` (order of promotion and release) and `RateLimiter` (eviction at the limit of keys).
