# TLA+ models of the shelf availability service

A verification project kept beside the code of the service: TLA+ modules
translated from its source, TLC runs over small instances of them, and theorems
that hold for every instance, checked by TLAPS. Paths below are relative to the
repository root, which holds the service in `src/`, its tests in `tests/` and a
dashboard in `web/`.

1. [The system](#1-the-system): its parts, their state and how they interact
2. [What is modelled](#2-what-is-modelled): modules against code
3. [Runs](#3-runs): what TLC checks, with which bounds and why they are enough
4. [Fairness](#4-fairness)
5. [Theorems](#5-theorems): what is proved, from what, along which argument
6. [Where the code and its documents disagree](#6-where-the-code-and-its-documents-disagree)
7. [Plan](#7-plan) and [what stays out](#8-what-stays-out)

To check a module: `tlc -config ingest_serial.cfg MCDetectionIngestion.tla`; to
check a proof: `tlapm DetectionIngestionProofs.tla`. `PROJECT.json` lists every
run with its module and configuration, the lines each definition translates, the
mutants that show each property has teeth, and the hazards the properties answer.

## 1. The system

The service watches grocery shelves. Five kinds of producers (shelf cameras,
smart carts, tags, checkouts and shoppers) report what they saw of a *facing* (a
product's place on a shelf). The reports are decoded and folded into the facing's
history. A facing that is out of stock is a *gap*; gaps are ranked and turned into
*tasks* for employees, announced by lighting the electronic tag at the shelf. Work
reported done is *verified* by later looks at the shelf, and put back if they
disagree. Reports and audit exports are computed from the histories and from
records of the loop. Everything is partitioned by retailer.

```
 topics --> DetectionStreamConsumer --> DetectionIngestionService --> facings, ledger
                 |  dead letters                                        |
                 v                                                      v
              sink                        gaps -> ranking -> tasks -> tag fleet
                                                     ^  |               ^
          employees, supervisors -------- commands --+  v               |
          passes over the shelf ----> verification loop --- clear / express again
                                                     |
                                outcome records, availability --> reports --> dashboard
```

### Facing aggregate (`src/domain/facing`)

*State*: per facing the current stock state, since when, the freshest signal of
each source and an append-only, time-ordered event log. *Operations*:
`createFacing`, `recordSignal` (interpret a signal, refresh the source's slot,
then ignore, reaffirm or append a transition), `appendEvent` (throws on an event
out of order), all pure. *Hard*: signals come in any order, in any number and
again; staleness is judged from the last transition only. *Correct when*: the log
is a well-formed history the aggregate agrees with, nothing is lost or rewritten,
`appendEvent` never throws, and the state is that of the latest observation.

### Detection ingestion (`src/application/detection-ingestion.service.ts`)

*State*: none of its own; two stores behind ports, the facing repository and the
idempotency ledger. *Operations*: `ingestBatch` takes events in order through
`ingest`: checks, ledger read, load, fold, save, ledger write, an answer at the
event's position. *Interacts*: called by the stream consumer, one call per topic.
*Hard*: every step is an await; other calls over the same facings and the same
events come in between; a call may die anywhere. *Correct when*: what the ledger
calls accepted has reached the facings, an event is applied wholly or not at all,
a replay changes nothing, answers agree with the ledger and no call writes into another retailer's partition.

### Detection stream consumer (`src/adapters/inbound/detection-stream`)

*State*: none between calls; the broker holds the committed offsets, the sink the
dead letters. *Operations*: `consume` decodes a batch (`decode`), asks the
ingestion port about what decodes, disposes of every record (`resolve`), captures
dead letters, and answers how far to commit (`finish`). *Hard*: poison records,
rate limits in the middle of a batch, death between capture and commit,
redelivery of records already handled, outcomes matched to records by position.
*Correct when*: nothing is committed that is neither ingested nor filed, nothing
is both, topic, envelope and partition key agree on what is accepted, and no bad
record wedges the partition behind it. The five *dialect adapters* under
`sources/` translate payloads field by field and keep nothing.

### Task lifecycle (`src/domain/task`)

*State*: a task's status with the data of that status, priority, count of failed
verifications. *Operations*: `applyTaskCommand` (refuses what the state graph
does not allow), `escalateTask` (reopen one rung more urgent). *Hard*: several
actors act on one task and each may act on a copy it read earlier; a task bounces
through several attempts. *Correct when*: closed tasks stay closed, each status
has its data, bounces and urgency are never taken back.

### Verification (`src/domain/availability/verification.ts`, `src/application/verification-loop.use-case.ts`)

*State*: none; the rule is evaluated over passes handed in. *Operations*:
`evaluateVerification` walks the passes for a run of clean ones,
`decideVerification` closes a task, puts it back or waits, `runVerificationLoop`
carries the decision to the tag. *Hard*: passes late, out of order, tied, at the
edge of the window, or from before the last resolution; a tick that runs after
the deadline with the evidence already there. *Correct when*: a task closes on
exactly the evidence the rule asks for, goes back only for cause, and never waits
for ever.

### Task creation and dispatch (`src/application/create-tasks.use-case.ts`, `src/domain/task/color-lane.ts`)

*State*: none. *Operations*: `planTasks` (ranked gaps to tasks, refusing reserved
colours), `expressTasks` (per store: capabilities, commands, batches, results by
position), `dispatchTasks`. *Hard*: results that fall short of the commands; a
fleet that can express nothing. *Correct when*: every task ends up lit or routed
to the handheld list, and none is lit in a reserved lane.

### Tag fleet adapter (`src/adapters/outbound/esl`)

*State*: a registry of live expressions with their leases, an index of them, the
instant each tag was last commanded. *Operations*: `express`/`expressBatch`,
`refresh`, `clear`, over a gateway whose every call is an await and which may
refuse, queue or not answer. *Hard*: a clear while a command is queued, a refresh
racing a clear, a lease renewed locally that the tag does not know of, a tag
rebound, a restart that empties the registry, a rate limit checked before an
await and stamped after it. *Correct when*: a tag does not stay lit for closed
work longer than a lease, the registry does not claim what is dark, no tag is
commanded faster than it can take.

### Outcome metrics (`src/application/outcome-metrics.ts`)

*State*: one record per gap. *Operations*: `openOutcome`, `withTask`,
`withTransition`, `withBackInStock`, then cohorts, buckets, distributions and
rates. *Hard*: reopened work keeps stamps of the failed attempt; cutoffs on
boundaries. *Correct when*: stamps of one attempt are in order, buckets tile the
window so their counts add up, and every rate stays within one.

### Availability index and baseline (`src/domain/availability/availability-index.ts`, `src/application/availability-baseline.use-case.ts`)

*State*: none. *Operations*: integrate a history over a window; pool over
facings; compare with a baseline. *Hard*: events at the edges and ties. *Correct
when*: in, out and unknown time add up to the window, and adjacent windows add up
to their union.

### Gap detection and ranking (`src/domain/gap`, `src/domain/merchandising`)

*State*: none. *Operations*: the gaps of a facing, a score for each, a sort by
score, age and id, and a cut by measured revisit density. *Hard*: ties; a category
just at two passes a day; facings that nobody passed. *Correct when*: the worklist
is a matter of the gaps and not of the order they were read in, and the cut counts
every facing of the category.

### Reporting and audit export (`src/adapters/reporting`, `src/domain/audit`)

*State*: an append-only audit log; sealed artifacts behind a port. *Operations*:
reports over a read model, paging, `sealArtifact`. *Hard*: an artifact assembled
through several awaits while ingestion goes on; pages of a list that changes.
*Correct when*: a manifest describes the body it was sealed with.

### Platform (`src/platform`)

*State*: none at run time. *Operations*: the plan of a pilot (names, roles,
grants, topics, retention, keys of every tenant) with the checks it passes before
anything runs, and the container that resolves ports to adapters. *Hard*: slugs
that make two names one; horizons that are sensible alone and not together;
providers that ask for each other or throw. *Correct when*: tenants share nothing,
no data is forgotten while something still needs it, and a port is built once or
refused.

### Dashboard (`web/src`)

*State*: ten slices of fetched data, each idle, loading, loaded or failed; scope,
filters and sort orders; one request number. *Operations*: the reducer's actions
and the effects that start, supersede and cancel requests. *Hard*: late, aborted
and superseded responses, a scope changed under way. *Correct when*: no slice
shows an answer to an older question, and none waits for ever. The views, clients
and fixtures around it keep no state.

## 2. What is modelled

| module | models | kind |
| --- | --- | --- |
| `FacingAggregate` | `createFacing`, `recordSignal`, `appendEvent`, `interpretSignal` | operators |
| `DetectionIngestion` | the ingestion service over its stores, await by await | state machine |
| `StreamDecoding` | records, topics and `decode` | operators |
| `DetectionStream` | the consumer over the *contract* of the ingestion port | state machine |
| `DetectionPipeline` | the consumer over the ingestion *service* | composition |
| `Verification` | one round of `evaluateVerification`, the whole walk, the rule said without a walk | operators |
| `VerificationScan` | the walk, a pass a step | state machine |
| `TaskLifecycle` | the state graph, `applyTaskCommand`, `escalateTask` | operators |
| `VerificationLoop` | tasks between employees, supervisors, passes and `decideVerification` | state machine |
| `Arranging` | a filter and a stable sort, said by position | operators |
| `Availability` | the timeline of a facing, the index of a window, the baseline | operators |
| `GapRanking` | gaps, coverage, scores in exact fractions, order and cut | operators |
| `ColorLanes` | lanes, their colours, `resolveColorLaneMap` | operators |
| `TagModels` | the models of five vendors, degradation, encoding, refusal codes | operators |
| `TaskDispatch` | `planTasks`, `buildExpressCommand`, chunks, where a task is routed | operators |
| `TagFleet` | the fleet adapter with its callers, over gateway, tags and bindings | state machine |
| `OutcomeMetrics` | the record of a gap and the reports over records | operators |
| `LoopOutcomes` | records beside the tasks of `TaskLifecycle` they tell of | composition |
| `Reporting` | reports, pages and sealing over a store that goes on changing | state machine |
| `Platform` | the plan of a pilot, the checks it passes | operators |
| `Container` | ports resolved through providers that resolve others | state machine |
| `Dashboard` | reducer, effects and the retry of one request | state machine |

`MC*` modules hold the instances TLC runs on, `*Proofs` modules the theorems;
`SumsAndOrders` proves what folds, filters, sorts and cuts compute, for the proofs
that need it.

**`DetectionIngestion`.** A handler is one `ingestBatch` call. `pc` names the
await it stands at, and each action is the code between two awaits: `Submit`
(the call), `Refuse` (the checks before the first await), `AnswerDuplicate` and
`StartIngest` (after the ledger read), `RejectUnknownFacing` and `Load` (after
the repository read), `Fold` (one observation a step; local, so the cut is only
for readability), `StampAcceptance` (the clock is read as the save is sent),
`Save`, `Record` (the ledger answers who was first), `Return`. `Crash` forgets a
call at any point and keeps the stores. The *observed* slots keep only the
instant of each source's freshest signal; a history event keeps sequence,
instant, states and causing signal. Readings stand for the branches of
`interpretSignal`, so the thresholds of the policy are taken as applied. Signal ids
are made of the idempotency key where the code takes the event id
(`signal-ids.ts:24`): a key has one event. The `CrossRetailerAccessError` that
`ingest` catches around the fold cannot occur, the aggregates having been loaded by
the event's retailer, and is left out.

**`DetectionStream`** keeps, for every topic, the log, the committed offset and
the dispositions of the open call. `Publish` is the producers, `Deliver` a
delivery of any length from the commit on, `Ingest` one answer of the port,
`Capture` and `Ack` the two halves of `finish`, `Fail` the end of a call without
an ack, wherever it stands. The port is taken at its contract: idempotent on the
key, an answer per event, free to rate-limit. **`DetectionPipeline`** replaces
that contract by the service itself: a topic is a handler of
`DetectionIngestion`, `Deliver` submits the decoded records as one batch, and
`Collect` puts the outcomes into the slots of their records. The refinement
mapping (`Stream == INSTANCE DetectionStream WITH ...`) reads the ledger as the
set of accepted keys and shows every step of the pipeline to be a step of the
consumer over the contract, or a stutter.

**`Verification`** gives the loop body of `evaluateVerification` as `Look`, and
the rule as `Satisfied`: enough clean looks in a row, each within the window of
the one before. `VerificationScan` walks; `VerificationLoop` uses the walk as a
whole, folded over the passes visible at a tick. Passes carry ids in the order of
arrival, so that ties are ordered as the code orders them. In `VerificationLoop`
every command goes through `Do`, guarded by `Legal` as `applyTaskCommand` is by
its state graph; `Close`, `Regress` and `Lapse` are the three ways a tick acts,
in the order the code tries them. A decision and the save of the task it returns
are one step, as in a caller that stores the result before reading again; what
`runVerificationLoop` does to the tag is in `TagFleet`.

**`TagFleet`** keeps the registry of the adapter (`expressions`, `byId`,
`lastCommandAt`), the open calls, and the world behind the gateway: bindings, what
each tag was last told and until when, the command the gateway holds for it. A call
is cut at every await: `ReadCapabilities`, `Prepare` (or `StoreUnusable`) up to the
first chunk, `GatewayAnswers` (external: every command applied, queued or refused,
the answer possibly too short), `ApplyAcks` for a chunk, `BatchDone` inside the last
one; `Refresh` and `Refreshed`; `Verify`, `Release` and `Cleared`. `Dispatch`,
`Escalate` and `Verify` are the callers (`dispatchTasks`, and what
`runVerificationLoop` does once a decision is saved). A tag goes dark by itself at
the end of what it was told (`DarkAt`), which differs by vendor; what it shows is
what `TagModels` encodes for its model. `TimePasses` waits for the code between two
awaits and not for the gateway.

**`Container`** runs `resolve` call by call. `calls` is the stack of the providers
under way, each with the question it asks next, as the JavaScript stack has them.
`Request` is a port asked for from outside (`ports()` asks for each in turn),
`AskNext` a provider that resolves another port; both go through `Resolve`: the
instance there is, the cycle error, or a run of the provider. `Break` and the cycle
error set `throwing`; `Return` and `Unwind` are the two ways out of the `try`, both
through its `finally`. A provider that throws may do so before, between or after its
questions, and does so at every run.

**`Availability`**, **`GapRanking`**, **`TaskDispatch`** with its lanes and models, and
**`Platform`** are functions of their input. `MCAlgorithms`
makes an input an initial state, and compares each result with a definition that
does not compute it the same way. Fractions are pairs of integers, compared
exactly; the code computes them in floating point.

**`LoopOutcomes`** calls the fold of `outcome-metrics.ts` at every transition of
`TaskLifecycle`, as its comments ask of the embedding service; nothing in the
repository calls it. The records of other gaps are fixed ones, with instants on
every edge of the reports' windows.

**`Reporting`** is the adapter over an external store: facings are observed,
retention moves, producers are forgotten and trail entries come while a call is
open. `SealArtifact`, `RetainAgain`, `ReadFacings`, `Render`, `Put` and `PutManifest`
are the parts of `sealArtifact` between its awaits, any of which may reject;
`FirstPage` and `NextPage` are calls of the listings. A body is its sequence of
records.

**`Dashboard`**: `Run` is `run` of the effects (abort, start, ask) for the slices
that start in one turn, each with an id of its own (`NextIds`); `Attempt`, `Wake` and
`Settle` a request through its bounded retry, `CancelAll` the unmount.
The reducer's actions are operators on the state. A fetched value *is* the question
it answers (scope, queue, filter, sort), which is all that the properties tell apart.

`MCBackOffice` puts `LoopOutcomes`, `Reporting` and `Dashboard` side by side,
`MCAlgorithms` the walk, the container and the inputs of the functions. They share no
state: the initial state says which of them runs.

## 3. Runs

Every property of a passing run is broken by at least one mutant of the code,
listed in `PROJECT.json` and defined beside the operator it changes.

| run | instance | shows |
| --- | --- | --- |
| `ingest_serial` | one handler, four batches redelivered at will, two crashes | accepted means applied; no event submitted, the ones with an unknown facing included, is half applied; a replay adds nothing; histories only grow |
| `ingest_racing` | two handlers, one facing, three events, one crash, two clock readings | histories stay well-formed, `appendEvent` never throws, answers agree with the ledger |
| `stream` | one retailer's topic with six records and a topic without adapter, two failures | nothing is lost, nothing both taken and filed, sources agree, everything is settled in the end |
| `pipeline` | two topics over three facings, two deaths | the service keeps the port's contract; what is committed is in the facings; everything is settled in the end |
| `loop` | one task with or without verification, passes about it and another one, late and disordered, ticks behind the clock, two failed attempts | tasks close on evidence, go back for cause and keep their bounces; nothing waits for ever |
| `fleet` | two handlers, two tasks, three tags, a store that comes and goes, a gateway that applies, queues, refuses or falls silent, rebinds and a restart | callers are told what the gateway said; lights and claims reach at most a lease ahead; the index never dangles; the lights of finished work go out |
| `algorithms` | the verification walk over every ordered sequence of up to five passes at six instants, for a rule of three; every small input of the other algorithms; a container of the shipped wiring and of every wiring of three ports with up to two questions each, one of which may throw, three requests | the walk closes by the rule, misses nothing; the index counts every instant once; the worklist does not depend on the order of reading; lights speak the lane and urgency survives degradation; pilots keep apart and remember; a port is built exactly when it can be, once, and a failure takes no other port with it |
| `backoffice` | see below | records tell their tasks and reports add up; a manifest vouches for its body, a closed period seals alike, pages cover each row once; the screen shows what is asked, and requests settle |
| `ingest_replay`, `ingest_arrival`, `ingest_lost_update`, `fleet_shared` | the smallest instance each | the disagreements of section 6 |

**Why these bounds.** *Ingestion, serial*: the batches hold a bay-wide event over
two facings, a later and an older observation of the same facings, a partition
mismatch, an unknown facing beside a known one, a wrong schema version, a
misrouted source and a reading without stock evidence: one for each branch of
`ingest`. Two crashes allow a crash during the recovery from a crash. *Racing*:
two calls suffice for every interleaving of the read-fold-save and
read-record pairs; three events of three sources at three instants give a stale,
a fresh and a reaffirming one in each order. *Stream*: the log has a good record
before, between and behind a malformed payload, a wrong key, a refusal, a
duplicate and a foreign envelope; batches of every length put the commit
everywhere. *Pipeline*: the topic starts with a record that is not submitted, so
that positions and offsets differ. Its topics see different facings: two topics
over one facing lose updates (section 6), and `CommittedIsApplied` fails with
them. *Algorithms*: with a window of 2 and
six instants, gaps between passes fall short of, on and beyond the window, and a rule
of three passes (`tests/verification.test.ts` has one; the standard rule of two is in
`loop`) has streaks that break and start anew in the middle, and that close over more
than the window; the
histories have up to three transitions on, inside and outside the edges of the
window, and at one instant; three gaps over two categories tie in score, in age and
in both, with categories just short of, at and above two passes a day; every store
of a vendor lists every subset of its models; the slugs of the pilots hold every
clash of two names, and one horizon at a time is off the standard. *Container*: three
ports make cycles of one, two and three, beside and behind ports that are sound, and
two questions make a port that is asked for twice; three requests ask again for what
failed or was built. *Loop*: the horizon lets work be resolved, rejected, resolved
again and lapse; three passes of which two close leave one to be dirty, late, of
the other task or from before the resolution; `Resolve` is bounded so that every
deadline falls within the horizon, otherwise work reported at its end could not
be decided. Priorities start one rung below the top, so that two bounces reach
and pass the ceiling. *Fleet*: a lease is two instants and the command interval
one, so that a lease is outlived within the horizon; three events are enough for a
dispatch, a refresh or an escalation that overlaps it, and a rebind or a restart
between them; the dispatch of two tasks takes all three, since its chunks alone
interleave. One vendor's profile is used: the profiles differ in what a tag shows
(all five are in `algorithms`) and in who darkens it. *Back office*: one of two gaps
is worked, with one reopening, over two steps of the clock; of two facings one is
observed to the end of the period and one is still open, two artifacts are sealed
in two formats, a page holds one row and the trail two; the dashboard has three
panels (one scoped, the queues, the rows of a queue), two scopes, queues and
filters, two requests, two attempts where the code makes three, and two changes by
the user: an answer to the question before the last is the oldest there is, since
starting a request supersedes the one before.

Deadlock is checked in the runs of ingestion, stream, pipeline, loop and
algorithms: there a model stops only in its stuttering `Idle`, `Rest` or `Answer`
step, whose guard says that all is done. It is not checked for the fleet, where
nothing is due once the horizon is past and all tags are dark, nor for the back
office, where a screen without a request waits for its user; what must not stop
there is said by `FinishedWorkGoesDark` and `RequestsSettle`.

## 4. Fairness

* *Stream*: producers publish what they have; the transport keeps delivering
  and a call that is not killed goes on (weak fairness of `Consume`: Node runs a
  promise that is resolved); no event is rate-limited for ever (strong fairness
  of its admission: the port hands out a retry time). Failures are bounded,
  which stands for "not killed for ever". Without the strong fairness a rate
  limit can starve a topic, and that is what the code does.
* *Pipeline*: the same without rate limits, which the service never answers.
* *Loop*: the clock runs, and the loop is ticked at the present for every task
  (`runVerificationLoop` is driven periodically by its caller). Nothing is
  assumed of employees, supervisors or passes: work reported done is decided
  even if nobody ever looks.
* *Fleet*: the clock runs, a tag with a command waiting wakes up, and open calls go
  on (a gateway request ends, if only by its own timeout). No fairness for
  refreshes, clears or verifications: the light of finished work goes out even if
  its clear never reaches the tag.
* *Dashboard*: every step of a request comes: an attempt ends by its answer or by
  its fifteen-second timer, a backoff by its timer, and a settled promise resumes
  its awaiter. Nothing is assumed of the service or of the user.

## 5. Theorems

All modules with theorems are proved in full, from the assumptions that the
modules name on their constants (`IngestionAssumption`, `DecodingAssumption`,
`StreamAssumption`, `PipelineAssumption`, `RuleAssumption`, `InputAssumption`,
`LoopAssumption`, `FleetAssumption`, `OutcomesAssumption`, `ReportingAssumption`, `PanelsAssumption`,
`DaysAssumption`, `WiringAssumption`), which say no more than what the parameters are (a window does not
end before it begins, since `timeWindow` throws, `time.ts:57`; histories are in time,
as `appendEvent` keeps them; a gap and a facing are known by ids). TLC evaluates them in
the runs. Further hypotheses stand in the theorems. Most theorems state a property of a
run. The
type invariants, `PartitionsAreKept`, `Regression` and `ClosedStayClosed` state
properties that hold close to the code's own guards: they are proved and left out
of the runs.

* **Facing aggregate** (`DetectionIngestionProofs`). `AppendKeepsHistory`: an event
  that passes `appendEvent` keeps the log well-formed. `RecordSignalOK`: any
  signal folded into a well-formed facing gives one, and trips no check. The
  argument is that a transition is built only for a signal not older than
  `stateSince`, which is the instant of the last event.
* **Ingestion** (`DetectionIngestionProofs`), for any retailers, facings,
  batches, number of handlers and crashes: `TypeCorrectness`, `WellFormedness`,
  `NeverThrows`, `AnswersAgree`, `PartitionsAreKept`.
  None is inductive alone. `IInv` adds what a call carries across an await
  (`CallOK`): the aggregates it loaded are well-formed although another call may
  have changed the stored ones since, their domain is the facings of an event
  that passed the checks, and it holds a batch unless idle. The proof has a
  lemma for each action; `SameCallKeepsOK` disposes of the other handlers.
* **Ingestion, calls apart** (the same module). `AcceptedReachesFacings`,
  `EventsAreAtomic` and `HistoriesAreAppendOnly` hold along every behaviour in
  which no two calls hold one facing between its load and its save
  (`[]HeldApart`). The callers owe that to the service, because `saveAll` is
  unconditional; one handler alone keeps it trivially, as in `ingest_serial`, and
  `ingest_lost_update` shows what happens without it. The other hypothesis,
  `KeysAreUnique`, over all events submitted, is what an idempotency key is for. `SerialInv` is the argument:
  what moved a stored facing is an event applied to all its facings; what moved a
  copy is so too or is the event of the call; a copy continues the stored aggregate
  it was loaded from, which is what the hypothesis keeps true across the other
  calls' saves; and a call that is about to write the ledger has applied its event.
  `EventsAreAtomic` speaks of every event submitted: an event that is refused, or
  names a facing that is not there, has moved nothing, because what moved a facing is
  told by an applied event, and no other event has its key.
  `ReplaysChangeNothing` needs no such separation, and calls may race: it needs
  that no two events about a facing bear one date (`DatedApart`), and
  `ingest_replay` is the run in which two do. `ReplayInv` says that every entry of
  a log, stored or carried, is dated as the observation it came from and no later
  than the facing's latest instant, so an observation that comes again is stale or
  finds its own transition last.
* **Stream** (`DetectionStreamProofs`), for any topics, logs, batch lengths,
  refusals and failures: `TypeCorrectness`, `LosesNothing`, `TakenOrSetAside`,
  `KeepsPartitions`. `IInv` adds that what a call calls ingested the port holds,
  what it sets aside is unusable, and by the ack the sink holds it; the watermark
  argument is then local to `Ack`. `TakenOrSetAside` follows because a letter is
  only written for a record that is unusable, and the port never accepts those.
* **Pipeline** (`DetectionPipelineProofs`), for any topics, logs and events that
  decode as `envelopeFrom` decodes (`PipelineAssumption`: the current schema, the
  producer that is the source, the key of the record). `PortContractKept` is the
  refinement: under the mapping of `Stream`, every quiet step of a service call is
  a stutter of the consumer over the contract, every answer is the contract's answer
  about the least pending record, and every death is a `Fail`. `PipelineIInv` holds
  what the mapping needs: an open call works on the batch that its consumer decoded,
  its answers so far are those of the records of that rank (`StreamDecoding` lists
  the decoded offsets by rank, so that a position and an offset can be told apart
  and still be matched), no ack comes before every record is disposed of, and a
  refused event is in no ledger. The contract has to allow that two calls about one
  key are both told "accepted" (`PortAnswer`), as two calls that race within one
  reading of the clock are; a narrower contract was refuted by TLC on an instance in
  which two topics share a key. `CommittedReachesFacings` carries `SerialInv` over to the pipeline: as
  long as no two calls hold one facing, an event that is committed past has reached
  its facings. `ApartTopicsReachFacings` replaces that hypothesis by one about the
  logs: topics that carry observations of different facings (`TopicsApart`) make
  calls that hold different facings. The invariant of the consumer is not proved
  again: `Consumer` instances it, and the refinement carries it over.
* **Verification walk** (`VerificationProofs`), for every rule and every
  sequence of passes: `Soundness`, `Completeness` and `Regression`. The loop
  invariant (`WalkOK`):
  the streak is the longest clean run that ends at the pass just looked at, and a
  walk that is complete stopped at the first pass that satisfied the rule. `WalkEndsOK`
  is the same for the walk as a whole, the function that `VerificationLoop` uses,
  by induction over the passes. `SpanOutgrowsWindow` gives, for every rule of three
  passes or more and every window, passes in order on which the walk closes a task
  over a span of a window for each pass after the first (section 6); `SpanBound` says
  that no streak spans more.
* **Loop** (the same module): `TypeCorrectness` (each status has its
  data), `ClosedStayClosed` and `BouncesAreKept`, by showing that every step
  leaves a task alone, applies a legal command to it or escalates it.
  `EvidenceCloses`: a task on physical stock closes on nothing but passes that
  satisfy the rule, its own and later than its latest resolution. It rests on what
  sorting a set of passes yields (`SortedLists`: each pass once, in order of
  instant and arrival), for which ids must number the passes (`PassesNumbered`), and
  on `WalkEndsOK`. `CauseReopens`, for rules of one or two passes: work goes back
  only for a dirty look or a lapsed deadline, and never while the passes that would
  close it are there. From three passes on a further clean pass at the instant of an
  earlier one can anchor the streak anew; the standard rule asks for two.
* **Tag fleet** (`TagFleetProofs`), for any fleet, callers and gateway:
  `LeasesBoundTheLight`, `ToldWhatTheGatewaySaid` and `IndexIsSound`. `IInv`
  relates what a dispatch has done to what it has still to do: every task of its
  worklist has an outcome or a command still to come, and has it once; what the
  gateway said of a command is what its outcome, its result or the acks in hand
  say of it; and every command kept anywhere (in the registry, in a call, at the
  gateway, in a tag) was asked for in the past and expires within the lease it
  was granted. The proof goes through the chunks (the commands of a store split into
  pieces that tile them) and through the order in which a batch is prepared
  (`Ascending`, an induction over numbers). `FleetAssumption` says that an empty
  worklist is no dispatch (`expressTasks` then has no store to group by), that a
  worklist names a task once, since results are keyed by task, and that leases and
  batch limits are numbers. `IndexIsSound` is inductive as it stands: an entry is
  written with its index or not at all, and a clear takes the index of what it
  removes. The entry that a late refresh puts back has no index, which the property
  allows.
* **Outcomes** (`BackOfficeProofs`), for any gaps and any number of reopenings:
  `RecordFollowsTask`. A record is only as good as its past: `WithTransition` keeps
  an instant that is already there, so it has to be shown that none is when a new
  one is due. `OutcomesInv` is the journey so far (`Journey`): stamps of the dispatch
  in order, for the statuses the task has been through; what the end of the record is
  for the state the task is in; as many reopenings as failed verifications.
  `ReportsAddUp`, for any windows and grains too, needs `ToldInv` beside it (a record
  tells its own gap and department, and was acknowledged before it was resolved). The
  buckets of a window tile it (`BucketsTile`), with a shorter last one; a report that
  counts the instants of some gaps is a sum of ones over those gaps, so that counting
  by buckets, by departments or at once is one sum cut three ways (`CutsAddUp`). The
  stages narrow because each asks for what the one before asks for, and a percentile
  is a sample because its rank lies in the list (`RankIn`).
* **Reporting** (the same module), for any facings, histories in time, scopes, formats
  and page limits, and any order in which the store answers: `ManifestsVouch`,
  `SealedAlike`, `PagesCover`. `ReportingInv` says of the store that it only grows in
  time (`StoreInv`); of a call, what the records in its hands were made from: the
  facings as they were read, a beginning of what they are now, cut to a period that
  lies in the one asked for, with some of the producers forgotten by now
  (`CallInv`); of an artifact, that there are a reading, a period and a set of
  forgotten producers from which its body and its figures both come (`ArtifactInv`);
  and of a reader, that what it holds are the first rows of the listing as it is
  now, if that is to stand still (`ReaderInv`). A manifest vouches because body and
  figures come from one reading. It is sealed alike because a reading that goes past
  the end of a period and one that goes further have the same events in it, and a sort
  by facing forgets the order of reading (`OneListing`). The trail grows under its
  reader and the rows already read stay the first ones. TLC cannot evaluate the
  existential over readings, so that `ArtifactInv` was only checked through its
  consequences.
* **Dashboard** (the same module), for any panels, scopes, queues and filters and
  any number of requests, retries and changes: `ShowsTheAnswer`. `DashboardInv`: a slice
  waits for an id that has been given out, and the request of that id asked what
  the slice would ask now; what the slice holds is an answer to that. Ids are never
  given out twice because the next one lies beyond all of a turn (`FetchStarted`
  counts them), so an answer that finds its own id still pending was asked for what
  the panel is to show.
* **Algorithms** (`AlgorithmsProofs`). The runs evaluate an algorithm on the inputs
  of `MCAlgorithms`; here `sample` stands for any input at all, since the theorems
  assume nothing of where it comes from but its type. `AcceptedPlansKeepApart`, for
  any number of tenants: a plan is only made when every check passed
  (`AcceptedPlan`), and the theorem says that these few checks, each of which looks
  at one kind of name, leave no way for two retailers to meet, in grants and
  subscriptions too, which none of them names. `AcceptedPlansRemember`, for tenants
  whose horizons and dates count days (`PilotTypeOK`): a longer horizon reaches
  further back whatever the legal hold and the day (`LongerReachesBack`), so what the
  ladder of `retention.ts` asks of the numbers holds of the records that are left.
  The ledger is found to outlive the topic because every source has a detection topic
  and a tenant has a source. `UrgencyOutlivesDegradation` and
  `LightsMeanTheirTask`, for any store of a vendor with the tag in it, its other tags
  listed or not, and any overrides: `Catalogues` collects what the five catalogues have
  in common (`CatalogueOK`), `Degraded` says that a tag shows the first rung of the
  ladder that it manages, and `ResolvedLanes` that overrides that resolve leave each
  type a lane of its own off the reserved ones. `InstantsCountOnce`, for any facings,
  histories in time and windows: the walk of `Advance` over the events of a window
  counts, up to an event, the instants lived in a state before it, by induction over
  the events (`FromNaught`), events at one instant and on the edges included; pooled
  facings and departments are again one sum cut in parts (`SumOfParts`).
  `WorklistIsOfTheGaps`, for gaps that are known by ids, over any samples, facings and
  velocities (`GapsAreKnown`: what is counted is a number): scores are exact fractions,
  whose order is transitive because an inequality survives multiplication by a positive
  denominator (`ProductsRank`, `FractionsRank`); with the instant and the id behind it
  `byPriority` is a strict order in which no two gaps are level (`PrioritiesInLine`), so
  that a sort has one outcome (`SortLinesUp`) whatever the order of reading
  (`ShufflesReach`), and each department's cut is a sort of its own.
* **Container** (the same module), for any ports and providers and any number of
  requests: `ContainerBuildsOnce`. `ContainerInv` reads the stack: each provider under
  way is there because the one below asked for it just now, and what it asked before
  has an instance (`UnderWay`). So when a port is asked for that is on the stack, or
  the innermost provider throws, the ports on the stack are a set each of which throws
  or needs another of the set (`ChainIsStuck`), and everything the error passes through
  could not have been built by any order of asking; and a provider that returns asked
  only for ports with instances, hence is not in such a set (`BuiltIsNotStuck`).

**Folds and sorts.** The prover knows nothing of the folds of the community modules,
which recurse over a choice. `SumsAndOrders` derives what is needed from their
definitions: a sum over a finite set is the value at any member and the sum over the
rest, hence independent of the order taken and additive over parts. Sorting and
filtering are said by position in `Arranging` (the n-th row is the one with n - 1
before it) rather than by a recursive sort: TLC evaluates the same operators, and the
proofs show that what a strict order sorts is a permutation, ascending and the same
for every order of the input.

**Only model-checked.** Liveness (`EventuallyDrained`, `PipelineDrains`, `NoLimbo`,
`FinishedWorkGoesDark`, `RequestsSettle`), which the prover does not reach. Every
invariant and action property of a passing run is a theorem, some under hypotheses
that the theorem names. An induction over numbers is in reach where the claim can be
put as a set (`FromNaught`, `Upwards`: from the least element of a set of naturals),
and the walks, the batch, the chunks, the sums and the sorts are proved that way. What
recursion builds is put as a state machine instead where that is possible: the
resolution of ports, whose depth is unbounded, is a stack that steps.

## 6. Where the code and its documents disagree

* **A replay is not always a no-op** (`ingest_replay`). The aggregates are saved
  before the ledger is written. When the call dies in between and another
  producer moves the facing at the same instant, the redelivered event is neither
  stale nor a reaffirmation and appends its transition again. The comment at
  `detection-ingestion.service.ts:153` and the README call the replay a no-op.
* **Order of arrival matters** (`ingest_arrival`). A reaffirmation does not move
  `stateSince`, so an older contradicting observation that comes after it still
  moves the facing. The README says ordering is "by `occurredAt`, never by
  arrival".
* **A racing save loses events** (`ingest_lost_update`). `saveAll` is
  unconditional; the log of `event-history.ts` is called append-only. One retailer
  has five topics that may reach one facing at once.
* **Two tasks of a facing, one light** (`fleet_shared`). The rate limit of a tag is
  checked for a whole batch before its first command goes out. Two tasks of one
  facing, which `gap.ts:107` means to be two pieces of work in two lanes, both pass;
  the second replaces the light of the first, both are answered as expressed, and
  neither is routed to the handheld list.

Noted without a run.

* *Verification.* The window bounds gaps, not the span. The comment at
  `verification.ts:88` measures first to last and asks for at most the window; a rule
  of three passes closes a task over up to twice that. This is proved, for every
  window (`SpanOutgrowsWindow`). The standard rule of two is not affected.
* *Verification.* The README (line 137) says a dirty pass is decisive, while the
  code, and `tests/verification.test.ts:110`, close a task on two clean passes after
  a dirty one; `RegressesWhenDirty` states what the code does.
* *Ingestion.* Two calls that race over one event and read the same millisecond both
  answer accepted (`detection-ingestion.service.ts:162`). `retention.ts` describes a
  rejection, `observation_outside_retention`, that ingestion never gives.
* *Ranking.* The comment at `ranking.ts:98` says that camera traffic cannot let a
  slow seller outrank a fast one, because the evidence factor stays below 1. The
  factor is 0 without coverage and multiplies the rest of the score, so it can.
* *Fleet.* Expressing again extends the lease in the registry only. A refresh sends
  the payload of the first command again: at a vendor that is told a duration the
  light is extended, at one that is told an instant it is not
  (`esl-actuation.port.ts:217`, `:231`). The
  comment at `fleet-adapter.ts:447` says that a clear of a queued expression "must
  reach the gateway"; `clear` finds nothing in the registry and answers at once, so
  the command lights the tag later. A refresh under way when the expression is
  cleared puts the entry back, without its index. A clear releases the tag bound at
  that moment, which need not be the one that was lit. All of these end with the
  lease. A Vusion LED without the colour of the lane blinks white, where
  `degradation.ts:176` says that a colour is dropped, never substituted.
* *Outcomes.* After rework the resolution of the failed attempt may lie before a
  later acknowledgement; latencies clamp the difference to 0
  (`outcome-metrics.ts:84`, `:192`).
* *Reporting.* The retention horizon is read twice while an artifact is sealed. When
  it moves in between, the scope of the manifest, and the denominator of its
  coverage, are those of a longer period than the records (`reporting.adapter.ts:288`
  calls them the same). `sealArtifact` does not look at `includeActionTrail`
  (`audit-export.port.ts:200`). `awaitsVerification` counts a gap that was reopened,
  and what is outstanding is so at the time of the report, not at the end of the
  bucket (`reporting.port.ts:160`, `:210`). Pages are offsets: rows that leave the
  list between two pages, by retention, shift the rest.
* *Dashboard.* Changing a filter forgets the rows of the queue and not the list of
  queues, which shows the old filter until it is loaded again; `dashboard-state.ts`
  says that a scope change invalidates every slice at once, and it invalidates the
  eight scoped ones.
* *Platform.* The retention of the dead-letter topic is checked against nothing.

## 7. Plan

Done, in this order: facing aggregate and ingestion; the stream consumer on the
port's contract, then composed with the service; verification, the task lifecycle
and the loop; dispatch and tag fleet; the pure algorithms; outcomes, reporting and
the dashboard; then the theorems of section 5, the refinement of the pipeline and the
algorithms among them. To come, most important first:

1. **`ShelfLoop`**: `VerificationLoop` and `TagFleet` in one model, a decision and
   its clear in separate steps with a tick between them. Today `TagFleet` takes the
   decision as given.
2. The dialect adapters as a table of which payloads each turns into which readings.

## 8. What stays out

The dialect adapters (translation field by field; their outcome, an event or a
fault, is an input of `StreamDecoding`). The views, selectors and clients of the
dashboard, its fixtures and gallery. Of the platform, the text of the statements and
manifests generated from a plan, the storage estimate and the look-ups of a running
deployment. Of reporting, the columns of a row, the rendering of a body and the
signatures; of outcomes and reporting, the refusals of foreign rows and unknown
dimensions. Several stores at once in `expressTasks` (`groupByStore`), whose calls
share nothing. The stores, the broker, the dead-letter sink, the clock, the gateway
and the tags exist in the repository only as ports, and are modelled from how the
code uses them.
