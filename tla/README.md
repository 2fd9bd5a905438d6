# Infinite Edge Agent: formal model

A TLA+ model of the parts of this repository in which handlers, workers and
tabs run concurrently: what they do, what TLC checks about it on small
instances, and what TLAPS proves for every instance.

Contents: [the system](#the-system) · [the modules](#the-modules) ·
[what is checked](#what-is-checked) · [disagreements found](#disagreements-found) ·
[what is proved](#what-is-proved) · [what is left out](#what-is-left-out) ·
[plan](#plan) · [running it](#running-it)

## The system

The agent runs in a browser tab. `App.tsx` owns the buttons, `LocalAgent` a
chat session's transcript and memory, a model client the language model. With
the "unlocked" runtime the model lives in a Web Worker behind a proxy, and its
KV blocks are swapped to a store that the tabs of one origin share. A small
server can keep memory and benchmark reports instead of the browser.

| Component | State it keeps | Operations | Hard behaviour | Correct when |
|---|---|---|---|---|
| Model worker proxy (`unlockedBrowserTransformerWorkerClient.ts`) | a chain of promises (`activeRequest`), the `pending` map, buffered chunks, `last*` fields, `terminated` | init, streamChat, clear/flush KV, terminate, dispose | async generator suspended at yields; late messages; terminate at any await | one request at a time in call order, no chunk lost, fields belong to the pending request, every call settles |
| Model worker (`unlockedTransformer.worker.ts`) | `operationQueue`, one client | the same as messages | a failed init, a silent death | one answer per request, in order |
| Ingestion queue (`memoryIngestionQueue.ts`) | `tail`, counters | enqueue, flush | jobs that throw, enqueue during flush | flush covers earlier jobs, counters agree |
| Agent and app session (`localAgent.ts`, `App.tsx`) | transcript, `isGenerating`, busy flags | turn, upload, clear, delete, import/export | every await lets another handler run; background ingestion and KV flush | what was cleared stays cleared, answers follow questions, controls come back |
| KV block stores (`kvSwapPersistence.ts`, `kvSwapBinaryCodec.ts`) | one file or row per block | persist, load, list, delete, evict, clear, quota eviction | several tabs, three lock sections per persist, torn files | within quota, pinned and recent blocks kept, torn files removed |
| KV persistence worker (`kvSwapPersistence.worker.ts`) | a queue, stores per namespace | the stores' operations as messages | overlapping messages for several namespaces | each message reaches its namespace's store, in order |
| Inner unlocked client (`unlockedBrowserTransformerClient.ts`) | runtime, deferred persistence of a prefill, hydrated blocks, prefetches, speculative decoder | init, streamChat, flush, clear, dispose | a new stream before the flush of the old, other tabs between two reads | only whole, current prefixes are reused |
| Transformer runtime, WebGPU backend, fused decode (`packages/core/src/runtime`) | tensors, KV caches, buffer pools, command batches | prefill, decode, buffer checkout and return | batches in flight while buffers are reused | a buffer is not reused before its batch is done |
| Speculative decoding | drafts, acceptance counters | guess, verify, commit | rollback of several caches | output equals the target model's |
| GAC ingestion (`gacIngestion.ts`) | graph records: raw texts, pins, clusters, representatives | ingest, consolidate | a job stops between two writes; lists read at different moments | no pin without raw text, nothing protected is consolidated |
| Coordinator, context packing (`advancedRuntimeCoordinator.ts`, `contextRuntime.ts`, `contextPacking.ts`) | the reading and the plan of one turn | read signals, recover, pack, trace | stale readings; budgets to the token | the prompt fits, pins reach it, deleted memories do not |
| Sparse attention, KV swap planner, TSP (`ssa.ts`, `kvswap.ts`, `predictiveRuntime.ts`, `tsp.ts`) | none between turns | select, route, pin, prefetch, shard | pins and budgets together | pins attended everywhere, selected blocks fetched, shards cover the tokens |
| Sleep/wake, rebuild | background jobs | schedule, approve | partial failure between two steps | nothing runs unapproved or twice |
| Memory server (`apps/memory-server`) | LanceDB tables, telemetry files | upsert, search, clear, delete, telemetry | concurrent requests, delete-then-add, table creation race | tenants apart, no record lost |
| Embedding client, compiled client, broker, SDK, scripts | little or none | | | |

How they interact: `App` calls `LocalAgent`, which awaits the embedding worker,
the memory store and the model proxy; it enqueues ingestion jobs that nobody
awaits, and after each answer asks the proxy for a KV flush that nobody awaits.
The proxy and its worker exchange messages on a FIFO port; the worker calls the
inner client, which persists KV blocks through the KV worker into a store whose
files other tabs read and write too. Web Locks separate the sections of the
binary OPFS store; everything else relies on the order of promise chains.

`PROJECT.json` lists every component with its status, and under `hazards` what
in this code is hard to test, each at the line where it bites.

## The modules

| Module | Models | Proofs |
|---|---|---|
| `TurnService` | abstract: callers served one at a time, in the order they came | |
| `UnlockedWorkerClient` | the proxy, the port and the worker; implements `TurnService` | `UnlockedWorkerClient_proof` |
| `MemoryIngestionQueue` | the ingestion queue: variables and actions, no specification of its own | |
| `LocalAgentSession` | turns, clear, delete, upload, ingestion, KV flushes; INSTANCEs `MemoryIngestionQueue` | `LocalAgentSession_proof` |
| `KvQuota` | the eviction policy, as the set of plans it may return | |
| `KvQuotaLoop` | the loop that computes a plan, EXTENDS `KvQuota` | `KvQuota_proof` |
| `KvSwapStore` | the binary OPFS store with any number of clients, EXTENDS `KvQuota` | `KvQuota_proof` |
| `TargetText` | abstract: the text a reader is owed, chosen by the target model alone | |
| `SpeculativeStream` | the token loop of one stream, with draft, verification and caches; implements `TargetText` | `SpeculativeStream_proof` |
| `KvReuse` | the persisted prefill: deferred persistence, hydration, prefetch, reuse | `KvReuse_proof` |
| `LanceMemoryStore` | the memory server's requests on LanceDB, operation by operation | `LanceMemoryStore_proof` |
| `GpuDecode` | the buffers, commands and read-backs of the tokens decoded on the GPU | `GpuDecode_proof` |
| `GacPolicy` | what ingestion makes of a text: risk, pin, metadata; what a consolidation may take | |
| `PromptPlan` | recovery, scores and packing as functions of what a turn has read, EXTENDS `GacPolicy` | |
| `BlockPlan` | blocks, sparse routing, KV pins and prefetch, shards, EXTENDS `PromptPlan` | |
| `MemoryLoop` | ingestion jobs, turns and other clients over one store, EXTENDS `BlockPlan` | `MemoryLoop_proof` |

`MC<module>` instantiates a module for TLC. Operators commented "Mutant:" are
plausible mistakes in the definition that follows; no specification uses them.
They document what each property is sensitive to.

### UnlockedWorkerClient

A step is one run-to-suspension of the JavaScript code: a message handler, or a
function from one `await` or `yield` to the next.

| Code | Model |
|---|---|
| `activeRequest`, the chain of promises | `chain`, the calls that began and have not released |
| a call's place in its method | `phase`: waiting (`await previous`), granted (between that and the post), parked (waiting for messages), yielded, and three ends |
| `pending`, `PendingStream.chunks`, `.done`/`.error` | `pending`, `chunks`, `ended` |
| `lastDecodeProof` and the fields set with it | `proof`, named by the stream that produced it |
| messages in both directions | `inbox` (its head is the running operation), `wire` |
| `beginRequest` | `Call`, `Grant`; `Post` up to `postMessage` |
| `handleMessage` | `HandleMessage`: `Drop`, `SettleByMessage`, `StreamMessage` |
| the generator of `streamChat` | `Wake`, `ConsumerNext`, `ConsumerReturn` |
| `handleWorkerMessage` | `WorkerInit`, `WorkerChunk`, `WorkerDone`, `WorkerKv`, `WorkerError` |
| `terminate`, `dispose` | `Terminate`, enabled at every point |

Chunks are numbers. Progress messages are left out, the proxy only shows them.
`init` with another model id than the worker echoes (lines 129-131) cannot
happen, the worker echoes the id it was sent.

### MemoryIngestionQueue

`line` is the chain behind `tail`; its head may be `running`. `flush` awaits
`drain`, the tail at the time of the call. `ahead` is history: the jobs a flush
has to cover. No caller passes `throwOnError`, so `lastFailure` is left out. The
module has no specification: `LocalAgentSession` takes its steps, and run
`Session` checks its `StatsAgree` and `FlushDrains` as `QueueKeepsCount`.

### LocalAgentSession

One session in one tab. `generating` is `isGenerating`; the guards on it are
those of the buttons. A turn goes idle, retrieving, planning, streaming, tracing,
done or failed; a clear goes draining (`flush` of the queue), wiping (`memory.clear`),
clearingKv, done. Memory is a set of items, one per message or document. The
worker's line of requests `llm` is a FIFO, which is what `TurnService` says and
run `WorkerClient` checks of the proxy. `kvSlot` is the inner client's
deferred persistence, `kvStored` the prompts whose blocks are in the store. A
prompt is the set of messages whose text it may hold: its question (`Send`), what
the search or the reads of raw texts returned (`Recall`, which reads the store at
any moment of retrieving and planning) and the transcript before the question,
read when the plan is asked for (`Plan`, `localAgent.ts:119`). `Stream` leaves
blocks of all of it to persist. `before` and `taken` are history: what had been
accepted when a clear or delete was pressed, and which messages a turn took into
its prompt while a clear had not yet emptied transcript and store. `ClearForgets`
excepts the latter from what it says of KV blocks, and nothing else.

### KvQuota, KvQuotaLoop, KvSwapStore

`Plans(R, pinned, at)` states which sets `planQuotaEviction` may evict:
unpinned, least recently used first, as few as possible or all of them.
`KvQuotaLoop` is the loop of that function from every possible listing.
`KvSwapStore` has one action per lock section: `Write`, `ListForQuota` and
`EvictPlan` for the three of persist, `ClearList` and `ClearFiles` for clear,
one each for load, list, delete and evict. A client may stop in any of them
(closed tab, full disk): `WriteStops`, `PersistStops`, `ClearStops`. A file is
absent, torn or a record with `pinned` and `lastAccessAt`; the checksum is what
tells torn from record. `Weight` gives the bytes of a set of blocks and is only
assumed to be monotone, as a sum of `max(0, byteLength)` is; a block keeps its
length when it is written again. `debt` is history: a persist was cut and no
listing has followed it.

### TargetText, SpeculativeStream

`SpeculativeStream` is the loop of `streamChat` for one request: `Prefill`, then
`Verify` (a draft window checked by one pass of the target, `Commit` of the
accepted rows, the fallback that turns speculation off) or `Decode` (one token)
until a stop or the limit. A row of a cache is the token it was computed from,
so "the cache is right" is "its rows are the text fed so far" (`CachesFollow`, for
the target's cache and the draft model's). What a model prefers is the
constant function `Best`; the instance has three, one where the draft always
agrees, one where it sometimes does, one that repeats a word. `TargetText` says
what drafting must not change; the refinement maps `out` to `text`. Which tokens
are excluded is computed once per pass of the loop, as in the client
(`unlockedBrowserTransformerClient.ts:649`), so for a window of several tokens the
target's choice is its choice under the exclusions at the window's start.

### KvReuse

`store` is the namespace's blocks as other tabs see them, `hydrated` the copies
this client holds, `cache` the current stream's rows, `slot` the cache that the
waiting starter will serialize: the same object as `cache` while `scheduled`,
which is why a decode grows both. A row is named by the weights and the text it
is computed from, so a wrong row is a wrong name. `Start`, `Stop`, `Begin`,
`Decode`, `DecodeFails`, `Show`, `Prefetch`, `End`, `Flush`, `Clear` are the
client's; `OtherTabPersists` and `Evict` happen at any time.

### LanceMemoryStore

A request is a `pc` and the database operation it awaits; `cached` is
`tablePromise` and `gacTablePromises`, where a value may be the promise of
another request's `createTable` (`CreatedBy`). `Purge` and `Add` are the delete
and the add of an upsert; `Read`, `Backup`, `Drop`, `Create` are
`recreateMemoryTable`; `List`, `Count`, `Query`, `Erase` are `deleteMemory` and
its cascade. `Fault` is a failed operation, `Restart` a crash of the server. A
row carries the request that wrote it; `alone` is history, the requests whose
rows no overlapping one had power over (`Threatens`). Power over a row is what a
call can do to it: replace it, drop its table, or delete what it names, where a
deletion by tag names the memories by the ids it found (`MayName`), and so also a
row of the same id that replaced the one it found or, for a caller without a
tenant, one of another tenant. It is assumed that an operation on the handle of a
dropped table fails.

### GpuDecode

A tensor stands for its buffer and for those it retains. `live` and `written`
say which buffers exist and hold data, `cmds` are the commands recorded in the
`WebGpuDecodeCommandBatch`, `deferred` what it will destroy after the submit,
`cleaning` the callbacks of `onSubmittedWorkDone`. `scope` is the attention
helper's `residentTensors`, `remembered` the `decodeResidentTensors` of the
token, `rows` the version, count and capacity of the row caches.

| Code | Model |
|---|---|
| the kernels between two awaits | `RunKernel`, one kernel of the current stage a step |
| a decode and its layers | `Decode`, `Embedded`, `Normed`, `Projected`/`ReadProjection`/`ProjectionRead`, `AppendRows`, `Attended`, `Applied`/`ProjectInScope`, `ReadFinal`, `ReadHidden`/`HiddenRead` |
| the end of a token | `Submit`, `ReadLogits`/`LogitsRead`, `End`, `CleanUp` |
| errors and fallbacks | `Throws`, `EmbeddingFails`, `AttentionUnavailable`, `ProjectionFails`/`Reprojected`, `ApplyFails`/`Reapplied` |

Models with more than one attention head are assumed; cached weights are never
destroyed and not modelled.

### GacPolicy, PromptPlan, BlockPlan, MemoryLoop

What the agent remembers and then shows the model. Everything between two awaits
of `buildAdvancedRuntimeGenerationPlan` is a function: `Packed(in)` and
`Blocks(in, ...)` of the reading `in`, evaluated whole by `MakePlan`. Scores are
in thousandths, risks in hundredths, texts are their lengths in characters. A
sort is `At(s, InOrder(places, First))`: of the places, the k-th is the one that
k - 1 others come first of; a filter, `Select`, keeps them in line. Both are
written so, and not with `SortSeq` and `SelectSeq`, for the provers to see through.

| Code | Model |
|---|---|
| `classifyMemoryPolicy`, `withGacMetadata` | `Risk`, `PolicyPins`, `Ingested` |
| `rememberMessage`, `ingestDocuments`, `writeImmediateGacIngestionPlan` | `WriteChunks`, `WriteExact` (raw, then pins), `WriteDerived` (the rest in one step: nothing here reads it) |
| `scheduleAdaptiveConsolidationJob` | `ReadList` for each of the three lists, `Consolidate` |
| `submitUserMessage` up to the model call | `Search`, `ReadSignal` for each list, `AskRaw`, `ReadRaw` for each id, `MakePlan`, `WriteTrace` |
| a rejected request | `TurnFails`; a job that fails stops where it stands, as one whose next step is never taken |
| other clients of the store | `Others`: an `Audit`, a `Pin`, a deletion |
| `deleteMemory`, `deleteGacRecordsForMemoryDelete` | `Delete`: the chunks of a tag or all, and the graph rows that name them or a representative of them (`DeleteRows`), or every row where a session is given (`DeleteScope`) |

A deletion is one step; its two passes over the tables are in `LanceMemoryStore`.
It may come between any two writes of a job, which goes on and writes its pin or
its raw text behind it, and during a turn, whose trace it may remove.
`everRaw`, `guarded`, `gone` and `out` are history. The limits of 32 and 128 rows per list are
not reached. Metadata that other writers may add (`modelVisible`, `factual`,
`identityPinId` alone) and matches of earlier traces by representative or pin
id are left out. `Packed` takes a hit's `tokenCount` to be that of its text and
texts to have no white space at their ends, so that `trim` changes nothing. A
memory deleted while the turn plans is still shown.

## What is checked

| Run | Instance | Shows |
|---|---|---|
| `WorkerClient` | 3 calls of any kind, 2 chunks, crash, terminate; fair | `OneAtATime`, `OwnProof`, `ChunksConserved`, `DoneMeansComplete`, `WaitingSettles`; the proxy implements `TurnService` (`TakeTurns`) |
| `Session` | 2 turns, an upload, a clear, a delete, 3 of them pressed; fair | `QueueKeepsCount`, `ClearForgets`, `AnswerFollowsQuestion`, `ClearEnds`, `TurnEnds` |
| `QuotaLoop` | every listing of up to 3 blocks, 3 access times | `ReturnsAPlan`, `Returns` |
| `StoreQuota` | 2 clients, 3 blocks, quota 2 blocks or 2 bytes | `QuotaAtRest` |
| `Speculative` | 3 pairs of models, 3 prompts, limits 1, 4 and 6, window 3, drafter none, n-gram or Qwen on the CPU, none on the GPU | `CachesFollow`, `ShownIsAnswer`; the loop implements `TargetText` (`AnswerIsTargets`) |
| `KvReuse` | 2 versions, 2 prompts with one hash, 2 layers, blocks of one token, 3 tokens fed | `BlocksAreTrue`, `ReuseIsExact` |
| `MemoryServer` | 1 earlier write and 3 requests, 2 in flight, 1 fault | `KeptOnce`, `RepresentativesAreTraceable`, `DeletedIsGone`, `ScopesApart` |
| `GpuDecode` | kernels required, automatic, or absent; five pairs of layer shapes; 4 tokens; 1 fault where kernels are required | `ReadsAreSound`, `RecordedAreLive`, `NothingIsLeft` |
| `MemoryLoop` | 1 job with 3 memories, 1 representative, 1 earlier trace, 2 tags, 1 turn, 1 request of another client | `PromptFits`, `PinsReachThePrompt`, `PlanKeepsPins`, `PinsHaveRaw`, `ConsolidationSpares`, `DeletedStaysOut` |

Each run also checks its module's `TypeOK`, where it has one.

Bounds. Three calls are one served, one waiting, one coming: a stream whose late
messages could touch the fields of the next, and a call behind both; two chunks
let one be buffered while another is on the port. In the session `MaxPresses` lets three
buttons of the five be pressed in any order and overlap; `Fallible` restricts
which messages' ingestion jobs may fail: the answer of one turn, so that jobs that
succeed stand before and behind it. In the store one
block is twice as long as the others, so that the quota in bytes and the one in
blocks are exceeded by different sets; two clients are enough for every pair of
lock sections to interleave, and the theorems cover the rest. In `Speculative`
limit 1 leaves no room for a draft, 4 cuts the last window, and 6 lets a window
follow one that was turned down in part. In `KvReuse` two prompts with one hash
are the fewest that collide, two layers let one of them be missing, and three
fed tokens let a cache grow past its prompt and fail while growing. In
`MemoryServer` a third request lets the effect of two overlapping ones be seen,
and an earlier write puts rows of two tenants under one id in a table whose
dimension may have changed. `GpuDecode` has `Slack` 1 (64 in the code) and four
tokens, so that a row cache grows twice; two layers put every shape in front of
and behind another. `MemoryLoop` has a prompt of 42 tokens, 24 of them for
memories: three memories, or the representative and one more, do not fit, nor
does the whole user message. One memory is an instruction, which policy pins,
one is low in information; the representative names one as its raw memory and
another only in its lineage. One tag is on the instruction, one on a memory and
its representative. A search returns at most 2 hits with score 0.3 or
0.96. `MaxBlocks` 2, `TopK` 1, `Window` 0 and `SafeTokens` 11 (64, 16, 2 and at
least 256 in the code) let pins exceed each budget and the prompt need shards.
One request of another client is one change between any two steps of the others.

Fairness. Event loops run: a continuation whose promise has settled resumes, a
posted message is delivered, a job's or a request's own awaits end (weak
fairness on those actions). Nobody has to press a button, call, terminate or
crash. In `UnlockedWorkerClient` a consumer that got a chunk comes back, as
`for await` does, and a generation ends after `MaxChunks` chunks; in
`LocalAgentSession` the embedding, the store and the model answer or throw.
`WaitingSettles` excepts two things: a worker that died (no `onerror` handler
is installed) and the leak described below. The modules without fairness have
safety properties only.

Deadlock is not checked where every call has been made and settled in a final
state (the worker client, the session, the memory server, the memory loop), nor in
`GpuDecode`, where a request ends after `MaxTokens` or with a failed token; it is
checked for the block store, `KvReuse` and `SpeculativeStream`.

## Disagreements found

Each of these runs has TLC find a counterexample to a sentence of a test or a
document:

- `WorkerClientTerminate`: a stream that `terminate()` fails while its generator
  is suspended at a yield ends normally with part of the text: the loop of
  `streamChat` does not look at `stream.error` again. (A stream terminated
  between its turn and its `try` block throws in `nextRequestId` without
  releasing the turn, and calls behind it wait for ever.)
- `SessionForgets`: what was forgotten comes back. A queued ingestion job writes
  a message of the session after the session was deleted, because the delete
  does not flush the queue; an upload in progress when "Clear memory" is pressed
  writes its chunks after the clear.
- `MemoryLoopPins`: a recovered pin gets score 1 and goes behind the search's
  hits; a representative that scores 1 too is packed first, and the pin may find
  no room. `docs/31` wants fewer representatives, not fewer pins.

Other limits of the code, met while reading it and not stated by a run:

- A turn sent while "Clear memory" waits for the queue makes its prompt of the old
  conversation, as the transcript is emptied only behind the flush
  (`localAgent.ts:119`, `174`). Its stream may come behind the clear of the KV
  blocks; then blocks with rows of the cleared conversation are persisted and
  stay. TLC finds this when `taken` is left out of `ClearForgets`.
- A memory that is deleted after its chunk and before its raw text was written
  comes back: the job writes raw text and pin behind the deletion, and the next
  turn recovers the pin. TLC finds this when `gone` is not reduced by `Unwritten`.
- A strict flush (`throwOnError`) would throw for a job that failed long before,
  as `lastFailure` is never reset; `dispose` during a queued flush kills the
  worker before the deferred blocks are persisted.
- `persist` of the OPFS store deletes what it planned in an earlier lock section,
  also a block another tab has pinned in between.
- A pinned memory whose raw id a representative carries as `rawMemoryId` is
  taken as represented and not recovered: the model reads the representative.
- Memory server: a deletion by tag that also names a tenant deletes every graph
  record of that tenant (`lancedbStore.ts:692`; `docs/03_MEMORY_MODEL.md:86` wants
  targeted deletions); `clear` drops the main table only; a table that cannot be opened is taken to be missing; a failed
  `createTable` stays cached until the process ends; of two requests that recreate
  the memory table the second may drop the first one's; two concurrent upserts
  of one id leave two rows; a deletion misses a representative written beside it;
  backups of an incompatible table keep memories that are deleted later.
- WebGPU, with kernels preferred and present: q, k and v are read back before the
  batch that computes them is submitted, and are zeros. With logit candidates and
  kernels required the hidden row is read before the submit. An attention helper
  that fails after it took over its operands leaves the fallback with destroyed
  tensors. A token that throws never submits its batch and keeps its tensors.
  Row caches and suppressed-id buffers are never destroyed, a lost device is not
  handled. With kernels required and a drafter enabled (by default there is none)
  a verified window leaves rows of zeros in the caches and no resident rows.

## What is proved

For any number of calls, requests, blocks, clients, turns, jobs, layers, chunks and times:

| Theorem | States |
|---|---|
| `TypeCorrect` (`UnlockedWorkerClient_proof`) | `Spec => []TypeOK` |
| `TurnsExclude` | `Spec => []OneAtATime` |
| `ProofsAreOwn` | `Spec => []OwnProof` |
| `ChunksAreConserved` | `Spec => []ChunksConserved` |
| `DoneIsComplete` | `Spec => []DoneMeansComplete` |
| `TurnsAreTaken` | `Spec => TakeTurns`, the refinement of `TurnService` |
| `SessionTypes` (`LocalAgentSession_proof`) | `Spec => []TypeOK` |
| `CountIsKept` | `Spec => []QueueKeepsCount` |
| `ClearIsFinal` | `Spec => []ClearForgets` |
| `AnswersFollow` | `Spec => []AnswerFollowsQuestion` |
| `LoopMeetsPolicy` (`KvQuota_proof`) | `LoopSpec => []ReturnsAPlan` |
| `StoreTypes` | `Spec => []TypeOK` |
| `QuotaKept` | `Spec => []QuotaAtRest` |
| `ReuseTypes` (`KvReuse_proof`) | `Spec => []TypeOK` |
| `PersistedAreTrue` | `Spec => []BlocksAreTrue` |
| `ReusedIsComputed` | `Spec => []ReuseIsExact` |
| `MarkerEndsAnswer` (`SpeculativeStream_proof`) | `Spec => []ShownIsAnswer` if `BestIsAToken` |
| `RollbackIsExact` | `Spec => []CachesFollow` if `BestIsAToken`, `DraftsOnCpu` |
| `StreamIsTyped` | `Spec => []TypeOK`, the same hypotheses |
| `DraftsChangeNothing` | `Spec => AnswerIsTargets`, the refinement of `TargetText`, the same hypotheses |
| `PinsNameRaw` (`MemoryLoop_proof`) | `Spec => []PinsHaveRaw` |
| `ProtectedIsSpared` | `Spec => []ConsolidationSpares` |
| `TypeCorrect` | `Spec => []TypeOK` |
| `PromptIsFit` | `Spec => []PromptFits` |
| `PinsAreShown` | `Spec => []PinsReachThePrompt` |
| `PinsAreAttended` | `Spec => []PlanKeepsPins` |
| `DeletedIsNotShown` | `Spec => []DeletedStaysOut` |
| `TypeCorrect` (`LanceMemoryStore_proof`) | `Spec => []TypeOK` |
| `AcknowledgedRowsAreKeptOnce` | `Spec => []KeptOnce` |
| `RepresentativesHaveLineage` | `Spec => []RepresentativesAreTraceable` |
| `DeletionsAreComplete` | `Spec => []DeletedIsGone` |
| `TenantsAreApart` | `Spec => ScopesApart` |
| `BatchesAreValid` (`GpuDecode_proof`) | `Spec => []RecordedAreLive` unless kernels are preferred and there |
| `TensorsAreOwned` | `Spec => []NothingIsLeft` if `KernelsRequired` |
| `DecodeTypes` | `Spec => []TypeOK` if `KernelsRequired` |
| `LogitsAreWritten` | `Spec => ReadsAreSound` if `KernelsRequired` and no candidates |

### Assumptions

They are named in the modules that declare the constants, and TLC evaluates them
in the runs. `UnlockedWorkerClient`: `None` is no call, `MaxChunks` a number,
`MayCrash` a choice. The stores: the blocks are finite, the quotas are numbers,
`Weight` is monotone. The session: documents are not messages
(`DocsAreNotMessages`), a clear is not a delete (`ClearsAreNotDeletes`).
`MemoryLoop`: the jobs' memories are disjoint (`FreshIds`; the code makes ids
with `crypto.randomUUID`); what jobs and other clients stored is finite; a hit of
another client names in its lineage whatever it names directly, as
`readSourceLineage` reads it, its measures are not negative and its score is in
0..1 (`StoredAreHits`). `PromptPlan`: the window, the block size and the safe
context are positive (`PlanBounds`; `apps/web/src/config.ts:312-316`); the shares
of the window and all lengths may be 0. `KvReuse`: prompts are non-empty and consist
of tokens (`PrefillsAreTokens`), layers are numbered, a block holds a token.
`SpeculativeStream`: a stream may generate something (`LimitsArePositive`).
`GpuDecode`: a backend has one of the three modes (`SetupsAreKnown`), a model has
layers (`LayersAreShapes`), a prompt has a row (`PromptIsNotEmpty`).
`LanceMemoryStore`: a call writes no table twice and none without rows, `upsert`
names no key twice (`dedupeMemoryRows`), and a representative follows its lineage
in the same tenant (`CallsAreWellFormed`; `assertRepresentativeLineage`, and the
route binds both to the caller, `index.ts:344-345`); the earlier run ended with an
upsert (`EarlierIsUpsert`), for which there is room (`BoundsAreNaturals`).

Some hypotheses stand in theorems, not in the module. `BestIsAToken` says that
the model chooses from its vocabulary, which is quantified over all texts and so
is not for TLC to evaluate. `DraftsOnCpu` says that no drafter runs where GPU
kernels are required; there the code leaves rows of zeros in the caches (see
[above](#disagreements-found)), so `CachesFollow` without it is false.
`KernelsRequired` says that a GPU is there and its kernels are required, as the
chat asks for. That is where tokens are batched. Without a GPU nothing is made; in
the automatic mode each command is submitted at once, and the three properties of
tensors and reads are checked there by TLC. With kernels preferred, `ReadsAreSound`
is false, and so is `RecordedAreLive` once an attention helper fails (see
[above](#disagreements-found)). With candidates
asked for in the required mode the hidden row is read inside the batch, and
`ReadsAreSound` is false as well.

### Arguments

*Turns.* `OneAtATime` is not inductive: that two calls are not served together
follows from where they stand. `TurnInv` adds `HolderIsHead` (a call past `await
previous` is the head of the chain, so there is one at most) and
`PendingIsPosted` (whoever is in the pending map has been posted, hence is past
the chain). Every step that ends a call goes through one lemma, `ReleaseHead`:
the head leaves, nobody else was past the chain. `OwnProof` needs in addition
what is on the port: `WireProofs`, a chunk or done message carries no proof but
that of its own stream, and the handler drops messages of any other stream.

*Chunks.* `PortInv` says what the port may hold of a stream: it is posted once
(`PostedOnce`), before that there is nothing of it (`UnpostedIsSilent`), and its
done message is the last of its messages (`DoneIsLast`, `DoneIsSilent`,
`RunsOrFails`). `ChunksConserved` speaks of positions (`OnWire`): the chunks at a
stream's places on the port are those between what was handed over and what was
made, in rising order. A message that leaves shifts the places by one, one that is
posted adds a last place; `ConservedSame`, `ConservedEach` and `ConservedKept` are
the frames the steps share.

*Refinement of `TurnService`.* The line is the chain, less its head when that is a
stream that failed without releasing its turn (`Leaked`). `ChainOrder` says that a
call stands in the chain once, and that all behind its head are waiting. Each step is then
a step of the service or leaves the line alone.

*Queue and clear.* `QueueKeepsCount` needs that a job is chained once
(`LineIsEnqueued`) and that whatever a flush has to outlast stands at or before
the job it awaits (`DrainIsLast`). `ClearInv` adds the session: turns exclude each
other (`OneTurn`), whatever was on the screen at the press belongs to turns that
are over (`PressedIsOver`) and was enqueued (`AcceptedIsEnqueued`); so the flush
outlasts its jobs (`BeforeIsAhead`), and nothing after the wipe can write them
(`StoreForgets`). The same messages leave the transcript with the drain
(`ScreenForgets`), so a prompt can hold one only if its turn took it while the
clear waited (`PromptForgets`), and of the KV blocks made of prompts all that were
there before are gone when the clear has run (`KvForgets`).

*Quota.* `QuotaAtRest` speaks of quiet states only. `QuotaInv` speaks of every
state in which no written batch waits to be listed and no persist was cut: the
records, less everything the clients plan to evict, are within the quota or all
pinned. A listing makes it true whatever the other clients' plans are, because
taking more blocks away never brings a settled set over quota (`OverGrows`:
`Over` is monotone); executing a plan moves its blocks from the plans out of the
directory; a write puts its client in front of a listing. At rest nobody has a
plan (`PlansAreDue`), which leaves `QuotaAtRest`. `LoopMeetsPolicy` keeps, through
the loop, that `remaining` and `evictable` are the listing and its unpinned
blocks less `evicted`, that what was evicted was used no later than what was not,
and that the last block taken was taken while over quota.

*Reuse.* `ReuseInv` is about every collection that can hold a block: each block is
the rows its name promises (`IsBlock`), one block for an id. A stream's cache is
the rows of all it was fed (`IsStream`); the cache that waits to be serialized is
only known to begin with the rows of its prompt (`IsPrefilled`), as a later decode
may have grown some layers and failed. Blocks are cut inside the prompt, so that
is enough (`SliceIsTrue`, `SerializedAreTrue`), and blocks that cover 0 to the
length without a gap in every layer join to a prefill (`WholeJoins`).

*Speculation.* The accepted guesses equal the target's choices, and the correction
is one (`Verify`). `CacheInv` says that the caches are those of the text fed so far,
which is all streamed tokens but the last; what a window commits restores exactly
that. `ShownInv` says that the shown text is the answer cut at its first stop.

*Memory.* `WrittenOnce`: raw memories are written by their job, before its pins;
pins and audits name written memories only. `GuardedIsSpared`: what was protected
when a job began to plan, and still exists, is still protected for the reason it
was (pins and failed audits are never withdrawn) and is in the list of that reason
if the job has read it. `DeletedInv`: what was deleted after its raw text was
written is in neither chunks nor raw texts, and no job is to write it again; so a
search or a read of raw texts that comes later does not return it, whatever pins
name it. What a prompt shows is a hit or such a raw text (`ShownWasRead`).

*Prompt.* `PlanInv` has three parts. `StoreHolds`: the sets of the store are
finite and name known memories. `TurnReads`: what the turn has read so far is a
`Reading` - a sequence of hits, of which those of a memory name that memory, and
finite sets. `PlanMade`: until the answer the plan is what packing makes of that
reading, whatever the jobs and the other clients do to the store meanwhile. All
else is about functions of a reading, for any of them. `OrderIsKept`: a sort by a
strict total order is a sequence that visits every place once, in that order; the
stable sort of the scores and the filters are such (`ByScoreFacts`,
`SelectFacts`). `TotalSteps` and `ChosenSteps` unfold the folds step by step, and
what holds after every step follows by the least step after which it would not.
`ClampFits` and `RecentFits` bound each share by its budget; each budget is what
the shares before it left, less the token kept for the user (`PackedFits`).
`PinsReach`: a pin whose raw memory was read has a hit of score 1 (`PinHasHit`).
If that is not chosen, it did not fit behind what was chosen before it; those all
have score 1, hence are among the chosen of score 1 (`ChosenWithin`), and what does
not fit beside fewer does not fit beside more (`FitsLess`). `BestAreFew`: the n
best of a set are n at most, as they have different ranks; with `HomeIsABlock`
(the blocks' tokens lie end to end, so each token has a block) this bounds a route
(`RouteFacts`). `ShardsCover` is the arithmetic of the rounded-up shard size.

*Memory server.* Each step is first shown to change one request, and the tables as
that request's place says (`LookDoes` to `FaultDoes`, collected in `Does` and
`Moves`); the invariant is then kept part by part. `StoreOK` and `Makers`: a
generation of a table was made by one request, so that few are used and a handle
names its table for good. `Origin`: a row in a table is one that the request named by
`from` writes there, at a place of its chain it has reached. `Apart`: no running
request has power over what one of `alone` writes.
`KeptOnce` follows from `AreKept` (the places of the chain that are complete have
their rows in the table or a backup), `AreSaved` (a request that is to drop the
table has read them, or they are in the backup already), `Purges` (what a
request has purged stays away until it adds its rows) and `Apart`.
`RepresentativesAreTraceable` needs the same for the lineage, which stands before
the representative in the chain. `DeletedIsGone` needs `Deletions` (what is due
and not yet erased was found by the pass that will erase it, or stands in a table
whose turn is still to come) and `FoundRows` (what it found was in a table).

*GPU buffers.* A stage is a list of kernels, each of which reads what was there
before it or what a kernel before it made (`Stage`; one lemma for each stage and
shape of a layer, joined by `StageJoin`). `ReqInv` has eight parts. `Memory`: the
cells that were written, or that a recorded command writes, are in buffers that
exist, and a command reads what is written or what a command before it writes
(`IsFlow`); so a submit runs all of them (`FoldIsUnion`), and what a batch promises
(`Promised`) only grows. `Tensors`: what the token's variables name is there and
promised. `RowsKept` and `Counted`: the rows of all tokens so far are promised, in
the current version of each row cache, also while a cache moves to a larger buffer
(`AppendRowsKeeps`). `Owned`: whatever exists is remembered by the token, held by
the helper that runs, deferred to the batch, waiting for its cleanup, or a row
cache's, so that nothing is left when all of these but the last are empty. `Named`
and `Cleanups`: no tensor is both remembered and deferred (`IsKept`), and of the
current token nothing waits for a cleanup before its submit; so a cleanup, whenever
it comes, destroys nothing that a recorded command or the token still uses.

### Only model-checked

Liveness (`WaitingSettles`, `ClearEnds`, `TurnEnds`, `Returns`), since fairness and
ENABLED are beyond the provers. `GpuDecode` where kernels are not required, but
for `RecordedAreLive`.

Induction over data cannot be cited (see `NaturalsInduction`: its theorems take an
operator). Where a proof needed it, it goes by the least counterexample: the
numbers have a least element in every non-empty set, by `WellFoundedInduction`'s
theorems about sets.

## What is left out

- The numbers: kernels, attention, embeddings, ranking. TLC cannot evaluate
  them usefully, and no interleaving changes them.
- Redaction, chunking and the ranking of a search. `LocalAgentSession` has
  retrieval and planning as one await that may throw, `MemoryLoop` has a turn's
  reads one by one but not the buttons.
- In `LocalAgentSession` the memory store is atomic per call. Import, export,
  the button for a delete by tag and initialisation are not modelled yet.
- The JSON OPFS, IndexedDB and memory KV stores, and which of them is chosen.
- In `GpuDecode` the prefill, and the fallback of the preferred mode described
  above.
- The components with status `not_modelled` in `PROJECT.json`, with the reason.

## Plan

1. The KV persistence worker and the three other stores, sharing `KvQuota`.
2. The browser's memory stores over `LanceMemoryStore`.
3. Sleep/wake jobs and the startup rebuild.
4. Proofs: `GpuDecode` in the automatic mode.

## Running it

    tlasany M.tla
    tlc -workers 2 -config X.cfg MCmodule
    tlapm M_proof.tla
