# A specification of llm-infer

`llm_infer` serves language models: a paged key/value memory, a continuous
batching engine, the forward passes over the memory, and an HTTP server around
them. This directory models the parts that decide *which* memory, *which*
token and *which* client, and checks them with TLC and TLAPS. The tensor
arithmetic is left out: a forward pass is known by the positions it is fed, the
positions it rotates by and the keys it reads.

## 1. Inventory

Paths are relative to `src/llm_infer/`.

| Component | State it keeps | Operations | Hard behaviour | What makes it correct |
|---|---|---|---|---|
| Block pool, tables, paged store (`kv_cache/`) | free list, reference counts, tables, contents of the slots | `allocate`, `retain`, `free`, `reserve`, `fork_shared`, `trim_to_length`, `prepare_write`, `write*`, `append_cost` | blocks shared by siblings and cache entries, copy-on-write, rollback of drafts, a pool that runs dry half-way | counts are exact, nothing leaks, a request reads its own history |
| Prefix cache (`kv_cache/prefix_cache.py`) | LRU list of entries | `lookup`, `donate`, `clear`, eviction for a shortfall | entries that share blocks with one another and with live requests, eviction in the middle of an append | an entry still holds the KV of its tokens |
| Scheduler (`scheduler/`) | waiting queue, running set, committed blocks | `add`, `admit`, `requeue`, `release`, `preemption_victim` | two admission disciplines, eviction, head-of-line blocking | promises are kept and returned once; every request completes |
| Engine pass (`serving/engine*.py`, `request.py`) | request flags and tokens, the lists of one pass | `add_request`, `step`, `abort`, `run` | an eviction inside one call changes requests a later call has on its list; recompute in chunks; groups; drafts | no request is owned twice, positions survive recomputes, no error of its own leaves `step()` |
| Deferred decode (`serving/engine_decode.py`) | open window, staged flush, stash of an abort | open, step, flush, drain, consume | tokens recorded a window late, throwaway steps, changes of batch, aborts in between | delivered tokens are those of the reference loop |
| Sampler, speculation (`serving/sampler.py`, `speculative.py`) | one generator per request | `sample_row`, `sample_rows`, `draft` | draws in batches and throwaway rows, filters over ragged rows | a request's draws do not depend on its neighbours |
| Serving loop (`serving/server/async_engine.py`) | submissions, streams, loop thread, shutdown and fatal flags | `stream`, `start`, `stop`, loop: drain, abort, step, dispatch, fail | asyncio handlers against one thread, disconnects, a dying loop, restart | every client gets its whole answer once, or an error |
| HTTP routes, text stream (`serving/server/app.py`, `streaming.py`, `stop.py`, `detokenizer.py`, `metrics.py`) | held-back text, counters | validate, open, pull, flush, count | two validations, stop strings and characters split over tokens, ends that race | no text is lost, none behind a stop string is sent, each request is counted once |
| Forward passes (`model/pretrain_bundle.py`, `qwen.py`, `decode.py`) | – | prefill alone, in chunks, packed; decode alone, batched, planned | packing and offsets, reads built before writes | each row reads the keys of its own history at its own position |
| Planned steps and graphs (`model/decode_plan.py`, `decode_graph.py`, `grouped_decode_graph.py`, `kernels/flashinfer_graph.py`) | slots and read buffers fixed for a window, static buffers per batch size, the device's queue | build, begin, complete; grouped, bucket or eager step; plan-info fence | addresses computed once and used many times, two engines on one model, a host that runs ahead of its device | a planned step reads and writes what the direct one would |
| Attention kernels (`kernels/`) | cached row offsets | prefill, chunk, decode, packed | four backends, ragged batches, grouped heads, causal alignment | every row sees exactly its own past |
| Start-up, bundle loader (`serve.py`, `runtime.py`, `model/pretrain_bundle_loader.py`) | resolved flags, the process-wide kernel choice, captured graphs | resolve, load, validate, fuse, warm, capture, build | defaults that depend on one another, captures that fail half-way, a second application in the process | what is accepted can run, but for heads of odd width; a refused step leaves nothing behind |
| Serving evaluation (`../scripts/esme_serving_eval.py`, `load_generator.py`) | barrier, observer, results | launch, warm up, measure, scrape, gate, report | threads of clients against the loop, late events, a lost scrape | a reported number is about what was measured |
| Fixtures, validation, benchmarks, Modal scripts, visualizer | files | – | – | offline tools |

How they interact: a handler validates, submits a request under a lock and
reads its queue; the loop thread, the only one that calls the engine, adds it,
applies aborts, calls `step()` and dispatches the tokens. `step()` asks the
scheduler whom to admit, then resumes, prefills and decodes; each asks the
cache for blocks through the request's table, and the allocator asks the prefix
cache to give blocks back. The forward passes get the tables, or a plan built
from them, and a graph runner may take a planned step. Finished requests donate
to the prefix cache and are released.

The behaviours that a test hardly reaches are listed, each at its line, under
`hazards` in `PROJECT.json`.

## 2. Modules

```
Lists, CollectionLemmas                                (used by those below)
PagedKV -- PagedKVProofs                               MCPagedKV
Engine -- EngineProofs                                 MCEngine
DecodeWindow -- DecodeWindowProofs                     MCDecodeWindow
  implements GreedyDecode
PromptLookup -- Sampler                                MCSampler
AsyncEngine -- AsyncEngineProofs                       MCAsyncEngine
HttpApi -- TextStream -- TextStreamProofs              MCTextStream
Forward -- ForwardProofs                               MCForward
Attention                                              MCAttention
Bundle -- Startup -- StartupProofs                     MCStartup
Evaluation                                             MCEvaluation
```

`Lists` has `Without`, the list comprehension `[x for x in s if x not in D]`
that PagedKV, Engine, DecodeWindow and Forward share, said by positions because the
`SelectSeq` of the standard module cannot be reasoned about. `CollectionLemmas`
has what the proofs need of it, of division, of sums over finite sets, of the
greatest and least of a set, of lists of lists joined end to end and of where
each of them begins in the joined list.

Each module takes from the one below it what that one is checked to promise:
Engine calls a block free when nobody holds it (PagedKV's `FreeIffUnowned`),
AsyncEngine takes DecodeWindow's in-order recording, TextStream takes
AsyncEngine's queue with one end.

A definition marked `mutant` is a plausible mistake in the definition that
follows it; no behaviour uses it. It is there to show that the property named
beside it in `PROJECT.json` can be violated.

### PagedKV – the memory

State: `free`, `refcount`, `own` (the blocks of a table or a cache entry),
`text` (the tokens whose KV a table holds; its length is `table.length`),
`prefilled`, `window` (steps an open decode window may still take), `kv`
(slots), `key` and `lru` (prefix cache), `dead` (an `OutOfBlocksError` left
`step()`).

One action is one call of the engine: `PrefillChunk` (the last chunk of a
leader also forks the siblings), `Decode`, `Verify` (a draft, with rollback and
trim), `OpenWindow`, `PlannedDecode`, `CloseWindow`, `Finish` (donate, then
free), `Drop` (abort or eviction), `LookupHit`, `Clear`, `OutOfBlocks`.

Abstractions. What a layer stores for a position depends on all tokens up to
it, so a slot holds that token history. Any free block may be handed out. A
block nobody owns holds `NoKV`. Drafts and windows mix freely, which one engine
would not do (more behaviours, not fewer); so does a leader with a cache hit.
Cache counters are left out.

### Engine – one pass

State: how the engine was built (`conf`) and what is asked of it (`ask`); the
scheduler's queues, `committed` and `budget`; `mem`, the tables with real
blocks, their lengths, and the cache's list; the flags of `Request`; and the
pass: `phase`, `room`, `visiting` and the lists that `step()` sorts the running
set into. A pass is cut into its calls so that an eviction in one meets the
stale lists of the next: `Begin`, `AdmitOne`, `Classify`, `EnsurePoolRoom` (one
eviction), `ResumeChunk`, `ResumeDone`, `Lookup`, `PrefillMany`, `PrefillSkip`,
`Prefill` (a chunk, the last one, a whole group, or its refusal),
`PrefillDone`, `RoomEvict`, `RoomDone`, `Verify`, `DecodeBatch`. `Add` and
`Abort` happen between passes, because one thread owns the engine.

Abstractions. Which tokens a table holds is left to PagedKV; `text` stands for
the token ids of a prompt, so that the cache and the groups can tell equal
prompts from others. An end-of-sequence token may come at any time, a draft may
have any accepted length; requests verify in any order before the rest of the
batch. Deferred windows, which are off under preemption, speculation and
tracing, are in DecodeWindow.

### DecodeWindow, implementing GreedyDecode – deferred decode

State: `window` (`_decode_window`), `flush` (`_pending_flush`), `stash`
(`_stashed_flush`), `result` (the `StepResult` of the pass), `sent`, the queues,
and per request `generated` and `length`. The n-th token of a request is its
index n; a forward fed with another token than the last one, or at another
position, yields `Wrong`. Actions: `Begin`, `Prefill`, then `DecodeNormal`, or
`Recompose`, `Open` and `Step`, then `Return`; between passes `Add`, `Abort`
and `BecomePrivate` (the siblings of a request finish).

`deferrable` stands for "no penalty and a private table". Prompts are
prefilled whole, admission reserves the worst case. Requests have ids of their
own.

`GreedyDecode` is `model/decode.py`'s loop for many requests at once: at least
one more token, of the right index, up to the first end-of-sequence token or
the cap. The refinement maps `asked` to `arrived` and `produced` to
`Delivered`, what `step()` has returned, is about to return, or keeps in the
stash: so a token that is recorded and lost on the way out is no refinement.
`Greedy!Spec` includes fairness, so the answer of every request nobody gave up
on is completed.

### PromptLookup and Sampler – the next token

`PromptLookup` has the two loops of the search and, beside them, the draft said
without loops. `Sampler` has the penalties, the temperature, top-k, top-p and
the draw, for one host row and for rows of a batch, in prefill, plain steps,
deferred windows and across a preemption. A score s weighs 2^s, so that
probabilities are ratios of integers; a generator is a given sequence of draws
out of `Grain`. `Alone` is what the request draws without neighbours.

### AsyncEngine – the serving loop

State: each handler and what it has yielded, its queue, `aborted` and `error`
of its stream, `submissions`, `fatal`, `streams`, the loop threads' positions,
and `shutdown`, `thread`, `joining` for `start()`/`stop()`. Live requests
compute tokens and record them in order, perhaps some steps later; an abort
records everything computed and stashes it. Threads act between the points
where the code takes the lock, calls the engine or enqueues; `_fail_all` is two
actions (`Crash`, `FailSubmissions`) because a handler may submit in between.

Abstractions. Every live request progresses in each step (queueing inside the
engine is Engine's matter). `call_soon_threadsafe` puts in order. `_wake` is
not modelled: the idle loop wakes by timeout anyway. A step ends within the
timeout of the join in `stop()`; section 4 says what happens when it does not.

### HttpApi and TextStream – from the body to the last event

`HttpApi` has the checks of the three endpoints in their order, what the engine
checks again, and the events of each wire format. `TextStream` is one request:
`Handle`, `Submit`, `Produce` and `Reject` by the loop, `Pull` (decode, search,
send), `Halt` (a stop string aborts), `Finish` (flush, count, close), `Fail`,
`Leave`, `Die`.

Abstractions. A token is a sequence of bytes; `(` with `)` behind it is a
character of two bytes, any other of them decodes to the replacement character
`?`; `Chars` are the other bytes and all characters. Parts of a body that the server cannot honour are names in `unsupported`.
JSON, ids and time stamps are left out.

### Forward – passes, plans and graphs

State: the tables and slots of each engine, `plan` (the open window of an
engine, with its slots and reads), the static buffers of the shared runners and
of the grouped ones, and `stream`, the device's queue: the plan-info copies and
launches the host is ahead of. A slot holds a token position; a pass is judged
by the positions its rows rotate by and attend to, and `astray` collects the
rows that got it wrong. Actions: the prefills (alone, in chunks, packed), `Fork`,
`DecodeMany`, `DecodeTokens`, `Open`, `GroupedStep`, `BucketStep`, `EagerStep`,
`Close`, `Free`, and `Execute` (the device takes the next entry).

Abstractions. Every layer writes and reads the same slots, so one stands for
all. The Qwen model has no packed prefill and no planned windows. `PrepareWrite`
copies the block an append starts in, and `HasRoom` counts it; the later blocks
that `prepare_write` and `append_cost` look at are never shared (section 5).

### Attention – what each backend sees

Per backend (`naive`, `sdpa`, `flash`, `flashinfer`) and mode (prefill, chunk,
decode, packed): gathering through the tables, masks, head groups, offsets.
The output of a row is, per query head, which KV head and which keys it mixes.

### Bundle and Startup – from flags and files to an application

`Bundle` is every check between the manifest and the weights, and which shapes
the products of a forward pass need of each other, the rotation's tables
included; what a backend's kernels support beyond shapes is not in it. `Startup` takes
one step of `serve.main` and `build_app_from_runtime` per action; a flag is
chosen where the code reads it; `Relaunch` builds a second application in the
same process.

### Evaluation – reported numbers

Client threads, the loop thread, the admission barrier, the observer, warm-up
and measured runs, the two scrapes of an external server, either of which may
be lost, and the gate against the reference, for the surfaces `engine`, `asgi`,
`network` and `external`. On `asgi` there is no server to turn an exception of
the application into a response: it ends the workload unless its client catches
it, and there is no report.
Numerics may depend on how many rows a pass computes: a shape gives the
reference's token, a tie of it, or another one.

## 3. Runs

| Run | What it asks | Bounds | Result |
|---|---|---|---|
| `cache` | sharing, copy-on-write, cache, drafts, windows | 3 blocks of 2, 2 requests, 3 entries (cap 2), 2 tokens, tables to 4, writes to 3 | holds |
| `passes` | the pass under six engines | 3 requests of two shapes each, pools of 3 to 6 blocks | holds |
| `mixed` | one group id, two prompts | 3 requests, 4 blocks of 2 | violated |
| `window` | deferred decode implements the reference loop | 2 requests, windows of 2, three shapes of answer | holds |
| `donate` | window and prefix cache together | windows of 4, blocks of 2 | violated |
| `sampling` | draws, filters, drafts | 2 requests, each pair of 6 surfaces, 3 tokens, 8 points of mass, answers to 4 | holds |
| `serve` | answers, failures, one restart | 2 handlers, answers to 2 tokens, 2 starts | holds |
| `text` | from the body to the last event | 7 sound bodies and 20 with one defect, 6 tokens and the end, answers to 4 tokens | holds |
| `routes` | every route of prefill and decode | 3 requests, 2 engines, 3 settings, blocks of 2, tables to 4, windows to 2, 2 plans, 4 launches ahead | holds |
| `kernels` | every backend and mode | 3 requests to 3 positions, blocks of 2, 2 or 4 query heads over 1 or 2 KV heads | holds |
| `startup` | every flag, every export | 9 accepted and 21 refused exports, 2 applications | holds |
| `evaluation` | four surfaces | 2 or 3 clients, answers to 3 tokens, up to 2 measured runs, one fault | holds |

Deadlock checking is off except in `kernels`: each other system may be done.

**Why the bounds are enough.** In `cache`, two requests and an entry can share
one block and compete for a pool that any two of them exhaust; blocks of two
positions have a full and a partial last block; a draft of three crosses a
block boundary and is rejected on either side of it; three entries over a cap
of two make supersession, LRU overflow and eviction all happen. `passes` has
one engine per way to use the pool: whole prompts in batches; worst cases
reserved, with groups, chunks and drafts; a cache that over-holds blocks;
evictions of single requests, of siblings that share what they hold, and by a
leader whose followers wait. Three requests, of which no two fit, make victim,
block-needer and bystander distinct. `window` has windows of two, the smallest
in which a step is neither first nor last, and answers long enough for a
window, one staged behind it and one more. `serve` has two clients, because
what one's disconnect does to the other is the question. `text` has stop
strings that overlap themselves and one another, that contain a character of
two bytes, and tokens that carry half of one. `routes` pins three positions of
four, so that a window that runs past the pinned rows is refused by the graphs;
it has an exact and a padded batch, and a second engine to take the shared
buffers between two steps of the first. `startup` breaks each thing the loader
checks once, and two of the exports it accepts have heads of odd width, 1 and 3.
`evaluation` has a pair whose batch differs from its members alone, which is what the gate and the barrier are about.

**Named bounds.** `MaxLen`, `MaxWrite` (PagedKV), `MaxTokens`, `MaxStarts`
(AsyncEngine), `MaxPreempts` (Sampler), `MaxBudget`, `MaxLen`, `MaxPlans`,
`MaxQueue` (Forward), `MaxLen` (Attention), `MaxLaunches` (Startup); the others
come from the sizes of the requests.

**Properties** are stated, with the code behaviour they are about, at the end of
each module. Those with the most behind them: `ReadsOwnHistory`,
`CachedPrefixExact` and `AppendCostExact` (whatever was shared, copied, rolled
back and reused; the dry run against the real append); `NeverDies`,
`TablesExact`, `WaitingHoldNothing` and `DecodeAtOwnPosition` (through
evictions between chunks); `Completion` (no livelock); `DecodesGreedily` and
`InFlightExact` (a window late, nothing lost); `DrawsAlone`; `FailedNotHung`,
`Answered`; `Reassembles`, `CutsAtStop`; `OwnHistory`, `RowsPinned`,
`OwnPlanInfo` (buffers against the plan that filled them); `FusedAsChosen`;
`HeadlineEarned`.

**Fairness.** `WF(Pass)` in DecodeWindow, and the same in Engine with `Busy`
written out for `ENABLED <<Pass>>_vars`: `run()` and the serving loop call
`step()` as long as there is work. In TextStream the handler is fair (the event
loop runs ready coroutines; `Ready` is written out), and so is the loop that
rejects or produces. In AsyncEngine: weak fairness of each loop thread (the
operating system schedules it), of each handler's `Receive`, and of `Start` and
`Join` (a paused server is resumed). Clients, `Stop`, disconnects and arrivals
are not fair. `Completion` assumes finitely many disconnects. `Answered`
excludes a server that is shut down and the stranded stash of section 4.

## 4. Where the code departs from what is said of it

Two runs show it:

* `donate` – the throwaway steps of a request that met its end-of-sequence
  token lengthen its table. `_donate_to_prefix_cache` floors `table.length`
  and slices that many tokens, which do not exist; `donate` raises, and the
  exception ends the serving loop. It takes `prefix_cache` with
  `decode_window_size > 1`, which is the default.
* `mixed` – requests that share a prefix-group id and meet in one pass with
  different prompts make `_prefill_shared_group` raise inside `step()`: the
  loop ends for every client, where the documentation only restricts which
  requests share blocks.

Seen while modelling, and excluded by an assumption or by the statement of a
property, not by the models' behaviour elsewhere:

* `serving/engine_decode.py:204` – a staged flush survives its finished batch
  when no work is left, and is compared with the next batch by id. Callers that
  use an id again are exposed; the server's ids are unique.
* `serving/server/async_engine.py:247` – the drain of one client's abort may
  finish another client's request. Its last tokens are stashed for the next
  step, but the scheduler is empty and the loop never steps (`Stranded`).
* `serving/server/async_engine.py:109` – `stop()` gives up after five seconds
  and forgets the thread; `start()` clears the flag that would have ended it.
* `scheduler/scheduler.py:157` – a resumed request is the newest one besides
  the newcomer that needs a block, so with arrivals for ever it can be evicted
  for ever.
* `serving/server/stop.py` – an incomplete character that is flushed at the end
  of a stream is not matched against the stop strings any more, and may
  complete one (`CutsAtStop` leaves this end out).
* `model/pretrain_bundle_loader.py:62` – the loader takes any width of a head.
  The rotation multiplies by tables of twice half that width, rounded down
  (`model/layers.py:68`), so a bundle whose width is odd (an embedding of 6 for 2
  heads) is loaded and each of its forward passes raises. `ForwardRuns` and its
  theorem say that this is the only such case.
* `model/fused_elementwise.py:41` – a second application in the process changes
  the eager kernels of the first; `FusedAsChosen` is about graphs and the
  application under construction.
* `../scripts/esme_serving_eval.py:1712` – a first scrape that was lost counts as
  empty, and the row then reports the server's lifetime. `OnlyMeasured` and
  `BucketHolds` ask for that scrape.
* `docs/serving-eval.md` – the documented server command combines the prefix
  cache with preemption, which the engine refuses.
* `serve.py:211` – the warm-up asks for one token, which the prefill gives; it
  runs no decode pass.

## 5. Proofs

Every theorem holds for all values of the constants that meet the assumption of
its module, named below; TLC evaluates the assumptions in each run.

### The memory: PagedKVProofs

`PoolAssumption`: finite sets, positive block size and cap, more entry
identities than the cap. The bounds of the runs may have any value.

* `Accounting`: `Spec => []IInv`; from it `TypeCorrect`, `CountsExact`, `NoLeak`
  and `WindowSlotsStayPrivate` (`TypeOK`, `RefcountExact`, `FreeIffUnowned`,
  `PlannedSlotsPrivate`).
* `ContentExact`: `Spec => []Content`; from it `RequestsReadOwnHistory` and
  `CacheHoldsItsKeys` (`ReadsOwnHistory`, `CachedPrefixExact`).
* `DryRunForeseesAppends`: `AppendCostExact`.

*Accounting.* `RefcountExact` alone is not inductive: an append into a shared
block keeps the counts only if the fresh blocks are really free
(`FreeIffUnowned`), pairwise different and not in the table (injectivity, part
of `RefcountExact`), and if the indices copied and grown are those of the table
(`TablesCover`: a table has the blocks its tokens need, an entry exactly so). A
planned step keeps them only because its window's blocks are private
(`PlannedSlotsPrivate`), which survives the other actions because a fork, a hit
and a donation touch only requests outside a window. `IInv` is the conjunction
of these. The module's first part has what the helpers give: the counts and the free
set after a release, what an eviction leaves, the range of a patched table, the
length of a match.

*Contents.* `Content` speaks of the slots of every owner at once, by table index
and offset, up to the tokens the owner was filled with. A write is safe for all
the others because `AppendKV` copies the blocks it shares, so that after it a
written block has one holder: this is where the accounting is used. A rollback
is safe because `Content` says nothing of slots behind the last token, a
donation because the entry's key is a prefix of the text of the table it shares.

*Cost.* The dry run is computed from counts before the append, the append
evicts, and an eviction changes counts. That both agree needs two more facts
(`Fill`): a block is full in every table that holds it or in none, so an entry,
whose blocks are full, never shares a block somebody still appends to; and the
blocks a table has behind its last token are its own.

### The engine pass: EngineProofs

`EngineAssumption`: finitely many requests; any set of engines with a positive
pool and block size, any chunk, draft and cache cap, preemption and cache not
together (the constructor refuses that), and any load: prompts and caps of at
least one token, any groups and texts, with or without disconnects.

* `EngineInvariant`: `Spec => []IInv`
* `EngineNeverDies`: `SamePrompts => (Spec => []NeverDies)`. The hypothesis is
  the one of the property: without it the run `mixed` ends in the `ValueError`.
* `TablesStayExact`, `WaitersHoldNothing`, `DecodesLandRight`: `TablesExact`,
  `WaitingHoldNothing`, `DecodeAtOwnPosition`.

TLC checked `IInv` on the six engines of `passes` before it was proved.

*The memory* (the first half). The lemmas speak of a memory, not of a
phase. `Sound` and `Exact` are what every operation keeps: a table has the
blocks of its positions; a block is full in every table that holds it or in
none (`Level`), and a cached block is full (`CachedWhole`). So only the last,
partial block of a table can be copied by an append, it is never in the cache,
and what was counted before the cache gave blocks back is what the append takes.
`RoomForShare` is reserve mode's promise: when every table is within its share
and the shares are within the pool, an append within its own share finds its
blocks, the copy of a shared one included, because a block that is copied is
counted in the share of another table. `Grown` says what an append changes,
`Funded` carries the promise through a list of appends.

*The queues and the lists of a pass.* `NeverDies` needs to know
at each call what the lists that `step()` made still are after the evictions of
the calls before:

* `Queued`, `Promised`: nobody is queued twice, who waits holds nothing, and the
  budgets add up to `committed`, which reserve mode keeps within the pool.
* `Progress`: a table never runs ahead of its sequence and is level with it when
  its request may decode. `DecodeAtOwnPosition` follows.
* `Resumes`: admission counted the whole footprint of everyone it let in, so
  what the resumed requests still miss and the rest of the counted room are free
  together. A recompute therefore never evicts, and the list that
  `_resume_requests` iterates does not change under it.
* `Prefills`: requests on the list that still run have no token yet, a group is
  on the list whole or not at all, and at most one of a group holds blocks:
  this is what `Leaders` relies on, and it survives the eviction of a leader
  half-way through its chunks, because an eviction empties the table.
* `Decodes`: the decode batch is ready or, under preemption, what it needs is
  free from `RoomDone` on; a verification of one request does not raise what
  the others need (`DemandShrinks`).

A prefill that cannot evict any more runs alone with an empty pool around it,
and `add_request` took it only because its whole answer fits one (`LoneCovers`).

### Deferred decode: DecodeWindowProofs

`WindowAssumption`: finitely many requests, windows of at least two steps,
positive pool and block sizes, prompts and caps of at least one token.

* `WindowInvariant`: `Spec => []Inv`
* `RowsInFlightAreExact`: `InFlightExact`
* `DeferralRefinesGreedyDecode`: `Spec => Greedy!Init /\ [][Greedy!Next]_(Greedy!vars)`,
  the safety part of `DecodesGreedily`: each step of a deferred, pipelined,
  drained or aborted decode is an iteration of the reference loop for some
  requests, or nothing to the client.

The argument. `InFlightExact` is about totals; why they stay right is where each
row is. `Flight` gives the table's length as prompt, recorded, staged and open
rows, says that those rows continue the record by index (so that a flush
records the right tokens and `Feed` finds the right one), and that a window's
budget counts what is staged in front of it. `Batched` says that an open
window's members run, that the flush in front of it has the same batch, and
that a member of a flush left behind runs or is finished. `Queued` keeps the
waiting queue, the running set and the lists of a pass apart, `Promised` splits
the record into sent, returned and stashed; at most one of the last two is in
use, so that a drain cannot overtake an earlier one. `Reserved` is what admission
promised. For the refinement, what a pass delivers for one request is a run of
the next indices that stops at its end (`Recorders` are the requests that got
any), so the step is `Greedy`'s; a finished or abandoned request gets nothing.

### The serving loop: AsyncEngineProofs

`LoopAssumption`: finitely many clients, at least one token and one start.

* `Placement`: `Spec => []IInv`; from it `QueuesClosedOnce` and `NobodyHangs`
  (`ClosedOnce`, `FailedNotHung`).
* `OneThreadSteps`: no two threads are in the loop at a time. It rests on the
  guard of `Join`, that a step ends within the join's timeout.
* `RecordedTokensArrive`, `AnswersAreWhole`: `NothingLost` and `WholeAnswers`.

The argument. `FailedNotHung` speaks of queues only, and a queue is closed by
whoever takes the stream from where it was. So the invariant says where each
stream is (`Placed`): submitted, tracked or ended, one of the three as long as
its client waits, and never two of them; a queue that has not ended may be
closed once more, which gives `ClosedOnce`. `Abandoned` says that a dead loop
tracks nobody and has no submissions: it survives the gap between `Crash` and
`FailSubmissions` only because no other thread drains in between (`OneLoop`).
A burst is never mistaken for an end because dispatched bursts hold a token.

*Tokens.* `Flow`, on top of `IInv`: while a client listens, what was recorded
for it is with it, in its queue, in the stash, or in the result of a thread that
has yet to dispatch it (`Balanced`, a sum over threads and one over a queue);
and the queue of a client that waits concludes as it should (`Concludes`): the
burst that finishes the answer brings all that is still missing and has the end
right behind it, and an end without such a burst belongs to an error. That a stream is not tracked twice (`Placed`) is what makes
a dispatch count once.

### The text stream: TextStreamProofs

`StreamAssumption`: tokens are lists of `Chars`, the end token is none of them,
and stop strings are lists of `Chars`, any number and length of them, the empty
one included. The vocabulary, the length of answers, the bodies and what else
the engine and the tokenizer answer are any.

* `TextStreamInvariant`: `Spec => []IInv`
* `TextReassembles`, `AnswersCutAtStop`, `RequestsCountedOnce`,
  `AcceptedAreTaken`: `Reassembles`, `CutsAtStop`, `CountedOnce`,
  `AcceptedIsTaken`.

TLC checked `IInv` on the instance of `text` before it was proved.

*The decode window* (`Seams`). The detokenizer never decodes all tokens, so what
`Reassembles` says of `Decode(ids)` has to come from windows. `DecodeJoin` is the
reason: a text that ends in no broken character decodes the same whatever
follows, so a list of tokens may be cut behind it, and both cuts, `prefix` and
`read`, are such places. What lies behind `read` is broken at its end, which is
why the flush at the end of a stream adds exactly what is missing.

*The stop strings* (`Held`, `Concluded`). Only what was held back and the new text
is searched. That this finds the first stop string of the whole text needs that
none is complete in what was released and held back, and that every suffix of it
that begins one is within what is held back: then a stop string in the longer text
cannot begin in what was released (`HitsMove`), nor can a tail of it that begins
one (`TailsMove`), so that `Consume` of the pieces says what `Consume` of the
whole would (`ConsumeMoves`). A stop string that the flushed character
completes is the exception that `CutsAtStop` names; `Concluded` says that it is
the only one.

*The two validations* (`Accepted`). Each list of checks is unfolded to the checks
that the engine repeats (`AcceptedPasses`).

### Forward passes and planned steps: ForwardProofs

`ForwardAssumption`: requests are listed once, each with an engine, a prompt of
at least one token and a leader: a listed request of the same engine whose
prompt has the same length and which leads itself (one that forks from nobody
is its own leader). Sizes and capture sizes are positive, as `decode_graph.py`
and `grouped_decode_graph.py` insist. Engines, batches, windows, wrappers and
runners are any.

* `RunsReadOwnPlan`: `OwnPlanInfo`
* `RowsStayPinned`: `RowsPinned`
* `KeysStayIntact`: `KeysIntact`
* `RowsReadOwnHistory`: `OwnHistory`.

*The fence* (`Sent`). No wrapper ever loses its own info, because every queued
copy still brings the info of the launch that sent it: the host overwrites a
wrapper's staging memory only when no copy of it is queued.

*The buffers* (`Pinned`). `RowsPinned` is not inductive: a runner adds one to
every row of its buffer, so what counts is whose rows those are. Windows have
identities of their own. A runner that a window names holds, row by row, that
window's base plus the steps it took, and the steps alone in the pad rows,
because the first step of a window overwrites every row and a later one runs
only where `Takes` finds the window's name. `Takes` also checked the whole
window against the pinned rows at its first step, so the steps left fit. No window is named by both the
shared and a grouped runner, so the steps of one cannot pass the other by.

*The keys and what is read of them* (`Stored`, beside `Pinned`). TLC checked
`Stored` on the instance of `routes` before it was proved. Neither property is
inductive: both speak of slots, and what protects a slot is who holds its block.

* `Sound`, of each engine's memory: the free list and the tables have no block in
  common and none twice, a table covers and keys its length, and each block of
  a table is `Alone` (in no other table of the engine) or `Begun` (a position
  the table already has falls in it). From the last follows what `prepare_write`
  takes for granted: an append can meet a shared block only where it starts, and
  there in its middle, so the `ValueError` for a shared prompt block is never
  raised, and one copy per request pays for the pass. `append_cost` counts the
  blocks and the copies of a batch as one sum; `TurnsPay` says that as
  its members are served in turn the pool always has what the others still owe.
  After both turns (`Ready`) the slots from a table's length on are its own, so
  that the write of one request is no write to another (`SlotsApart`).
* `Planned`, of an open window: its plan names, row by row, the slots and the
  pages of the current tables (`RowPlanned`, `PagePlanned`), which nobody shares.
  Such a window may skip copy-on-write. Passes of other requests do not disturb
  it: they leave the tables of its rows alone, and what they reserve or copy
  comes from the free list. Each step writes the next slot of every row and its
  completed plan is again where the tables are (`StepPlanned`).
* The rows of a step find their slots in packed histories by cumulative lengths
  or in pages by `indptr`; `PackedRow` and `SliceIs` say that both are the
  row's own. That they rotate by the right position, from whichever
  buffer, is what `Pinned` is for.

### Start-up: StartupProofs

`StartupAssumption`: positive sizes. Flags, exports and state dicts are any.

* `GraphsKeepTheirKernels`: `FusedAsChosen`, by `Kernels`: graphs belong to
  applications that made their choice, and from the choice to the end of the
  build the process-wide switch is the choice of the last one.
* `CapturesLeavePoolWhole`: `PoolWhole`, by `Pools`: what the pool misses is
  held by throw-away tables, and captured and pending buckets are together those
  a whole pool can hold. It needs that the two ways the code rounds up
  (`-(-n // d)` and `(n + d - 1) // d`) agree.
* `AutosAreNeverRefused`: `AutosNeverClash`, by `Autos`.
* `LoadedBundlesRun`: `ForwardRuns`: the checks of the loader imply, for any
  number of layers, that each weight the forward pass looks up was copied, once,
  in the shape its product needs. What is left is the rotation, which no check
  is about: its tables fit exactly if the heads have an even width
  (`TwiceTheHalf`), so the theorem is an equivalence.

### How the library limits the proofs

The folds of the community modules are recursive functions: a sum is first shown
to be independent of the order of the fold, by the least counterexample among
the cardinalities (`WFMin`), since induction over an operator is not available.
From then on `MapThenSumSet` is used through its lemmas. `SelectSeq`, whose
definition is not among those tlapm can expand, and `ENABLED` stay opaque.

### Only model-checked

* Sampler: `DrawsAlone`, `NucleusMinimal`, `DraftExact`; `Draft` is checked
  against its definition on all contexts a run reaches, because the recursive
  functions it is made of cannot be unfolded for all inputs without induction.
* Attention: `SeesOwnPast`. Evaluation: `ReplaysAgree`, `OnlyMeasured`,
  `HeadlineEarned`, `BucketHolds`.
* Liveness (`Completion`, `Answered`, `Ends`, the fairness part of
  `DecodesGreedily`) rests on `ENABLED`, which TLAPS does not reason about.

## 6. Plan

Proofs that are left, in this order:

1. Evaluation: `OnlyMeasured`, an invariant over the list of outcomes.
2. Attention: `SeesOwnPast`, whose paging and packing are the ones that
   `CollectionLemmas` now has facts for.

## 7. Not modelled

* Floating-point work: projections, norms, the MLP, the softmax, the fused
  elementwise kernels, error statistics of the validation scripts.
* Formats and looks: JSON shapes, health and model routes, the web UI, banner,
  logging, uvicorn, plots and report layout.
* Trace events and profiles: observers, except that tracing turns deferred
  windows off.
* Cache hit and miss counters.
* Test fixtures and the offline comparison of benchmark reports.
* The Modal scripts, conversion and the visualizer: remote runs that time fixed
  sequences of calls, one-off conversions, a static viewer. No state of the
  system outlives them.

`PROJECT.json` lists each component with its status and reason.
