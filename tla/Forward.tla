------------------------------ MODULE Forward ------------------------------
(***************************************************************************)
(* The model's forward passes over the paged cache: prefill, batched       *)
(* decode, and the planned decode step with its three routes (the grouped  *)
(* graph of an exact batch, the padded bucket graphs, the eager step).     *)
(* Engines built on one model have caches of their own and share the       *)
(* model's bucket graphs and its attention wrapper.                        *)
(*                                                                         *)
(* Tensors are abstracted to where they come from: a slot holds the token  *)
(* position whose keys were written there, and a pass is judged by the     *)
(* positions each of its rows rotates by and attends to.  Every layer      *)
(* writes and reads the same slots, so one layer stands for all.           *)
(***************************************************************************)
EXTENDS Integers, Sequences, FiniteSets, SequencesExt, FiniteSetsExt, Lists

CONSTANTS
  Engines,     \* engines built on the one model
  Requests,    \* requests, in the order the engines list them
  EngineOf,    \* the engine that serves a request
  Prompt,      \* prompt length of a request
  Leader,      \* the request whose prompt a request shares; itself when alone
  Settings,    \* records [model, backend, buckets, grouped, graphs], see setting
  MaxPosition, \* RoPE rows the graphs have pinned
  BlockSize,   \* positions per block
  NumBlocks,   \* blocks of each engine's pool
  MaxBudget,   \* bound: steps of a decode window
  MaxLen,      \* bound: positions of a table
  MaxPlans,    \* bound: windows opened
  MaxQueue     \* bound: attention launches the host is ahead of the device

ASSUME ForwardAssumption ==
  /\ Requests \in Seq(Range(Requests)) /\ IsInjective(Requests)
  /\ \A r \in Range(Requests) :
       LET l == Leader[r] IN
       /\ EngineOf[r] \in Engines /\ Prompt[r] \in Nat \ {0}
       /\ l \in Range(Requests) /\ Leader[l] = l
       /\ EngineOf[l] = EngineOf[r] /\ Prompt[l] = Prompt[r]
  /\ {BlockSize, NumBlocks, MaxBudget, MaxPosition} \subseteq Nat \ {0}
  /\ \A s \in Settings : s.buckets \cup s.grouped \subseteq Nat \ {0}

VARIABLES
  setting,   \* model: "bundle" or "qwen" (no packed prefill and no planned windows);
             \* backend: "naive", "sdpa" or "flashinfer" (attends to pages directly);
             \* buckets, grouped: batch sizes of the model's and the engine's runners;
             \* graphs: a grouped runner replays a graph with a wrapper of its own
  blocks,    \* BlockTable.blocks of each request
  length,    \* BlockTable.length
  free,      \* BlockAllocator._free of each engine
  gone,      \* requests that were released
  kv,        \* PagedKVCache.kv of each engine: slot -> the position written there
  plan,      \* the DecodeWindowPlan of each engine's open window
  plans,     \* plans built so far: their identities
  bucket,    \* _BucketState.positions of the model's DecodeGraphRunner, by size
  exact,     \* the same of each engine's grouped runners
  active,    \* _active_plan of the model's runner
  owned,     \* _active_plan of each engine's grouped runners
  stream,    \* device work queued: copies of plan info, and the runs that use it
  uploaded,  \* wrappers whose plan info on the device is that of the launch that sent it
  misread,   \* wrappers that ran with the plan info of another launch
  astray     \* rows of passes that attended to anything but their own history

tables  == <<blocks, length, free, kv, gone>>
runners == <<bucket, exact, active, owned>>
device  == <<stream, uploaded, misread>>
vars    == <<setting, tables, plan, plans, runners, device, astray>>

AllRequests == Range(Requests)
Native == setting.backend = "flashinfer"
NoPlan == [id |-> 0]
NoKV   == <<>>

BlocksFor(n) == (n + BlockSize - 1) \div BlockSize

\* What position p of r holds: a shared prompt is the leader's.
Token(r, p) == <<IF p < Prompt[r] THEN Leader[r] ELSE r, p>>
Text(r, n)  == [p \in 1..n |-> Token(r, p - 1)]

\* physical_slot of a 0-based position in a table of blocks bs.
Slot(bs, pos) == bs[pos \div BlockSize + 1] * BlockSize + (pos % BlockSize)

-----------------------------------------------------------------------------
(* The tables, as a record [free, blocks, kv] of one engine *)

Memory(e) == [free |-> free[e], blocks |-> blocks, kv |-> kv[e]]

RefsIn(e, b) ==
  Cardinality({r \in AllRequests : EngineOf[r] = e /\ b \in Range(blocks[r])})

Take(m, n) == SubSeq(m.free, Len(m.free) - n + 1, Len(m.free))
Left(m, n) == SubSeq(m.free, 1, Len(m.free) - n)

\* The blocks that r's table misses for count positions more.
Missing(m, r, count) == Max({0, BlocksFor(length[r] + count) - Len(m.blocks[r])})

Reserve(m, r, count) ==
  LET n == Missing(m, r, count) IN
  [m EXCEPT !.free = Left(m, n), !.blocks[r] = @ \o Take(m, n)]

\* The block that r's next token falls in.
Landing(r) == length[r] \div BlockSize + 1

\* prepare_write: the block an append starts in is copied when r's siblings hold it too.  The
\* later ones are r's own: what two tables share was begun in both (Stored in ForwardProofs).
PrepareWrite(m, r) ==
  LET i   == Landing(r)
      old == m.blocks[r][i]
      new == Last(m.free)
  IN  IF ~ \E q \in AllRequests \ {r} : EngineOf[q] = EngineOf[r] /\ old \in Range(m.blocks[q])
      THEN m
      ELSE [m EXCEPT !.free = Front(@), !.blocks[r][i] = new,
                     !.kv = [s \in DOMAIN @ |->
                               IF s \div BlockSize = new
                               THEN @[old * BlockSize + (s % BlockSize)] ELSE @[s]]]

\* The same for each member of a batch in turn.
ReserveAll(m, batch, count) ==
  LET after[n \in 0..Len(batch)] ==
        IF n = 0 THEN m ELSE Reserve(after[n - 1], batch[n], count[batch[n]])
  IN  after[Len(batch)]

Each(batch, count) == [r \in Range(batch) |-> count]

PrepareAll(m, batch) ==
  LET after[n \in 0..Len(batch)] ==
        IF n = 0 THEN m ELSE PrepareWrite(after[n - 1], batch[n])
  IN  after[Len(batch)]

\* Keys of the tokens toks go into the slots of the same rank.
Written(store, slots, toks) ==
  [s \in DOMAIN store |->
     IF s \in Range(slots) THEN toks[CHOOSE n \in DOMAIN slots : slots[n] = s] ELSE store[s]]

\* append_cost: the blocks a pass takes from the pool, for which the engine has made room.
HasRoom(e, batch, count) ==
  LET need == [r \in Range(batch) |->
                 Missing(Memory(e), r, count)
                   + IF \E i \in DOMAIN blocks[r] : i = Landing(r) /\ RefsIn(e, blocks[r][i]) > 1
                     THEN 1 ELSE 0]
  IN  MapThenSumSet(LAMBDA r : need[r], Range(batch)) <= Len(free[e])

Keep(e, m) ==
  /\ free' = [free EXCEPT ![e] = m.free]
  /\ blocks' = m.blocks
  /\ kv' = [kv EXCEPT ![e] = m.kv]
  /\ UNCHANGED gone

Grown(batch, count) ==
  length' = [r \in AllRequests |-> length[r] + IF r \in Range(batch) THEN count ELSE 0]

\* A row of a pass: its request, the position it rotates by, what it attends to.
Row(r, rope, reads) == [request |-> r, rope |-> rope, reads |-> reads]

Judge(rows) ==
  astray' = astray \cup {row \in rows : row.reads # Text(row.request, row.rope + 1)}

-----------------------------------------------------------------------------
(* The attention wrapper: plan() and the run that follows it *)

\* mutant: plan() does not wait for the copy
Unfenced(w) == TRUE

\* A wrapper's plan info is overwritten only when the device has taken its copy.
Fenced(w) == \A n \in DOMAIN stream : stream[n].op = "copy" => stream[n].wrapper # w

(* plan(): the plan info goes to the wrapper's one pinned buffer, where a   *)
(* copy still queued will find it, then its own copy and run are queued.   *)
Launch(w) ==
  LET overwritten == [n \in DOMAIN stream |->
                        IF stream[n].wrapper = w THEN [stream[n] EXCEPT !.own = FALSE] ELSE stream[n]]
  IN
  IF ~Native THEN UNCHANGED device
  ELSE /\ Fenced(w) /\ Len(stream) + 2 <= MaxQueue
       /\ stream' = overwritten \o << [op |-> "copy", wrapper |-> w, own |-> TRUE],
                                       [op |-> "run", wrapper |-> w, own |-> TRUE] >>
       /\ UNCHANGED <<uploaded, misread>>

\* The device works through its stream in order, whenever it gets to it.
Execute ==
  /\ stream # <<>>
  /\ LET next == Head(stream) IN
     IF next.op = "copy"
     THEN /\ uploaded' = IF next.own THEN uploaded \cup {next.wrapper}
                                      ELSE uploaded \ {next.wrapper}
          /\ UNCHANGED misread
     ELSE /\ misread' = misread \cup ({next.wrapper} \ uploaded)
          /\ UNCHANGED uploaded
  /\ stream' = Tail(stream)
  /\ UNCHANGED <<setting, tables, plan, plans, runners, astray>>

-----------------------------------------------------------------------------
(* Prefill and classic decode *)

(* How many of n keys query row i of q rows may see.  The reference masks   *)
(* by one rule; sdpa is causal, unmasked or masked by the lengths.         *)
CausalMask(q, n, i) == n - q + i

SdpaMask(q, n, i) == IF q = n THEN i ELSE IF q = 1 THEN n ELSE n - q + i

Visible(q, n, i) ==
  IF setting.backend = "sdpa" THEN SdpaMask(q, n, i) ELSE CausalMask(q, n, i)

(* Several tokens of one request: a prompt, a slice of it, or a draft to   *)
(* verify.  Keys go to the table's end, then the whole history is read.    *)
Contiguous(r, count) ==
  LET e     == EngineOf[r]
      m     == PrepareWrite(Reserve(Memory(e), r, count), r)
      start == length[r]
      slots == [n \in 1..count |-> Slot(m.blocks[r], start + n - 1)]
      store == Written(m.kv, slots, [n \in 1..count |-> Token(r, start + n - 1)])
      read  == [p \in 1..(start + count) |-> store[Slot(m.blocks[r], p - 1)]]
  IN
  /\ HasRoom(e, <<r>>, count)
  /\ Keep(e, [m EXCEPT !.kv = store])
  /\ Grown(<<r>>, count)
  /\ Judge({Row(r, start + i - 1, SubSeq(read, 1, Visible(count, start + count, i))) :
                i \in 1..count})
  /\ UNCHANGED <<setting, plan, plans, runners, device>>

\* prefill: one prompt alone; its rows attend to the keys just computed.
PrefillAlone(r) == length[r] = 0 /\ Contiguous(r, Prompt[r])

PrefillChunk(r, size) ==
  /\ length[r] < Prompt[r]
  /\ Contiguous(r, Min({size, Prompt[r] - length[r]}))

\* decode_tokens: the last token and its draft.
DecodeTokens(r, count) == length[r] >= Prompt[r] /\ Contiguous(r, count)

\* Where lists of these lengths start, and the last one ends, when they are packed end to end.
Starts(lengths) ==
  [n \in 1..(Len(lengths) + 1) |-> MapThenSumSet(LAMBDA i : lengths[i], 1..(n - 1))]

\* Packed prompts are attended segment by segment, between consecutive offsets.
Segment(packed, offset, n, row) == SubSeq(packed, offset[n] + 1, offset[n] + row)

\* prefill_many: the prompts end to end, each row attending inside its own segment.
PrefillMany(e, batch) ==
  LET m       == ReserveAll(Memory(e), batch, Prompt)
      offset  == Starts([n \in DOMAIN batch |-> Prompt[batch[n]]])
      RowOf(k) == CHOOSE n \in DOMAIN batch : offset[n] < k /\ k <= offset[n + 1]
      Pos(k)  == k - offset[RowOf(k)] - 1
      packed  == [k \in 1..offset[Len(batch) + 1] |-> Token(batch[RowOf(k)], Pos(k))]
      slots   == [k \in DOMAIN packed |-> Slot(m.blocks[batch[RowOf(k)]], Pos(k))]
      room    == [r \in Range(batch) |-> BlocksFor(Prompt[r])]
  IN
  /\ \A n \in DOMAIN batch : length[batch[n]] = 0
  /\ MapThenSumSet(LAMBDA r : room[r], Range(batch)) <= Len(free[e])
  /\ Keep(e, [m EXCEPT !.kv = Written(m.kv, slots, packed)])
  /\ length' = [r \in AllRequests |-> IF r \in Range(batch) THEN Prompt[r] ELSE length[r]]
  /\ Judge({Row(batch[RowOf(k)], Pos(k), Segment(packed, offset, RowOf(k), Pos(k) + 1)) :
                k \in DOMAIN packed})
  /\ UNCHANGED <<setting, plan, plans, runners, device>>

\* A sibling takes the leader's table in the pass that prefilled the leader: nothing is
\* reserved past the prompt yet.
Fork(r) ==
  LET l == Leader[r] IN
  /\ r # l /\ r \notin gone /\ length[r] = 0 /\ length[l] = Prompt[l] /\ plan[EngineOf[r]] = NoPlan
  /\ Len(blocks[l]) = BlocksFor(Prompt[l])
  /\ blocks' = [blocks EXCEPT ![r] = blocks[l]]
  /\ length' = [length EXCEPT ![r] = length[l]]
  /\ UNCHANGED <<setting, free, kv, gone, plan, plans, runners, device, astray>>

\* mutant: the reads are planned from the tables as they were before copy-on-write
ReadFromReserved(e, batch) == ReserveAll(Memory(e), batch, Each(batch, 1))

\* The tables the read plan is built from.
ReadFrom(e, batch) == PrepareAll(ReserveAll(Memory(e), batch, Each(batch, 1)), batch)

\* decode_many: one token for each request of the batch.
DecodeMany(e, batch) ==
  LET m     == PrepareAll(ReserveAll(Memory(e), batch, Each(batch, 1)), batch)
      slots == [n \in DOMAIN batch |-> Slot(m.blocks[batch[n]], length[batch[n]])]
      store == Written(m.kv, slots, [n \in DOMAIN batch |-> Token(batch[n], length[batch[n]])])
      from  == ReadFrom(e, batch)
      reads(r) == [p \in 1..(length[r] + 1) |-> store[Slot(from.blocks[r], p - 1)]]
  IN
  /\ plan[e] = NoPlan
  /\ HasRoom(e, batch, 1)
  /\ Launch(0)
  /\ Keep(e, [m EXCEPT !.kv = store])
  /\ Grown(batch, 1)
  /\ Judge({Row(r, length[r], reads(r)) : r \in Range(batch)})
  /\ UNCHANGED <<setting, plan, plans, runners>>

\* free(); what is left in a block nobody owns means nothing to its next owner.
Free(r) ==
  LET e == EngineOf[r]
      returned == Without(blocks[r], {b \in Range(blocks[r]) : RefsIn(e, b) > 1})
  IN
  /\ blocks[r] # <<>>
  /\ plan[e] # NoPlan => r \notin Range(plan[e].batch)
  /\ free' = [free EXCEPT ![e] = @ \o returned]
  /\ kv' = [kv EXCEPT ![e] = [s \in DOMAIN @ |-> IF s \div BlockSize \in Range(returned) THEN NoKV ELSE @[s]]]
  /\ blocks' = [blocks EXCEPT ![r] = <<>>]
  /\ length' = [length EXCEPT ![r] = 0]
  /\ gone' = gone \cup {r}
  /\ UNCHANGED <<setting, plan, plans, runners, device, astray>>

-----------------------------------------------------------------------------
(* The plan of a decode window: every step's slots, from the tables at its opening *)

Plus1(seq) == [n \in DOMAIN seq |-> seq[n] + 1]

\* Page metadata of the s-th step: where each row's pages start, the pages, the fill of the last.
PagesOf(m, batch, base, s) ==
  LET len(n) == base[n] + s
      pages  == [n \in DOMAIN batch |-> SubSeq(m.blocks[batch[n]], 1, BlocksFor(len(n)))]
  IN  [indptr  |-> Starts([n \in DOMAIN batch |-> BlocksFor(len(n))]),
       indices |-> FlattenSeq(pages),
       last    |-> [n \in DOMAIN batch |-> ((len(n) - 1) % BlockSize) + 1]]

BuildPlan(m, batch, budget, id) ==
  LET base  == [n \in DOMAIN batch |-> length[batch[n]]]
      width == Max(Range(base)) + budget
      table(n) == m.blocks[batch[n]]
  IN  [id |-> id, batch |-> batch, budget |-> budget, used |-> 0, base |-> base,
       writes |-> [s \in 1..budget |-> [n \in DOMAIN batch |-> Slot(table(n), base[n] + s - 1)]],
       history |-> [n \in DOMAIN batch |->
                      [c \in 1..width |-> IF c <= base[n] THEN Slot(table(n), c - 1) ELSE 0]],
       positions |-> base,
       cu    |-> Starts(Plus1(base)),
       total |-> Starts(Plus1(base))[Len(batch) + 1],
       pages |-> [s \in 1..budget |-> PagesOf(m, batch, base, s)]]

\* mutant: a table with shared blocks is planned all the same
AnyTable(e, batch) == TRUE

\* A plan writes without copy-on-write: it is refused when a block has another owner.
PlanSafe(e, batch) == \A r \in Range(batch) : \A b \in Range(blocks[r]) : RefsIn(e, b) = 1

Open(e, batch, budget) ==
  LET m == ReserveAll(Memory(e), batch, Each(batch, budget)) IN
  /\ plan[e] = NoPlan
  /\ PlanSafe(e, batch)
  /\ HasRoom(e, batch, budget)
  /\ Keep(e, m)
  /\ plans' = plans + 1
  /\ plan' = [plan EXCEPT ![e] = BuildPlan(m, batch, budget, plans + 1)]
  /\ UNCHANGED <<setting, length, runners, device, astray>>

\* begin_step: the step's slots join the history rows ...
Scattered(p) ==
  [p EXCEPT !.history = [n \in DOMAIN p.batch |->
                           [p.history[n] EXCEPT ![p.positions[n] + 1] = p.writes[p.used + 1][n]]]]

\* ... and the rows are packed end to end, each up to its position.
Packed(p) ==
  LET from   == Starts(Plus1(p.positions))
      row(k) == CHOOSE i \in DOMAIN p.batch : from[i] <= k /\ k < from[i + 1]
  IN  [k \in 0..(p.total - 1) |-> p.history[row(k)][k - p.cu[row(k)] + 1]]

\* Packed attention finds row n between the cumulative lengths it is handed.
PackedReads(p, n) == [k \in 1..(p.cu[n + 1] - p.cu[n]) |-> Packed(p)[p.cu[n] + k - 1]]

\* Native attention walks the row's pages, the last one up to its fill.
PageReads(p, n) ==
  LET pages == p.pages[p.used + 1]
      count == pages.indptr[n + 1] - pages.indptr[n]
      size  == (count - 1) * BlockSize + pages.last[n]
      own   == SubSeq(pages.indices, pages.indptr[n] + 1, pages.indptr[n + 1])
  IN  [k \in 1..size |-> Slot(own, k - 1)]

Reads(p, n) == IF Native THEN PageReads(p, n) ELSE PackedReads(p, n)

\* complete_step
Advanced(p) ==
  [p EXCEPT !.used = @ + 1, !.positions = Plus1(@),
            !.cu = [n \in DOMAIN @ |-> @[n] + n - 1], !.total = @ + Len(p.batch)]

-----------------------------------------------------------------------------
(* Which runner takes a step.  A runner holds the RoPE positions of the    *)
(* window it started, loaded at step 0 and advanced by its own segments.   *)

\* The smallest captured size that fits.
BucketFor(batch) ==
  LET fits == {b \in setting.buckets : b >= Len(batch)} IN IF fits = {} THEN 0 ELSE Min(fits)

InPinnedRows(p) == Max(Range(p.base)) + p.budget <= MaxPosition

\* A window is taken at its first step, and later only by the runner that started it.
Takes(p, held) == IF p.used = 0 THEN InPinnedRows(p) ELSE held = p.id

Route(e, p) ==
  IF Len(p.batch) \in setting.grouped /\ Takes(p, owned[e][Len(p.batch)]) THEN "grouped"
  ELSE IF BucketFor(p.batch) # 0 /\ Takes(p, active) THEN "bucket"
  ELSE "eager"

\* mutant: pad rows go on from where an earlier window left them
LoadedRows(p, held) ==
  IF p.used # 0 THEN held
  ELSE [n \in DOMAIN held |-> IF n <= Len(p.batch) THEN p.positions[n] ELSE held[n]]

\* The position buffer a step runs with; pad rows start each window at 0.
Loaded(p, held) ==
  IF p.used # 0 THEN held
  ELSE [n \in DOMAIN held |-> IF n <= Len(p.batch) THEN p.positions[n] ELSE 0]

Through(store, slots) == [k \in DOMAIN slots |-> store[slots[k]]]

\* One planned step: writes at the planned slots, reads what the plan says, by one route.
Run(e, p, rope) ==
  LET begun == Scattered(p)
      toks  == [n \in DOMAIN p.batch |-> Token(p.batch[n], length[p.batch[n]])]
      store == Written(kv[e], p.writes[p.used + 1], toks)
  IN
  /\ kv' = [kv EXCEPT ![e] = store]
  /\ Judge({Row(p.batch[n], rope[n], Through(store, Reads(begun, n))) :
                n \in DOMAIN p.batch})
  /\ plan' = [plan EXCEPT ![e] = Advanced(begun)]
  /\ Grown(p.batch, 1)
  /\ UNCHANGED <<setting, blocks, free, gone, plans>>

GroupedStep(e) ==
  LET p    == plan[e]
      size == Len(p.batch)
      rope == Loaded(p, exact[e][size])
  IN
  /\ p # NoPlan /\ p.used < p.budget /\ Route(e, p) = "grouped"
  /\ exact' = [exact EXCEPT ![e][size] = Plus1(rope)]
  /\ owned' = [owned EXCEPT ![e][size] = p.id]
  /\ Launch(IF setting.graphs THEN size ELSE 0)
  /\ Run(e, p, rope)
  /\ UNCHANGED <<bucket, active>>

BucketStep(e) ==
  LET p    == plan[e]
      size == BucketFor(p.batch)
      rope == Loaded(p, bucket[size])
  IN
  /\ p # NoPlan /\ p.used < p.budget /\ Route(e, p) = "bucket"
  /\ bucket' = [bucket EXCEPT ![size] = Plus1(rope)]
  /\ active' = p.id
  /\ Launch(0)
  /\ Run(e, p, rope)
  /\ UNCHANGED <<exact, owned>>

EagerStep(e) ==
  LET p == plan[e] IN
  /\ p # NoPlan /\ p.used < p.budget /\ Route(e, p) = "eager"
  /\ Launch(0)
  /\ Run(e, p, p.positions)
  /\ UNCHANGED runners

\* The engine drops the plan: the window is full, or the batch changes.
Close(e) ==
  /\ plan[e] # NoPlan
  /\ plan' = [plan EXCEPT ![e] = NoPlan]
  /\ UNCHANGED <<setting, tables, plans, runners, device, astray>>

-----------------------------------------------------------------------------
Init ==
  /\ setting \in Settings
  /\ blocks = [r \in AllRequests |-> <<>>] /\ length = [r \in AllRequests |-> 0]
  /\ free = [e \in Engines |-> [n \in 1..NumBlocks |-> n - 1]]
  /\ kv = [e \in Engines |-> [s \in 0..(NumBlocks * BlockSize - 1) |-> NoKV]]
  /\ plan = [e \in Engines |-> NoPlan] /\ plans = 0
  /\ bucket = [b \in setting.buckets |-> [n \in 1..b |-> 0]] /\ active = 0
  /\ exact = [e \in Engines |-> [b \in setting.grouped |-> [n \in 1..b |-> 0]]]
  /\ owned = [e \in Engines |-> [b \in setting.grouped |-> 0]]
  /\ stream = <<>> /\ uploaded = {0} \cup setting.grouped /\ misread = {}
  /\ astray = {} /\ gone = {}

\* Batches of an engine: requests in the engine's order.
Batches(e, ready(_)) ==
  {Without(Requests, AllRequests \ S) :
     S \in (SUBSET {r \in AllRequests : EngineOf[r] = e /\ ready(r)}) \ {{}}}

Fits(batch, count) == \A r \in Range(batch) : length[r] + count <= MaxLen

Prefilled(r) == length[r] >= Prompt[r]
Fresh(r) == r \notin gone /\ length[r] = 0 /\ Leader[r] = r

Bundle == setting.model = "bundle"
Qwen   == setting.model = "qwen"

PrefillPacked(e) == Bundle /\ \E batch \in Batches(e, Fresh) : PrefillMany(e, batch)

PrefillOne(e) ==
  \E r \in AllRequests :
    /\ EngineOf[r] = e
    /\ \/ \E size \in 1..2 : (Fresh(r) \/ length[r] > 0) /\ PrefillChunk(r, size)
       \/ Fresh(r) /\ PrefillAlone(r)

Decode(e) ==
  /\ plan[e] = NoPlan
  /\ \/ \E batch \in Batches(e, Prefilled) : Fits(batch, 1) /\ DecodeMany(e, batch)
     \/ \E r \in AllRequests :
          EngineOf[r] = e /\ Fits(<<r>>, 2) /\ DecodeTokens(r, 2)

(* QwenModel writes and reads the cache the same way, one prompt or one     *)
(* batched token at a time; it has no pages and opens no window.           *)
QwenPrefill(e) == Qwen /\ ~Native /\ PrefillOne(e)
QwenDecode(e)  == Qwen /\ ~Native /\ Decode(e)

OpenWindow(e) ==
  /\ Bundle /\ plans < MaxPlans
  /\ \E batch \in Batches(e, Prefilled), budget \in 1..MaxBudget :
       Fits(batch, budget) /\ Open(e, batch, budget)

Next ==
  \/ \E e \in Engines :
       (Bundle /\ (PrefillPacked(e) \/ PrefillOne(e) \/ Decode(e)))
         \/ QwenPrefill(e) \/ QwenDecode(e) \/ OpenWindow(e) \/ GroupedStep(e) \/ BucketStep(e)
         \/ EagerStep(e) \/ Close(e)
  \/ \E r \in AllRequests : Fork(r) \/ Free(r)
  \/ Execute

Spec == Init /\ [][Next]_vars

-----------------------------------------------------------------------------
(* Properties *)

(* Whatever the pass and the route, every row rotates by its token's       *)
(* position and attends to exactly the tokens of its own request up to it: *)
(* decode_many, prefill_many, and decode_window_step with all its runners. *)
OwnHistory ==
  astray = {}

(* The keys of a live request stay where its table says, though the        *)
(* planned writes skip copy-on-write and the graphs run padded rows.       *)
KeysIntact ==
  \A r \in AllRequests : \A p \in 0..(length[r] - 1) :
    kv[EngineOf[r]][Slot(blocks[r], p)] = Token(r, p)

(* No row of a captured graph, padding included, is ever run at a position *)
(* past the RoPE rows the graph pinned: the buffers hold the next position.*)
RowsPinned ==
  /\ \A b \in setting.buckets : Max(Range(bucket[b])) <= MaxPosition
  /\ \A e \in Engines : \A b \in setting.grouped : Max(Range(exact[e][b])) <= MaxPosition

(* Each attention run of the device reads the plan info of its own step,   *)
(* however far the host has run ahead (PlanCopyFence).                     *)
OwnPlanInfo == misread = {}

=============================================================================
