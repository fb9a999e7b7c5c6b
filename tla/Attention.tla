------------------------------ MODULE Attention ------------------------------
(***************************************************************************)
(* One decoder layer's attention: the new keys go to the paged cache, the  *)
(* history comes back packed or page by page, its heads are expanded or    *)
(* left to the kernel, and one of the backends attends.  torch_naive is    *)
(* what the others must agree with: row (r, p), query head h, sees the     *)
(* keys of r at 0..p in the KV head of h's group.                          *)
(*                                                                         *)
(* A tensor of keys is its rows, each the position it came from, and its   *)
(* heads, each the KV head it holds; values go the same way.  The output   *)
(* of a row is, per query head, which KV head and which keys it mixes.     *)
(***************************************************************************)
EXTENDS Integers, Sequences, FiniteSets, SequencesExt, FiniteSetsExt

CONSTANTS
  Requests,   \* the requests, numbered
  Table,      \* BlockTable.blocks of each request
  BlockSize,  \* positions per block
  MaxLen,     \* bound: positions of a request
  Settings    \* records [model, backend, gqa, heads, kvHeads], see setting

ASSUME AttentionAssumption ==
  /\ Requests \subseteq Nat /\ {BlockSize, MaxLen} \subseteq Nat \ {0}
  /\ \A r \in Requests : Len(Table[r]) * BlockSize >= MaxLen
  /\ \A s \in Settings : s.heads % s.kvHeads = 0

VARIABLES
  setting,  \* model: "bundle" or "qwen"; backend: "naive", "sdpa", "flash" or "flashinfer";
            \* gqa: the installed SDPA takes enable_gqa; heads, kvHeads: query and KV heads
  length,   \* BlockTable.length of each request
  kv,       \* PagedKVCache.kv of the layer: slot -> the position whose keys it holds
  arange,   \* rows of FlashAttnPagedAttention._decode_cu_seqlens_q, 0 for None
  astray    \* rows whose output is not the reference's

vars == <<setting, length, kv, arange, astray>>

Heads   == setting.heads
KvHeads == setting.kvHeads
Repeats == Heads \div KvHeads
Stale   == <<0, 0>>
Slot(r, pos) == Table[r][pos \div BlockSize + 1] * BlockSize + (pos % BlockSize)
Slots == {Slot(r, p) : r \in Requests, p \in 0..(MaxLen - 1)}

Token(r, p) == <<r, p + 1>>
Positions(r, from, to) == [n \in 1..(to - from) |-> Token(r, from + n - 1)]

\* _project_heads: keys of new rows, a head for each KV head.
Project(rows) == [rows |-> rows, heads |-> [h \in 1..KvHeads |-> h]]

\* expand_grouped_kv: a KV head stands before each query head of its group.
Expanded(t) == [t EXCEPT !.heads = [h \in 1..Heads |-> t.heads[(h - 1) \div Repeats + 1]]]

\* Rows i..j of a packed tensor.
Chunk(t, i, j) == [t EXCEPT !.rows = SubSeq(@, i, j)]

-----------------------------------------------------------------------------
(* The kernels.  A query head reads the key head of its rank when the keys *)
(* are expanded; a kernel that takes native heads pairs them by group.     *)

Attend(t, visible) ==
  LET KeyHead(h) == (h - 1) \div (Heads \div Len(t.heads)) + 1
  IN  [h \in 1..Heads |-> <<t.heads[KeyHead(h)], {t.rows[j] : j \in visible}>>]

\* torch_naive: the mask is materialised, aligned to the last key.
Masked(q, t) == [i \in 1..q |-> Attend(t, 1..(Len(t.rows) - q + i))]

\* SDPA's is_causal is aligned to the first key; without a mask a row sees every key.
TopLeft(q, t)  == [i \in 1..q |-> Attend(t, 1..i)]
Unmasked(q, t) == [i \in 1..q |-> Attend(t, DOMAIN t.rows)]

\* flash-attn's varlen kernel: segment by segment, aligned to each one's last key.
Varlen(cuQ, cuK, t) ==
  LET Rows(n) == cuQ[n + 1] - cuQ[n]
      Out(n)  == [i \in 1..Rows(n) |->
                    Attend(t, (cuK[n] + 1)..(cuK[n + 1] - Rows(n) + i))]
  IN  FlattenSeq([n \in 1..(Len(cuQ) - 1) |-> Out(n)])

\* FlashInfer's paged decode: row n reads its pages, the last one up to last[n].
PagedRun(pages) ==
  LET Page(n, k) == pages.indices[pages.indptr[n] + k]
      Count(n)   == pages.indptr[n + 1] - pages.indptr[n]
      Fill(n, k) == IF k = Count(n) THEN pages.last[n] ELSE BlockSize
      Cells(n)   == {<<k, s>> \in (1..Count(n)) \X (0..(BlockSize - 1)) : s < Fill(n, k)}
      Row(n)     == [h \in 1..Heads |->
                       <<(h - 1) \div Repeats + 1,
                         {kv'[Page(n, c[1]) * BlockSize + c[2]] : c \in Cells(n)}>>]
  IN  [n \in 1..(Len(pages.indptr) - 1) |-> Row(n)]

-----------------------------------------------------------------------------
(* The backends *)

\* _offset_mask and is_causal: none for a decode row, the offset mask for a chunk.
SdpaForward(q, t) ==
  LET n == Len(t.rows) IN
  IF q = n THEN TopLeft(q, t) ELSE IF q = 1 THEN Unmasked(q, t) ELSE Masked(q, t)

Flash == setting.backend \in {"flash", "flashinfer"}

\* forward: q rows over one request's history.
Forward(q, t) ==
  CASE setting.backend = "naive" -> Masked(q, t)
    [] setting.backend = "sdpa"  -> SdpaForward(q, t)
    [] Flash                     -> Varlen(<<0, q>>, <<0, Len(t.rows)>>, t)

Lengths(cu) == [n \in 1..(Len(cu) - 1) |-> cu[n + 1] - cu[n]]

\* mutant: the cache is grown only when it is empty
ArangeOnce(size) == IF arange = 0 THEN size ELSE arange

\* _decode_arange: regrown when a bigger batch arrives.
Arange(size) == IF arange < size THEN Max({size, 2 * arange}) ELSE arange

ArangeSlice(size) == [n \in 1..Min({size, Arange(size)}) |-> n - 1]

\* forward_decode_batch_packed over expanded histories, one row per request.
DecodePacked(cu, t) ==
  LET History(n) == Chunk(t, cu[n] + 1, cu[n + 1])
      batch      == Len(cu) - 1
  IN  CASE setting.backend = "naive" -> FlattenSeq([n \in 1..batch |-> Masked(1, History(n))])
        [] setting.backend = "sdpa"  -> FlattenSeq([n \in 1..batch |-> Unmasked(1, History(n))])
        [] Flash                     -> Varlen(ArangeSlice(batch + 1), cu, t)

\* forward_decode_batch_packed_grouped: SDPA pairs the native heads, or they are expanded here.
DecodeGrouped(cu, t) ==
  LET fused   == Repeats # 1 /\ setting.gqa
      keys    == IF fused \/ Repeats = 1 THEN t ELSE Expanded(t)
  IN  FlattenSeq([n \in 1..(Len(cu) - 1) |-> Unmasked(1, Chunk(keys, cu[n] + 1, cu[n + 1]))])

\* validate_packed_prefill_inputs: the structure every backend checks.
StructureSound(t, queries, cu, longest) ==
  /\ queries = Len(t.rows)
  /\ Len(t.heads) > 0 /\ Heads % Len(t.heads) = 0
  /\ Len(cu) >= 2 /\ longest > 0

\* packed_prefill_lengths: the offsets read back; flash leaves them on the device.
OffsetsSound(cu, total, longest) ==
  /\ cu[1] = 0 /\ Last(cu) = total
  /\ \A n \in DOMAIN Lengths(cu) : Lengths(cu)[n] > 0
  /\ longest = Max(Range(Lengths(cu)))

\* A call that is refused answers no row.
Refused(cu, t, longest) ==
  \/ ~StructureSound(t, Len(t.rows), cu, longest)
  \/ ~Flash /\ ~OffsetsSound(cu, Len(t.rows), longest)

\* forward_prefill_batch_packed: whole prompts, native heads.
PrefillPacked(cu, t, longest) ==
  LET Prompt(n) == Chunk(t, cu[n] + 1, cu[n + 1])
      Keys(n)   == IF setting.gqa /\ Repeats # 1 THEN Prompt(n) ELSE Expanded(Prompt(n))
      batch     == Len(cu) - 1
  IN  CASE Refused(cu, t, longest) -> <<>>
        [] setting.backend = "naive" ->
             FlattenSeq([n \in 1..batch |-> Masked(Lengths(cu)[n], Expanded(Prompt(n)))])
        [] setting.backend = "sdpa" ->
             FlattenSeq([n \in 1..batch |-> TopLeft(Lengths(cu)[n], Keys(n))])
        [] Flash -> Varlen(cu, cu, t)

-----------------------------------------------------------------------------
(* The layer *)

Reference(row) ==
  [h \in 1..Heads |-> <<(h - 1) \div Repeats + 1, {<<row[1], p>> : p \in 1..row[2]}>>]

Wrong(rows, out) ==
  {rows[i] : i \in {j \in DOMAIN rows : j \notin DOMAIN out \/ out[j] # Reference(rows[j])}}

Judge(rows, out) == astray' = astray \cup Wrong(rows, out)

\* write, write_many, write_rows: the keys of the rows go to the slots of their positions.
Write(rows) ==
  kv' = [s \in Slots |->
           IF \E i \in DOMAIN rows : Slot(rows[i][1], rows[i][2] - 1) = s
           THEN rows[CHOOSE i \in DOMAIN rows : Slot(rows[i][1], rows[i][2] - 1) = s]
           ELSE kv[s]]

\* read: the first n positions of r's table, after the write.
Read(r, n) == [p \in 1..n |-> kv'[Slot(r, p - 1)]]

Starts(lengths) ==
  LET at[n \in 1..(Len(lengths) + 1)] == IF n = 1 THEN 0 ELSE at[n - 1] + lengths[n - 1]
  IN  at

BlocksFor(n) == (n + BlockSize - 1) \div BlockSize

\* plan_pages: where each row's pages start, the pages, and the fill of each last one.
PlanPages(batch, lengths) ==
  [indptr  |-> Starts([n \in DOMAIN batch |-> BlocksFor(lengths[n])]),
   indices |-> FlattenSeq([n \in DOMAIN batch |-> SubSeq(Table[batch[n]], 1, BlocksFor(lengths[n]))]),
   last    |-> [n \in DOMAIN batch |-> ((lengths[n] - 1) % BlockSize) + 1]]

Batches == {b \in UNION {[1..n -> Requests] : n \in 1..Cardinality(Requests)} : IsInjective(b)}

Grown(rows) ==
  length' = [r \in Requests |-> Max({length[r]} \cup {rows[i][2] : i \in {j \in DOMAIN rows : rows[j][1] = r}})]

Init ==
  /\ setting \in Settings
  /\ length = [r \in Requests |-> 0]
  /\ kv = [s \in Slots |-> Stale]
  /\ arange = 0 /\ astray = {}

\* _attention: full recompute, nothing is cached.
Recompute(r) ==
  LET rows == Positions(r, 0, length[r]) IN
  /\ length[r] > 0
  /\ Judge(rows, Forward(Len(rows), Expanded(Project(rows))))
  /\ UNCHANGED <<setting, length, kv, arange>>

\* _prefill_attention: the keys just computed are written, and attended to directly.
PrefillAttention(r, n) ==
  LET rows == Positions(r, 0, n) IN
  /\ length[r] = 0
  /\ Write(rows) /\ Grown(rows)
  /\ Judge(rows, Forward(n, Expanded(Project(rows))))
  /\ UNCHANGED <<setting, arange>>

\* _prefill_chunk_attention: the slice is written, then the history read back with it.
ChunkAttention(r, n) ==
  LET rows == Positions(r, length[r], length[r] + n) IN
  /\ length[r] + n <= MaxLen
  /\ Write(rows) /\ Grown(rows)
  /\ Judge(rows, Forward(n, Expanded(Project(Read(r, length[r] + n)))))
  /\ UNCHANGED <<setting, arange>>

\* _prefill_attention_packed: prompts end to end; only the bundle model packs them.
PackedAttention(batch, lengths) ==
  LET rows == FlattenSeq([n \in DOMAIN batch |-> Positions(batch[n], 0, lengths[n])]) IN
  /\ setting.model = "bundle"
  /\ \A n \in DOMAIN batch : length[batch[n]] = 0
  /\ Write(rows) /\ Grown(rows)
  /\ Judge(rows, PrefillPacked(Starts(lengths), Project(rows), Max(Range(lengths))))
  /\ UNCHANGED <<setting, arange>>

Paged   == setting.model = "bundle" /\ setting.backend = "flashinfer"
Grouped == setting.model = "bundle" /\ setting.backend = "sdpa"

\* The expanded pack: the only way Qwen decodes.
ExpandedOut(cu, history) == DecodePacked(cu, Expanded(history))

\* _decode_attention_from_plan: pages, native heads, or the expanded pack.
DecodeOut(batch, lengths) ==
  LET cu      == Starts(lengths)
      history == Project(FlattenSeq([n \in DOMAIN batch |-> Read(batch[n], lengths[n])]))
  IN  IF Paged THEN PagedRun(PlanPages(batch, lengths))
      ELSE IF Grouped THEN DecodeGrouped(cu, history)
      ELSE ExpandedOut(cu, history)

\* _decode_attention_batched: one new row of each request.
DecodeAttention(batch) ==
  LET lengths == [n \in DOMAIN batch |-> length[batch[n]] + 1]
      rows    == [n \in DOMAIN batch |-> Token(batch[n], lengths[n] - 1)]
  IN
  /\ \A n \in DOMAIN batch : lengths[n] \in 2..MaxLen
  /\ Write(rows) /\ Grown(rows)
  /\ Judge(rows, DecodeOut(batch, lengths))
  /\ arange' = IF Flash /\ ~Paged THEN Arange(Len(batch) + 1) ELSE arange
  /\ UNCHANGED setting

\* The request's blocks are freed; what is left in them means nothing.
Release(r) ==
  /\ length[r] > 0
  /\ length' = [length EXCEPT ![r] = 0]
  /\ kv' = [s \in Slots |-> IF s \div BlockSize \in Range(Table[r]) THEN Stale ELSE kv[s]]
  /\ UNCHANGED <<setting, arange, astray>>

Next ==
  \/ \E r \in Requests : Recompute(r) \/ Release(r)
  \/ \E r \in Requests, n \in 1..MaxLen : PrefillAttention(r, n) \/ ChunkAttention(r, n)
  \/ \E batch \in Batches :
       \/ DecodeAttention(batch)
       \/ \E lengths \in [DOMAIN batch -> 1..MaxLen] : PackedAttention(batch, lengths)

Spec == Init /\ [][Next]_vars

-----------------------------------------------------------------------------
(* Properties *)

\* Whatever the backend, the route and the lengths, every row of every pass sees the keys of its
\* own request up to its own position, in the KV head of its query head's group: what
\* torch_naive computes (sdpa's masks, flash's offsets, FlashInfer's pages, the head expansion).
SeesOwnPast == astray = {}
=============================================================================
