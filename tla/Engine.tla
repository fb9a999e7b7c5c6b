------------------------------- MODULE Engine -------------------------------
(***************************************************************************)
(* One pass of the serving engine over its requests: admission under a     *)
(* block budget, resume, cache lookups, prefill of single requests, of     *)
(* prefix groups and of whole batches, room for the decode batch, the      *)
(* batched or speculative decode, release.  An engine is built with either *)
(* admission discipline: reserve mode promises a request its worst case,   *)
(* preemption only its present footprint, and evicts running requests when *)
(* the pool is dry.                                                        *)
(*                                                                         *)
(* A pass is cut into its calls, because a preemption inside one call      *)
(* changes requests that a later call of the same pass still has on its    *)
(* list.  Tables hold real blocks, shared by the siblings of a prefix      *)
(* group and by the prefix cache; a block is free when nothing holds it,   *)
(* which PagedKV shows of the reference counts (FreeIffUnowned).  Requests *)
(* arrive, and clients give up, only between passes: one thread owns the   *)
(* engine.                                                                 *)
(***************************************************************************)
EXTENDS Integers, Sequences, FiniteSets, SequencesExt, FiniteSetsExt, Lists

CONSTANTS
  Requests,
  Engines,     \* the flags an engine may be built with, see EngineAssumption
  SamePrompts  \* TRUE: clients put only identical prompts in one prefix group

Asks == [prompt : Nat \ {0}, new : Nat \ {0}, group : Nat, text : Nat]

ASSUME EngineAssumption ==
  /\ IsFiniteSet(Requests)
  /\ SamePrompts \in BOOLEAN
  /\ \A e \in Engines :
       /\ e.pool \in Nat \ {0} /\ e.block \in Nat \ {0}  \* blocks, positions per block
       /\ e.chunk \in Nat          \* prefill_chunk_size, 0 when unset
       /\ e.draft \in Nat          \* most draft tokens of a verification, 0 when off
       /\ e.entries \in Nat        \* cap of the prefix cache, 0 when it is off
       /\ e.preemption \in BOOLEAN /\ (e.preemption => e.entries = 0)
       /\ e.asks \subseteq [Requests -> Asks]  \* what the requests may ask of it
       /\ e.aborts \in BOOLEAN     \* TRUE: clients may disconnect

VARIABLES
  conf,        \* how this engine was built
  ask,         \* what each request asks for; group 0 is none, text stands for the token ids
  known,       \* requests added and not aborted, in order of arrival
  waiting,     \* Scheduler.waiting
  running,     \* Scheduler.running, in admission order
  committed,   \* Scheduler.committed_blocks
  budget,      \* Scheduler._committed_by_request, 0 when absent
  mem,         \* the paged memory, see Memory
  prefilled,   \* Request.prefilled
  generated,   \* number of generated tokens
  finished,    \* Request.finished
  phase,       \* where the pass stands
  room,        \* admit: remaining_free
  visiting,    \* requests the resume loop, then the lookup loop, still has to visit
  prefilling,  \* ... the prefill loop
  decoding     \* ... the decode calls

queues == <<waiting, running, committed, budget>>
lists  == <<visiting, prefilling, decoding>>
vars   == <<conf, ask, known, queues, mem, prefilled, generated, finished, phase, room, lists>>

Positions(n) == (n + conf.block - 1) \div conf.block

MaxBlocksFor(r)  == Positions(ask[r].prompt + ask[r].new - 1)
Footprint(r)     == Positions(ask[r].prompt + generated[r])
Remaining(r)     == ask[r].new - generated[r]

\* mutant: the last generated token is written by the recompute as well
SequenceWithLast(r) == ask[r].prompt + generated[r]

\* prompt + generated[:-1]: what a table holds when its request may decode.
Sequence(r) == ask[r].prompt + (IF generated[r] > 0 THEN generated[r] - 1 ELSE 0)

\* The members of s that are in S, in their order.
Those(s, S) == Without(s, Requests \ S)

-----------------------------------------------------------------------------
(* The paged memory: a pure record, so that a call that appends to several *)
(* tables is a fold over it.                                               *)

\* ok is FALSE once an allocation found the pool dry.
Memory == [table  : [Requests -> Seq(Nat)],  \* BlockTable.blocks, empty without a table
           length : [Requests -> Nat],       \* BlockTable.length
           cache  : Seq([text : Nat, blocks : Seq(Nat)]),   \* least recently used first
           ok     : BOOLEAN]

Refs(m, b) ==
  Cardinality({r \in Requests : b \in Range(m.table[r])})
    + Cardinality({i \in DOMAIN m.cache : b \in Range(m.cache[i].blocks)})

Free(m) == {b \in 1..conf.pool : Refs(m, b) = 0}

\* The n oldest cache entries given back.
Forget(m, n) == [m EXCEPT !.cache = SubSeq(@, n + 1, Len(@))]

(* What allocate(need) leaves: cache entries go, oldest first, only while  *)
(* the pool is short.                                                      *)
Supply(m, need) ==
  LET enough == {n \in 0..Len(m.cache) : Cardinality(Free(Forget(m, n))) >= need}
  IN  IF enough = {} THEN [Forget(m, Len(m.cache)) EXCEPT !.ok = FALSE]
      ELSE Forget(m, Min(enough))

(* append_cost: the table's growth past its end, and the block the append  *)
(* starts in when it is partial and shared.                                *)
Growth(m, r, n) == Max({0, Positions(m.length[r] + n) - Len(m.table[r])})

Touched(m, r, n) ==
  {i \in (m.length[r] \div conf.block + 1)..Positions(m.length[r] + n) : i <= Len(m.table[r])}

Copied(m, r, n) == {i \in Touched(m, r, n) : Refs(m, m.table[r][i]) > 1}

\* mutant: copy-on-write is not counted
GrowthOnly(m, r, n) == Growth(m, r, n)

BlocksToGrow(m, r, n) == Growth(m, r, n) + Cardinality(Copied(m, r, n))

(* n more positions at the end of r's table: reserve, then prepare_write.  *)
Appended(m, r, n) ==
  LET grow  == Growth(m, r, n)
      s     == Supply(m, grow + Cardinality(Copied(m, r, n)))
      copy  == Copied(s, r, n)
      fresh == SetToSeq(Free(s))
  IN  IF ~m.ok \/ ~s.ok \/ (copy # {} /\ m.length[r] % conf.block = 0)
      THEN [s EXCEPT !.ok = FALSE]
      ELSE [s EXCEPT !.length[r] = @ + n,
                     !.table[r] = [i \in 1..(Len(@) + grow) |->
                        IF i > Len(@) THEN fresh[i - Len(@)]
                        ELSE IF i \in copy THEN fresh[grow + Cardinality({j \in copy : j <= i})]
                        ELSE @[i]]]

\* The requests of rs append one after the other, each its count of positions.
AppendEach(m, rs, count) ==
  LET after[k \in 0..Len(rs)] == IF k = 0 THEN m ELSE Appended(after[k - 1], rs[k], count[rs[k]])
  IN  after[Len(rs)]

\* The siblings fork the leader's table.
Forked(m, leader, members) ==
  [m EXCEPT !.table  = [r \in Requests |-> IF r \in members THEN @[leader] ELSE @[r]],
            !.length = [r \in Requests |-> IF r \in members THEN @[leader] ELSE @[r]]]

\* The tables of the requests in D are freed.
Freed(m, D) ==
  [m EXCEPT !.table  = [r \in Requests |-> IF r \in D THEN <<>> ELSE @[r]],
            !.length = [r \in Requests |-> IF r \in D THEN 0 ELSE @[r]]]

(* Donation of the whole blocks of a finished request; an entry that is a  *)
(* prefix of it is superseded, and the oldest leave past the cap.          *)
Donated(m, r) ==
  LET n     == m.length[r] \div conf.block
      rest  == Without(m.cache, {e \in Range(m.cache) : e.text = ask[r].text /\ Len(e.blocks) <= n})
      cache == Append(rest, [text |-> ask[r].text, blocks |-> SubSeq(m.table[r], 1, n)])
  IN  IF conf.entries = 0 \/ n = 0 THEN m
      ELSE [m EXCEPT !.cache = SubSeq(cache, Max({1, Len(cache) - conf.entries + 1}), Len(cache))]

\* _release_finished_in, for the requests of the call in their order.
Released(m, ends) ==
  LET after[k \in 0..Len(ends)] ==
        IF k = 0 THEN m ELSE Freed(Donated(after[k - 1], ends[k]), {ends[k]})
  IN  after[Len(ends)]

\* The longest entry of r's text, to at most one token short of its prompt.
Match(m, r, i) ==
  IF m.cache[i].text # ask[r].text THEN 0
  ELSE Min({Len(m.cache[i].blocks), (ask[r].prompt - 1) \div conf.block})

LookedUp(m, r) ==
  LET best == Max({0} \cup {Match(m, r, i) : i \in DOMAIN m.cache})
      i    == Min({j \in DOMAIN m.cache : Match(m, r, j) = best})
  IN  IF best = 0 THEN m
      ELSE [m EXCEPT !.table[r] = SubSeq(m.cache[i].blocks, 1, best),
                     !.length[r] = best * conf.block,
                     !.cache = Append(RemoveAt(@, i), @[i])]

-----------------------------------------------------------------------------
Init ==
  /\ conf \in Engines
  /\ ask \in conf.asks
  /\ SamePrompts => \A r, q \in Requests :
       ask[r].group = ask[q].group /\ ask[r].group # 0 =>
         ask[r].prompt = ask[q].prompt /\ ask[r].text = ask[q].text
  /\ known = <<>> /\ waiting = <<>> /\ running = <<>>
  /\ committed = 0 /\ budget = [r \in Requests |-> 0]
  /\ mem = [table |-> [r \in Requests |-> <<>>], length |-> [r \in Requests |-> 0],
            cache |-> <<>>, ok |-> TRUE]
  /\ prefilled = [r \in Requests |-> FALSE]
  /\ generated = [r \in Requests |-> 0] /\ finished = [r \in Requests |-> FALSE]
  /\ phase = "between" /\ room = 0
  /\ visiting = <<>> /\ prefilling = <<>> /\ decoding = <<>>

(* add_request: what could never fit the empty pool is rejected.           *)
Add(r) ==
  /\ phase = "between" /\ r \notin Range(known)
  /\ MaxBlocksFor(r) <= conf.pool
  /\ known' = Append(known, r)
  /\ waiting' = Append(waiting, r)
  /\ UNCHANGED <<conf, ask, running, committed, budget, mem, prefilled, generated, finished,
                 phase, room, lists>>

\* Scheduler.release and requeue: out of the running set, the budget returned.
Leave(D) ==
  /\ running' = Without(running, D)
  /\ committed' = committed - MapThenSumSet(LAMBDA r : budget[r], D)
  /\ budget' = [r \in Requests |-> IF r \in D THEN 0 ELSE budget[r]]

Unprefilled(D) == prefilled' = [r \in Requests |-> prefilled[r] /\ r \notin D]

\* The id is forgotten with the request, and may be used again.
Abort(r) ==
  /\ conf.aborts /\ phase = "between"
  /\ \/ /\ r \in Range(waiting)
        /\ waiting' = Without(waiting, {r})
        /\ UNCHANGED <<running, committed, budget, mem, prefilled>>
     \/ /\ r \in Range(running)
        /\ mem' = Freed(mem, {r}) /\ Unprefilled({r}) /\ Leave({r})
        /\ UNCHANGED waiting
  /\ known' = Without(known, {r})
  /\ generated' = [generated EXCEPT ![r] = 0]
  /\ UNCHANGED <<conf, ask, finished, phase, room, lists>>

-----------------------------------------------------------------------------
(* The pass: admission *)

Begin ==
  /\ phase = "between"
  /\ waiting # <<>> \/ running # <<>>
  /\ phase' = "admit"
  /\ room' = IF conf.preemption THEN Cardinality(Free(mem)) ELSE 0
  /\ UNCHANGED <<conf, ask, known, queues, mem, prefilled, generated, finished, lists>>

Need(r) == IF conf.preemption THEN Footprint(r) ELSE MaxBlocksFor(r)
Fits(r) == IF conf.preemption THEN Need(r) <= room ELSE committed + Need(r) <= conf.pool

AdmitOne ==
  /\ phase = "admit" /\ waiting # <<>> /\ Fits(Head(waiting))
  /\ LET r == Head(waiting)
     IN  /\ waiting' = Tail(waiting)
         /\ running' = Append(running, r)
         /\ committed' = committed + Need(r)
         /\ budget' = [budget EXCEPT ![r] = Need(r)]
         /\ room' = IF conf.preemption THEN room - Need(r) ELSE room
  /\ UNCHANGED <<conf, ask, known, mem, prefilled, generated, finished, phase, lists>>

(* The first request that does not fit ends admission; the running set is  *)
(* then sorted into the three lists the rest of the pass works on.         *)
Classify ==
  /\ phase = "admit"
  /\ waiting # <<>> => ~Fits(Head(waiting))
  /\ visiting' = Those(running, {r \in Requests : ~prefilled[r] /\ generated[r] > 0})
  /\ prefilling' = Those(running, {r \in Requests : ~prefilled[r] /\ generated[r] = 0})
  /\ decoding' = Those(running, {r \in Requests : prefilled[r]})
  /\ phase' = "resume" /\ room' = 0
  /\ UNCHANGED <<conf, ask, known, queues, mem, prefilled, generated, finished>>

-----------------------------------------------------------------------------
(* Preemption: the newest running request but `exclude` is evicted *)

Victims(exclude) == Without(running, exclude \cup {r \in Requests : finished[r]})

Preempt(victim) ==
  /\ mem' = Freed(mem, {victim}) /\ Unprefilled({victim}) /\ Leave({victim})
  /\ waiting' = <<victim>> \o waiting
  /\ UNCHANGED <<conf, ask, known, generated, finished, phase, room, lists>>

(* No victim is left, the pool is dry, or a ValueError: the error leaves   *)
(* step(), and the engine is not called again.                             *)
Die ==
  /\ phase' = "dead"
  /\ UNCHANGED <<conf, ask, known, queues, mem, prefilled, generated, finished, room, lists>>

\* mutant: the oldest running request is the victim
EvictOldest(exclude) ==
  LET victims == Victims(exclude)
  IN  IF victims = <<>> THEN Die ELSE Preempt(Head(victims))

EvictFor(exclude) ==
  LET victims == Victims(exclude)
  IN  IF victims = <<>> THEN Die ELSE Preempt(Last(victims))

-----------------------------------------------------------------------------
(* The pass: resume, cache lookups, prefill *)

Chunk(r) ==
  LET left == Sequence(r) - mem.length[r]
  IN  IF conf.chunk = 0 \/ left < conf.chunk THEN left ELSE conf.chunk

\* A request evicted since the pass made its lists (_is_running, _live_running).
Gone(r) == conf.preemption /\ r \notin Range(running)

\* mutant: siblings evicted by the leader's chunk are forked into as well
EverySibling(r) ==
  Those(prefilling, {q \in Requests : q = r \/ (ask[r].group # 0 /\ ask[q].group = ask[r].group)})

(* The requests the prefill loop handles with r: its live siblings.  Those *)
(* already handled in this pass took their siblings of that time along.    *)
Group(r) ==
  Those(prefilling, {q \in Requests :
    ~Gone(q) /\ (q = r \/ (ask[r].group # 0 /\ ask[q].group = ask[r].group))})

Leaders(g) == Those(g, {q \in Requests : mem.table[q] # <<>>})

\* The member whose table holds the prompt so far, or the first of the group.
Leader(g) == IF Leaders(g) # <<>> THEN Head(Leaders(g)) ELSE Head(g)

\* The two ValueErrors of _prefill_shared_group.
Refused(g) ==
  \/ \E q \in Range(g) : ask[q].prompt # ask[Head(g)].prompt \/ ask[q].text # ask[Head(g)].text
  \/ Len(Leaders(g)) > 1

(* _ensure_pool_room before the chunk of a resumed request or of a leader; *)
(* reserve mode has no such check, and its allocations must not fail.      *)
EnsurePoolRoom ==
  /\ conf.preemption
  /\ \E r \in Requests :
       /\ \/ phase = "resume" /\ visiting # <<>> /\ r = Head(visiting)
          \/ /\ phase = "prefill" /\ prefilling # <<>> /\ ~Gone(Head(prefilling))
             /\ ~Refused(Group(Head(prefilling)))
             /\ r = Leader(Group(Head(prefilling)))
       /\ Cardinality(Free(mem)) < BlocksToGrow(mem, r, Chunk(r))
       /\ EvictFor({r})

HasRoom(r) == conf.preemption => Cardinality(Free(mem)) >= BlocksToGrow(mem, r, Chunk(r))

\* _resume_requests: the recompute of one request runs to its end, chunk by chunk.
ResumeChunk ==
  /\ phase = "resume" /\ visiting # <<>> /\ HasRoom(Head(visiting))
  /\ LET r    == Head(visiting)
         m    == Appended(mem, r, Chunk(r))
         done == m.length[r] = Sequence(r)
     IN  IF ~m.ok THEN Die
         ELSE /\ mem' = m
              /\ prefilled' = [prefilled EXCEPT ![r] = done]
              /\ visiting' = IF done THEN Tail(visiting) ELSE visiting
              /\ UNCHANGED <<conf, ask, known, queues, generated, finished, phase, room,
                             prefilling, decoding>>

\* The batched prefill takes the whole list, or none of it.
CanPrefillMany ==
  /\ conf.entries = 0 /\ conf.chunk = 0 /\ ~conf.preemption
  /\ Len(prefilling) >= 2
  /\ \A r \in Range(prefilling) : ask[r].group = 0

ResumeDone ==
  /\ phase = "resume" /\ visiting = <<>>
  /\ IF conf.entries > 0
     THEN /\ phase' = "lookup"
          /\ visiting' = Those(prefilling, {r \in Requests : mem.table[r] = <<>> /\ ask[r].group = 0})
     ELSE /\ phase' = IF CanPrefillMany THEN "many" ELSE "prefill"
          /\ UNCHANGED visiting
  /\ UNCHANGED <<conf, ask, known, queues, mem, prefilled, generated, finished, room,
                 prefilling, decoding>>

Lookup ==
  /\ phase = "lookup"
  /\ IF visiting = <<>> THEN phase' = "prefill" /\ UNCHANGED <<mem, visiting>>
     ELSE /\ mem' = LookedUp(mem, Head(visiting))
          /\ visiting' = Tail(visiting)
          /\ UNCHANGED phase
  /\ UNCHANGED <<conf, ask, known, queues, prefilled, generated, finished, room, prefilling,
                 decoding>>

(* The requests of rs record their first, or next, token; those in eos, or *)
(* at their cap, finish and are released in the order of rs.               *)
Ends(rs, eos) == Those(rs, eos \cup {r \in Requests : Remaining(r) = 1})

Sample(m, rs, eos) ==
  LET ends == Ends(rs, eos)
  IN  /\ generated' = [r \in Requests |-> generated[r] + (IF r \in Range(rs) THEN 1 ELSE 0)]
      /\ finished' = [r \in Requests |-> finished[r] \/ r \in Range(ends)]
      /\ prefilled' = [r \in Requests |->
           (prefilled[r] \/ r \in Range(rs)) /\ r \notin Range(ends)]
      /\ mem' = Released(m, ends)
      /\ Leave(Range(ends))
      /\ UNCHANGED <<conf, ask, known, waiting, room>>

PrefillMany ==
  /\ phase = "many"
  /\ LET m == AppendEach(mem, prefilling, [r \in Requests |-> ask[r].prompt])
     IN  IF ~m.ok THEN Die
         ELSE /\ \E eos \in SUBSET Range(prefilling) : Sample(m, prefilling, eos)
              /\ prefilling' = <<>> /\ phase' = "prefill"
              /\ UNCHANGED <<visiting, decoding>>

PrefillSkip ==
  /\ phase = "prefill" /\ prefilling # <<>> /\ Gone(Head(prefilling))
  /\ prefilling' = Tail(prefilling)
  /\ UNCHANGED <<conf, ask, known, queues, mem, prefilled, generated, finished, phase, room,
                 visiting, decoding>>

(* One chunk of the leader's prompt.  With the last one its live siblings  *)
(* fork its table, and every member samples its first token.               *)
Prefill ==
  /\ phase = "prefill" /\ prefilling # <<>> /\ ~Gone(Head(prefilling))
  /\ LET g == Group(Head(prefilling))
         r == Leader(g)
         m == Appended(mem, r, Chunk(r))
     IN  IF Refused(g) THEN Die
         ELSE /\ HasRoom(r)
              /\ IF ~m.ok THEN Die
                 ELSE /\ prefilling' = Without(prefilling, Range(g))
                      /\ UNCHANGED <<phase, visiting, decoding>>
                      /\ IF m.length[r] < ask[r].prompt
                         THEN mem' = m /\ UNCHANGED <<conf, ask, known, queues, prefilled,
                                                      generated, finished, room>>
                         ELSE \E eos \in SUBSET Range(g) :
                                Sample(Forked(m, r, Range(g)), <<r>> \o Without(g, {r}), eos)

PrefillDone ==
  /\ phase = "prefill" /\ prefilling = <<>>
  /\ phase' = IF decoding = <<>> THEN "between" ELSE IF conf.preemption THEN "room" ELSE "decode"
  /\ UNCHANGED <<conf, ask, known, queues, mem, prefilled, generated, finished, room, lists>>

-----------------------------------------------------------------------------
(* The pass: room for the decode batch, then the decode *)

Draft(r) == Min({conf.draft, Remaining(r) - 1})

Survivors == Those(decoding, {r \in Requests : prefilled[r]})

Demand(batch) == MapThenSumSet(LAMBDA r : BlocksToGrow(mem, r, 1 + Draft(r)), Range(batch))

RoomEvict ==
  /\ phase = "room" /\ Demand(Survivors) > Cardinality(Free(mem))
  /\ EvictFor({})

RoomDone ==
  /\ phase = "room" /\ Demand(Survivors) <= Cardinality(Free(mem))
  /\ decoding' = Survivors
  /\ phase' = IF Survivors = <<>> THEN "between" ELSE "decode"
  /\ UNCHANGED <<conf, ask, known, queues, mem, prefilled, generated, finished, room, visiting,
                 prefilling>>

\* mutant: the blocks reserved for the draft stay in the table
Untrimmed(m, r, length) == [m EXCEPT !.length[r] = length]

\* The length rolls back to the emitted tokens, trim_to_length drops the blocks behind.
Trimmed(m, r, length) ==
  [m EXCEPT !.length[r] = length, !.table[r] = SubSeq(@, 1, Positions(length))]

(* One request verifies a draft of d tokens and emits 1..d+1 of them; the  *)
(* blocks behind what it keeps go back.                                    *)
Verify(r, d, emitted, eos) ==
  /\ phase = "decode" /\ r \in Range(decoding)
  /\ d \in 1..Draft(r) /\ emitted \in 1..(d + 1)
  /\ LET written == Appended(mem, r, 1 + d)
         length  == mem.length[r] + emitted
         ends    == eos \/ emitted = Remaining(r)
     IN  IF ~written.ok THEN Die
         ELSE /\ generated' = [generated EXCEPT ![r] = @ + emitted]
              /\ finished' = [finished EXCEPT ![r] = ends]
              /\ IF ends
                 THEN /\ mem' = Released([written EXCEPT !.length[r] = length], <<r>>)
                      /\ Unprefilled({r}) /\ Leave({r})
                 ELSE /\ mem' = Trimmed(written, r, length)
                      /\ UNCHANGED <<prefilled, running, committed, budget>>
              /\ decoding' = Without(decoding, {r})
              /\ phase' = IF decoding' = <<>> THEN "between" ELSE "decode"
              /\ UNCHANGED <<conf, ask, known, waiting, room, visiting, prefilling>>

(* The requests without a draft decode one token together; those that      *)
(* sampled a stop token, in eos, or reached their cap are released.        *)
DecodeBatch(eos) ==
  /\ phase = "decode" /\ eos \subseteq Range(decoding)
  /\ LET m == AppendEach(mem, decoding, [r \in Requests |-> 1])
     IN  IF ~m.ok THEN Die
         ELSE /\ Sample(m, decoding, eos)
              /\ decoding' = <<>> /\ phase' = "between"
              /\ UNCHANGED <<visiting, prefilling>>

-----------------------------------------------------------------------------
Drafts == 1..Max({e.draft : e \in Engines})

Pass ==
  \/ Begin \/ AdmitOne \/ Classify
  \/ EnsurePoolRoom \/ ResumeChunk \/ ResumeDone \/ Lookup
  \/ PrefillMany \/ PrefillSkip \/ Prefill \/ PrefillDone
  \/ RoomEvict \/ RoomDone
  \/ \E r \in Requests, d \in Drafts, eos \in BOOLEAN :
       \E emitted \in 1..(d + 1) : Verify(r, d, emitted, eos)
  \/ \E eos \in SUBSET Requests : DecodeBatch(eos)

Next ==
  \/ Pass
  \/ \E r \in Requests : Add(r) \/ Abort(r)

(* Engine.run and the serving loop call step() as long as there is work,   *)
(* and a step runs to its end: weak fairness of Pass, with Busy for its    *)
(* ENABLED (has_work, or inside a pass; nothing goes on once it is dead).  *)
Busy == phase # "dead" /\ (phase = "between" => waiting # <<>> \/ running # <<>>)

Spec == Init /\ [][Next]_vars /\ ([]<>~Busy \/ []<><<Pass>>_vars)

-----------------------------------------------------------------------------
(* Properties *)

Live == Range(waiting) \cup Range(running)

(* No error of the engine's own making ever leaves step(): reserving the   *)
(* worst case covers every later chunk, draft and copy-on-write, also with *)
(* the blocks the prefix cache over-holds; evicting always makes room,     *)
(* also when a victim shares its blocks and frees none (the "forward-      *)
(* progress invariant"); and a group never has "multiple active leaders".  *)
NeverDies == phase # "dead"

(* Every block of a table is needed by the positions the table holds, so   *)
(* rollbacks, forks and hits leave no request with blocks beyond what      *)
(* admission counted for it, and in reserve mode none outgrows the promise *)
(* made to it.                                                             *)
TablesExact ==
  \A r \in Requests :
    /\ Len(mem.table[r]) = Positions(mem.length[r])
    /\ ~conf.preemption => Len(mem.table[r]) <= budget[r]

(* A request is queued once, and while it waits it owns no KV and holds no *)
(* promise: an evicted request is never resumed, prefilled, decoded or     *)
(* forked into from a stale list of the pass, which would allocate its     *)
(* blocks twice, and its budget is returned to the committed total once.   *)
WaitingHoldNothing ==
  /\ IsInjective(waiting \o running)
  /\ \A r \in Requests : r \notin Range(running) =>
       mem.table[r] = <<>> /\ ~prefilled[r] /\ budget[r] = 0
  /\ committed = MapThenSumSet(LAMBDA r : budget[r], Requests)

(* A request that may decode has KV for its prompt and all its generated   *)
(* tokens but the last, however often it was evicted, recomputed in chunks *)
(* or rolled back: the next token lands at its own position.               *)
DecodeAtOwnPosition ==
  \A r \in Requests : prefilled[r] => mem.length[r] = ask[r].prompt + generated[r] - 1

(* With finitely many disconnects, hence finitely many arrivals, every     *)
(* request that was accepted finishes or is aborted: evictions and         *)
(* recomputes never chase each other for ever (Scheduler.add: "the         *)
(* block-needer can never livelock").                                      *)
Completion ==
  \/ []<><<\E r \in Requests : Abort(r)>>_vars
  \/ \A r \in Requests : r \in Range(known) ~> finished[r] \/ r \notin Range(known)

(* "requests with the same id and exact prompt can share cached prefix     *)
(* blocks" (docs/serving-eval.md): requests that share an id but not the   *)
(* prompt are served like any others, side by side.                        *)
OtherPromptServed ==
  \A r, q \in Range(running) :
    ask[r].group = ask[q].group /\ ask[r].text # ask[q].text => phase # "dead"
=============================================================================
