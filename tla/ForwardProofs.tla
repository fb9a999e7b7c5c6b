---------------------------- MODULE ForwardProofs ----------------------------
(***************************************************************************)
(* Proofs about the forward passes, for every number of engines, requests, *)
(* windows, batch sizes and launches in flight: each attention run of the  *)
(* device finds the plan info of its own step; no row of a runner's        *)
(* buffers, padding included, passes the pinned RoPE rows; the keys of a   *)
(* live request stay where its table says; and every row of every pass     *)
(* attends to exactly its own history.                                     *)
(***************************************************************************)
EXTENDS Forward, CollectionLemmas

-----------------------------------------------------------------------------
(* The fence *)

Wrappers == {0} \cup setting.grouped

Entries == [op : {"copy", "run"}, wrapper : Wrappers, own : BOOLEAN]

(* A queued copy still brings the info of the launch that sent it, so that *)
(* a wrapper never loses its own info once it has any.                     *)
Sent ==
  /\ stream \in Seq(Entries)
  /\ \A n \in DOMAIN stream : stream[n].op = "copy" => stream[n].own
  /\ Wrappers \subseteq uploaded
  /\ misread = {}

-----------------------------------------------------------------------------
(* The position buffers *)

Fields == {"id", "batch", "budget", "used", "base", "writes", "history", "positions", "cu",
           "total", "pages"}

(* An open window: every row stands as many steps past its base as were    *)
(* taken.                                                                  *)
Window(p) ==
  /\ DOMAIN p = Fields
  /\ p.id \in Nat \ {0}
  /\ p.batch \in Seq(AllRequests) /\ p.batch # <<>>
  /\ p.budget \in Nat /\ p.used \in 0..p.budget
  /\ p.base \in [DOMAIN p.batch -> Nat]
  /\ p.positions = [n \in DOMAIN p.batch |-> p.base[n] + p.used]

(* Where the n-th row of a runner's buffer stands: pad rows start at 0.    *)
Due(p, n) == IF n \in DOMAIN p.batch THEN p.base[n] + p.used ELSE p.used

(* The runner that started a window holds its positions, and the whole     *)
(* window was checked against the pinned rows.                             *)
Carries(p, held) == InPinnedRows(p) /\ \A n \in DOMAIN held : held[n] = Due(p, n)

Buffers(held, sizes) ==
  /\ DOMAIN held = sizes
  /\ \A b \in sizes : held[b] \in [1..b -> 0..MaxPosition]

(* Windows have identities of their own.  A window that took a step with a *)
(* runner is named by one runner at most, which was not used for another   *)
(* since.                                                                  *)
Pinned ==
  /\ setting \in Settings /\ plans \in Nat
  /\ length \in [AllRequests -> Nat]
  /\ DOMAIN plan = Engines /\ DOMAIN exact = Engines /\ DOMAIN owned = Engines
  /\ Buffers(bucket, setting.buckets) /\ active \in 0..plans
  /\ \A e \in Engines :
       /\ Buffers(exact[e], setting.grouped) /\ owned[e] \in [setting.grouped -> 0..plans]
       /\ plan[e] = NoPlan \/ (Window(plan[e]) /\ plan[e].id <= plans)
       /\ Window(plan[e]) /\ plan[e].id = active =>
            /\ plan[e].used > 0 /\ \A b \in setting.grouped : owned[e][b] # active
            /\ BucketFor(plan[e].batch) \in setting.buckets
            /\ Carries(plan[e], bucket[BucketFor(plan[e].batch)])
       /\ \A b \in setting.grouped : Window(plan[e]) /\ plan[e].id = owned[e][b] =>
            plan[e].used > 0 /\ b = Len(plan[e].batch) /\ Carries(plan[e], exact[e][b])
  /\ \A e, f \in Engines : Window(plan[e]) /\ Window(plan[f]) /\ plan[e].id = plan[f].id => e = f

-----------------------------------------------------------------------------
(* What a launch queues *)

LEMMA AppendsTwo ==
  ASSUME NEW S, NEW s \in Seq(S), NEW c \in S, NEW d \in S
  PROVE  /\ s \o <<c, d>> \in Seq(S)
         /\ \A n \in DOMAIN (s \o <<c, d>>) :
              (n \in DOMAIN s /\ (s \o <<c, d>>)[n] = s[n]) \/ (s \o <<c, d>>)[n] \in {c, d}
<1>1. <<c, d>> \in Seq(S) /\ Len(<<c, d>>) = 2 /\ <<c, d>>[1] = c /\ <<c, d>>[2] = d
  OBVIOUS
<1> DEFINE t == <<c, d>>
           w == s \o t
<1>2. t \in Seq(S) /\ Len(t) = 2 /\ t[1] = c /\ t[2] = d
  BY <1>1
<1> HIDE DEF t
<1>3. w \in Seq(S) /\ Len(w) = Len(s) + 2
      /\ \A n \in 1..Len(w) : w[n] = IF n <= Len(s) THEN s[n] ELSE t[n - Len(s)]
  <2>1. w \in Seq(S) /\ Len(w) = Len(s) + Len(t)
        /\ \A n \in 1..Len(s) + Len(t) : w[n] = IF n <= Len(s) THEN s[n] ELSE t[n - Len(s)]
    BY <1>2, ConcatProperties
  <2> HIDE DEF w
  <2> QED
    BY <1>2, <2>1
<1>4. DOMAIN w = 1..Len(w) /\ DOMAIN s = 1..Len(s) /\ Len(s) \in Nat
  BY <1>3, LenProperties
<1> HIDE DEF w
<1>5. ASSUME NEW n \in DOMAIN w, n \notin DOMAIN s PROVE w[n] \in {c, d}
  <2>1. n - Len(s) = 1 \/ n - Len(s) = 2
    BY <1>3, <1>4, <1>5
  <2>2. w[n] = t[n - Len(s)]
    BY <1>3, <1>4, <1>5
  <2> QED
    BY <1>2, <2>1, <2>2
<1>6. \A n \in DOMAIN w : n \in DOMAIN s => w[n] = s[n]
  BY <1>3, <1>4
<1> QED
  BY <1>3, <1>5, <1>6 DEF w, t

(* before_plan waits for the copy of the wrapper's last plan, so plan()    *)
(* overwrites the info of runs only.                                       *)
LEMMA LaunchSends ==
  ASSUME Sent, NEW w \in Wrappers, Launch(w), setting' = setting
  PROVE  Sent'
<1>1. CASE UNCHANGED device
  BY <1>1 DEF Sent, device, Wrappers, Entries
<1>2. CASE ~UNCHANGED device
  <2> DEFINE old == [n \in DOMAIN stream |->
                       IF stream[n].wrapper = w THEN [stream[n] EXCEPT !.own = FALSE] ELSE stream[n]]
             c == [op |-> "copy", wrapper |-> w, own |-> TRUE]
             d == [op |-> "run", wrapper |-> w, own |-> TRUE]
  <2>1. Fenced(w) /\ stream' = old \o <<c, d>> /\ UNCHANGED <<uploaded, misread>>
    BY <1>2, Zenon DEF Launch
  <2>2. c \in Entries /\ d \in Entries /\ c.own /\ d.op = "run"
    BY DEF Entries
  <2>3. \A n \in DOMAIN stream : stream[n] \in Entries /\ (stream[n].op = "copy" => stream[n].own)
    BY ElementOfSeq, LenProperties DEF Sent
  <2>4. \A n \in DOMAIN old : old[n] \in Entries /\ (old[n].op = "copy" => old[n].own)
    BY <2>1, <2>3 DEF Fenced, Entries
  <2>5. old \in Seq(Entries)
    <3>1. DOMAIN stream = 1..Len(stream) /\ Len(stream) \in Nat
      BY LenProperties DEF Sent
    <3>2. DOMAIN old = DOMAIN stream /\ old = [n \in DOMAIN stream |-> old[n]]
      OBVIOUS
    <3> HIDE DEF old
    <3>3. old \in [1..Len(stream) -> Entries]
      BY <2>4, <3>1, <3>2
    <3> QED
      BY <3>1, <3>3
  <2> HIDE DEF old, c, d
  <2>6. stream' \in Seq(Entries)
    BY <2>1, <2>2, <2>5, AppendsTwo
  <2>7. \A n \in DOMAIN stream' : stream'[n].op = "copy" => stream'[n].own
    <3>1. \A n \in DOMAIN stream' : (n \in DOMAIN old /\ stream'[n] = old[n]) \/ stream'[n] \in {c, d}
      BY <2>1, <2>2, <2>5, AppendsTwo
    <3>2. d.op # "copy"
      BY <2>2
    <3> QED
      BY <2>2, <2>4, <3>1, <3>2
  <2>8. Wrappers' = Wrappers /\ Entries' = Entries
    BY DEF Wrappers, Entries
  <2> QED
    BY <2>1, <2>6, <2>7, <2>8 DEF Sent
<1> QED
  BY <1>1, <1>2

LEMMA ExecuteSends ==
  ASSUME Sent, Execute
  PROVE  Sent'
<1>1. /\ stream # <<>> /\ stream' = Tail(stream) /\ setting' = setting
      /\ LET next == Head(stream) IN
           IF next.op = "copy"
           THEN /\ uploaded' = IF next.own THEN uploaded \cup {next.wrapper} ELSE uploaded \ {next.wrapper}
                /\ UNCHANGED misread
           ELSE /\ misread' = misread \cup ({next.wrapper} \ uploaded)
                /\ UNCHANGED uploaded
  BY DEF Execute
<1>2. stream \in Seq(Entries)
  BY DEF Sent
<1>3. /\ Head(stream) \in Entries /\ Head(stream) = stream[1] /\ 1 \in DOMAIN stream
      /\ stream' \in Seq(Entries)
      /\ \A n \in DOMAIN stream' : n + 1 \in DOMAIN stream /\ stream'[n] = stream[n + 1]
  <2>1. Len(stream) \in Nat \ {0} /\ DOMAIN stream = 1..Len(stream)
    BY <1>1, <1>2, EmptySeq, LenProperties
  <2>2. Head(stream) \in Entries /\ Tail(stream) \in Seq(Entries) /\ Len(Tail(stream)) = Len(stream) - 1
        /\ \A n \in 1..Len(Tail(stream)) : Tail(stream)[n] = stream[n + 1]
    BY <1>1, <1>2, HeadTailProperties
  <2>3. DOMAIN Tail(stream) = 1..Len(Tail(stream))
    BY <2>2, LenProperties
  <2> QED
    BY <1>1, <2>1, <2>2, <2>3
<1>4. Head(stream).wrapper \in uploaded /\ (Head(stream).op = "copy" => Head(stream).own)
  BY <1>3 DEF Sent, Entries
<1>5. uploaded \subseteq uploaded' /\ misread' = misread
  BY <1>1, <1>4
<1>6. Wrappers' = Wrappers /\ Entries' = Entries
  BY <1>1 DEF Wrappers, Entries
<1> QED
  BY <1>3, <1>5, <1>6 DEF Sent

(* A step of a graph of its own launches with the wrapper of its size. *)
LEMMA StepLaunches ==
  ASSUME NEW e, GroupedStep(e) \/ BucketStep(e) \/ EagerStep(e)
  PROVE  setting' = setting /\ \E w \in Wrappers : Launch(w)
<1>1. CASE GroupedStep(e)
  <2>1. /\ Route(e, plan[e]) = "grouped" /\ setting' = setting
        /\ Launch(IF setting.graphs THEN Len(plan[e].batch) ELSE 0)
    BY <1>1 DEF GroupedStep, Run
  <2>2. Len(plan[e].batch) \in setting.grouped
    BY <2>1 DEF Route
  <2> QED
    BY <2>1, <2>2 DEF Wrappers
<1>2. CASE BucketStep(e)
  BY <1>2 DEF BucketStep, Run, Wrappers
<1>3. CASE EagerStep(e)
  BY <1>3 DEF EagerStep, Run, Wrappers
<1> QED
  BY <1>1, <1>2, <1>3

LEMMA NextSends ==
  ASSUME Sent, [Next]_vars
  PROVE  Sent'
<1>1. CASE UNCHANGED <<setting, device>>
  BY <1>1 DEF Sent, device, Wrappers, Entries
<1>2. ASSUME NEW w \in Wrappers, Launch(w), setting' = setting PROVE Sent'
  BY <1>2, LaunchSends
<1>3. ASSUME NEW r, NEW k, Contiguous(r, k) PROVE Sent'
  BY <1>1, <1>3 DEF Contiguous
<1>4. ASSUME NEW e, PrefillPacked(e) PROVE Sent'
  BY <1>1, <1>4 DEF PrefillPacked, PrefillMany
<1>5. ASSUME NEW e, PrefillOne(e) PROVE Sent'
  BY <1>3, <1>5, Zenon DEF PrefillOne, PrefillChunk, PrefillAlone
<1>6. ASSUME NEW e, Decode(e) PROVE Sent'
  <2>1. ASSUME NEW batch, DecodeMany(e, batch) PROVE Sent'
    BY <1>2, <2>1 DEF DecodeMany, Wrappers
  <2> QED
    BY <1>3, <1>6, <2>1, Zenon DEF Decode, DecodeTokens
<1>7. ASSUME NEW e, OpenWindow(e) \/ Close(e) PROVE Sent'
  BY <1>1, <1>7 DEF OpenWindow, Open, Close
<1>8. ASSUME NEW e, GroupedStep(e) \/ BucketStep(e) \/ EagerStep(e) PROVE Sent'
  BY <1>2, <1>8, StepLaunches
<1>9. ASSUME NEW r, Fork(r) \/ Free(r) PROVE Sent'
  BY <1>1, <1>9 DEF Fork, Free
<1>10. CASE UNCHANGED vars
  BY <1>1, <1>10 DEF vars
<1> QED
  BY <1>4, <1>5, <1>6, <1>7, <1>8, <1>9, <1>10, ExecuteSends, Zenon
  DEF Next, QwenPrefill, QwenDecode

(* PlanCopyFence: each attention run of the device reads the plan info of  *)
(* its own step, however many launches the host has queued ahead of it.    *)
THEOREM RunsReadOwnPlan == Spec => []OwnPlanInfo
<1>1. Init => Sent
  BY DEF Init, Sent, Wrappers
<1>2. Sent => OwnPlanInfo
  BY DEF Sent, OwnPlanInfo
<1> QED
  BY <1>1, <1>2, NextSends, PTL DEF Spec

-----------------------------------------------------------------------------
(* The steps of a window *)

(* Every base of a pinned window, and 0, leave room for its whole budget.  *)
LEMMA PinnedRows ==
  ASSUME NEW p, Window(p), InPinnedRows(p)
  PROVE  /\ p.budget <= MaxPosition
         /\ \A n \in DOMAIN p.batch : p.base[n] + p.budget <= MaxPosition
<1> DEFINE S == Range(p.base)
<1>1. /\ p.base \in [DOMAIN p.batch -> Nat] /\ p.budget \in Nat /\ MaxPosition \in Nat
      /\ DOMAIN p.batch = 1..Len(p.batch) /\ Len(p.batch) \in Nat \ {0}
  BY ForwardAssumption, EmptySeq, LenProperties DEF Window
<1>2. DOMAIN p.base = 1..Len(p.batch) /\ 1 \in DOMAIN p.base
  BY <1>1
<1>3. S = {p.base[n] : n \in 1..Len(p.batch)}
  BY <1>2 DEF Range
<1>4. S \in SUBSET Nat /\ S # {} /\ \A n \in DOMAIN p.batch : p.base[n] \in S
  BY <1>1, <1>2, <1>3
<1>5. IsFiniteSet(S)
  <2> DEFINE f == [n \in 1..Len(p.batch) |-> p.base[n]]
  <2>2. f \in Surjection(1..Len(p.batch), S)
    BY <1>3 DEF Surjection
  <2> HIDE DEF f, S
  <2> QED
    BY <1>1, <2>2, FS_NatSurjection DEF ExistsSurjection
<1>6. Max(S) + p.budget <= MaxPosition
  BY DEF InPinnedRows
<1> HIDE DEF S
<1>7. Max(S) \in Nat /\ \A n \in S : n <= Max(S)
  BY <1>4, <1>5, MaxOfFinite
<1>8. \A n \in DOMAIN p.batch : p.base[n] \in Nat /\ p.base[n] <= Max(S)
  BY <1>4, <1>7
<1> QED
  BY <1>1, <1>6, <1>7, <1>8

(* complete_step of a step that begin_step prepared. *)
Stepped(p) == Advanced(Scattered(p))

LEMMA SteppedFields ==
  ASSUME NEW p, DOMAIN p = Fields
  PROVE  /\ DOMAIN Stepped(p) = Fields
         /\ Stepped(p).id = p.id /\ Stepped(p).batch = p.batch /\ Stepped(p).budget = p.budget
         /\ Stepped(p).base = p.base /\ Stepped(p).used = p.used + 1
         /\ Stepped(p).positions = Plus1(p.positions)
<1> DEFINE q == Scattered(p)
<1>1. DOMAIN q = Fields /\ \A f \in Fields \ {"history"} : q[f] = p[f]
  BY DEF Scattered, Fields
<1> HIDE DEF q
<1>2. /\ DOMAIN Advanced(q) = Fields
      /\ Advanced(q).used = q.used + 1 /\ Advanced(q).positions = Plus1(q.positions)
      /\ \A f \in {"id", "batch", "budget", "base"} : Advanced(q)[f] = q[f]
  BY <1>1 DEF Advanced, Fields
<1>3. \A f \in {"id", "batch", "budget", "base", "used", "positions"} : q[f] = p[f]
  BY <1>1 DEF Fields
<1> QED
  BY <1>2, <1>3 DEF Stepped, q

(* A step moves every row of its window on by one. *)
LEMMA SteppedWindow ==
  ASSUME NEW p, Window(p), p.used < p.budget
  PROVE  /\ Window(Stepped(p))
         /\ \A n \in Nat : Due(p, n) \in Nat /\ Due(Stepped(p), n) = Due(p, n) + 1
         /\ InPinnedRows(p) => InPinnedRows(Stepped(p)) /\ \A n \in Nat : Due(Stepped(p), n) <= MaxPosition
<1> DEFINE q == Stepped(p)
<1>1. /\ DOMAIN p = Fields /\ p.id \in Nat \ {0} /\ p.batch \in Seq(AllRequests) /\ p.batch # <<>>
      /\ p.budget \in Nat /\ p.used \in 0..p.budget /\ p.base \in [DOMAIN p.batch -> Nat]
      /\ p.positions = [n \in DOMAIN p.batch |-> p.base[n] + p.used]
  BY DEF Window
<1>2. /\ DOMAIN q = Fields /\ q.id = p.id /\ q.batch = p.batch /\ q.budget = p.budget
      /\ q.base = p.base /\ q.used = p.used + 1 /\ q.positions = Plus1(p.positions)
  BY <1>1, SteppedFields
<1> HIDE DEF q
<1>3. q.positions = [n \in DOMAIN q.batch |-> q.base[n] + q.used]
  <2>1. ASSUME NEW n \in DOMAIN p.batch
        PROVE  Plus1(p.positions)[n] = p.base[n] + (p.used + 1)
    <3>1. p.base[n] \in Nat /\ p.used \in Nat
      BY <1>1
    <3>2. Plus1(p.positions)[n] = (p.base[n] + p.used) + 1
      BY <1>1 DEF Plus1
    <3> QED
      BY <3>1, <3>2
  <2>2. Plus1(p.positions) = [n \in DOMAIN p.batch |-> Plus1(p.positions)[n]]
    BY <1>1 DEF Plus1
  <2> QED
    BY <1>2, <2>1, <2>2
<1>4. Window(q)
  <2>1. q.used \in 0..q.budget
    BY <1>1, <1>2
  <2> QED
    BY <1>1, <1>2, <1>3, <2>1 DEF Window
<1>5. ASSUME NEW n \in Nat PROVE Due(p, n) \in Nat /\ Due(q, n) = Due(p, n) + 1
  <2>1. p.used \in Nat
    BY <1>1
  <2>2. CASE n \in DOMAIN p.batch
    <3>1. p.base[n] \in Nat
      BY <1>1, <2>2
    <3>2. Due(p, n) = p.base[n] + p.used /\ Due(q, n) = p.base[n] + (p.used + 1)
      BY <1>2, <2>2 DEF Due
    <3> QED
      BY <2>1, <3>1, <3>2
  <2>3. CASE n \notin DOMAIN p.batch
    BY <1>2, <2>1, <2>3 DEF Due
  <2> QED
    BY <2>2, <2>3
<1>6. ASSUME InPinnedRows(p)
      PROVE  InPinnedRows(q) /\ \A n \in Nat : Due(q, n) <= MaxPosition
  <2>1. InPinnedRows(q)
    BY <1>2, <1>6 DEF InPinnedRows
  <2>2. p.budget <= MaxPosition /\ \A n \in DOMAIN p.batch : p.base[n] + p.budget <= MaxPosition
    BY <1>6, PinnedRows
  <2>3. MaxPosition \in Nat
    BY ForwardAssumption
  <2>4. p.used + 1 <= p.budget
    BY <1>1
  <2> QED
    BY <1>1, <1>2, <2>1, <2>2, <2>3, <2>4 DEF Due
<1> QED
  BY <1>4, <1>5, <1>6 DEF q

(* A runner that takes a step of a window holds, loads and advances the    *)
(* positions its rows are due at, and stays in the pinned rows.            *)
LEMMA RunnerStep ==
  ASSUME NEW p, Window(p), p.used < p.budget,
         NEW size \in Nat, NEW held \in [1..size -> 0..MaxPosition], NEW name,
         Takes(p, name), name = p.id => Carries(p, held)
  PROVE  /\ Plus1(Loaded(p, held)) \in [1..size -> 0..MaxPosition]
         /\ Carries(Stepped(p), Plus1(Loaded(p, held)))
<1> DEFINE rope == Loaded(p, held)
<1>1. DOMAIN held = 1..size
  OBVIOUS
<1>2. InPinnedRows(p) /\ DOMAIN rope = 1..size /\ \A n \in 1..size : rope[n] = Due(p, n)
  <2>1. CASE p.used = 0
    <3>1. /\ p.positions = [n \in DOMAIN p.batch |-> p.base[n] + p.used]
          /\ p.base \in [DOMAIN p.batch -> Nat]
          /\ DOMAIN p.batch = 1..Len(p.batch) /\ Len(p.batch) \in Nat
      BY LenProperties DEF Window
    <3>2. rope = [n \in 1..size |-> IF n <= Len(p.batch) THEN p.positions[n] ELSE 0]
      BY <1>1, <2>1 DEF Loaded
    <3> HIDE DEF rope
    <3>3. \A n \in 1..size : n <= Len(p.batch) <=> n \in DOMAIN p.batch
      BY <3>1
    <3>4. \A n \in DOMAIN p.batch : p.positions[n] = p.base[n] + p.used
      BY <3>1
    <3>5. InPinnedRows(p)
      BY <2>1 DEF Takes
    <3> QED
      BY <2>1, <3>2, <3>3, <3>4, <3>5 DEF Due
  <2>2. CASE p.used # 0
    <3>1. rope = held /\ Carries(p, held)
      BY <2>2 DEF Takes, Loaded
    <3> QED
      BY <1>1, <3>1 DEF Carries
  <2> QED
    BY <2>1, <2>2
<1> HIDE DEF rope
<1>3. /\ \A n \in Nat : Due(p, n) \in Nat /\ Due(Stepped(p), n) = Due(p, n) + 1
      /\ InPinnedRows(Stepped(p)) /\ \A n \in Nat : Due(Stepped(p), n) <= MaxPosition
  BY <1>2, SteppedWindow
<1>4. Plus1(rope) = [n \in 1..size |-> Due(Stepped(p), n)]
  BY <1>2, <1>3 DEF Plus1
<1>5. ASSUME NEW n \in 1..size PROVE Due(Stepped(p), n) \in 0..MaxPosition
  <2> DEFINE d == Due(Stepped(p), n)
  <2>1. n \in Nat /\ MaxPosition \in Nat
    BY ForwardAssumption
  <2>2. Due(p, n) \in Nat /\ d = Due(p, n) + 1 /\ d <= MaxPosition
    BY <1>3, <2>1
  <2> HIDE DEF d
  <2>3. d \in 0..MaxPosition
    BY <2>1, <2>2
  <2> QED
    BY <2>3 DEF d
<1> QED
  BY <1>3, <1>4, <1>5 DEF Carries, rope

-----------------------------------------------------------------------------
(* Every step keeps the buffers *)

(* Nothing but the lengths of the tables moves. *)
LEMMA QuietPinned ==
  ASSUME Pinned, UNCHANGED <<setting, plan, plans, runners>>, length' \in [AllRequests -> Nat]
  PROVE  Pinned'
<1>1. UNCHANGED <<setting, plan, plans, bucket, exact, active, owned>>
  BY DEF runners
<1>2. \A batch : BucketFor(batch)' = BucketFor(batch)
  BY <1>1 DEF BucketFor
<1> QED
  BY <1>1, <1>2 DEF Pinned

LEMMA GrownTyped ==
  ASSUME Pinned, NEW batch, NEW count \in Nat, Grown(batch, count)
  PROVE  length' \in [AllRequests -> Nat]
  BY DEF Pinned, Grown

LEMMA PromptsTyped ==
  ASSUME NEW r \in AllRequests
  PROVE  Prompt[r] \in Nat /\ Leader[r] \in AllRequests
<1>1. PICK i \in DOMAIN Requests : r = Requests[i]
  BY DEF AllRequests, Range
<1> QED
  BY <1>1, ForwardAssumption DEF AllRequests

LEMMA ContiguousPinned ==
  ASSUME Pinned, NEW r, NEW count \in Nat, Contiguous(r, count)
  PROVE  Pinned'
<1>1. Grown(<<r>>, count) /\ UNCHANGED <<setting, plan, plans, runners>>
  BY DEF Contiguous
<1> QED
  BY <1>1, GrownTyped, QuietPinned

LEMMA PrefillPinned ==
  ASSUME Pinned, NEW e, PrefillOne(e) \/ PrefillPacked(e)
  PROVE  Pinned'
<1>1. length \in [AllRequests -> Nat]
  BY DEF Pinned
<1>2. ASSUME NEW r \in AllRequests, PrefillAlone(r) PROVE Pinned'
  BY <1>2, PromptsTyped, ContiguousPinned DEF PrefillAlone
<1>3. ASSUME NEW r \in AllRequests, NEW size \in 1..2, PrefillChunk(r, size) PROVE Pinned'
  <2> DEFINE rest == Prompt[r] - length[r]
             k == Min({size, rest})
  <2>1. rest \in Nat /\ Contiguous(r, k)
    BY <1>1, <1>3, PromptsTyped DEF PrefillChunk
  <2> HIDE DEF rest
  <2>2. k \in {size, rest}
    BY <2>1, MinExists
  <2> HIDE DEF k
  <2> QED
    BY <2>1, <2>2, ContiguousPinned
<1>4. ASSUME NEW batch, PrefillMany(e, batch) PROVE Pinned'
  <2>1. /\ UNCHANGED <<setting, plan, plans, runners>>
        /\ length' = [r \in AllRequests |-> IF r \in Range(batch) THEN Prompt[r] ELSE length[r]]
    BY <1>4, Zenon DEF PrefillMany
  <2>2. length' \in [AllRequests -> Nat]
    BY <1>1, <2>1, PromptsTyped
  <2> QED
    BY <2>1, <2>2, QuietPinned
<1> QED
  BY <1>2, <1>3, <1>4, Zenon DEF PrefillOne, PrefillPacked

LEMMA DecodePinned ==
  ASSUME Pinned, NEW e, Decode(e)
  PROVE  Pinned'
<1>1. ASSUME NEW batch, DecodeMany(e, batch) PROVE Pinned'
  <2>1. Grown(batch, 1) /\ UNCHANGED <<setting, plan, plans, runners>>
    BY <1>1 DEF DecodeMany
  <2> QED
    BY <2>1, GrownTyped, QuietPinned
<1>2. ASSUME NEW r, DecodeTokens(r, 2) PROVE Pinned'
  BY <1>2, ContiguousPinned DEF DecodeTokens
<1> QED
  BY <1>1, <1>2, Zenon DEF Decode

LEMMA ForkPinned ==
  ASSUME Pinned, NEW r \in AllRequests, Fork(r) \/ Free(r)
  PROVE  Pinned'
<1>1. UNCHANGED <<setting, plan, plans, runners>>
  BY DEF Fork, Free
<1>2. length' = [length EXCEPT ![r] = length[Leader[r]]] \/ length' = [length EXCEPT ![r] = 0]
  BY DEF Fork, Free
<1>3. length' \in [AllRequests -> Nat]
  BY <1>2, PromptsTyped DEF Pinned
<1> QED
  BY <1>1, <1>3, QuietPinned

(* A batch of an engine has a member. *)
LEMMA BatchTyped ==
  ASSUME NEW e, NEW batch \in Batches(e, Prefilled)
  PROVE  batch \in Seq(AllRequests) /\ batch # <<>>
<1>1. PICK S \in (SUBSET AllRequests) \ {{}} : batch = Without(Requests, AllRequests \ S)
  BY Zenon DEF Batches
<1>2. Requests \in Seq(AllRequests)
  BY ForwardAssumption DEF AllRequests
<1>3. PICK r \in S : TRUE
  BY <1>1
<1>4. batch \in Seq(AllRequests) /\ r \in Range(batch)
  <2>1. r \in Range(Requests) /\ r \notin AllRequests \ S
    BY <1>1, <1>3 DEF AllRequests
  <2> QED
    BY <1>1, <1>2, <2>1, WithoutExact
<1>5. Range(<<>>) = {}
  BY DEF Range
<1> QED
  BY <1>4, <1>5

(* A plan built for a batch is a window of its own. *)
LEMMA BuiltWindow ==
  ASSUME Pinned, NEW m, NEW batch \in Seq(AllRequests), batch # <<>>, NEW budget \in 1..MaxBudget
  PROVE  LET p == BuildPlan(m, batch, budget, plans + 1)
         IN  Window(p) /\ p.id = plans + 1
<1> DEFINE p == BuildPlan(m, batch, budget, plans + 1)
<1>1. /\ DOMAIN p = Fields /\ p.id = plans + 1 /\ p.batch = batch /\ p.budget = budget /\ p.used = 0
      /\ p.base = [n \in DOMAIN batch |-> length[batch[n]]] /\ p.positions = p.base
  BY DEF BuildPlan, Fields
<1> HIDE DEF p
<1>2. plans \in Nat /\ length \in [AllRequests -> Nat] /\ MaxBudget \in Nat
  BY ForwardAssumption DEF Pinned
<1>3. \A n \in DOMAIN batch : batch[n] \in AllRequests
  BY ElementOfSeq, LenProperties
<1>4. p.base \in [DOMAIN p.batch -> Nat]
  BY <1>1, <1>2, <1>3
<1>5. p.positions = [n \in DOMAIN p.batch |-> p.base[n] + p.used]
  BY <1>1, <1>2, <1>3
<1>6. p.budget \in Nat /\ p.used \in 0..p.budget /\ p.id \in Nat \ {0}
  BY <1>1, <1>2
<1> QED
  BY <1>1, <1>4, <1>5, <1>6 DEF Window, p

LEMMA OpenPinned ==
  ASSUME Pinned, NEW e \in Engines, OpenWindow(e)
  PROVE  Pinned'
<1>1. PICK batch \in Batches(e, Prefilled), budget \in 1..MaxBudget : Open(e, batch, budget)
  BY Zenon DEF OpenWindow
<1>2. batch \in Seq(AllRequests) /\ batch # <<>>
  BY BatchTyped
<1> DEFINE p == BuildPlan(ReserveAll(Memory(e), batch, Each(batch, budget)), batch, budget, plans + 1)
<1>3. /\ plans' = plans + 1 /\ plan' = [plan EXCEPT ![e] = p]
      /\ UNCHANGED <<setting, length, runners>>
  BY <1>1, Zenon DEF Open
<1>4. Window(p) /\ p.id = plans + 1
  BY <1>2, BuiltWindow
<1> HIDE DEF p
<1>5. plans \in Nat /\ DOMAIN plan = Engines
  BY DEF Pinned
<1>6. DOMAIN plan' = Engines /\ plan'[e] = p /\ \A f \in Engines \ {e} : plan'[f] = plan[f]
  BY <1>3, <1>5
<1>7. UNCHANGED <<setting, length, bucket, exact, active, owned>>
  BY <1>3 DEF runners
<1>8. \A f \in Engines \ {e} : Window(plan[f]) => plan[f].id # p.id
  <2>1. \A f \in Engines : Window(plan[f]) => plan[f].id <= plans
    BY DEF Pinned, Window, NoPlan, Fields
  <2>2. ASSUME NEW f \in Engines, Window(plan[f]) PROVE plan[f].id # p.id
    <3>1. plan[f].id \in Nat /\ plan[f].id <= plans
      BY <2>1, <2>2 DEF Window
    <3> QED
      BY <1>4, <1>5, <3>1
  <2> QED
    BY <2>2
<1>9. p.id # active /\ \A b \in setting.grouped : p.id # owned[e][b]
  BY <1>4, <1>5 DEF Pinned
<1>10. ASSUME NEW f \in Engines
       PROVE  /\ plan'[f] = NoPlan \/ (Window(plan'[f]) /\ plan'[f].id <= plans')
              /\ Window(plan'[f]) /\ plan'[f].id = active =>
                   /\ plan'[f].used > 0 /\ \A b \in setting.grouped : owned[f][b] # active
                   /\ BucketFor(plan'[f].batch) \in setting.buckets
                   /\ Carries(plan'[f], bucket[BucketFor(plan'[f].batch)])
              /\ \A b \in setting.grouped : Window(plan'[f]) /\ plan'[f].id = owned[f][b] =>
                   plan'[f].used > 0 /\ b = Len(plan'[f].batch) /\ Carries(plan'[f], exact[f][b])
  <2>1. CASE f = e
    BY <1>3, <1>4, <1>5, <1>6, <1>9, <2>1
  <2>2. CASE f # e
    <3>1. plan'[f] = plan[f]
      BY <1>6, <2>2
    <3>2. plan[f] = NoPlan \/ (Window(plan[f]) /\ plan[f].id <= plans)
      BY DEF Pinned
    <3>3. plan[f] = NoPlan \/ (Window(plan[f]) /\ plan[f].id <= plans')
      <4>1. Window(plan[f]) => plan[f].id \in Nat
        BY DEF Window
      <4> QED
        BY <1>3, <1>5, <3>2, <4>1
    <3> QED
      BY <3>1, <3>3 DEF Pinned
  <2> QED
    BY <2>1, <2>2
<1>11. \A f, g \in Engines : Window(plan'[f]) /\ Window(plan'[g]) /\ plan'[f].id = plan'[g].id => f = g
  BY <1>6, <1>8 DEF Pinned
<1>12. Pinned'
  <2>1. \A q, held : Carries(q, held)' <=> Carries(q, held)
    BY DEF Carries, InPinnedRows, Due
  <2>2. \A batch1 : BucketFor(batch1)' = BucketFor(batch1)
    BY <1>7 DEF BucketFor
  <2>3. setting' \in Settings /\ plans' \in Nat /\ length' \in [AllRequests -> Nat]
    BY <1>3, <1>5, <1>7 DEF Pinned
  <2>4. /\ DOMAIN exact' = Engines /\ DOMAIN owned' = Engines /\ Buffers(bucket', setting'.buckets)
        /\ active' \in 0..plans'
        /\ \A f \in Engines :
             Buffers(exact'[f], setting'.grouped) /\ owned'[f] \in [setting'.grouped -> 0..plans']
    BY <1>3, <1>5, <1>7 DEF Pinned, Buffers
  <2> QED
    BY <1>6, <1>7, <1>10, <1>11, <2>2, <2>3, <2>4 DEF Pinned
<1> QED
  BY <1>12

LEMMA ClosePinned ==
  ASSUME Pinned, NEW e \in Engines, Close(e)
  PROVE  Pinned'
<1>1. plan' = [plan EXCEPT ![e] = NoPlan] /\ UNCHANGED <<setting, tables, plans, runners>>
  BY DEF Close
<1>2. UNCHANGED <<setting, length, plans, bucket, exact, active, owned>>
  BY <1>1 DEF runners, tables
<1>3. /\ DOMAIN plan' = Engines
      /\ \A f \in Engines : plan'[f] = plan[f] \/ plan'[f] = NoPlan
  BY <1>1 DEF Pinned
<1>4. ~Window(NoPlan)
  BY DEF Window, NoPlan, Fields
<1>5. \A batch : BucketFor(batch)' = BucketFor(batch)
  BY <1>2 DEF BucketFor
<1>6. \A f \in Engines : plan'[f] = NoPlan \/ (Window(plan'[f]) /\ plan'[f] = plan[f])
  BY <1>3 DEF Pinned
<1>7. ASSUME NEW f \in Engines
      PROVE  /\ plan'[f] = NoPlan \/ (Window(plan'[f]) /\ plan'[f].id <= plans)
             /\ Window(plan'[f]) /\ plan'[f].id = active =>
                  /\ plan'[f].used > 0 /\ \A b \in setting.grouped : owned[f][b] # active
                  /\ BucketFor(plan'[f].batch) \in setting.buckets
                  /\ Carries(plan'[f], bucket[BucketFor(plan'[f].batch)])
             /\ \A b \in setting.grouped : Window(plan'[f]) /\ plan'[f].id = owned[f][b] =>
                  plan'[f].used > 0 /\ b = Len(plan'[f].batch) /\ Carries(plan'[f], exact[f][b])
  <2>1. CASE plan'[f] = NoPlan
    BY <1>4, <2>1
  <2>2. CASE plan'[f] = plan[f]
    BY <2>2 DEF Pinned
  <2> QED
    BY <1>3, <2>1, <2>2
<1>8. \A f, g \in Engines : Window(plan'[f]) /\ Window(plan'[g]) /\ plan'[f].id = plan'[g].id => f = g
  BY <1>4, <1>6 DEF Pinned
<1>9. /\ DOMAIN exact' = Engines /\ DOMAIN owned' = Engines /\ Buffers(bucket', setting'.buckets)
      /\ setting' \in Settings /\ plans' \in Nat /\ length' \in [AllRequests -> Nat]
      /\ active' \in 0..plans'
      /\ \A f \in Engines :
           Buffers(exact'[f], setting'.grouped) /\ owned'[f] \in [setting'.grouped -> 0..plans']
  BY <1>2 DEF Pinned, Buffers
<1> QED
  BY <1>2, <1>3, <1>5, <1>7, <1>8, <1>9 DEF Pinned

-----------------------------------------------------------------------------
(* A planned step, by whichever runner *)

(* The window that runs moves on, the others stay. *)
LEMMA RunMoves ==
  ASSUME Pinned, NEW e \in Engines, NEW rope, plan[e] # NoPlan, plan[e].used < plan[e].budget,
         Run(e, plan[e], rope)
  PROVE  /\ Window(plan[e]) /\ Window(plan'[e]) /\ plan'[e] = Stepped(plan[e])
         /\ plan'[e].id = plan[e].id /\ plan'[e].batch = plan[e].batch /\ plan'[e].used > 0
         /\ DOMAIN plan' = Engines /\ \A f \in Engines \ {e} : plan'[f] = plan[f]
         /\ \A f \in Engines : plan'[f] = NoPlan \/ (Window(plan'[f]) /\ plan'[f].id <= plans')
         /\ \A f, g \in Engines :
              Window(plan'[f]) /\ Window(plan'[g]) /\ plan'[f].id = plan'[g].id => f = g
         /\ UNCHANGED <<setting, plans>> /\ length' \in [AllRequests -> Nat]
         /\ \A batch : BucketFor(batch)' = BucketFor(batch)
<1>1. /\ plan' = [plan EXCEPT ![e] = Stepped(plan[e])] /\ Grown(plan[e].batch, 1)
      /\ UNCHANGED <<setting, plans>>
  BY Zenon DEF Run, Stepped
<1>2. Window(plan[e]) /\ plan[e].id <= plans /\ DOMAIN plan = Engines
  BY DEF Pinned
<1>3. /\ Window(Stepped(plan[e])) /\ Stepped(plan[e]).id = plan[e].id
      /\ Stepped(plan[e]).batch = plan[e].batch /\ Stepped(plan[e]).used = plan[e].used + 1
  BY <1>2, SteppedWindow, SteppedFields DEF Window
<1>4. /\ plan'[e] = Stepped(plan[e]) /\ DOMAIN plan' = Engines
      /\ \A f \in Engines \ {e} : plan'[f] = plan[f]
  BY <1>1, <1>2
<1>5. plan'[e].used > 0
  <2>1. plan[e].used \in Nat
    BY <1>2 DEF Window
  <2> QED
    BY <1>3, <1>4, <2>1
<1>6. \A f \in Engines : plan'[f] = NoPlan \/ (Window(plan'[f]) /\ plan'[f].id <= plans')
  BY <1>1, <1>2, <1>3, <1>4 DEF Pinned
<1>7. ASSUME NEW f \in Engines, NEW g \in Engines, Window(plan'[f]), Window(plan'[g]),
             plan'[f].id = plan'[g].id
      PROVE  f = g
  <2>1. Window(plan[f]) /\ Window(plan[g]) /\ plan[f].id = plan[g].id
    BY <1>2, <1>3, <1>4, <1>7
  <2> QED
    BY <2>1 DEF Pinned
<1>8. length' \in [AllRequests -> Nat]
  BY <1>1, GrownTyped
<1>9. \A batch : BucketFor(batch)' = BucketFor(batch)
  BY <1>1 DEF BucketFor
<1> QED
  BY <1>1, <1>2, <1>3, <1>4, <1>5, <1>6, <1>7, <1>8, <1>9

LEMMA BucketFits ==
  ASSUME setting \in Settings, NEW batch, BucketFor(batch) # 0
  PROVE  BucketFor(batch) \in setting.buckets
<1> DEFINE fits == {b \in setting.buckets : b >= Len(batch)}
<1>1. fits # {} /\ BucketFor(batch) = Min(fits)
  BY DEF BucketFor
<1>2. fits \in SUBSET Nat
  BY ForwardAssumption
<1> HIDE DEF fits
<1>3. Min(fits) \in fits
  BY <1>1, <1>2, MinExists
<1> QED
  BY <1>1, <1>3 DEF fits

LEMMA GroupedPinned ==
  ASSUME Pinned, NEW e \in Engines, GroupedStep(e)
  PROVE  Pinned'
<1> DEFINE p == plan[e]
           size == Len(p.batch)
           rope == Loaded(p, exact[e][size])
<1>1. /\ p # NoPlan /\ p.used < p.budget /\ Route(e, p) = "grouped" /\ Run(e, p, rope)
      /\ exact' = [exact EXCEPT ![e][size] = Plus1(rope)]
      /\ owned' = [owned EXCEPT ![e][size] = p.id]
      /\ UNCHANGED <<bucket, active>>
  BY Zenon DEF GroupedStep
<1>2. size \in setting.grouped /\ Takes(p, owned[e][size])
  BY <1>1 DEF Route
<1>3. Window(p) /\ p.id \in Nat \ {0} /\ p.id <= plans /\ plans \in Nat /\ setting \in Settings
  BY <1>1 DEF Pinned, Window
<1>4. size \in Nat /\ exact[e][size] \in [1..size -> 0..MaxPosition]
  BY <1>2, ForwardAssumption DEF Pinned, Buffers
<1>5. owned[e][size] = p.id => Carries(p, exact[e][size])
  BY <1>2, <1>3 DEF Pinned
<1>6. Plus1(rope) \in [1..size -> 0..MaxPosition] /\ Carries(Stepped(p), Plus1(rope))
  BY <1>1, <1>2, <1>3, <1>4, <1>5, RunnerStep
<1>7. p.id # active
  BY <1>2, <1>3 DEF Pinned, Takes
<1>8. /\ plan'[e] = Stepped(p) /\ plan'[e].id = p.id /\ plan'[e].batch = p.batch /\ plan'[e].used > 0
      /\ DOMAIN plan' = Engines /\ \A f \in Engines \ {e} : plan'[f] = plan[f]
      /\ \A f \in Engines : plan'[f] = NoPlan \/ (Window(plan'[f]) /\ plan'[f].id <= plans')
      /\ \A f, g \in Engines :
           Window(plan'[f]) /\ Window(plan'[g]) /\ plan'[f].id = plan'[g].id => f = g
      /\ UNCHANGED <<setting, plans>> /\ length' \in [AllRequests -> Nat]
      /\ \A batch : BucketFor(batch)' = BucketFor(batch)
  BY <1>1, RunMoves
<1>9. /\ DOMAIN exact' = Engines /\ DOMAIN owned' = Engines
      /\ \A f \in Engines \ {e} : exact'[f] = exact[f] /\ owned'[f] = owned[f]
      /\ exact'[e] = [exact[e] EXCEPT ![size] = Plus1(rope)]
      /\ owned'[e] = [owned[e] EXCEPT ![size] = p.id]
  BY <1>1 DEF Pinned
<1> HIDE DEF rope
<1>10. /\ Buffers(exact'[e], setting.grouped) /\ owned'[e] \in [setting.grouped -> 0..plans]
       /\ exact'[e][size] = Plus1(rope) /\ owned'[e][size] = p.id
       /\ \A b \in setting.grouped \ {size} : exact'[e][b] = exact[e][b] /\ owned'[e][b] = owned[e][b]
  BY <1>2, <1>3, <1>6, <1>9 DEF Pinned, Buffers
<1> HIDE DEF size
<1>11. \A b \in setting.grouped : p.id = owned'[e][b] => b = size
  BY <1>3, <1>10 DEF Pinned, size
<1> HIDE DEF p
<1>12. ASSUME NEW f \in Engines
       PROVE  /\ Buffers(exact'[f], setting.grouped) /\ owned'[f] \in [setting.grouped -> 0..plans]
              /\ Window(plan'[f]) /\ plan'[f].id = active =>
                   /\ plan'[f].used > 0 /\ \A b \in setting.grouped : owned'[f][b] # active
                   /\ BucketFor(plan'[f].batch) \in setting.buckets
                   /\ Carries(plan'[f], bucket[BucketFor(plan'[f].batch)])
              /\ \A b \in setting.grouped : Window(plan'[f]) /\ plan'[f].id = owned'[f][b] =>
                   plan'[f].used > 0 /\ b = Len(plan'[f].batch) /\ Carries(plan'[f], exact'[f][b])
  <2>1. CASE f = e
    BY <1>6, <1>7, <1>8, <1>10, <1>11, <2>1 DEF size
  <2>2. CASE f # e
    BY <1>8, <1>9, <2>2 DEF Pinned
  <2> QED
    BY <2>1, <2>2
<1>13. /\ setting' \in Settings /\ plans' \in Nat /\ Buffers(bucket', setting'.buckets)
       /\ active' \in 0..plans' /\ UNCHANGED <<setting, plans, bucket, active>>
  BY <1>1, <1>3, <1>8 DEF Pinned, Buffers
<1> QED
  BY <1>8, <1>9, <1>12, <1>13 DEF Pinned

LEMMA BucketPinned ==
  ASSUME Pinned, NEW e \in Engines, BucketStep(e)
  PROVE  Pinned'
<1> DEFINE p == plan[e]
           size == BucketFor(p.batch)
           rope == Loaded(p, bucket[size])
<1>1. /\ p # NoPlan /\ p.used < p.budget /\ Route(e, p) = "bucket" /\ Run(e, p, rope)
      /\ bucket' = [bucket EXCEPT ![size] = Plus1(rope)]
      /\ active' = p.id
      /\ UNCHANGED <<exact, owned>>
  BY Zenon DEF BucketStep
<1>2. /\ size # 0 /\ Takes(p, active)
      /\ ~(Len(p.batch) \in setting.grouped /\ Takes(p, owned[e][Len(p.batch)]))
  BY <1>1 DEF Route
<1>3. Window(p) /\ p.id \in Nat \ {0} /\ p.id <= plans /\ plans \in Nat /\ setting \in Settings
  BY <1>1 DEF Pinned, Window
<1>4. size \in setting.buckets
  BY <1>2, <1>3, BucketFits
<1>5. size \in Nat /\ bucket[size] \in [1..size -> 0..MaxPosition]
  BY <1>4, <1>3, ForwardAssumption DEF Pinned, Buffers
<1>6. active = p.id => Carries(p, bucket[size])
  BY <1>3 DEF Pinned
<1>7. Plus1(rope) \in [1..size -> 0..MaxPosition] /\ Carries(Stepped(p), Plus1(rope))
  BY <1>1, <1>2, <1>3, <1>5, <1>6, RunnerStep
<1>8. \A b \in setting.grouped : owned[e][b] # p.id
  BY <1>2, <1>3 DEF Pinned, Takes
<1>9. /\ plan'[e] = Stepped(p) /\ plan'[e].id = p.id /\ plan'[e].batch = p.batch /\ plan'[e].used > 0
      /\ DOMAIN plan' = Engines /\ \A f \in Engines \ {e} : plan'[f] = plan[f]
      /\ \A f \in Engines : plan'[f] = NoPlan \/ (Window(plan'[f]) /\ plan'[f].id <= plans')
      /\ \A f, g \in Engines :
           Window(plan'[f]) /\ Window(plan'[g]) /\ plan'[f].id = plan'[g].id => f = g
      /\ UNCHANGED <<setting, plans>> /\ length' \in [AllRequests -> Nat]
      /\ \A batch : BucketFor(batch)' = BucketFor(batch)
  BY <1>1, RunMoves
<1> HIDE DEF rope
<1>10. Buffers(bucket', setting.buckets) /\ bucket'[size] = Plus1(rope)
  BY <1>1, <1>4, <1>7 DEF Pinned, Buffers
<1>11. \A f \in Engines \ {e} : Window(plan'[f]) => plan'[f].id # p.id
  BY <1>3, <1>9 DEF Pinned
<1>12. BucketFor(plan'[e].batch) = size
  BY <1>9
<1> HIDE DEF size, p
<1>13. ASSUME NEW f \in Engines
       PROVE  /\ Window(plan'[f]) /\ plan'[f].id = active' =>
                   /\ plan'[f].used > 0 /\ \A b \in setting.grouped : owned[f][b] # active'
                   /\ BucketFor(plan'[f].batch) \in setting.buckets
                   /\ Carries(plan'[f], bucket'[BucketFor(plan'[f].batch)])
              /\ \A b \in setting.grouped : Window(plan'[f]) /\ plan'[f].id = owned[f][b] =>
                   plan'[f].used > 0 /\ b = Len(plan'[f].batch) /\ Carries(plan'[f], exact[f][b])
  <2>1. CASE f = e
    BY <1>1, <1>4, <1>7, <1>8, <1>9, <1>10, <1>12, <2>1
  <2>2. CASE f # e
    BY <1>1, <1>9, <1>11, <2>2 DEF Pinned
  <2> QED
    BY <2>1, <2>2
<1>14. active' \in 0..plans
  BY <1>1, <1>3
<1>15. /\ DOMAIN exact' = Engines /\ DOMAIN owned' = Engines
       /\ \A f \in Engines :
            Buffers(exact'[f], setting.grouped) /\ owned'[f] \in [setting.grouped -> 0..plans]
  BY <1>1 DEF Pinned
<1> QED
  BY <1>1, <1>3, <1>9, <1>10, <1>13, <1>14, <1>15 DEF Pinned

LEMMA EagerPinned ==
  ASSUME Pinned, NEW e \in Engines, EagerStep(e)
  PROVE  Pinned'
<1> DEFINE p == plan[e]
<1>1. /\ p # NoPlan /\ p.used < p.budget /\ Route(e, p) = "eager" /\ Run(e, p, p.positions)
      /\ UNCHANGED <<bucket, exact, active, owned>>
  BY DEF EagerStep, runners
<1>2. /\ ~(Len(p.batch) \in setting.grouped /\ Takes(p, owned[e][Len(p.batch)]))
      /\ ~(BucketFor(p.batch) # 0 /\ Takes(p, active))
  BY <1>1 DEF Route
<1>3. Window(p) /\ setting \in Settings
  BY <1>1 DEF Pinned
<1>4. p.id # active
  <2>1. BucketFor(p.batch) \in setting.buckets => BucketFor(p.batch) # 0
    BY <1>3, ForwardAssumption
  <2> QED
    BY <1>2, <1>3, <2>1 DEF Pinned, Takes
<1>5. \A b \in setting.grouped : owned[e][b] # p.id
  BY <1>2, <1>3 DEF Pinned, Takes
<1>6. /\ plan'[e].id = p.id
      /\ DOMAIN plan' = Engines /\ \A f \in Engines \ {e} : plan'[f] = plan[f]
      /\ \A f \in Engines : plan'[f] = NoPlan \/ (Window(plan'[f]) /\ plan'[f].id <= plans')
      /\ \A f, g \in Engines :
           Window(plan'[f]) /\ Window(plan'[g]) /\ plan'[f].id = plan'[g].id => f = g
      /\ UNCHANGED <<setting, plans>> /\ length' \in [AllRequests -> Nat]
      /\ \A batch : BucketFor(batch)' = BucketFor(batch)
  BY <1>1, RunMoves
<1> HIDE DEF p
<1>7. ASSUME NEW f \in Engines
      PROVE  /\ Window(plan'[f]) /\ plan'[f].id = active =>
                  /\ plan'[f].used > 0 /\ \A b \in setting.grouped : owned[f][b] # active
                  /\ BucketFor(plan'[f].batch) \in setting.buckets
                  /\ Carries(plan'[f], bucket[BucketFor(plan'[f].batch)])
             /\ \A b \in setting.grouped : Window(plan'[f]) /\ plan'[f].id = owned[f][b] =>
                  plan'[f].used > 0 /\ b = Len(plan'[f].batch) /\ Carries(plan'[f], exact[f][b])
  <2>1. CASE f = e
    BY <1>4, <1>5, <1>6, <2>1
  <2>2. CASE f # e
    BY <1>6, <2>2 DEF Pinned
  <2> QED
    BY <2>1, <2>2
<1>8. /\ Buffers(bucket', setting.buckets) /\ active' \in 0..plans
      /\ DOMAIN exact' = Engines /\ DOMAIN owned' = Engines
      /\ \A f \in Engines :
           Buffers(exact'[f], setting.grouped) /\ owned'[f] \in [setting.grouped -> 0..plans]
  BY <1>1 DEF Pinned
<1> QED
  BY <1>1, <1>3, <1>6, <1>7, <1>8 DEF Pinned

LEMMA NextPinned ==
  ASSUME Pinned, [Next]_vars
  PROVE  Pinned'
<1>1. CASE Execute \/ UNCHANGED vars
  <2>1. UNCHANGED <<setting, plan, plans, runners, length>>
    BY <1>1 DEF Execute, vars, tables
  <2> QED
    BY <2>1, QuietPinned DEF Pinned
<1>2. ASSUME NEW e \in Engines,
             \/ PrefillPacked(e) \/ PrefillOne(e) \/ Decode(e) \/ OpenWindow(e) \/ GroupedStep(e)
             \/ BucketStep(e) \/ EagerStep(e) \/ Close(e)
      PROVE  Pinned'
  BY <1>2, PrefillPinned, DecodePinned, OpenPinned, GroupedPinned, BucketPinned, EagerPinned,
     ClosePinned
<1>3. ASSUME NEW r \in AllRequests, Fork(r) \/ Free(r) PROVE Pinned'
  BY <1>3, ForkPinned
<1> QED
  BY <1>1, <1>2, <1>3, Zenon DEF Next, QwenPrefill, QwenDecode

LEMMA InitPinned ==
  ASSUME Init
  PROVE  Pinned
<1>1. MaxPosition \in Nat
  BY ForwardAssumption
<1>2. Buffers(bucket, setting.buckets)
  BY <1>1 DEF Init, Buffers
<1>3. \A e \in Engines : Buffers(exact[e], setting.grouped)
  BY <1>1 DEF Init, Buffers
<1>4. ~Window(NoPlan)
  BY DEF Window, NoPlan, Fields
<1> QED
  BY <1>2, <1>3, <1>4 DEF Init, Pinned

(* decode_graph.py, grouped_decode_graph.py: whatever windows, batches and *)
(* engines take turns at the runners, no row of a buffer, padding included,*)
(* is ever at a position past the RoPE rows that were pinned.              *)
THEOREM RowsStayPinned == Spec => []RowsPinned
<1>1. ASSUME Pinned PROVE RowsPinned
  <2>1. ASSUME NEW b \in Nat \ {0}, NEW held \in [1..b -> 0..MaxPosition]
        PROVE  Max(Range(held)) <= MaxPosition
    <3>1. held[1] \in Range(held) /\ Range(held) \in SUBSET (0..MaxPosition) /\ MaxPosition \in Nat
      BY ForwardAssumption DEF Range
    <3> DEFINE S == Range(held)
    <3>2. S # {} /\ S \in SUBSET (0..MaxPosition) /\ MaxPosition \in Nat
      BY <3>1
    <3> HIDE DEF S
    <3>3. Max(S) \in S
      BY <3>2, MaxExists
    <3> DEFINE m == Max(S)
    <3>4. m \in 0..MaxPosition
      BY <3>2, <3>3
    <3> HIDE DEF m
    <3>5. m <= MaxPosition
      BY <3>2, <3>4
    <3> QED
      BY <3>5 DEF S, m
  <2>2. setting.buckets \subseteq Nat \ {0} /\ setting.grouped \subseteq Nat \ {0}
    BY <1>1, ForwardAssumption DEF Pinned
  <2> QED
    BY <1>1, <2>1, <2>2 DEF Pinned, Buffers, RowsPinned
<1> QED
  BY <1>1, InitPinned, NextPinned, PTL DEF Spec

-----------------------------------------------------------------------------
(* Where the keys are *)

Pool  == 0..(NumBlocks - 1)

Cells == 0..(NumBlocks * BlockSize - 1)

\* The block of a table that position p is in.

Index(p) == p \div BlockSize + 1

Hosted(e) == {r \in AllRequests : EngineOf[r] = e}

Shaped(m) ==
  /\ DOMAIN m = {"free", "blocks", "kv"} /\ DOMAIN m.kv = Cells
  /\ m.free \in Seq(Pool) /\ m.blocks \in [AllRequests -> Seq(Pool)]

Apart(e, m) ==
  /\ IsInjective(m.free)
  /\ \A r \in Hosted(e) : IsInjective(m.blocks[r]) /\ Range(m.free) \cap Range(m.blocks[r]) = {}

Covers(m, r, n) == \A p \in 0..(n - 1) : Index(p) \in DOMAIN m.blocks[r]

Keyed(m, r, n) == \A p \in 0..(n - 1) : m.kv[Slot(m.blocks[r], p)] = Token(r, p)

Alone(e, m, r, i) == \A q \in Hosted(e) \ {r} : m.blocks[r][i] \notin Range(m.blocks[q])

Begun(n, i) == \E p \in 0..(n - 1) : Index(p) = i

(* The memory of an engine whose tables have these lengths.  A block that  *)
(* two tables share was begun in both, so that an append need not copy more*)
(* than the block it starts in.                                            *)
Sound(e, m, len) ==
  /\ Shaped(m) /\ Apart(e, m)
  /\ \A r \in Hosted(e) :
       /\ Covers(m, r, len[r]) /\ Keyed(m, r, len[r])
       /\ \A i \in DOMAIN m.blocks[r] : Alone(e, m, r, i) \/ Begun(len[r], i)

(* What a plan says of its rows and pages is where the tables have them.   *)
RowPlanned(e, m, len, p, n) ==
  LET r == p.batch[n] IN
  /\ r \in Hosted(e) /\ len[r] = p.positions[n] /\ len[r] >= Prompt[r]
  /\ \A i \in DOMAIN m.blocks[r] : Alone(e, m, r, i)
  /\ Covers(m, r, p.base[n] + p.budget)
  /\ p.cu[n] \in Nat /\ p.cu[n + 1] = p.cu[n] + p.positions[n] + 1
  /\ \A c \in 1..(p.base[n] + p.budget) : c \in DOMAIN p.history[n]
  /\ \A c \in 1..p.positions[n] : p.history[n][c] = Slot(m.blocks[r], c - 1)

PagePlanned(m, p, s, n) ==
  LET page == p.pages[s]
      w    == BlocksFor(p.base[n] + s) IN
  /\ p.writes[s][n] = Slot(m.blocks[p.batch[n]], p.base[n] + s - 1)
  /\ page.indptr[n] \in Nat /\ page.indptr[n + 1] = page.indptr[n] + w
  /\ page.last[n] = ((p.base[n] + s - 1) % BlockSize) + 1
  /\ SubSeq(page.indices, page.indptr[n] + 1, page.indptr[n + 1]) = SubSeq(m.blocks[p.batch[n]], 1, w)

Planned(e, m, len, p) ==
  /\ IsInjective(p.batch)
  /\ DOMAIN p.cu = 1..(Len(p.batch) + 1) /\ p.cu[1] = 0 /\ p.total = p.cu[Len(p.batch) + 1]
  /\ \A s \in 1..p.budget : DOMAIN p.writes[s] = DOMAIN p.batch
  /\ \A n \in DOMAIN p.batch :
       RowPlanned(e, m, len, p, n) /\ \A s \in 1..p.budget : PagePlanned(m, p, s, n)

Stored ==
  /\ free \in [Engines -> Seq(Pool)] /\ DOMAIN kv = Engines
  /\ \A e \in Engines :
       /\ Sound(e, Memory(e), length)
       /\ plan[e] # NoPlan => Planned(e, Memory(e), length, plan[e])
  /\ astray = {}

-----------------------------------------------------------------------------
(* Blocks and slots *)

LEMMA Sizes == BlockSize \in Nat \ {0} /\ NumBlocks \in Nat \ {0}
  BY ForwardAssumption

LEMMA IndexIs ==
  ASSUME NEW p \in Nat
  PROVE  /\ Index(p) \in Nat \ {0} /\ p % BlockSize \in 0..(BlockSize - 1)
         /\ p = BlockSize * (Index(p) - 1) + (p % BlockSize)
<1> DEFINE d == p \div BlockSize
           x == p % BlockSize
<1>1. d \in Nat /\ x \in 0..(BlockSize - 1) /\ p = BlockSize * d + x
  BY Sizes, DivMod
<1>2. Index(p) = d + 1
  BY DEF Index
<1> HIDE DEF d, x
<1>3. Index(p) \in Nat \ {0} /\ Index(p) - 1 = d
  BY <1>1, <1>2
<1> QED
  BY <1>1, <1>3 DEF x

LEMMA IndexMonotone ==
  ASSUME NEW p \in Nat, NEW q \in Nat, p <= q
  PROVE  Index(p) <= Index(q)
<1> DEFINE i == Index(p) - 1
           j == Index(q) - 1
<1>1. /\ Index(p) \in Nat \ {0} /\ p % BlockSize \in 0..(BlockSize - 1)
      /\ p = BlockSize * i + (p % BlockSize)
      /\ Index(q) \in Nat \ {0} /\ q % BlockSize \in 0..(BlockSize - 1)
      /\ q = BlockSize * j + (q % BlockSize)
  BY IndexIs
<1>2. i \in Nat /\ j \in Nat /\ BlockSize \in Nat \ {0} /\ (i <= j => Index(p) <= Index(q))
  BY <1>1, Sizes
<1> DEFINE x == p % BlockSize
           y == q % BlockSize
<1>3. x \in 0..(BlockSize - 1) /\ y \in 0..(BlockSize - 1) /\ p = BlockSize * i + x /\ q = BlockSize * j + y
  BY <1>1
<1> HIDE DEF i, j, x, y
<1>4. ~(j < i)
  <2>1. j < i => BlockSize * j + BlockSize <= BlockSize * i
    BY <1>2, TimesUp
  <2>2. BlockSize * j \in Nat /\ BlockSize * i \in Nat
    BY <1>2
  <2> QED
    BY <1>2, <1>3, <2>1, <2>2
<1> QED
  BY <1>2, <1>4

(* The first position of the i-th block. *)
LEMMA IndexStarts ==
  ASSUME NEW i \in Nat \ {0}
  PROVE  /\ BlockSize * (i - 1) \in Nat /\ Index(BlockSize * (i - 1)) = i
         /\ \A p \in Nat : i <= Index(p) => BlockSize * (i - 1) <= p
<1> DEFINE s == BlockSize * (i - 1)
           k == i - 1
<1>1. k \in Nat /\ BlockSize \in Nat \ {0} /\ 0 \in 0..(BlockSize - 1) /\ k + 1 = i
  BY Sizes
<1> HIDE DEF k
<1>2. BlockSize * k + 0 \in Nat /\ (BlockSize * k + 0) \div BlockSize = k
  BY <1>1, DivUnique
<1>3. BlockSize * k \in Nat /\ BlockSize * k + 0 = BlockSize * k
  BY <1>1
<1>4. Index(BlockSize * k) = i
  BY <1>1, <1>2, <1>3 DEF Index
<1>5. ASSUME NEW p \in Nat, i <= Index(p) PROVE BlockSize * k <= p
  <2> DEFINE f == BlockSize * k
  <2>1. f \in Nat /\ Index(f) = i
    BY <1>3, <1>4
  <2>2. CASE p < f
    <3>1. Index(p) \in Nat /\ Index(p) = i
      <4> HIDE DEF f
      <4>1. Index(p) \in Nat /\ Index(p) <= Index(f)
        BY <2>1, <2>2, IndexIs, IndexMonotone
      <4> QED
        BY <1>5, <2>1, <4>1
    <3> DEFINE x == p % BlockSize
               j == Index(p) - 1
    <3>2. x \in Nat /\ p = BlockSize * j + x
      <4>1. x \in 0..(BlockSize - 1) /\ p = BlockSize * j + x
        BY IndexIs
      <4> HIDE DEF x, j
      <4> QED
        BY <1>1, <4>1
    <3>3. j = k
      BY <1>1, <3>1
    <3> HIDE DEF x, j
    <3>4. p = f + x
      BY <3>2, <3>3
    <3> HIDE DEF f
    <3> QED
      BY <2>1, <2>2, <3>2, <3>4
  <2> QED
    BY <2>1, <2>2
<1> QED
  BY <1>3, <1>4, <1>5 DEF k

(* The number of blocks that hold n positions. *)
LEMMA BlocksForIs ==
  ASSUME NEW n \in Nat
  PROVE  /\ BlocksFor(n) \in Nat
         /\ n = 0 => BlocksFor(n) = 0
         /\ n > 0 => BlocksFor(n) = Index(n - 1)
<1>1. BlockSize \in Nat \ {0} /\ BlockSize - 1 \in 0..(BlockSize - 1)
  BY Sizes
<1>2. CASE n = 0
  <2>1. BlockSize * 0 + (BlockSize - 1) = n + BlockSize - 1
    BY <1>1, <1>2
  <2>2. (BlockSize * 0 + (BlockSize - 1)) \div BlockSize = 0
    <3> DEFINE x == BlockSize - 1
    <3>1. x \in 0..(BlockSize - 1) /\ 0 \in Nat
      BY <1>1
    <3> HIDE DEF x
    <3>2. (BlockSize * 0 + x) \div BlockSize = 0
      BY <1>1, <3>1, DivUnique
    <3> QED
      BY <3>2 DEF x
  <2> QED
    BY <1>2, <2>1, <2>2 DEF BlocksFor
<1>3. CASE n > 0
  <2> DEFINE p == n - 1
             d == p \div BlockSize
             x == p % BlockSize
  <2>1. p \in Nat /\ n = p + 1
    BY <1>3
  <2> HIDE DEF p
  <2>2. d \in Nat /\ x \in 0..(BlockSize - 1) /\ p = BlockSize * d + x
    BY <1>1, <2>1, DivMod
  <2>3. Index(p) = d + 1
    BY DEF Index
  <2> HIDE DEF d, x
  <2> DEFINE k == d + 1
  <2>4. k \in Nat /\ BlockSize * k = BlockSize * d + BlockSize
    BY <1>1, <2>2
  <2> HIDE DEF k
  <2>5. BlockSize * d \in Nat
    BY <1>1, <2>2
  <2>6. n + BlockSize - 1 = BlockSize * k + x
    BY <1>1, <2>1, <2>2, <2>4, <2>5
  <2>7. (BlockSize * k + x) \div BlockSize = k
    BY <1>1, <2>2, <2>4, DivUnique
  <2>8. BlocksFor(n) = k
    BY <2>6, <2>7 DEF BlocksFor
  <2> QED
    BY <1>3, <2>2, <2>3, <2>8 DEF k, p
<1> QED
  BY <1>2, <1>3

LEMMA CoversIs ==
  ASSUME NEW m, NEW r, m.blocks[r] \in Seq(Pool), NEW n \in Nat
  PROVE  Covers(m, r, n) <=> BlocksFor(n) <= Len(m.blocks[r])
<1> DEFINE l == Len(m.blocks[r])
<1>1. l \in Nat /\ DOMAIN m.blocks[r] = 1..l
  BY LenProperties
<1> HIDE DEF l
<1>2. CASE n = 0
  <2>1. 0..(n - 1) = {} /\ BlocksFor(n) = 0
    BY <1>2, BlocksForIs
  <2> QED
    BY <1>1, <2>1 DEF Covers, l
<1>3. CASE n > 0
  <2>1. n - 1 \in Nat /\ n - 1 \in 0..(n - 1) /\ BlocksFor(n) = Index(n - 1)
    BY <1>3, BlocksForIs
  <2>2. Index(n - 1) \in Nat \ {0}
    BY <2>1, IndexIs
  <2>3. Covers(m, r, n) => Index(n - 1) <= l
    BY <1>1, <2>1 DEF Covers
  <2>4. ASSUME Index(n - 1) <= l, NEW p \in 0..(n - 1) PROVE Index(p) \in 1..l
    <3>1. p \in Nat /\ p <= n - 1
      BY <2>1
    <3>2. Index(p) \in Nat \ {0} /\ Index(p) <= Index(n - 1)
      BY <2>1, <3>1, IndexIs, IndexMonotone
    <3> QED
      BY <1>1, <2>2, <2>4, <3>2
  <2> QED
    BY <1>1, <2>1, <2>3, <2>4 DEF Covers, l
<1> QED
  BY <1>2, <1>3

(* Of n positions, those of each of the blocks they need. *)
LEMMA BegunIs ==
  ASSUME NEW n \in Nat, NEW i \in Nat \ {0}
  PROVE  Begun(n, i) <=> i <= BlocksFor(n)
<1>1. CASE n = 0
  <2>1. BlocksFor(n) = 0 /\ 0..(n - 1) = {}
    BY <1>1, BlocksForIs
  <2> QED
    BY <2>1 DEF Begun
<1>2. CASE n > 0
  <2> DEFINE p == n - 1
             s == BlockSize * (i - 1)
  <2>1. p \in Nat /\ n = p + 1 /\ BlocksFor(n) = Index(p)
    BY <1>2, BlocksForIs
  <2>2. s \in Nat /\ Index(s) = i /\ (i <= Index(p) => s <= p)
    BY <2>1, IndexStarts
  <2> HIDE DEF p, s
  <2>3. ASSUME NEW q \in 0..(n - 1), Index(q) = i PROVE i <= Index(p)
    <3>1. q \in Nat /\ q <= p
      BY <2>1
    <3> QED
      BY <2>1, <2>3, <3>1, IndexMonotone
  <2>4. s <= p => s \in 0..(n - 1)
    BY <2>1, <2>2
  <2> QED
    BY <2>1, <2>2, <2>3, <2>4 DEF Begun
<1> QED
  BY <1>1, <1>2

LEMMA SlotIs ==
  ASSUME NEW bs \in Seq(Pool), NEW p \in Nat, Index(p) \in DOMAIN bs
  PROVE  /\ Slot(bs, p) \in Cells
         /\ Slot(bs, p) \div BlockSize = bs[Index(p)]
         /\ Slot(bs, p) % BlockSize = p % BlockSize
<1> DEFINE b == bs[Index(p)]
           x == p % BlockSize
<1>1. b \in Pool /\ b \in Nat /\ x \in 0..(BlockSize - 1)
  <2>1. b \in Pool
    BY ElementOfSeq, LenProperties
  <2> QED
    BY <2>1, IndexIs, Sizes DEF Pool
<1>2. Slot(bs, p) = b * BlockSize + x
  BY DEF Slot, Index
<1> HIDE DEF b, x
<1>3. b * BlockSize = BlockSize * b /\ BlockSize * b \in Nat /\ b < NumBlocks /\ NumBlocks \in Nat
  BY <1>1, Sizes DEF Pool
<1>4. BlockSize * b + x \in Nat /\ (BlockSize * b + x) \div BlockSize = b /\ (BlockSize * b + x) % BlockSize = x
  BY <1>1, Sizes, DivUnique
<1>5. BlockSize * b + BlockSize <= BlockSize * NumBlocks
  BY <1>1, <1>3, Sizes, TimesUp
<1>6. BlockSize * b + x \in Cells
  <2>1. BlockSize * NumBlocks = NumBlocks * BlockSize /\ NumBlocks * BlockSize \in Nat
    BY Sizes
  <2> QED
    BY <1>1, <1>3, <1>4, <1>5, <2>1, Sizes DEF Cells
<1> QED
  BY <1>2, <1>3, <1>4, <1>6 DEF b, x

(* Two positions with one slot are in one block, at the same place.        *)
LEMMA SlotsApart ==
  ASSUME NEW bs \in Seq(Pool), NEW p \in Nat, Index(p) \in DOMAIN bs,
         NEW ct \in Seq(Pool), NEW q \in Nat, Index(q) \in DOMAIN ct, Slot(bs, p) = Slot(ct, q)
  PROVE  /\ bs[Index(p)] = ct[Index(q)]
         /\ Index(p) = Index(q) => p = q
<1>1. bs[Index(p)] = ct[Index(q)] /\ p % BlockSize = q % BlockSize
  BY SlotIs
<1>2. p = BlockSize * (Index(p) - 1) + (p % BlockSize) /\ q = BlockSize * (Index(q) - 1) + (q % BlockSize)
  BY IndexIs
<1> QED
  BY <1>1, <1>2

-----------------------------------------------------------------------------
(* What reserve() leaves *)

LEMMA MissingIs ==
  ASSUME NEW m, NEW r, NEW count \in Nat, m.blocks[r] \in Seq(Pool), length[r] \in Nat
  PROVE  /\ Missing(m, r, count) \in Nat
         /\ BlocksFor(length[r] + count) <= Len(m.blocks[r]) + Missing(m, r, count)
         /\ Missing(m, r, count) <= BlocksFor(length[r] + count)
<1> DEFINE n == BlocksFor(length[r] + count)
           l == Len(m.blocks[r])
<1>1. n \in Nat /\ l \in Nat
  <2>1. length[r] + count \in Nat
    OBVIOUS
  <2> QED
    BY <2>1, BlocksForIs, LenProperties
<1> HIDE DEF n, l
<1>2. Max({0, n - l}) \in {0, n - l} /\ \A x \in {0, n - l} : x <= Max({0, n - l})
  <2>1. \E x \in {0, n - l} : \A y \in {0, n - l} : y <= x
    BY <1>1
  <2> QED
    BY <2>1 DEF Max
<1>3. Missing(m, r, count) = Max({0, n - l})
  BY DEF Missing, n, l
<1> DEFINE x == Max({0, n - l})
<1> HIDE DEF x
<1>4. x \in Nat /\ n <= l + x /\ x <= n
  BY <1>1, <1>2 DEF x
<1> QED
  BY <1>3, <1>4 DEF n, l, x

(* A table that got longer still covers and names what it did.             *)
LEMMA LongerTable ==
  ASSUME NEW a, NEW b, NEW r, NEW n \in Nat, b.kv = a.kv,
         \A i \in DOMAIN a.blocks[r] : i \in DOMAIN b.blocks[r] /\ b.blocks[r][i] = a.blocks[r][i],
         Covers(a, r, n)
  PROVE  Covers(b, r, n) /\ (Keyed(a, r, n) => Keyed(b, r, n))
<1>1. ASSUME NEW p \in 0..(n - 1)
      PROVE  Index(p) \in DOMAIN b.blocks[r] /\ Slot(b.blocks[r], p) = Slot(a.blocks[r], p)
  <2>1. Index(p) \in DOMAIN a.blocks[r]
    BY DEF Covers
  <2> QED
    BY <2>1 DEF Slot, Index
<1> QED
  BY <1>1 DEF Covers, Keyed

(* Tables got longer by blocks of their own. *)
Lengthened(e, a, b) ==
  /\ b.kv = a.kv
  /\ \A q \in AllRequests : \A i \in DOMAIN a.blocks[q] :
       i \in DOMAIN b.blocks[q] /\ b.blocks[q][i] = a.blocks[q][i]
  /\ \A q \in Hosted(e) : \A i \in DOMAIN b.blocks[q] :
       Alone(e, b, q, i) \/ (i \in DOMAIN a.blocks[q] /\ ~Alone(e, a, q, i))

Reserved(e, a, r, count, b) ==
  /\ Sound(e, b, length) /\ Lengthened(e, a, b)
  /\ Len(b.free) = Len(a.free) - Missing(a, r, count)
  /\ \A q \in AllRequests \ {r} : b.blocks[q] = a.blocks[q]
  /\ Covers(b, r, length[r] + count)

LEMMA ReserveSound ==
  ASSUME NEW e, NEW m, Sound(e, m, length), length \in [AllRequests -> Nat],
         NEW r \in Hosted(e), NEW count \in Nat, Missing(m, r, count) <= Len(m.free)
  PROVE  Reserved(e, m, r, count, Reserve(m, r, count))
<1> DEFINE n == Missing(m, r, count)
           F == m.free
           f == Left(m, n)
           t == Take(m, n)
           T == m.blocks[r]
           b == Reserve(m, r, count)
<1>1. /\ DOMAIN m = {"free", "blocks", "kv"} /\ DOMAIN m.kv = Cells
      /\ F \in Seq(Pool) /\ m.blocks \in [AllRequests -> Seq(Pool)] /\ r \in AllRequests
      /\ T \in Seq(Pool) /\ length[r] \in Nat
  BY DEF Sound, Shaped, Hosted
<1>2. n \in Nat /\ n <= Len(F) /\ BlocksFor(length[r] + count) <= Len(T) + n
  BY <1>1, MissingIs
<1>3. /\ b.free = f /\ b.blocks = [m.blocks EXCEPT ![r] = T \o t] /\ b.kv = m.kv
      /\ DOMAIN b = {"free", "blocks", "kv"}
  BY <1>1 DEF Reserve
<1> HIDE DEF n, b
<1>4. f \in Seq(Pool) /\ t \in Seq(Pool) /\ Len(f) = Len(F) - n /\ Len(t) = n /\ f \o t = F
  <2> DEFINE k == Len(F) - n
  <2>1. k \in 0..Len(F) /\ Len(F) - k = n
    BY <1>1, <1>2, LenProperties
  <2>2. f = SubSeq(F, 1, k) /\ t = SubSeq(F, k + 1, Len(F))
    BY DEF Left, Take
  <2> HIDE DEF f, t, k
  <2> QED
    BY <1>1, <2>1, <2>2, TwoHalves DEF k
<1>5. IsInjective(F) /\ \A q \in Hosted(e) : IsInjective(m.blocks[q]) /\ Range(F) \cap Range(m.blocks[q]) = {}
  BY DEF Sound, Apart
<1> HIDE DEF F, f, t
<1>6. /\ IsInjective(f) /\ IsInjective(t) /\ Range(f) \cap Range(t) = {}
      /\ Range(F) = Range(f) \cup Range(t)
  <2>1. f \in Seq(Pool) /\ t \in Seq(Pool) /\ f \o t = F
    BY <1>4
  <2>2. /\ Range(f \o t) = Range(f) \cup Range(t)
        /\ IsInjective(f \o t) <=>
             IsInjective(f) /\ IsInjective(t) /\ Range(f) \cap Range(t) = {}
    BY ONLY <2>1, JoinApart, ZenonT(60)
  <2> QED
    BY ONLY <1>5, <2>1, <2>2
<1>7. T \o t \in Seq(Pool) /\ IsInjective(T \o t) /\ Range(T \o t) = Range(T) \cup Range(t)
  <2>1. Range(T) \cap Range(t) = {} /\ IsInjective(T)
    BY <1>5, <1>6
  <2> HIDE DEF T
  <2> QED
    BY <1>1, <1>4, <1>6, <2>1, JoinApart, ConcatProperties
<1>8. /\ \A i \in DOMAIN T : i \in DOMAIN (T \o t) /\ (T \o t)[i] = T[i]
      /\ \A i \in DOMAIN (T \o t) \ DOMAIN T : (T \o t)[i] \in Range(t)
      /\ Len(T \o t) = Len(T) + n /\ Len(T) \in Nat
  <2> DEFINE a == T \o t
             l == Len(T)
  <2>1. /\ a \in Seq(Pool) /\ Len(a) = l + n /\ l \in Nat /\ n \in Nat
        /\ \A i \in 1..(l + n) : a[i] = IF i <= l THEN T[i] ELSE t[i - l]
    <3>1. T \in Seq(Pool) /\ t \in Seq(Pool) /\ Len(t) = n /\ n \in Nat
      BY <1>1, <1>2, <1>4
    <3> HIDE DEF T
    <3> QED
      BY ONLY <3>1, EndToEnd, SMTT(20)
  <2>2. DOMAIN a = 1..(l + n) /\ DOMAIN T = 1..l /\ DOMAIN t = 1..n
    BY <1>1, <1>4, <2>1, LenProperties
  <2> HIDE DEF a, T, l
  <2>3. \A i \in 1..l : i \in 1..(l + n) /\ a[i] = T[i]
    BY <2>1
  <2>4. \A i \in 1..(l + n) : i \notin 1..l => i - l \in 1..n /\ a[i] = t[i - l]
    BY <2>1
  <2>5. \A j \in 1..n : t[j] \in Range(t)
    BY <2>2 DEF Range
  <2> QED
    BY <2>1, <2>2, <2>3, <2>4, <2>5 DEF a, l
<1>9. b.blocks[r] = T \o t /\ \A q \in AllRequests \ {r} : b.blocks[q] = m.blocks[q]
  BY <1>1, <1>3
<1>10. Shaped(b)
  BY <1>1, <1>3, <1>4, <1>7 DEF Shaped
<1>11. \A q \in Hosted(e) : q \in AllRequests
  BY DEF Hosted
<1> HIDE DEF T
<1>12. Apart(e, b)
  <2>1. ASSUME NEW q \in Hosted(e)
        PROVE  IsInjective(b.blocks[q]) /\ Range(f) \cap Range(b.blocks[q]) = {}
    <3>1. CASE q = r
      <4>1. Range(F) \cap Range(T) = {}
        BY <1>5 DEF T
      <4> QED
        BY <1>6, <1>7, <1>9, <3>1, <4>1
    <3>2. CASE q # r
      <4>1. b.blocks[q] = m.blocks[q]
        BY <1>9, <1>11, <3>2
      <4> QED
        BY <1>5, <1>6, <4>1
    <3> QED
      BY <3>1, <3>2
  <2> QED
    BY <1>3, <1>6, <2>1 DEF Apart
<1>13. \A q \in Hosted(e) \ {r} : Range(t) \cap Range(m.blocks[q]) = {}
  BY <1>5, <1>6
<1>14. ASSUME NEW q \in Hosted(e), NEW i \in DOMAIN m.blocks[q], Alone(e, m, q, i)
       PROVE  Alone(e, b, q, i)
  <2>1. CASE q = r
    BY <1>8, <1>9, <1>11, <1>14, <2>1 DEF Alone, T
  <2>2. CASE q # r
    <3>1. m.blocks[q][i] \in Range(m.blocks[q]) /\ b.blocks[q] = m.blocks[q]
      BY <1>9, <1>11, <2>2 DEF Range
    <3>2. ASSUME NEW s \in Hosted(e) \ {q} PROVE m.blocks[q][i] \notin Range(b.blocks[s])
      <4>1. m.blocks[q][i] \notin Range(m.blocks[s])
        BY <1>14 DEF Alone
      <4>2. CASE s = r
        BY <1>7, <1>9, <1>13, <2>2, <3>1, <4>1, <4>2 DEF T
      <4>3. CASE s # r
        BY <1>9, <1>11, <4>1, <4>3
      <4> QED
        BY <4>2, <4>3
    <3> QED
      BY <3>1, <3>2 DEF Alone
  <2> QED
    BY <2>1, <2>2
<1>15. ASSUME NEW i \in DOMAIN (T \o t) \ DOMAIN T PROVE Alone(e, b, r, i)
  BY <1>8, <1>9, <1>11, <1>13, <1>15 DEF Alone
<1>16. \A i \in DOMAIN m.blocks[r] : i \in DOMAIN b.blocks[r] /\ b.blocks[r][i] = m.blocks[r][i]
  BY <1>8, <1>9 DEF T
<1>17. ASSUME NEW q \in Hosted(e)
       PROVE  /\ Covers(b, q, length[q]) /\ Keyed(b, q, length[q])
              /\ \A i \in DOMAIN b.blocks[q] : Alone(e, b, q, i) \/ Begun(length[q], i)
  <2>1. \A i \in DOMAIN m.blocks[q] : i \in DOMAIN b.blocks[q] /\ b.blocks[q][i] = m.blocks[q][i]
    BY <1>9, <1>11, <1>16
  <2>2. Covers(m, q, length[q]) /\ Keyed(m, q, length[q])
        /\ \A i \in DOMAIN m.blocks[q] : Alone(e, m, q, i) \/ Begun(length[q], i)
    BY DEF Sound
  <2>3. length[q] \in Nat
    BY <1>11
  <2>4. Covers(b, q, length[q]) /\ Keyed(b, q, length[q])
    BY <1>3, <2>1, <2>2, <2>3, LongerTable
  <2>5. ASSUME NEW i \in DOMAIN b.blocks[q], i \notin DOMAIN m.blocks[q] PROVE Alone(e, b, q, i)
    <3>1. q = r
      BY <1>9, <1>11, <2>5
    <3> QED
      BY <1>9, <1>15, <2>5, <3>1 DEF T
  <2> QED
    BY <1>14, <2>2, <2>4, <2>5
<1>18. Sound(e, b, length)
  BY <1>10, <1>12, <1>17 DEF Sound
<1>19. Covers(b, r, length[r] + count)
  <2>1. b.blocks[r] \in Seq(Pool) /\ Len(b.blocks[r]) = Len(T) + n
    BY <1>7, <1>8, <1>9
  <2>2. BlocksFor(length[r] + count) <= Len(b.blocks[r])
    BY <1>2, <2>1 DEF T
  <2>3. length[r] + count \in Nat
    BY <1>1
  <2> QED
    BY <2>1, <2>2, <2>3, CoversIs
<1>20. Lengthened(e, m, b)
  <2>1. \A q \in AllRequests : \A i \in DOMAIN m.blocks[q] :
          i \in DOMAIN b.blocks[q] /\ b.blocks[q][i] = m.blocks[q][i]
    BY <1>9, <1>16
  <2>2. ASSUME NEW q \in Hosted(e), NEW i \in DOMAIN b.blocks[q]
        PROVE  Alone(e, b, q, i) \/ (i \in DOMAIN m.blocks[q] /\ ~Alone(e, m, q, i))
    BY <1>9, <1>11, <1>14, <1>15 DEF T
  <2> QED
    BY <1>3, <2>1, <2>2 DEF Lengthened
<1> QED
  BY <1>3, <1>4, <1>9, <1>18, <1>19, <1>20 DEF Reserved, F, b, n

(* The recursion that ReserveAll unfolds to. *)
Reserves(m, batch, count, n, f) ==
  f = [i \in 0..n |-> IF i = 0 THEN m ELSE Reserve(f[i - 1], batch[i], count[batch[i]])]

LEMMA ReservesExist ==
  ASSUME NEW m, NEW batch, NEW count, NEW n \in Nat
  PROVE  \E f : Reserves(m, batch, count, n, f)
<1> DEFINE Bad == {i \in Nat : ~\E f : Reserves(m, batch, count, i, f)}
<1>1. SUFFICES ASSUME Bad # {} PROVE FALSE
  OBVIOUS
<1>2. PICK i \in Bad : \A j \in Bad : i <= j
  BY <1>1, LeastOf
<1>3. CASE i = 0
  <2> DEFINE f == [k \in 0..0 |-> m]
  <2>1. Reserves(m, batch, count, 0, f)
    BY DEF Reserves
  <2> QED
    BY <1>2, <1>3, <2>1
<1>4. CASE i # 0
  <2>1. i - 1 \in Nat /\ i - 1 \notin Bad
    BY <1>2, <1>4
  <2>2. PICK f : Reserves(m, batch, count, i - 1, f)
    BY <2>1
  <2> DEFINE Step(h, k) == IF k = 0 THEN m ELSE Reserve(h[k - 1], batch[k], count[batch[k]])
             g == [k \in 0..i |-> Step(f, k)]
  <2>3. f = [k \in 0..(i - 1) |-> Step(f, k)]
    BY <2>2 DEF Reserves
  <2>4. \A k \in 0..i : k # 0 => k - 1 \in 0..(i - 1) /\ k - 1 \in 0..i
    BY <2>1
  <2>5. \A k \in 0..(i - 1) : k \in 0..i
    BY <2>1
  <2>6. \A k \in 0..i : g[k] = Step(f, k)
    OBVIOUS
  <2> HIDE DEF Step
  <2>7. \A k \in 0..(i - 1) : g[k] = f[k]
    BY <2>3, <2>5, <2>6
  <2>8. \A k \in 0..i : Step(g, k) = Step(f, k)
    <3> HIDE DEF g
    <3> QED
      BY <2>4, <2>7 DEF Step
  <2>9. g = [k \in 0..i |-> Step(g, k)]
    BY <2>8
  <2>10. Reserves(m, batch, count, i, g)
    BY <2>9 DEF Reserves, Step
  <2> QED
    BY <1>2, <2>10
<1> QED
  BY <1>3, <1>4

ReservesTo(m, batch, count, f) ==
  /\ ReserveAll(m, batch, count) = f[Len(batch)] /\ f[0] = m
  /\ \A i \in 1..Len(batch) : f[i] = Reserve(f[i - 1], batch[i], count[batch[i]])

LEMMA ReserveAllUnfolds ==
  ASSUME NEW m, NEW batch, Len(batch) \in Nat, NEW count
  PROVE  \E f : ReservesTo(m, batch, count, f)
<1> DEFINE f == CHOOSE f : Reserves(m, batch, count, Len(batch), f)
<1>1. ReserveAll(m, batch, count) = f[Len(batch)]
  BY DEF ReserveAll, Reserves
<1>2. Reserves(m, batch, count, Len(batch), f)
  BY ReservesExist
<1> HIDE DEF f
<1>3. f[0] = m /\ \A i \in 1..Len(batch) : f[i] = Reserve(f[i - 1], batch[i], count[batch[i]])
  BY <1>2 DEF Reserves
<1> QED
  BY <1>1, <1>3 DEF ReservesTo

LEMMA LengthenedTwice ==
  ASSUME NEW e, NEW a, NEW b, NEW c, Lengthened(e, a, b), Lengthened(e, b, c)
  PROVE  Lengthened(e, a, c)
<1>1. \A q \in Hosted(e) : q \in AllRequests
  BY DEF Hosted
<1> QED
  BY <1>1 DEF Lengthened

(* The requests of a batch that had their turn, and what the k-th turn     *)
(* leaves to be paid: the rest by those, the whole cost by the others.     *)
Turns(batch, k) == {batch[j] : j \in 1..k}

Owed(batch, k, cost, rest) ==
  [r \in Range(batch) |-> IF r \in Turns(batch, k) THEN rest[r] ELSE cost[r]]

TurnsPay(batch, cost, rest) ==
  /\ IsFiniteSet(Range(batch)) /\ Len(batch) \in Nat /\ DOMAIN batch = 1..Len(batch)
  /\ SumOver(Owed(batch, 0, cost, rest), Range(batch)) = SumOver(cost, Range(batch))
  /\ SumOver(Owed(batch, Len(batch), cost, rest), Range(batch)) = SumOver(rest, Range(batch))
  /\ \A k \in 1..Len(batch) :
       /\ batch[k] \in Range(batch)
       /\ SumOver(Owed(batch, k - 1, cost, rest), Range(batch)) \in Nat
       /\ cost[batch[k]] <= SumOver(Owed(batch, k - 1, cost, rest), Range(batch))
       /\ SumOver(Owed(batch, k, cost, rest), Range(batch))
            = SumOver(Owed(batch, k - 1, cost, rest), Range(batch)) - cost[batch[k]] + rest[batch[k]]

LEMMA TurnsGrow ==
  ASSUME NEW S, NEW batch \in Seq(S), IsInjective(batch), NEW cost, NEW rest,
         \A r \in Range(batch) : cost[r] \in Nat /\ rest[r] \in Nat
  PROVE  TurnsPay(batch, cost, rest)
<1> DEFINE R == Range(batch)
           N == Len(batch)
           due(k) == Owed(batch, k, cost, rest)
<1>1. IsFiniteSet(R) /\ N \in Nat /\ DOMAIN batch = 1..N
  BY RangeBounds, LenProperties
<1>2. \A i, j \in 1..N : batch[i] = batch[j] => i = j
  BY <1>1 DEF IsInjective
<1>3. R = {batch[i] : i \in 1..N}
  BY <1>1 DEF Range
<1> HIDE DEF R, N
<1>4. \A k \in 0..N, r \in R : due(k)[r] = (IF r \in Turns(batch, k) THEN rest[r] ELSE cost[r]) /\ due(k)[r] \in Nat
  BY DEF Owed, R
<1>5. SumOver(due(0), R) = SumOver(cost, R)
  <2>1. \A r \in R : due(0)[r] = cost[r]
    BY DEF Owed, Turns, R
  <2> HIDE DEF due
  <2> QED
    BY <1>1, <2>1, SumAgrees DEF R
<1>6. SumOver(due(N), R) = SumOver(rest, R)
  <2>1. \A r \in R : due(N)[r] = rest[r]
    BY <1>3 DEF Owed, Turns, R
  <2> HIDE DEF due
  <2> QED
    BY <1>1, <2>1, SumAgrees DEF R
<1>7. ASSUME NEW k \in 1..N
      PROVE  /\ batch[k] \in R /\ SumOver(due(k - 1), R) \in Nat
             /\ cost[batch[k]] <= SumOver(due(k - 1), R)
             /\ SumOver(due(k), R) = SumOver(due(k - 1), R) - cost[batch[k]] + rest[batch[k]]
  <2> DEFINE t == batch[k]
             o == k - 1
  <2>1. t \in R /\ o \in 0..N /\ k \in 0..N
    BY <1>1, <1>3
  <2>2. t \in Turns(batch, k) /\ \A r \in R \ {t} : r \in Turns(batch, k) <=> r \in Turns(batch, o)
    <3>1. \A j \in 1..k : j = k \/ j \in 1..o
      OBVIOUS
    <3>2. \A j \in 1..o : j \in 1..k
      OBVIOUS
    <3>3. k \in 1..k
      OBVIOUS
    <3> HIDE DEF o
    <3> QED
      BY <3>1, <3>2, <3>3 DEF Turns
  <2>3. t \notin Turns(batch, o)
    <3>1. \A j \in 1..o : j \in 1..N /\ j # k
      BY <1>1
    <3> HIDE DEF o
    <3> QED
      BY <1>2, <3>1 DEF Turns
  <2> HIDE DEF o, t
  <2>4. due(o)[t] = cost[t] /\ due(k)[t] = rest[t] /\ \A r \in R \ {t} : due(k)[r] = due(o)[r]
    BY <1>4, <2>1, <2>2, <2>3
  <2>5. \A r \in R : due(o)[r] \in Nat /\ due(k)[r] \in Nat
    BY <1>4, <2>1
  <2> DEFINE f == due(o)
             g == due(k)
  <2> HIDE DEF f, g
  <2>6. SumOver(g, R) = SumOver(f, R) - f[t] + g[t]
    BY <1>1, <2>1, <2>4, <2>5, SumMoves DEF f, g
  <2>7. SumOver(f, R) \in Nat /\ SumOver(f, R) = f[t] + SumOver(f, R \ {t}) /\ SumOver(f, R \ {t}) \in Nat
    <3>1. \A r \in R : f[r] \in Nat
      BY <2>5 DEF f
    <3>2. R \ {t} \in SUBSET R
      OBVIOUS
    <3> QED
      BY <1>1, <2>1, <3>1, <3>2, SumSplits, SumIsNat
  <2>8. f[t] = cost[t] /\ f[t] \in Nat /\ g[t] = rest[t]
    BY <2>1, <2>4, <2>5 DEF f, g
  <2>9. cost[t] <= SumOver(f, R)
    BY <2>7, <2>8
  <2> QED
    BY <2>1, <2>6, <2>7, <2>8, <2>9 DEF f, g, t, o
<1> QED
  BY <1>1, <1>5, <1>6, <1>7 DEF R, N, TurnsPay

Allotted(e, m, batch, count, rest, b) ==
  /\ Sound(e, b, length) /\ Lengthened(e, m, b)
  /\ SumOver(rest, Range(batch)) <= Len(b.free)
  /\ \A q \in AllRequests \ Range(batch) : b.blocks[q] = m.blocks[q]
  /\ \A r \in Range(batch) : Covers(b, r, length[r] + count[r])

LEMMA ReserveAllSound ==
  ASSUME NEW e, NEW m, Sound(e, m, length), length \in [AllRequests -> Nat],
         NEW batch \in Seq(AllRequests), IsInjective(batch), NEW count, NEW cost, NEW rest,
         \A r \in Range(batch) :
           /\ r \in Hosted(e) /\ count[r] \in Nat /\ cost[r] \in Nat /\ rest[r] \in Nat
           /\ Missing(m, r, count[r]) + rest[r] <= cost[r],
         SumOver(cost, Range(batch)) <= Len(m.free)
  PROVE  Allotted(e, m, batch, count, rest, ReserveAll(m, batch, count))
<1>0. /\ Len(batch) \in Nat /\ DOMAIN batch = 1..Len(batch)
      /\ SumOver(Owed(batch, 0, cost, rest), Range(batch)) = SumOver(cost, Range(batch))
      /\ SumOver(Owed(batch, Len(batch), cost, rest), Range(batch)) = SumOver(rest, Range(batch))
      /\ \A k \in 1..Len(batch) :
           /\ batch[k] \in Range(batch)
           /\ SumOver(Owed(batch, k - 1, cost, rest), Range(batch)) \in Nat
           /\ cost[batch[k]] <= SumOver(Owed(batch, k - 1, cost, rest), Range(batch))
           /\ SumOver(Owed(batch, k, cost, rest), Range(batch))
                = SumOver(Owed(batch, k - 1, cost, rest), Range(batch)) - cost[batch[k]] + rest[batch[k]]
  <2>1. \A r \in Range(batch) : cost[r] \in Nat /\ rest[r] \in Nat
    OBVIOUS
  <2>2. TurnsPay(batch, cost, rest)
    <3>1. batch \in Seq(AllRequests) /\ IsInjective(batch)
      OBVIOUS
    <3> QED
      BY ONLY <2>1, <3>1, TurnsGrow
  <2> QED
    BY <2>2 DEF TurnsPay
<1> DEFINE R == Range(batch)
           N == Len(batch)
           owed(k) == SumOver(Owed(batch, k, cost, rest), R)
<1>1. /\ N \in Nat /\ DOMAIN batch = 1..N
      /\ owed(0) = SumOver(cost, R) /\ owed(N) = SumOver(rest, R)
      /\ \A k \in 1..N :
           /\ batch[k] \in R /\ owed(k - 1) \in Nat /\ cost[batch[k]] <= owed(k - 1)
           /\ owed(k) = owed(k - 1) - cost[batch[k]] + rest[batch[k]]
  BY <1>0
<1>a. PICK f : ReservesTo(m, batch, count, f)
  BY <1>0, ReserveAllUnfolds
<1>2. /\ ReserveAll(m, batch, count) = f[N] /\ f[0] = m
      /\ \A i \in 1..N : f[i] = Reserve(f[i - 1], batch[i], count[batch[i]])
  BY <1>a DEF ReservesTo
<1>3. R = {batch[i] : i \in 1..N} /\ \A i, j \in 1..N : batch[i] = batch[j] => i = j
  BY <1>1 DEF Range, IsInjective
<1>4. \A r \in R : r \in Hosted(e) /\ r \in AllRequests /\ length[r] \in Nat /\ m.blocks[r] \in Seq(Pool)
  BY DEF Hosted, Sound, Shaped
<1> HIDE DEF N, R, owed
<1> DEFINE So(k) ==
             /\ Sound(e, f[k], length) /\ Lengthened(e, m, f[k]) /\ owed(k) <= Len(f[k].free)
             /\ \A q \in AllRequests \ Turns(batch, k) : f[k].blocks[q] = m.blocks[q]
             /\ \A r \in Turns(batch, k) : Covers(f[k], r, length[r] + count[r])
           Bad == {k \in 0..N : ~So(k)}
<1>5. Bad = {}
  <2>1. SUFFICES ASSUME Bad # {} PROVE FALSE
    OBVIOUS
  <2>2. Bad \in SUBSET Nat
    BY <1>1
  <2>3. PICK k \in Bad : \A j \in Bad : k <= j
    <3> HIDE DEF Bad
    <3> QED
      BY <2>1, <2>2, LeastOf
  <2>4. CASE k = 0
    <3>1. Turns(batch, 0) = {} /\ f[0] = m /\ owed(0) <= Len(m.free)
      BY <1>1, <1>2 DEF Turns, R
    <3>2. Lengthened(e, m, m)
      <4>1. \A q \in Hosted(e) : \A i \in DOMAIN m.blocks[q] :
              Alone(e, m, q, i) \/ (i \in DOMAIN m.blocks[q] /\ ~Alone(e, m, q, i))
        OBVIOUS
      <4> QED
        BY <4>1 DEF Lengthened
    <3>3. So(0)
      BY <3>1, <3>2
    <3> QED
      BY <2>4, <3>3
  <2>5. CASE k # 0
    <3> DEFINE o == k - 1
    <3>1. k \in 1..N /\ o \in 0..N /\ ~(k <= o) /\ k \in Nat
      <4>1. k \in 0..N
        OBVIOUS
      <4> QED
        BY <1>1, <2>5, <4>1
    <3>2. So(o)
      <4>1. o \notin Bad
        <5> HIDE DEF Bad, o
        <5> QED
          BY <2>3, <3>1
      <4> QED
        BY <3>1, <4>1
    <3> DEFINE a == f[o]
               t == batch[k]
    <3>3. f[k] = Reserve(a, t, count[t]) /\ t \in R
      BY <1>1, <1>2, <3>1
    <3>4. t \notin Turns(batch, o)
      <4>1. \A j \in 1..o : j \in 1..N /\ j # k
        BY <1>1, <3>1
      <4> HIDE DEF o
      <4> QED
        BY <1>3, <3>1, <4>1 DEF Turns
    <3>5. \A r : r \in Turns(batch, k) <=> r \in Turns(batch, o) \/ r = t
      <4>1. \A j \in 1..k : j = k \/ j \in 1..o
        BY <3>1
      <4>2. \A j \in 1..o : j \in 1..k
        BY <3>1
      <4>3. k \in 1..k
        BY <3>1
      <4> HIDE DEF o
      <4> QED
        BY <4>1, <4>2, <4>3 DEF Turns
    <3>6. a.blocks[t] = m.blocks[t] /\ t \in Hosted(e) /\ t \in AllRequests
      BY <1>4, <3>2, <3>3, <3>4
    <3>7. Missing(a, t, count[t]) = Missing(m, t, count[t]) /\ Missing(m, t, count[t]) \in Nat
      <4>1. Missing(a, t, count[t]) = Missing(m, t, count[t])
        BY <3>6 DEF Missing
      <4>2. count[t] \in Nat
        BY <3>3 DEF R
      <4> QED
        BY <1>4, <3>3, <4>1, <4>2, MissingIs
    <3> DEFINE n == Missing(m, t, count[t])
               l == Len(a.free)
    <3>8. cost[t] \in Nat /\ rest[t] \in Nat /\ n + rest[t] <= cost[t] /\ count[t] \in Nat /\ n \in Nat
      BY <3>3, <3>7 DEF R
    <3>9. owed(o) \in Nat /\ cost[t] <= owed(o) /\ owed(k) = owed(o) - cost[t] + rest[t] /\ owed(o) <= l
      BY <1>1, <3>1, <3>2
    <3>10. l \in Nat
      BY <3>2, LenProperties DEF Sound, Shaped
    <3> HIDE DEF n, l
    <3>11. n <= l /\ owed(k) <= l - n
      <4> DEFINE c == cost[t]
                 x == rest[t]
                 w == owed(o)
                 v == owed(k)
      <4>1. c \in Nat /\ x \in Nat /\ n + x <= c /\ n \in Nat
            /\ w \in Nat /\ c <= w /\ v = w - c + x /\ w <= l /\ l \in Nat
        BY <3>8, <3>9, <3>10
      <4> HIDE DEF c, x, w, v
      <4>2. n <= l /\ v <= l - n
        BY <4>1
      <4> QED
        BY <4>2 DEF v
    <3> HIDE DEF a, t, o
    <3>12. Reserved(e, a, t, count[t], f[k])
      BY <3>2, <3>3, <3>6, <3>7, <3>8, <3>11, ReserveSound DEF n, l, a
    <3>13. Sound(e, f[k], length) /\ owed(k) <= Len(f[k].free)
      BY <3>7, <3>11, <3>12 DEF Reserved, n, l
    <3>14. Lengthened(e, m, f[k])
      BY <3>2, <3>12, LengthenedTwice DEF Reserved, a
    <3>15. \A q \in AllRequests \ Turns(batch, k) : f[k].blocks[q] = m.blocks[q]
      BY <3>2, <3>5, <3>12 DEF Reserved, a
    <3>16. ASSUME NEW r \in Turns(batch, k) PROVE Covers(f[k], r, length[r] + count[r])
      <4>1. CASE r = t
        BY <3>12, <4>1 DEF Reserved
      <4>2. CASE r # t
        <5>1. r \in Turns(batch, o)
          BY <3>5, <3>16, <4>2
        <5>2. Covers(a, r, length[r] + count[r])
          BY <3>2, <5>1 DEF a
        <5>3. r \in R
          <6>1. \A j \in 1..o : j \in 1..N
            BY <1>1, <3>1 DEF o
          <6> QED
            BY <1>3, <5>1, <6>1 DEF Turns
        <5>4. r \in AllRequests /\ length[r] + count[r] \in Nat
          <6>1. length[r] \in Nat /\ count[r] \in Nat
            BY <1>4, <5>3 DEF R
          <6> QED
            BY <1>4, <5>3, <6>1
        <5>5. f[k].blocks[r] = a.blocks[r]
          BY <3>12, <4>2, <5>4 DEF Reserved
        <5> QED
          BY <5>2, <5>5 DEF Covers
      <4> QED
        BY <4>1, <4>2
    <3>17. So(k)
      BY <3>13, <3>14, <3>15, <3>16
    <3> QED
      BY <3>17
  <2> QED
    BY <2>4, <2>5
<1>6. So(N)
  <2>1. N \in 0..N
    BY <1>1
  <2> HIDE DEF So
  <2> QED
    BY <1>5, <2>1
<1>7. Turns(batch, N) = R
  BY <1>3 DEF Turns
<1> QED
  BY <1>1, <1>2, <1>6, <1>7 DEF Allotted, R

-----------------------------------------------------------------------------
(* What prepare_write() leaves *)

(* The block that r appends to is its own; what was a table's own still is.*)
Prepared(e, a, r, b) ==
  /\ Sound(e, b, length) /\ Alone(e, b, r, Index(length[r]))
  /\ \A q \in AllRequests : DOMAIN b.blocks[q] = DOMAIN a.blocks[q]
  /\ \A q \in AllRequests \ {r} : b.blocks[q] = a.blocks[q]
  /\ \A q \in Hosted(e) : \A i \in DOMAIN a.blocks[q] : Alone(e, a, q, i) => Alone(e, b, q, i)
  /\ Len(b.free) = Len(a.free) - IF Alone(e, a, r, Index(length[r])) THEN 0 ELSE 1

LEMMA PrepareOwned ==
  ASSUME NEW e, NEW m, Sound(e, m, length), NEW r \in Hosted(e), Alone(e, m, r, Index(length[r]))
  PROVE  PrepareWrite(m, r) = m
<1>1. \A q \in AllRequests \ {r} : EngineOf[q] = EngineOf[r] => q \in Hosted(e) \ {r}
  BY DEF Hosted
<1> QED
  BY <1>1 DEF Alone, PrepareWrite, Landing, Index

LEMMA PrepareSound ==
  ASSUME NEW e, NEW m, Sound(e, m, length), length \in [AllRequests -> Nat],
         NEW r \in Hosted(e), Index(length[r]) \in DOMAIN m.blocks[r],
         Alone(e, m, r, Index(length[r])) \/ Len(m.free) > 0
  PROVE  Prepared(e, m, r, PrepareWrite(m, r))
<1> DEFINE F == m.free
           T == m.blocks[r]
           j == Index(length[r])
           old == T[j]
           new == Last(F)
           f == Front(F)
           c == [T EXCEPT ![j] = new]
           b == PrepareWrite(m, r)
<1>1. /\ DOMAIN m = {"free", "blocks", "kv"} /\ DOMAIN m.kv = Cells
      /\ F \in Seq(Pool) /\ m.blocks \in [AllRequests -> Seq(Pool)] /\ r \in AllRequests
      /\ T \in Seq(Pool) /\ length[r] \in Nat /\ j \in DOMAIN T
  BY DEF Sound, Shaped, Hosted
<1>2. \A q \in Hosted(e) : q \in AllRequests
  BY DEF Hosted
<1>3. CASE Alone(e, m, r, j)
  <2>1. b = m
    BY <1>3, PrepareOwned
  <2>2. Len(m.free) \in Nat
    BY <1>1, LenProperties
  <2> QED
    BY <1>3, <2>1, <2>2 DEF Prepared
<1>4. CASE ~Alone(e, m, r, j)
  <2>1. Len(F) \in Nat \ {0}
    BY <1>1, <1>4, LenProperties
  <2>2. PICK q1 \in Hosted(e) \ {r} : old \in Range(m.blocks[q1])
    BY <1>4 DEF Alone
  <2>3. \E q \in AllRequests \ {r} : EngineOf[q] = EngineOf[r] /\ old \in Range(m.blocks[q])
    BY <2>2 DEF Hosted
  <2>4. /\ b.free = f /\ b.blocks = [m.blocks EXCEPT ![r] = [T EXCEPT ![j] = new]]
        /\ b.kv = [s \in Cells |-> IF s \div BlockSize = new
                                   THEN m.kv[old * BlockSize + (s % BlockSize)] ELSE m.kv[s]]
        /\ DOMAIN b = {"free", "blocks", "kv"}
    <3> DEFINE w == [m EXCEPT !.free = Front(@), !.blocks[r][j] = new,
                              !.kv = [s \in DOMAIN @ |->
                                        IF s \div BlockSize = new
                                        THEN @[old * BlockSize + (s % BlockSize)] ELSE @[s]]]
    <3>1. b = w
      BY <2>3 DEF PrepareWrite, Landing, Index
    <3>2. /\ w.free = f /\ w.blocks = [m.blocks EXCEPT ![r][j] = new]
          /\ w.kv = [s \in DOMAIN m.kv |-> IF s \div BlockSize = new
                                   THEN m.kv[old * BlockSize + (s % BlockSize)] ELSE m.kv[s]]
          /\ DOMAIN w = {"free", "blocks", "kv"}
      <4> HIDE DEF f, old, new, j
      <4> QED
        BY <1>1 DEF f
    <3> HIDE DEF w
    <3> QED
      BY <1>1, <3>1, <3>2
  <2> HIDE DEF b
  <2>5. f \in Seq(Pool) /\ Len(f) = Len(F) - 1 /\ new \in Pool
      /\ F = f \o <<new>> /\ <<new>> \in Seq(Pool) /\ Range(<<new>>) = {new}
    <3>1. F \in Seq(Pool) /\ Len(F) > 0
      BY <1>1, <2>1
    <3> HIDE DEF F
    <3> QED
      BY ONLY <3>1, FrontAndLast
  <2>6. IsInjective(F) /\ \A q \in Hosted(e) : IsInjective(m.blocks[q]) /\ Range(F) \cap Range(m.blocks[q]) = {}
    BY DEF Sound, Apart
  <2>7. IsInjective(f) /\ new \notin Range(f) /\ Range(f) \subseteq Range(F) /\ new \in Range(F)
    <3> DEFINE g == <<new>>
    <3>1. /\ F = f \o g /\ f \in Seq(Pool) /\ g \in Seq(Pool) /\ Range(g) = {new} /\ IsInjective(f \o g)
      BY <2>5, <2>6
    <3> HIDE DEF new, f, F, g
    <3>2. Range(f \o g) = Range(f) \cup Range(g) /\ IsInjective(f) /\ Range(f) \cap Range(g) = {}
      BY <3>1, JoinApart
    <3> QED
      BY <3>1, <3>2
  <2>8. \A q \in Hosted(e) : new \notin Range(m.blocks[q])
    BY <2>6, <2>7
  <2> HIDE DEF F, f, new
  <2>9. c \in Seq(Pool) /\ DOMAIN c = DOMAIN T /\ c[j] = new /\ \A i \in DOMAIN T \ {j} : c[i] = T[i]
    <3> HIDE DEF T, j
    <3> QED
      BY <1>1, <2>5, ExceptSeq
  <2>10. b.blocks[r] = c /\ \A q \in AllRequests \ {r} : b.blocks[q] = m.blocks[q]
    BY <1>1, <2>4
  <2>11. Range(c) \subseteq Range(T) \cup {new}
    BY <2>9 DEF Range
  <2>12. old \in Range(T) /\ old \in Pool
    BY <1>1, ElementOfSeq, LenProperties DEF Range
  <2>13. IsInjective(T) /\ Range(T) \cap Range(m.blocks[q1]) # {}
    BY <2>2, <2>6, <2>12
  <2> HIDE DEF c
  <2>14. Shaped(b)
    BY <1>1, <2>4, <2>5, <2>9 DEF Shaped, c
  <2>15. Apart(e, b)
    <3>1. ASSUME NEW q \in Hosted(e)
          PROVE  IsInjective(b.blocks[q]) /\ Range(f) \cap Range(b.blocks[q]) = {}
      <4>1. CASE q = r
        <5>1. IsInjective(c)
          <6>1. \A i \in DOMAIN T : T[i] # new
            BY <2>8 DEF Range
          <6> QED
            BY <2>9, <2>13, <6>1 DEF IsInjective
        <5>2. Range(F) \cap Range(T) = {}
          BY <2>6
        <5> QED
          BY <2>7, <2>10, <2>11, <4>1, <5>1, <5>2
      <4>2. CASE q # r
        BY <1>2, <2>6, <2>7, <2>10, <4>2
      <4> QED
        BY <4>1, <4>2
    <3> QED
      BY <2>4, <2>7, <3>1 DEF Apart
  <2>16. ASSUME NEW q \in Hosted(e), NEW i \in DOMAIN m.blocks[q], Alone(e, m, q, i)
         PROVE  Alone(e, b, q, i)
    <3>1. CASE q = r
      <4>1. i # j
        BY <1>4, <2>16, <3>1
      <4>2. b.blocks[q][i] = m.blocks[q][i]
        BY <2>9, <2>10, <3>1, <4>1
      <4> QED
        BY <1>2, <2>10, <2>16, <3>1, <4>2 DEF Alone
    <3>2. CASE q # r
      <4>1. b.blocks[q] = m.blocks[q] /\ m.blocks[q][i] # new
        BY <1>2, <2>8, <2>10, <3>2 DEF Range
      <4>2. \A s \in Hosted(e) \ {q} : m.blocks[q][i] \notin Range(b.blocks[s])
        BY <1>2, <2>10, <2>11, <2>16, <4>1 DEF Alone
      <4> QED
        BY <4>1, <4>2 DEF Alone
    <3> QED
      BY <3>1, <3>2
  <2>17. Alone(e, b, r, j)
    BY <1>2, <2>8, <2>9, <2>10 DEF Alone
  <2>18. ASSUME NEW q \in Hosted(e)
         PROVE  /\ Covers(b, q, length[q]) /\ Keyed(b, q, length[q])
                /\ \A i \in DOMAIN b.blocks[q] : Alone(e, b, q, i) \/ Begun(length[q], i)
    <3>1. /\ Covers(m, q, length[q]) /\ Keyed(m, q, length[q])
          /\ \A i \in DOMAIN m.blocks[q] : Alone(e, m, q, i) \/ Begun(length[q], i)
      BY DEF Sound
    <3>2. DOMAIN b.blocks[q] = DOMAIN m.blocks[q]
      BY <1>2, <2>9, <2>10
    <3>3. ASSUME NEW p \in 0..(length[q] - 1)
          PROVE  b.kv[Slot(b.blocks[q], p)] = Token(q, p)
      <4>1. p \in Nat /\ Index(p) \in DOMAIN m.blocks[q] /\ m.blocks[q] \in Seq(Pool) /\ b.blocks[q] \in Seq(Pool)
        BY <1>1, <1>2, <2>14, <3>1 DEF Covers, Shaped
      <4>2. m.kv[Slot(m.blocks[q], p)] = Token(q, p)
        BY <3>1 DEF Keyed
      <4> DEFINE s == Slot(b.blocks[q], p)
                 o == Slot(m.blocks[q], p)
      <4>3. /\ s \in Cells /\ s \div BlockSize = b.blocks[q][Index(p)] /\ s % BlockSize = p % BlockSize
        BY <3>2, <4>1, SlotIs
      <4>4. b.kv[s] = IF b.blocks[q][Index(p)] = new THEN m.kv[old * BlockSize + (p % BlockSize)] ELSE m.kv[s]
        BY <2>4, <4>3
      <4>5. CASE q = r /\ Index(p) = j
        <5>1. o = old * BlockSize + (p % BlockSize)
          BY <4>5 DEF Slot, Index
        <5>2. b.blocks[q][Index(p)] = new
          BY <2>9, <2>10, <4>5
        <5> QED
          BY <4>2, <4>4, <5>1, <5>2
      <4>6. CASE ~(q = r /\ Index(p) = j)
        <5>1. b.blocks[q][Index(p)] = m.blocks[q][Index(p)]
          BY <1>2, <2>9, <2>10, <4>1, <4>6
        <5>2. m.blocks[q][Index(p)] # new
          BY <2>8, <4>1 DEF Range
        <5>3. s = o
          BY <5>1 DEF Slot, Index
        <5> HIDE DEF s, o
        <5> QED
          BY <4>2, <4>4, <5>1, <5>2, <5>3 DEF s, o
      <4> QED
        BY <4>5, <4>6
    <3>4. \A i \in DOMAIN b.blocks[q] : Alone(e, b, q, i) \/ Begun(length[q], i)
      BY <2>16, <3>1, <3>2
    <3> QED
      BY <3>1, <3>2, <3>3, <3>4 DEF Covers, Keyed
  <2>19. Sound(e, b, length)
    BY <2>14, <2>15, <2>18 DEF Sound
  <2>20. Len(b.free) = Len(m.free) - 1
    BY <2>4, <2>5 DEF F
  <2>21. \A q \in AllRequests : DOMAIN b.blocks[q] = DOMAIN m.blocks[q]
    BY <2>9, <2>10
  <2> QED
    BY <1>4, <2>10, <2>16, <2>17, <2>19, <2>20, <2>21 DEF Prepared, b
<1> QED
  BY <1>3, <1>4

(* The recursion that PrepareAll unfolds to. *)
Prepares(m, batch, n, f) ==
  f = [i \in 0..n |-> IF i = 0 THEN m ELSE PrepareWrite(f[i - 1], batch[i])]

LEMMA PreparesExist ==
  ASSUME NEW m, NEW batch, NEW n \in Nat
  PROVE  \E f : Prepares(m, batch, n, f)
<1> DEFINE Bad == {i \in Nat : ~\E f : Prepares(m, batch, i, f)}
<1>1. SUFFICES ASSUME Bad # {} PROVE FALSE
  OBVIOUS
<1>2. PICK i \in Bad : \A j \in Bad : i <= j
  BY <1>1, LeastOf
<1>3. CASE i = 0
  <2> DEFINE f == [k \in 0..0 |-> m]
  <2>1. Prepares(m, batch, 0, f)
    BY DEF Prepares
  <2> QED
    BY <1>2, <1>3, <2>1
<1>4. CASE i # 0
  <2>1. i - 1 \in Nat /\ i - 1 \notin Bad
    BY <1>2, <1>4
  <2>2. PICK f : Prepares(m, batch, i - 1, f)
    BY <2>1
  <2> DEFINE Step(h, k) == IF k = 0 THEN m ELSE PrepareWrite(h[k - 1], batch[k])
             g == [k \in 0..i |-> Step(f, k)]
  <2>3. f = [k \in 0..(i - 1) |-> Step(f, k)]
    BY <2>2 DEF Prepares
  <2>4. \A k \in 0..i : k # 0 => k - 1 \in 0..(i - 1) /\ k - 1 \in 0..i
    BY <2>1
  <2>5. \A k \in 0..(i - 1) : k \in 0..i
    BY <2>1
  <2>6. \A k \in 0..i : g[k] = Step(f, k)
    OBVIOUS
  <2> HIDE DEF Step
  <2>7. \A k \in 0..(i - 1) : g[k] = f[k]
    BY <2>3, <2>5, <2>6
  <2>8. \A k \in 0..i : Step(g, k) = Step(f, k)
    <3> HIDE DEF g
    <3> QED
      BY <2>4, <2>7 DEF Step
  <2>9. g = [k \in 0..i |-> Step(g, k)]
    BY <2>8
  <2>10. Prepares(m, batch, i, g)
    BY <2>9 DEF Prepares, Step
  <2> QED
    BY <1>2, <2>10
<1> QED
  BY <1>3, <1>4

PreparesTo(m, batch, f) ==
  /\ PrepareAll(m, batch) = f[Len(batch)] /\ f[0] = m
  /\ \A i \in 1..Len(batch) : f[i] = PrepareWrite(f[i - 1], batch[i])

LEMMA PrepareAllUnfolds ==
  ASSUME NEW m, NEW batch, Len(batch) \in Nat
  PROVE  \E f : PreparesTo(m, batch, f)
<1> DEFINE f == CHOOSE f : Prepares(m, batch, Len(batch), f)
<1>1. PrepareAll(m, batch) = f[Len(batch)]
  BY DEF PrepareAll, Prepares
<1>2. Prepares(m, batch, Len(batch), f)
  BY PreparesExist
<1> HIDE DEF f
<1>3. f[0] = m /\ \A i \in 1..Len(batch) : f[i] = PrepareWrite(f[i - 1], batch[i])
  BY <1>2 DEF Prepares
<1> QED
  BY <1>1, <1>3 DEF PreparesTo

Detached(e, m, batch, b) ==
  /\ Sound(e, b, length)
  /\ \A q \in AllRequests : DOMAIN b.blocks[q] = DOMAIN m.blocks[q]
  /\ \A q \in AllRequests \ Range(batch) : b.blocks[q] = m.blocks[q]
  /\ \A q \in Hosted(e) : \A i \in DOMAIN m.blocks[q] : Alone(e, m, q, i) => Alone(e, b, q, i)
  /\ \A r \in Range(batch) : Alone(e, b, r, Index(length[r]))

LEMMA PrepareAllSound ==
  ASSUME NEW e, NEW m, Sound(e, m, length), length \in [AllRequests -> Nat],
         NEW batch \in Seq(AllRequests), IsInjective(batch), NEW cost,
         \A r \in Range(batch) :
           /\ r \in Hosted(e) /\ cost[r] \in Nat /\ Index(length[r]) \in DOMAIN m.blocks[r]
           /\ Alone(e, m, r, Index(length[r])) \/ cost[r] > 0,
         SumOver(cost, Range(batch)) <= Len(m.free)
  PROVE  Detached(e, m, batch, PrepareAll(m, batch))
<1> DEFINE none == [r \in Range(batch) |-> 0]
<1>0. TurnsPay(batch, cost, none)
  <2>1. \A r \in Range(batch) : cost[r] \in Nat /\ none[r] \in Nat
    OBVIOUS
  <2>2. batch \in Seq(AllRequests) /\ IsInjective(batch)
    OBVIOUS
  <2> HIDE DEF none
  <2> QED
    BY ONLY <2>1, <2>2, TurnsGrow
<1> DEFINE R == Range(batch)
           N == Len(batch)
           owed(k) == SumOver(Owed(batch, k, cost, none), R)
<1>1. /\ N \in Nat /\ DOMAIN batch = 1..N /\ owed(0) = SumOver(cost, R)
      /\ \A k \in 1..N :
           /\ batch[k] \in R /\ owed(k - 1) \in Nat /\ cost[batch[k]] <= owed(k - 1)
           /\ owed(k) = owed(k - 1) - cost[batch[k]] + none[batch[k]]
  <2> HIDE DEF none
  <2> QED
    BY <1>0 DEF TurnsPay
<1>a. PICK f : PreparesTo(m, batch, f)
  BY <1>1, PrepareAllUnfolds
<1>2. /\ PrepareAll(m, batch) = f[N] /\ f[0] = m
      /\ \A i \in 1..N : f[i] = PrepareWrite(f[i - 1], batch[i])
  BY <1>a DEF PreparesTo
<1>3. R = {batch[i] : i \in 1..N} /\ \A i, j \in 1..N : batch[i] = batch[j] => i = j
  BY <1>1 DEF Range, IsInjective
<1>4. \A r \in R : r \in Hosted(e) /\ r \in AllRequests /\ length[r] \in Nat
  BY DEF Hosted
<1>b. \A r \in R : none[r] = 0
  OBVIOUS
<1> HIDE DEF N, R, owed, none
<1> DEFINE So(k) ==
             /\ Sound(e, f[k], length) /\ owed(k) <= Len(f[k].free)
             /\ \A q \in AllRequests : DOMAIN f[k].blocks[q] = DOMAIN m.blocks[q]
             /\ \A q \in AllRequests \ R : f[k].blocks[q] = m.blocks[q]
             /\ \A q \in Hosted(e) : \A i \in DOMAIN m.blocks[q] : Alone(e, m, q, i) => Alone(e, f[k], q, i)
             /\ \A r \in Turns(batch, k) : Alone(e, f[k], r, Index(length[r]))
           Bad == {k \in 0..N : ~So(k)}
<1>5. Bad = {}
  <2>1. SUFFICES ASSUME Bad # {} PROVE FALSE
    OBVIOUS
  <2>2. Bad \in SUBSET Nat
    BY <1>1
  <2>3. PICK k \in Bad : \A j \in Bad : k <= j
    <3> HIDE DEF Bad
    <3> QED
      BY <2>1, <2>2, LeastOf
  <2>4. CASE k = 0
    <3>1. Turns(batch, 0) = {} /\ f[0] = m /\ owed(0) <= Len(m.free)
      BY <1>1, <1>2 DEF Turns, R
    <3>2. So(0)
      BY <3>1
    <3> QED
      BY <2>4, <3>2
  <2>5. CASE k # 0
    <3> DEFINE o == k - 1
    <3>1. k \in 1..N /\ o \in 0..N /\ ~(k <= o) /\ k \in Nat
      <4>1. k \in 0..N
        OBVIOUS
      <4> QED
        BY <1>1, <2>5, <4>1
    <3>2. So(o)
      <4>1. o \notin Bad
        <5> HIDE DEF Bad, o
        <5> QED
          BY <2>3, <3>1
      <4> QED
        BY <3>1, <4>1
    <3> DEFINE a == f[o]
               t == batch[k]
               j == Index(length[t])
    <3>3. f[k] = PrepareWrite(a, t) /\ t \in R /\ t \in Hosted(e) /\ t \in AllRequests
      BY <1>1, <1>2, <1>4, <3>1
    <3>4. \A r : r \in Turns(batch, k) <=> r \in Turns(batch, o) \/ r = t
      <4>1. \A i \in 1..k : i = k \/ i \in 1..o
        BY <3>1
      <4>2. \A i \in 1..o : i \in 1..k
        BY <3>1
      <4>3. k \in 1..k
        BY <3>1
      <4> HIDE DEF o
      <4> QED
        BY <4>1, <4>2, <4>3 DEF Turns
    <3>5. j \in DOMAIN m.blocks[t] /\ j \in DOMAIN a.blocks[t]
      BY <3>2, <3>3 DEF R
    <3>6. Alone(e, a, t, j) \/ cost[t] > 0
      BY <3>2, <3>3, <3>5 DEF R
    <3> DEFINE l == Len(a.free)
               c == cost[t]
               w == owed(o)
               v == owed(k)
    <3>7. c \in Nat /\ w \in Nat /\ c <= w /\ v = w - c + 0 /\ w <= l
      <4>1. cost[t] \in Nat
        BY <3>3 DEF R
      <4> QED
        BY <1>1, <1>b, <3>1, <3>2, <3>3, <4>1
    <3>8. l \in Nat
      BY <3>2, LenProperties DEF Sound, Shaped
    <3>9. c > 0 => l > 0
      <4> HIDE DEF c, w, v, l
      <4> QED
        BY <3>7, <3>8
    <3> HIDE DEF a, t, o, j
    <3>10. Prepared(e, a, t, f[k])
      BY <3>2, <3>3, <3>5, <3>6, <3>9, PrepareSound DEF l, a, j
    <3>11. v <= Len(f[k].free)
      <4>1. Len(f[k].free) = l - IF Alone(e, a, t, j) THEN 0 ELSE 1
        BY <3>10 DEF Prepared, j
      <4>2. c > 0 \/ Alone(e, a, t, j)
        BY <3>6
      <4> HIDE DEF c, w, v, l
      <4>3. CASE Alone(e, a, t, j)
        <5>1. Len(f[k].free) = l
          BY <3>8, <4>1, <4>3
        <5> QED
          BY <3>7, <3>8, <5>1
      <4>4. CASE ~Alone(e, a, t, j)
        <5>1. Len(f[k].free) = l - 1
          BY <3>8, <4>1, <4>4
        <5> QED
          BY <3>7, <3>8, <4>2, <4>4, <5>1
      <4> QED
        BY <4>3, <4>4
    <3>12. \A q \in AllRequests : DOMAIN f[k].blocks[q] = DOMAIN m.blocks[q]
      BY <3>2, <3>10 DEF Prepared, a
    <3>13. \A q \in AllRequests \ R : f[k].blocks[q] = m.blocks[q]
      BY <3>2, <3>3, <3>10 DEF Prepared, a
    <3>14. \A q \in Hosted(e) : q \in AllRequests
      BY DEF Hosted
    <3>15. \A q \in Hosted(e) : \A i \in DOMAIN m.blocks[q] : Alone(e, m, q, i) => Alone(e, f[k], q, i)
      BY <3>2, <3>10, <3>14 DEF Prepared, a
    <3>16. ASSUME NEW r \in Turns(batch, k) PROVE Alone(e, f[k], r, Index(length[r]))
      <4>1. CASE r = t
        BY <3>10, <4>1 DEF Prepared
      <4>2. CASE r # t
        <5>1. r \in Turns(batch, o)
          BY <3>4, <3>16, <4>2
        <5>2. Alone(e, a, r, Index(length[r]))
          BY <3>2, <5>1 DEF a
        <5>3. r \in R
          <6>1. \A i \in 1..o : i \in 1..N
            BY <1>1, <3>1 DEF o
          <6> QED
            BY <1>3, <5>1, <6>1 DEF Turns
        <5>4. r \in Hosted(e) /\ Index(length[r]) \in DOMAIN m.blocks[r] /\ r \in AllRequests
          BY <1>4, <5>3 DEF R
        <5>5. Index(length[r]) \in DOMAIN a.blocks[r]
          BY <3>2, <5>4 DEF a
        <5> QED
          BY <3>10, <5>2, <5>4, <5>5 DEF Prepared
      <4> QED
        BY <4>1, <4>2
    <3>17. So(k)
      BY <3>10, <3>11, <3>12, <3>13, <3>15, <3>16 DEF Prepared
    <3> QED
      BY <3>17
  <2> QED
    BY <2>4, <2>5
<1>6. So(N)
  <2>1. N \in 0..N
    BY <1>1
  <2> HIDE DEF So
  <2> QED
    BY <1>5, <2>1
<1>7. Turns(batch, N) = R
  BY <1>3 DEF Turns
<1> QED
  BY <1>2, <1>6, <1>7 DEF Detached, R

-----------------------------------------------------------------------------
(* The room that a pass was given *)

LEMMA RequestsFinite == IsFiniteSet(AllRequests)
  BY ForwardAssumption, RangeBounds DEF AllRequests

(* A block that another table holds has several references. *)
LEMMA SharedRefs ==
  ASSUME NEW e, NEW r \in Hosted(e), NEW i \in DOMAIN blocks[r], ~Alone(e, Memory(e), r, i)
  PROVE  RefsIn(e, blocks[r][i]) \in Nat /\ RefsIn(e, blocks[r][i]) > 1
<1> DEFINE b == blocks[r][i]
           holders == {q \in AllRequests : EngineOf[q] = e /\ b \in Range(blocks[q])}
<1>1. PICK q \in Hosted(e) \ {r} : b \in Range(blocks[q])
  BY DEF Alone, Memory
<1>2. b \in Range(blocks[r])
  BY DEF Range
<1>3. {r, q} \subseteq holders
  BY <1>1, <1>2 DEF Hosted
<1>4. IsFiniteSet(holders) /\ Cardinality(holders) \in Nat
  BY RequestsFinite, FS_Subset, FS_CardinalityType
<1>5. Cardinality({r, q}) = 2
  <2>1. IsFiniteSet({r}) /\ Cardinality({r}) = 1 /\ q \notin {r} /\ {r} \cup {q} = {r, q}
    BY <1>1, FS_Singleton
  <2>2. Cardinality({r} \cup {q}) = Cardinality({r}) + 1
    BY <2>1, FS_AddElement
  <2> QED
    BY <2>1, <2>2
<1>6. Cardinality({r, q}) <= Cardinality(holders)
  BY <1>3, <1>4, FS_Subset
<1>7. RefsIn(e, b) = Cardinality(holders)
  BY DEF RefsIn
<1> QED
  BY <1>4, <1>5, <1>6, <1>7

(* What copies a pass may need. *)
Copies(e, batch) ==
  [r \in Range(batch) |->
     IF \E i \in DOMAIN blocks[r] : i = Landing(r) /\ RefsIn(e, blocks[r][i]) > 1 THEN 1 ELSE 0]

Needs(e, batch, count) ==
  [r \in Range(batch) |-> Missing(Memory(e), r, count) + Copies(e, batch)[r]]

LEMMA RoomIs ==
  ASSUME NEW e, NEW batch, NEW count, HasRoom(e, batch, count)
  PROVE  SumOver(Needs(e, batch, count), Range(batch)) <= Len(free[e])
<1>1. Needs(e, batch, count) =
        [r \in Range(batch) |->
           Missing(Memory(e), r, count)
             + IF \E i \in DOMAIN blocks[r] : i = Landing(r) /\ RefsIn(e, blocks[r][i]) > 1
               THEN 1 ELSE 0]
  BY DEF Needs, Copies
<1> QED
  BY <1>1 DEF HasRoom, SumOver

LEMMA Roomy ==
  ASSUME NEW e, Sound(e, Memory(e), length), length \in [AllRequests -> Nat],
         NEW batch \in Seq(AllRequests), IsInjective(batch), \A r \in Range(batch) : r \in Hosted(e),
         NEW count \in Nat, HasRoom(e, batch, count)
  PROVE  Allotted(e, Memory(e), batch, Each(batch, count), Copies(e, batch),
                  ReserveAll(Memory(e), batch, Each(batch, count)))
<1> DEFINE m == Memory(e)
           ct == Each(batch, count)
           rest == Copies(e, batch)
           cost == Needs(e, batch, count)
<1>1. m.blocks = blocks /\ m.free = free[e]
  BY DEF Memory
<1>2. ASSUME NEW r \in Range(batch)
      PROVE  /\ r \in Hosted(e) /\ ct[r] \in Nat /\ cost[r] \in Nat /\ rest[r] \in Nat
             /\ Missing(m, r, ct[r]) + rest[r] <= cost[r]
  <2>1. r \in AllRequests /\ m.blocks[r] \in Seq(Pool) /\ length[r] \in Nat
    BY DEF Hosted, Sound, Shaped
  <2>2. Missing(m, r, count) \in Nat
    BY <2>1, MissingIs
  <2>3. ct[r] = count /\ rest[r] \in {0, 1} /\ cost[r] = Missing(m, r, count) + rest[r]
    BY DEF Each, Needs, Copies
  <2> HIDE DEF ct, rest, cost, m
  <2> QED
    BY <2>2, <2>3
<1>3. SumOver(cost, Range(batch)) <= Len(m.free)
  BY <1>1, RoomIs
<1> HIDE DEF m, ct, rest, cost
<1>4. Sound(e, m, length)
  BY DEF m
<1> QED
  BY <1>2, <1>3, <1>4, ReserveAllSound DEF m, ct, rest

(* The tables of a batch that may append count positions each. *)
Ready(e, a, batch, count, b) ==
  /\ Sound(e, b, length)
  /\ \A q \in AllRequests \ Range(batch) : b.blocks[q] = a.blocks[q]
  /\ \A q \in Hosted(e) : \A i \in DOMAIN a.blocks[q] : Alone(e, a, q, i) => Alone(e, b, q, i)
  /\ \A r \in Range(batch) :
       /\ Covers(b, r, length[r] + count)
       /\ \A p \in Nat : length[r] <= p /\ Index(p) \in DOMAIN b.blocks[r] => Alone(e, b, r, Index(p))

(* Past the block it appends to, a table has its blocks to itself. *)
LEMMA LaterAlone ==
  ASSUME NEW e, NEW m, NEW r \in Hosted(e), NEW n \in Nat,
         \A i \in DOMAIN m.blocks[r] : Alone(e, m, r, i) \/ Begun(n, i),
         n > 0 => Alone(e, m, r, Index(n)),
         NEW p \in Nat, n <= p, Index(p) \in DOMAIN m.blocks[r]
  PROVE  Alone(e, m, r, Index(p))
<1>1. CASE Begun(n, Index(p))
  <2>1. PICK q \in 0..(n - 1) : Index(q) = Index(p)
    BY <1>1 DEF Begun
  <2>2. q \in Nat /\ n > 0 /\ q <= n
    OBVIOUS
  <2>3. Index(q) <= Index(n) /\ Index(n) <= Index(p) /\ Index(q) \in Nat /\ Index(n) \in Nat
    BY <2>2, IndexIs, IndexMonotone
  <2>4. Index(n) = Index(p)
    BY <2>1, <2>3
  <2> QED
    BY <2>2, <2>4
<1>2. CASE ~Begun(n, Index(p))
  BY <1>2
<1> QED
  BY <1>1, <1>2

LEMMA PassReady ==
  ASSUME NEW e, Sound(e, Memory(e), length), length \in [AllRequests -> Nat],
         NEW batch \in Seq(AllRequests), IsInjective(batch), \A r \in Range(batch) : r \in Hosted(e),
         NEW count \in Nat \ {0}, HasRoom(e, batch, count)
  PROVE  Ready(e, Memory(e), batch, count,
               PrepareAll(ReserveAll(Memory(e), batch, Each(batch, count)), batch))
<1> DEFINE m == Memory(e)
           a == ReserveAll(m, batch, Each(batch, count))
           b == PrepareAll(a, batch)
           rest == Copies(e, batch)
<1>1. m.blocks = blocks /\ count \in Nat /\ \A q \in Hosted(e) : q \in AllRequests
  BY DEF Memory, Hosted
<1>2. Allotted(e, m, batch, Each(batch, count), rest, a)
  BY <1>1, Roomy
<1>3. \A r \in Range(batch) : Each(batch, count)[r] = count
  BY DEF Each
<1> HIDE DEF m, a
<1>4. /\ Sound(e, a, length) /\ Lengthened(e, m, a) /\ SumOver(rest, Range(batch)) <= Len(a.free)
      /\ \A q \in AllRequests \ Range(batch) : a.blocks[q] = m.blocks[q]
      /\ \A r \in Range(batch) : Covers(a, r, length[r] + count)
  BY <1>2, <1>3 DEF Allotted
<1>5. \A r \in Range(batch) : length[r] \in Nat /\ length[r] \in 0..(length[r] + count - 1)
  <2>1. ASSUME NEW r \in Range(batch) PROVE length[r] \in Nat
    BY <1>1
  <2> QED
    BY <2>1
<1>6. ASSUME NEW r \in Range(batch)
      PROVE  /\ rest[r] \in Nat /\ Index(length[r]) \in DOMAIN a.blocks[r]
             /\ Alone(e, a, r, Index(length[r])) \/ rest[r] > 0
  <2> DEFINE i == Index(length[r])
  <2>1. i \in DOMAIN a.blocks[r]
    BY <1>4, <1>5 DEF Covers
  <2>2. rest[r] = IF \E x \in DOMAIN blocks[r] : x = i /\ RefsIn(e, blocks[r][x]) > 1 THEN 1 ELSE 0
    BY DEF Copies, Landing, Index
  <2> HIDE DEF i, rest
  <2>3. ASSUME ~Alone(e, a, r, i) PROVE rest[r] > 0
    <3>1. i \in DOMAIN blocks[r] /\ ~Alone(e, Memory(e), r, i)
      BY <1>1, <1>4, <2>1, <2>3 DEF Lengthened, m
    <3>2. RefsIn(e, blocks[r][i]) > 1
      BY <3>1, SharedRefs
    <3> QED
      BY <2>2, <3>1, <3>2
  <2> QED
    BY <2>1, <2>2, <2>3 DEF i
<1> HIDE DEF rest, b
<1>7. Detached(e, a, batch, b)
  BY <1>4, <1>6, PrepareAllSound DEF b
<1>8. Sound(e, b, length) /\ \A q \in AllRequests : DOMAIN b.blocks[q] = DOMAIN a.blocks[q]
  BY <1>7 DEF Detached
<1>9. \A q \in AllRequests \ Range(batch) : b.blocks[q] = m.blocks[q]
  BY <1>4, <1>7 DEF Detached
<1>10. ASSUME NEW q \in Hosted(e), NEW i \in DOMAIN m.blocks[q], Alone(e, m, q, i)
       PROVE  Alone(e, b, q, i)
  <2>1. q \in AllRequests
    BY <1>1
  <2>2. i \in DOMAIN a.blocks[q] /\ Alone(e, a, q, i)
    BY <1>4, <1>10, <2>1 DEF Lengthened
  <2> QED
    BY <1>7, <2>2 DEF Detached
<1>11. ASSUME NEW r \in Range(batch)
       PROVE  /\ Covers(b, r, length[r] + count)
              /\ \A p \in Nat : length[r] <= p /\ Index(p) \in DOMAIN b.blocks[r] => Alone(e, b, r, Index(p))
  <2>1. r \in AllRequests /\ r \in Hosted(e)
    BY <1>1
  <2>2. Covers(b, r, length[r] + count)
    BY <1>4, <1>8, <2>1 DEF Covers
  <2>3. Alone(e, b, r, Index(length[r])) /\ length[r] \in Nat
    BY <1>5, <1>7 DEF Detached
  <2>4. \A i \in DOMAIN b.blocks[r] : Alone(e, b, r, i) \/ Begun(length[r], i)
    BY <1>8, <2>1 DEF Sound
  <2>5. ASSUME NEW p \in Nat, length[r] <= p, Index(p) \in DOMAIN b.blocks[r] PROVE Alone(e, b, r, Index(p))
    BY <2>1, <2>3, <2>4, <2>5, LaterAlone
  <2> QED
    BY <2>2, <2>5
<1> QED
  BY <1>8, <1>9, <1>10, <1>11 DEF Ready, m, a, b

-----------------------------------------------------------------------------
(* What a write leaves *)

(* The slots are those of the positions that the tables grow by.           *)
Fills(e, m, len, new, slots, toks) ==
  /\ \A n \in DOMAIN slots : \E q \in Hosted(e) : \E p \in Nat :
       /\ len[q] <= p /\ p < new[q] /\ Alone(e, m, q, Index(p))
       /\ slots[n] = Slot(m.blocks[q], p) /\ toks[n] = Token(q, p)
  /\ \A q \in Hosted(e) : \A p \in Nat :
       len[q] <= p /\ p < new[q] => \E n \in DOMAIN slots : slots[n] = Slot(m.blocks[q], p)

LEMMA FillSound ==
  ASSUME NEW e, NEW m, NEW len, NEW new, Sound(e, m, len), NEW slots, NEW toks,
         \A q \in Hosted(e) : len[q] \in Nat /\ new[q] \in Nat /\ len[q] <= new[q] /\ Covers(m, q, new[q]),
         Fills(e, m, len, new, slots, toks)
  PROVE  Sound(e, [m EXCEPT !.kv = Written(m.kv, slots, toks)], new)
<1> DEFINE store == Written(m.kv, slots, toks)
           b == [m EXCEPT !.kv = store]
<1>1. /\ DOMAIN m = {"free", "blocks", "kv"} /\ DOMAIN m.kv = Cells
      /\ m.blocks \in [AllRequests -> Seq(Pool)] /\ \A q \in Hosted(e) : q \in AllRequests
  BY DEF Sound, Shaped, Hosted
<1>2. /\ DOMAIN store = Cells
      /\ \A s \in Cells : store[s] = IF s \in Range(slots) THEN toks[CHOOSE n \in DOMAIN slots : slots[n] = s] ELSE m.kv[s]
  BY <1>1 DEF Written
<1> HIDE DEF store
<1>3. b.free = m.free /\ b.blocks = m.blocks /\ b.kv = store /\ DOMAIN b = {"free", "blocks", "kv"}
  BY <1>1
<1> HIDE DEF b
<1>4. Shaped(b) /\ Apart(e, b)
  BY <1>2, <1>3 DEF Sound, Shaped, Apart
(* One slot is one position of one table, once the position is of a block  *)
(* that the table has to itself.                                           *)
<1>5. ASSUME NEW q \in Hosted(e), NEW p \in Nat, Index(p) \in DOMAIN m.blocks[q],
             NEW t \in Hosted(e), NEW k \in Nat, Index(k) \in DOMAIN m.blocks[t], Alone(e, m, t, Index(k)),
             Slot(m.blocks[q], p) = Slot(m.blocks[t], k)
      PROVE  q = t /\ p = k
  <2>1. m.blocks[q] \in Seq(Pool) /\ m.blocks[t] \in Seq(Pool)
    BY <1>1
  <2>2. /\ m.blocks[q][Index(p)] = m.blocks[t][Index(k)]
        /\ Index(p) = Index(k) => p = k
    BY <1>5, <2>1, SlotsApart
  <2>3. q = t
    <3>1. m.blocks[q][Index(p)] \in Range(m.blocks[q])
      BY <1>5 DEF Range
    <3> QED
      BY <1>5, <2>2, <3>1 DEF Alone
  <2>4. IsInjective(m.blocks[q])
    BY DEF Sound, Apart
  <2>5. Index(p) = Index(k)
    BY <1>5, <2>2, <2>3, <2>4 DEF IsInjective
  <2> QED
    BY <2>2, <2>3, <2>5
<1>6. \A q \in Hosted(e) : \A p \in Nat : p < new[q] => Index(p) \in DOMAIN m.blocks[q] /\ Slot(m.blocks[q], p) \in Cells
  <2>1. ASSUME NEW q \in Hosted(e), NEW p \in Nat, p < new[q]
        PROVE  Index(p) \in DOMAIN m.blocks[q] /\ Slot(m.blocks[q], p) \in Cells
    <3>1. p \in 0..(new[q] - 1) /\ m.blocks[q] \in Seq(Pool)
      BY <1>1, <2>1
    <3>2. Index(p) \in DOMAIN m.blocks[q]
      BY <3>1 DEF Covers
    <3> QED
      BY <3>1, <3>2, SlotIs
  <2> QED
    BY <2>1
<1>7. ASSUME NEW q \in Hosted(e), NEW p \in Nat, p < new[q]
      PROVE  store[Slot(m.blocks[q], p)] = Token(q, p)
  <2> DEFINE s == Slot(m.blocks[q], p)
             n == CHOOSE n \in DOMAIN slots : slots[n] = s
  <2>1. Index(p) \in DOMAIN m.blocks[q] /\ s \in Cells
    BY <1>6, <1>7
  <2> HIDE DEF s, n
  <2>2. CASE s \in Range(slots)
    <3>1. n \in DOMAIN slots /\ slots[n] = s /\ store[s] = toks[n]
      BY <1>2, <2>1, <2>2 DEF Range, n
    <3>2. PICK t \in Hosted(e), k \in Nat :
            /\ len[t] <= k /\ k < new[t] /\ Alone(e, m, t, Index(k))
            /\ slots[n] = Slot(m.blocks[t], k) /\ toks[n] = Token(t, k)
      BY <3>1 DEF Fills
    <3>3. q = t /\ p = k
      BY <1>5, <1>6, <2>1, <3>1, <3>2 DEF s
    <3> QED
      BY <3>1, <3>2, <3>3 DEF s
  <2>3. CASE s \notin Range(slots)
    <3>1. ~(len[q] <= p)
      <4>1. len[q] <= p => \E i \in DOMAIN slots : slots[i] = s
        BY <1>7 DEF Fills, s
      <4> QED
        BY <2>3, <4>1 DEF Range
    <3>2. p \in 0..(len[q] - 1)
      BY <3>1
    <3>3. m.kv[s] = Token(q, p)
      BY <3>2 DEF Sound, Keyed, s
    <3> QED
      BY <1>2, <2>1, <2>3, <3>3 DEF s
  <2> QED
    BY <2>2, <2>3
<1>8. ASSUME NEW q \in Hosted(e)
      PROVE  /\ Covers(b, q, new[q]) /\ Keyed(b, q, new[q])
             /\ \A i \in DOMAIN b.blocks[q] : Alone(e, b, q, i) \/ Begun(new[q], i)
  <2>1. Covers(b, q, new[q])
    BY <1>3 DEF Covers
  <2>2. Keyed(b, q, new[q])
    <3>1. \A p \in 0..(new[q] - 1) : p \in Nat /\ p < new[q]
      OBVIOUS
    <3> QED
      BY <1>3, <1>7, <3>1 DEF Keyed
  <2>3. \A p \in 0..(len[q] - 1) : p \in 0..(new[q] - 1)
    OBVIOUS
  <2>4. \A i \in DOMAIN m.blocks[q] : Alone(e, m, q, i) \/ Begun(len[q], i)
    BY DEF Sound
  <2>5. \A i \in DOMAIN b.blocks[q] : Alone(e, b, q, i) \/ Begun(new[q], i)
    BY <1>3, <2>3, <2>4 DEF Alone, Begun
  <2> QED
    BY <2>1, <2>2, <2>5
<1>9. Sound(e, b, new)
  BY <1>4, <1>8 DEF Sound
<1> QED
  BY <1>9 DEF b, store

(* A change to the tables of other engines. *)
LEMMA SoundElsewhere ==
  ASSUME NEW e, NEW m, NEW len, Sound(e, m, len), NEW b, NEW new, Shaped(b),
         b.free = m.free, b.kv = m.kv, \A q \in Hosted(e) : b.blocks[q] = m.blocks[q] /\ new[q] = len[q]
  PROVE  Sound(e, b, new)
  BY DEF Sound, Apart, Covers, Keyed, Alone

(* A plan holds as long as its rows' tables stay as they are, to themselves.*)
LEMMA PlannedStays ==
  ASSUME NEW e, NEW m, NEW len, NEW p, Planned(e, m, len, p), NEW b, NEW new,
         \A n \in DOMAIN p.batch :
           LET r == p.batch[n] IN
           /\ b.blocks[r] = m.blocks[r] /\ new[r] = len[r]
           /\ \A i \in DOMAIN m.blocks[r] : Alone(e, m, r, i) => Alone(e, b, r, i)
  PROVE  Planned(e, b, new, p)
<1>1. ASSUME NEW n \in DOMAIN p.batch, NEW s \in 1..p.budget, PagePlanned(m, p, s, n)
      PROVE  PagePlanned(b, p, s, n)
  BY <1>1 DEF PagePlanned
<1>2. ASSUME NEW n \in DOMAIN p.batch, RowPlanned(e, m, len, p, n) PROVE RowPlanned(e, b, new, p, n)
  BY <1>2 DEF RowPlanned, Covers
<1> QED
  BY <1>1, <1>2 DEF Planned

(* What is read of a table whose keys are there.                           *)
LEMMA ReadsOwn ==
  ASSUME NEW m, NEW r, NEW n, Keyed(m, r, n), NEW k \in Nat, k <= n, n \in Nat
  PROVE  [p \in 1..k |-> m.kv[Slot(m.blocks[r], p - 1)]] = Text(r, k)
<1>1. \A p \in 1..k : p - 1 \in 0..(n - 1)
  OBVIOUS
<1> QED
  BY <1>1 DEF Keyed, Text

LEMMA TextCut ==
  ASSUME NEW r, NEW n \in Nat, NEW k \in 0..n
  PROVE  SubSeq(Text(r, n), 1, k) = Text(r, k)
<1> DEFINE t(p) == Token(r, p - 1)
<1>1. Text(r, n) = [p \in 1..n |-> t(p)] /\ Text(r, k) = [p \in 1..k |-> t(p)]
  BY DEF Text
<1> DEFINE S == {t(p) : p \in 1..n}
<1>2. \A p \in 1..n : t(p) \in S
  OBVIOUS
<1> HIDE DEF t, S
<1>3. [p \in 1..n |-> t(p)] \in Seq(S) /\ Len([p \in 1..n |-> t(p)]) = n
  BY <1>2
<1>4. SubSeq([p \in 1..n |-> t(p)], 1, k) = [p \in 1..k |-> t(p)]
  BY <1>3
<1> QED
  BY <1>1, <1>4

-----------------------------------------------------------------------------
(* A pass over the cache of one engine *)

LEMMA EngineKeeps ==
  ASSUME Stored, NEW e \in Engines, NEW b, Sound(e, b, length'),
         free' = [free EXCEPT ![e] = b.free], blocks' = b.blocks,
         DOMAIN kv' = Engines, kv'[e] = b.kv, \A f \in Engines \ {e} : kv'[f] = kv[f],
         \A q \in AllRequests \ Hosted(e) : b.blocks[q] = blocks[q] /\ length'[q] = length[q],
         \A f \in Engines \ {e} : plan'[f] = plan[f],
         plan'[e] # NoPlan => Planned(e, b, length', plan'[e]),
         astray' = {}
  PROVE  Stored'
<1>1. Shaped(b) /\ free \in [Engines -> Seq(Pool)] /\ DOMAIN kv = Engines
  BY DEF Sound, Stored
<1>2. free' \in [Engines -> Seq(Pool)] /\ DOMAIN kv' = Engines
  BY <1>1 DEF Shaped
<1>3. Sound(e, Memory(e)', length') /\ (plan'[e] # NoPlan => Planned(e, Memory(e)', length', plan'[e]))
  <2> DEFINE c == Memory(e)'
  <2>1. /\ DOMAIN c = {"free", "blocks", "kv"}
        /\ c.free = b.free /\ c.blocks = b.blocks /\ c.kv = b.kv
    BY <1>1 DEF Memory
  <2> HIDE DEF c
  <2>2. Shaped(c)
    BY <1>1, <2>1 DEF Shaped
  <2>3. Sound(e, c, length')
    BY <2>1, <2>2, SoundElsewhere
  <2>4. \A p : Planned(e, b, length', p) => Planned(e, c, length', p)
    <3> SUFFICES ASSUME NEW p, Planned(e, b, length', p) PROVE Planned(e, c, length', p)
      OBVIOUS
    <3>1. \A n \in DOMAIN p.batch :
            LET r == p.batch[n] IN
            /\ c.blocks[r] = b.blocks[r] /\ length'[r] = length'[r]
            /\ \A i \in DOMAIN b.blocks[r] : Alone(e, b, r, i) => Alone(e, c, r, i)
      BY <2>1 DEF Alone
    <3> QED
      BY <3>1, PlannedStays
  <2> QED
    BY <2>3, <2>4 DEF c
<1>4. ASSUME NEW f \in Engines, f # e
      PROVE  /\ Sound(f, Memory(f)', length')
             /\ plan'[f] # NoPlan => Planned(f, Memory(f)', length', plan'[f])
  <2> DEFINE m == Memory(f)
             c == Memory(f)'
  <2>1. /\ DOMAIN m = {"free", "blocks", "kv"} /\ m.free = free[f] /\ m.blocks = blocks /\ m.kv = kv[f]
        /\ DOMAIN c = {"free", "blocks", "kv"} /\ c.free = free[f] /\ c.blocks = b.blocks /\ c.kv = kv[f]
    BY <1>1, <1>4 DEF Memory
  <2>2. Sound(f, m, length) /\ (plan[f] # NoPlan => Planned(f, m, length, plan[f]))
    BY DEF Stored
  <2> HIDE DEF m, c
  <2>3. \A q \in Hosted(f) : c.blocks[q] = m.blocks[q] /\ length'[q] = length[q]
    BY <1>4, <2>1 DEF Hosted
  <2>4. Shaped(c)
    BY <1>1, <2>1, <2>2 DEF Sound, Shaped
  <2>5. Sound(f, c, length')
    BY <2>1, <2>2, <2>3, <2>4, SoundElsewhere
  <2>6. ASSUME plan[f] # NoPlan PROVE Planned(f, c, length', plan[f])
    <3> DEFINE p == plan[f]
    <3>1. Planned(f, m, length, p)
      BY <2>2, <2>6
    <3>2. ASSUME NEW n \in DOMAIN p.batch
          PROVE  LET r == p.batch[n] IN
                 /\ c.blocks[r] = m.blocks[r] /\ length'[r] = length[r]
                 /\ \A i \in DOMAIN m.blocks[r] : Alone(f, m, r, i) => Alone(f, c, r, i)
      <4>1. p.batch[n] \in Hosted(f)
        BY <3>1, <3>2 DEF Planned, RowPlanned
      <4> QED
        BY <2>3, <4>1 DEF Alone
    <3> HIDE DEF p
    <3>3. Planned(f, c, length', p)
      BY <3>1, <3>2, PlannedStays
    <3> QED
      BY <3>3 DEF p
  <2> QED
    BY <1>4, <2>5, <2>6 DEF c
<1>5. ASSUME NEW f \in Engines
      PROVE  /\ Sound(f, Memory(f)', length')
             /\ plan'[f] # NoPlan => Planned(f, Memory(f)', length', plan'[f])
  BY <1>3, <1>4
<1> QED
  BY <1>2, <1>5 DEF Stored

LEMMA EngineStores ==
  ASSUME Stored, NEW e \in Engines, NEW b, Sound(e, b, length'),
         free' = [free EXCEPT ![e] = b.free], kv' = [kv EXCEPT ![e] = b.kv], blocks' = b.blocks,
         \A q \in AllRequests \ Hosted(e) : b.blocks[q] = blocks[q] /\ length'[q] = length[q],
         \A f \in Engines \ {e} : plan'[f] = plan[f],
         plan'[e] # NoPlan => Planned(e, b, length', plan'[e]),
         astray' = {}
  PROVE  Stored'
<1>1. DOMAIN kv' = Engines /\ kv'[e] = b.kv /\ \A f \in Engines \ {e} : kv'[f] = kv[f]
  BY DEF Stored
<1> QED
  BY <1>1, EngineKeeps

(* Rows that attend to their own history are not astray.                   *)
LEMMA JudgedWell ==
  ASSUME Stored, NEW rows, Judge(rows), \A row \in rows : row.reads = Text(row.request, row.rope + 1)
  PROVE  astray' = {}
  BY DEF Stored, Judge

-----------------------------------------------------------------------------
(* Several tokens of one request *)

LEMMA BatchOfOne ==
  ASSUME NEW r \in AllRequests
  PROVE  <<r>> \in Seq(AllRequests) /\ Len(<<r>>) = 1 /\ Range(<<r>>) = {r} /\ IsInjective(<<r>>)
<1>1. <<r>> \in Seq(AllRequests) /\ Len(<<r>>) = 1 /\ DOMAIN <<r>> = {1} /\ <<r>>[1] = r
  OBVIOUS
<1> QED
  BY <1>1 DEF Range, IsInjective

LEMMA OneReady ==
  ASSUME NEW e, Sound(e, Memory(e), length), length \in [AllRequests -> Nat], NEW r \in Hosted(e),
         NEW count \in Nat \ {0}, HasRoom(e, <<r>>, count)
  PROVE  Ready(e, Memory(e), <<r>>, count, PrepareWrite(Reserve(Memory(e), r, count), r))
<1> DEFINE m == Memory(e)
           s == <<r>>
           ct == Each(s, count)
           a == ReserveAll(m, s, ct)
<1>1. s \in Seq(AllRequests) /\ Len(s) = 1 /\ Range(s) = {r} /\ IsInjective(s) /\ s[1] = r /\ ct[r] = count
  BY BatchOfOne DEF Hosted, Each
<1>2. Ready(e, m, s, count, PrepareAll(a, s))
  BY <1>1, PassReady
<1>3. a = Reserve(m, r, count)
  <2> HIDE DEF m, s, ct
  <2>0. Len(s) \in Nat
    BY <1>1
  <2>1. PICK f : ReservesTo(m, s, ct, f)
    BY ONLY <2>0, ReserveAllUnfolds
  <2>2. ReserveAll(m, s, ct) = f[1] /\ f[0] = m /\ f[1] = Reserve(f[0], s[1], ct[s[1]])
    BY <1>1, <2>1 DEF ReservesTo
  <2> QED
    BY <1>1, <2>2
<1>4. PrepareAll(a, s) = PrepareWrite(a, r)
  <2> HIDE DEF m, s, ct, a
  <2>0. Len(s) \in Nat
    BY <1>1
  <2>1. PICK f : PreparesTo(a, s, f)
    BY ONLY <2>0, PrepareAllUnfolds
  <2>2. PrepareAll(a, s) = f[1] /\ f[0] = a /\ f[1] = PrepareWrite(f[0], s[1])
    BY <1>1, <2>1 DEF PreparesTo
  <2> QED
    BY <1>1, <2>2
<1> QED
  BY <1>2, <1>3, <1>4

(* Every mask lets row i of q see the positions up to its own.             *)
LEMMA VisibleIs ==
  ASSUME NEW q \in Nat \ {0}, NEW start \in Nat, NEW i \in 1..q
  PROVE  Visible(q, start + q, i) = start + i
<1>1. CausalMask(q, start + q, i) = start + i
  BY DEF CausalMask
<1>2. SdpaMask(q, start + q, i) = start + i
  BY DEF SdpaMask
<1> QED
  BY <1>1, <1>2 DEF Visible

LEMMA CoversAt ==
  ASSUME NEW m, NEW r, NEW n, Covers(m, r, n), NEW k \in 0..(n - 1)
  PROVE  Index(k) \in DOMAIN m.blocks[r]
  BY DEF Covers

(* The tables of a batch after a pass that appended count positions each.  *)
LEMMA ReadyPlan ==
  ASSUME Pinned, Stored, NEW e \in Engines, plan[e] # NoPlan, NEW batch, NEW count, NEW m,
         Ready(e, Memory(e), batch, count, m), Range(batch) \cap Range(plan[e].batch) = {},
         Grown(batch, count), NEW b, b.blocks = m.blocks
  PROVE  Planned(e, b, length', plan[e])
<1> DEFINE p == plan[e]
           a == Memory(e)
<1>1. Planned(e, a, length, p)
  BY DEF Stored
<1>2. length \in [AllRequests -> Nat] /\ \A q \in Hosted(e) : q \in AllRequests
  BY DEF Pinned, Hosted
<1> HIDE DEF p, a
<1>3. ASSUME NEW n \in DOMAIN p.batch
      PROVE  LET r == p.batch[n] IN
             /\ b.blocks[r] = a.blocks[r] /\ length'[r] = length[r]
             /\ \A i \in DOMAIN a.blocks[r] : Alone(e, a, r, i) => Alone(e, b, r, i)
  <2> DEFINE r == p.batch[n]
  <2>1. r \in Hosted(e) /\ r \in AllRequests /\ r \notin Range(batch)
    <3>1. RowPlanned(e, a, length, p, n)
      BY <1>1, <1>3 DEF Planned
    <3>2. r \in Range(plan[e].batch)
      BY <1>3 DEF Range, p
    <3> QED
      BY <1>2, <3>1, <3>2 DEF RowPlanned
  <2> HIDE DEF r
  <2>2. length'[r] = length[r]
    BY <1>2, <2>1 DEF Grown
  <2>3. m.blocks[r] = a.blocks[r] /\ \A i \in DOMAIN a.blocks[r] : Alone(e, a, r, i) => Alone(e, m, r, i)
    BY <2>1 DEF Ready, a
  <2> QED
    BY <2>2, <2>3 DEF Alone, r
<1>4. Planned(e, b, length', p)
  BY <1>1, <1>3, PlannedStays
<1> QED
  BY <1>4 DEF p

LEMMA ContiguousStores ==
  ASSUME Pinned, Stored, NEW e \in Engines, NEW r \in Hosted(e), NEW count \in Nat \ {0},
         Contiguous(r, count), plan[e] # NoPlan => r \notin Range(plan[e].batch)
  PROVE  Stored'
<1> DEFINE m     == PrepareWrite(Reserve(Memory(e), r, count), r)
           start == length[r]
           slots == [n \in 1..count |-> Slot(m.blocks[r], start + n - 1)]
           toks  == [n \in 1..count |-> Token(r, start + n - 1)]
           store == Written(m.kv, slots, toks)
           b     == [m EXCEPT !.kv = store]
           read  == [p \in 1..(start + count) |-> store[Slot(m.blocks[r], p - 1)]]
           rows  == {Row(r, start + i - 1, SubSeq(read, 1, Visible(count, start + count, i))) : i \in 1..count}
<1>1. /\ HasRoom(e, <<r>>, count) /\ Keep(e, b) /\ Grown(<<r>>, count) /\ Judge(rows) /\ plan' = plan
  <2>1. EngineOf[r] = e
    BY DEF Hosted
  <2> QED
    BY <2>1 DEF Contiguous
<1>2. length \in [AllRequests -> Nat] /\ r \in AllRequests /\ start \in Nat /\ Sound(e, Memory(e), length)
      /\ \A q \in Hosted(e) : q \in AllRequests
  BY DEF Pinned, Hosted, Stored
<1>3. Ready(e, Memory(e), <<r>>, count, m)
  BY <1>1, <1>2, OneReady
<1>4. Range(<<r>>) = {r}
  BY <1>2, BatchOfOne
<1> HIDE DEF m
<1>5. /\ Sound(e, m, length) /\ \A q \in AllRequests \ {r} : m.blocks[q] = blocks[q]
      /\ Covers(m, r, start + count)
      /\ \A p \in Nat : start <= p /\ Index(p) \in DOMAIN m.blocks[r] => Alone(e, m, r, Index(p))
  BY <1>3, <1>4 DEF Ready, Memory
<1>6. /\ length'[r] = start + count /\ \A q \in AllRequests \ {r} : length'[q] = length[q]
      /\ \A q \in AllRequests : length'[q] \in Nat /\ length[q] \in Nat /\ length[q] <= length'[q]
  BY <1>1, <1>2, <1>4, SMTT(20) DEF Grown
<1>7. Fills(e, m, length, length', slots, toks)
  <2>1. ASSUME NEW n \in 1..count
        PROVE  \E q \in Hosted(e) : \E p \in Nat :
                 /\ length[q] <= p /\ p < length'[q] /\ Alone(e, m, q, Index(p))
                 /\ slots[n] = Slot(m.blocks[q], p) /\ toks[n] = Token(q, p)
    <3>1. PICK k \in Nat : k = start + n - 1
      BY <1>2
    <3>2. start <= k /\ k < start + count /\ k \in 0..(start + count - 1)
      BY <1>2, <3>1
    <3>3. slots[n] = Slot(m.blocks[r], k) /\ toks[n] = Token(r, k)
      BY <3>1
    <3> HIDE DEF slots, toks
    <3>4. Covers(m, r, start + count)
      BY <1>5
    <3>5. Index(k) \in DOMAIN m.blocks[r]
      BY <1>2, <3>2, <3>4, CoversAt
    <3>6. Alone(e, m, r, Index(k))
      BY <1>5, <3>2, <3>5
    <3> QED
      BY <1>6, <3>2, <3>3, <3>6
  <2>2. ASSUME NEW q \in Hosted(e), NEW p \in Nat, length[q] <= p, p < length'[q]
        PROVE  \E n \in DOMAIN slots : slots[n] = Slot(m.blocks[q], p)
    <3>1. q = r
      BY <1>2, <1>6, <2>2
    <3>2. p - start + 1 \in 1..count /\ start + (p - start + 1) - 1 = p
      BY <1>2, <1>6, <2>2, <3>1
    <3> QED
      BY <3>1, <3>2
  <2>3. DOMAIN slots = 1..count
    OBVIOUS
  <2> HIDE DEF slots, toks
  <2> QED
    BY <2>1, <2>2, <2>3 DEF Fills
<1>8. \A q \in Hosted(e) : /\ length[q] \in Nat /\ length'[q] \in Nat /\ length[q] <= length'[q]
                           /\ Covers(m, q, length'[q])
  <2>1. \A q \in Hosted(e) : Covers(m, q, length[q])
    BY <1>5 DEF Sound
  <2> QED
    BY <1>2, <1>5, <1>6, <2>1
<1>9. /\ b.free = m.free /\ b.blocks = m.blocks /\ b.kv = store
  BY <1>5 DEF Sound, Shaped
<1> HIDE DEF slots, toks
<1>10. Sound(e, b, length')
  BY <1>5, <1>7, <1>8, FillSound
<1> HIDE DEF store, b
<1>11. read = Text(r, start + count)
  <2>1. Keyed(b, r, start + count)
    BY <1>6, <1>10 DEF Sound
  <2>2. start + count \in Nat
    BY <1>2
  <2> QED
    <3> DEFINE n == start + count
    <3>1. n \in Nat /\ n <= n /\ Keyed(b, r, n)
      BY <2>1, <2>2
    <3> HIDE DEF n
    <3>2. [p \in 1..n |-> b.kv[Slot(b.blocks[r], p - 1)]] = Text(r, n)
      BY ONLY <3>1, ReadsOwn
    <3> QED
      BY <1>9, <3>2 DEF n
<1> HIDE DEF read
<1>12. astray' = {}
  <2>1. ASSUME NEW i \in 1..count
        PROVE  SubSeq(read, 1, Visible(count, start + count, i)) = Text(r, start + i - 1 + 1)
    <3>1. start + i \in 0..(start + count) /\ start + count \in Nat /\ start + i - 1 + 1 = start + i
      BY <1>2
    <3>2. Visible(count, start + count, i) = start + i
      BY <1>2, VisibleIs
    <3> HIDE DEF start
    <3> QED
      BY <1>11, <3>1, <3>2, TextCut
  <2>2. \A row \in rows : row.reads = Text(row.request, row.rope + 1)
    <3> SUFFICES ASSUME NEW i \in 1..count
                 PROVE  LET row == Row(r, start + i - 1, SubSeq(read, 1, Visible(count, start + count, i)))
                        IN  row.reads = Text(row.request, row.rope + 1)
      OBVIOUS
    <3> QED
      BY <2>1 DEF Row
  <2> HIDE DEF rows
  <2> QED
    BY <1>1, <2>2, JudgedWell
<1>13. plan[e] # NoPlan => Planned(e, b, length', plan[e])
  BY <1>1, <1>3, <1>4, <1>9, ReadyPlan
<1>14. /\ free' = [free EXCEPT ![e] = b.free] /\ kv' = [kv EXCEPT ![e] = b.kv] /\ blocks' = b.blocks
       /\ plan' = plan
  BY <1>1 DEF Keep
<1>15. \A q \in AllRequests \ Hosted(e) : b.blocks[q] = blocks[q] /\ length'[q] = length[q]
  BY <1>5, <1>6, <1>9
<1> QED
  BY <1>10, <1>12, <1>13, <1>14, <1>15, EngineStores

-----------------------------------------------------------------------------
(* Where packed lists start *)

LEMMA StartsIs ==
  ASSUME NEW n \in Nat, NEW lengths, DOMAIN lengths = 1..n, Len(lengths) = n,
         \A i \in 1..n : lengths[i] \in Nat
  PROVE  /\ Ascends(Starts(lengths), n)
         /\ \A i \in 1..n : Starts(lengths)[i + 1] = Starts(lengths)[i] + lengths[i]
<1> DEFINE at == Starts(lengths)
           S(i) == 1..(i - 1)
<1>1. at = [i \in 1..(n + 1) |-> SumOver(lengths, S(i))]
  BY DEF Starts, SumOver
<1> HIDE DEF at
<1>2. ASSUME NEW i \in 1..(n + 1) PROVE SumOver(lengths, S(i)) \in Nat
  <2>1. S(i) \in SUBSET (1..n) /\ \A j \in 1..n : lengths[j] \in Nat
    OBVIOUS
  <2>2. IsFiniteSet(1..n)
    BY FS_Interval
  <2> HIDE DEF S
  <2> QED
    BY <2>1, <2>2, SumIsNat
<1>3. SumOver(lengths, S(1)) = 0
  <2>1. S(1) = {}
    OBVIOUS
  <2> QED
    BY <2>1, SumEmpty
<1>4. ASSUME NEW i \in 1..n
      PROVE  /\ i \in 1..(n + 1) /\ i + 1 \in 1..(n + 1) /\ lengths[i] \in Nat
             /\ SumOver(lengths, S(i + 1)) = SumOver(lengths, S(i)) + lengths[i]
  <2> DEFINE T == S(i + 1)
  <2>1. i \in T /\ T \ {i} = S(i) /\ IsFiniteSet(T) /\ (\A j \in T : j \in 1..n)
    <3>1. T = 1..i /\ i \in Nat
      OBVIOUS
    <3>2. IsFiniteSet(1..i)
      BY FS_Interval
    <3> QED
      BY <3>1, <3>2
  <2>2. i \in 1..(n + 1) /\ i + 1 \in 1..(n + 1) /\ lengths[i] \in Nat
    OBVIOUS
  <2> HIDE DEF T, S
  <2>3. \A j \in T : lengths[j] \in Nat
    BY <2>1
  <2>4. SumOver(lengths, T) = lengths[i] + SumOver(lengths, T \ {i})
    BY <2>1, <2>3, SumSplits
  <2>5. SumOver(lengths, S(i)) \in Nat
    BY <1>2, <2>2
  <2> DEFINE x == SumOver(lengths, S(i))
             y == SumOver(lengths, T)
             l == lengths[i]
  <2>6. y = l + x /\ l \in Nat /\ x \in Nat
    BY <2>1, <2>2, <2>4, <2>5
  <2> HIDE DEF x, y, l
  <2>7. y = x + l
    BY <2>6
  <2> QED
    BY <2>2, <2>7 DEF T, x, y, l
<1> HIDE DEF S
<1>5. at[1] = 0 /\ at \in [1..(n + 1) -> Nat]
  <2>1. 1 \in 1..(n + 1)
    OBVIOUS
  <2> QED
    BY <1>1, <1>2, <1>3, <2>1
<1>6. \A i \in 1..n : at[i + 1] = at[i] + lengths[i] /\ at[i] \in Nat /\ lengths[i] \in Nat
  BY <1>1, <1>4, <1>5
<1>7. \A i \in 1..n : at[i] <= at[i + 1]
  BY <1>6
<1> QED
  BY <1>5, <1>6, <1>7 DEF Ascends, at

-----------------------------------------------------------------------------
(* One token for each request of a batch *)

LEMMA DecodeManyStores ==
  ASSUME Pinned, Stored, NEW e \in Engines, NEW batch \in Seq(AllRequests), IsInjective(batch),
         \A r \in Range(batch) : r \in Hosted(e), DecodeMany(e, batch)
  PROVE  Stored'
<1> DEFINE m     == PrepareAll(ReserveAll(Memory(e), batch, Each(batch, 1)), batch)
           slots == [n \in DOMAIN batch |-> Slot(m.blocks[batch[n]], length[batch[n]])]
           toks  == [n \in DOMAIN batch |-> Token(batch[n], length[batch[n]])]
           store == Written(m.kv, slots, toks)
           b     == [m EXCEPT !.kv = store]
           reads(r) == [p \in 1..(length[r] + 1) |-> store[Slot(m.blocks[r], p - 1)]]
           rows  == {Row(r, length[r], reads(r)) : r \in Range(batch)}
<1>1. /\ HasRoom(e, batch, 1) /\ Keep(e, b) /\ Grown(batch, 1) /\ Judge(rows) /\ plan' = plan
      /\ plan[e] = NoPlan
  BY DEF DecodeMany, ReadFrom
<1>2. length \in [AllRequests -> Nat] /\ Sound(e, Memory(e), length) /\ \A q \in Hosted(e) : q \in AllRequests
  BY DEF Pinned, Hosted, Stored
<1>3. Ready(e, Memory(e), batch, 1, m)
  <2>1. 1 \in Nat \ {0}
    OBVIOUS
  <2> HIDE DEF m
  <2> QED
    BY <1>1, <1>2, <2>1, PassReady DEF m
<1> HIDE DEF m
<1>4. /\ Sound(e, m, length) /\ \A q \in AllRequests \ Range(batch) : m.blocks[q] = blocks[q]
      /\ \A r \in Range(batch) : /\ Covers(m, r, length[r] + 1)
                                 /\ \A p \in Nat : length[r] <= p /\ Index(p) \in DOMAIN m.blocks[r] => Alone(e, m, r, Index(p))
  BY <1>3 DEF Ready, Memory
<1>5. /\ \A r \in Range(batch) : length'[r] = length[r] + 1
      /\ \A q \in AllRequests \ Range(batch) : length'[q] = length[q]
      /\ \A q \in AllRequests : length'[q] \in Nat /\ length[q] \in Nat /\ length[q] <= length'[q]
  BY <1>1, <1>2 DEF Grown
<1>6. \A n \in DOMAIN batch : batch[n] \in Range(batch)
  BY DEF Range
<1>7. Fills(e, m, length, length', slots, toks)
  <2>1. ASSUME NEW n \in DOMAIN batch
        PROVE  \E q \in Hosted(e) : \E p \in Nat :
                 /\ length[q] <= p /\ p < length'[q] /\ Alone(e, m, q, Index(p))
                 /\ slots[n] = Slot(m.blocks[q], p) /\ toks[n] = Token(q, p)
    <3>1. PICK r \in Range(batch) : r = batch[n]
      BY <1>6
    <3>2. r \in Hosted(e) /\ r \in AllRequests /\ length[r] \in Nat
      BY <1>2
    <3>3. slots[n] = Slot(m.blocks[r], length[r]) /\ toks[n] = Token(r, length[r])
      BY <3>1
    <3> HIDE DEF slots, toks
    <3>4. length[r] <= length[r] /\ length[r] < length'[r] /\ length[r] \in 0..(length[r] + 1 - 1)
      BY <1>5, <3>2
    <3>5. Index(length[r]) \in DOMAIN m.blocks[r]
      BY <1>4, <3>2, <3>4, CoversAt
    <3>6. Alone(e, m, r, Index(length[r]))
      BY <1>4, <3>2, <3>4, <3>5
    <3> QED
      BY <3>2, <3>3, <3>4, <3>6
  <2>2. ASSUME NEW q \in Hosted(e), NEW p \in Nat, length[q] <= p, p < length'[q]
        PROVE  \E n \in DOMAIN slots : slots[n] = Slot(m.blocks[q], p)
    <3>1. q \in AllRequests
      BY <1>2
    <3>2. q \in Range(batch)
      BY <1>5, <2>2, <3>1
    <3>3. p = length[q]
      BY <1>5, <2>2, <3>1, <3>2
    <3>4. PICK n \in DOMAIN batch : batch[n] = q
      BY <3>2 DEF Range
    <3> QED
      BY <3>3, <3>4
  <2>3. DOMAIN slots = DOMAIN batch
    OBVIOUS
  <2> HIDE DEF slots, toks
  <2> QED
    BY <2>1, <2>2, <2>3 DEF Fills
<1>8. \A q \in Hosted(e) : /\ length[q] \in Nat /\ length'[q] \in Nat /\ length[q] <= length'[q]
                           /\ Covers(m, q, length'[q])
  <2>1. \A q \in Hosted(e) : Covers(m, q, length[q])
    BY <1>4 DEF Sound
  <2> QED
    BY <1>2, <1>4, <1>5, <2>1
<1>9. b.free = m.free /\ b.blocks = m.blocks /\ b.kv = store
  BY <1>4 DEF Sound, Shaped
<1> HIDE DEF slots, toks
<1>10. Sound(e, b, length')
  BY <1>4, <1>7, <1>8, FillSound
<1> HIDE DEF store, b
<1>11. ASSUME NEW r \in Range(batch) PROVE reads(r) = Text(r, length[r] + 1)
  <2> DEFINE n == length[r] + 1
  <2>1. r \in Hosted(e) /\ r \in AllRequests /\ length[r] \in Nat
    BY <1>2
  <2>2. n \in Nat /\ n <= n /\ Keyed(b, r, n)
    BY <1>5, <1>10, <2>1 DEF Sound
  <2> HIDE DEF n
  <2>3. [p \in 1..n |-> b.kv[Slot(b.blocks[r], p - 1)]] = Text(r, n)
    BY ONLY <2>2, ReadsOwn
  <2> QED
    BY <1>9, <2>3 DEF n
<1>12. astray' = {}
  <2> HIDE DEF reads
  <2>1. \A row \in rows : row.reads = Text(row.request, row.rope + 1)
    <3> SUFFICES ASSUME NEW r \in Range(batch)
                 PROVE  LET row == Row(r, length[r], reads(r))
                        IN  row.reads = Text(row.request, row.rope + 1)
      OBVIOUS
    <3> QED
      BY <1>11 DEF Row
  <2> HIDE DEF rows
  <2> QED
    BY <1>1, <2>1, JudgedWell
<1>13. /\ free' = [free EXCEPT ![e] = b.free] /\ kv' = [kv EXCEPT ![e] = b.kv] /\ blocks' = b.blocks
       /\ plan' = plan
  BY <1>1 DEF Keep
<1>14. \A q \in AllRequests \ Hosted(e) : b.blocks[q] = blocks[q] /\ length'[q] = length[q]
  BY <1>4, <1>5, <1>9
<1> QED
  BY <1>1, <1>10, <1>12, <1>13, <1>14, EngineStores

-----------------------------------------------------------------------------
(* Packed prompts *)

LEMMA PrefillManyStores ==
  ASSUME Pinned, Stored, NEW e \in Engines, NEW batch \in Seq(AllRequests), IsInjective(batch),
         \A r \in Range(batch) : r \in Hosted(e), PrefillMany(e, batch)
  PROVE  Stored'
<1> DEFINE m0      == Memory(e)
           m       == ReserveAll(m0, batch, Prompt)
           N       == Len(batch)
           prompts == [n \in DOMAIN batch |-> Prompt[batch[n]]]
           offset  == Starts(prompts)
           RowOf(k) == CHOOSE n \in DOMAIN batch : offset[n] < k /\ k <= offset[n + 1]
           Pos(k)  == k - offset[RowOf(k)] - 1
           packed  == [k \in 1..offset[N + 1] |-> Token(batch[RowOf(k)], Pos(k))]
           slots   == [k \in DOMAIN packed |-> Slot(m.blocks[batch[RowOf(k)]], Pos(k))]
           room    == [r \in Range(batch) |-> BlocksFor(Prompt[r])]
           none    == [r \in Range(batch) |-> 0]
           store   == Written(m.kv, slots, packed)
           b       == [m EXCEPT !.kv = store]
           rows    == {Row(batch[RowOf(k)], Pos(k), Segment(packed, offset, RowOf(k), Pos(k) + 1)) :
                         k \in DOMAIN packed}
<1>1. /\ \A n \in DOMAIN batch : length[batch[n]] = 0
      /\ SumOver(room, Range(batch)) <= Len(free[e])
      /\ Keep(e, b) /\ Judge(rows) /\ plan' = plan
      /\ length' = [r \in AllRequests |-> IF r \in Range(batch) THEN Prompt[r] ELSE length[r]]
  BY DEF PrefillMany, SumOver
<1>2. length \in [AllRequests -> Nat] /\ Sound(e, m0, length) /\ \A q \in Hosted(e) : q \in AllRequests
  BY DEF Pinned, Hosted, Stored
<1>3. \A r \in Range(batch) : /\ r \in Hosted(e) /\ r \in AllRequests /\ Prompt[r] \in Nat \ {0} /\ length[r] = 0
  <2>1. \A r \in AllRequests : Prompt[r] \in Nat \ {0}
    BY ForwardAssumption DEF AllRequests
  <2> QED
    BY <1>1, <1>2, <2>1 DEF Range
<1>4. Allotted(e, m0, batch, Prompt, none, m)
  <2>1. m0.blocks = blocks /\ m0.free = free[e]
    BY DEF Memory
  <2>2. ASSUME NEW r \in Range(batch)
        PROVE  /\ r \in Hosted(e) /\ Prompt[r] \in Nat /\ room[r] \in Nat /\ none[r] \in Nat
               /\ Missing(m0, r, Prompt[r]) + none[r] <= room[r]
    <3>1. m0.blocks[r] \in Seq(Pool) /\ length[r] \in Nat /\ Prompt[r] \in Nat
      BY <1>2, <1>3 DEF Sound, Shaped
    <3>2. Missing(m0, r, Prompt[r]) \in Nat /\ Missing(m0, r, Prompt[r]) <= BlocksFor(length[r] + Prompt[r])
      BY <3>1, MissingIs
    <3>3. length[r] + Prompt[r] = Prompt[r] /\ BlocksFor(Prompt[r]) \in Nat
      BY <1>3, <3>1, BlocksForIs, SMTT(20)
    <3>4. room[r] = BlocksFor(Prompt[r]) /\ none[r] = 0
      OBVIOUS
    <3> HIDE DEF room, none, m0
    <3> DEFINE x == Missing(m0, r, Prompt[r])
               y == BlocksFor(Prompt[r])
    <3>5. x \in Nat /\ y \in Nat /\ x <= y
      BY <3>2, <3>3
    <3> HIDE DEF x, y
    <3>6. x + 0 <= y
      BY <3>5
    <3> QED
      BY <1>3, <3>1, <3>3, <3>4, <3>6 DEF x, y
  <2> HIDE DEF room, none, m0
  <2>3. SumOver(room, Range(batch)) <= Len(m0.free)
    BY <1>1, <2>1
  <2> QED
    BY <1>2, <2>2, <2>3, ReserveAllSound
<1> HIDE DEF m0, m, none
<1>5. /\ Sound(e, m, length) /\ Lengthened(e, m0, m)
      /\ \A q \in AllRequests \ Range(batch) : m.blocks[q] = m0.blocks[q]
      /\ \A r \in Range(batch) : Covers(m, r, Prompt[r])
  <2>1. \A r \in Range(batch) : length[r] + Prompt[r] = Prompt[r]
    BY <1>3
  <2> QED
    BY <1>4, <2>1 DEF Allotted
<1>6. /\ \A r \in Range(batch) : length'[r] = Prompt[r]
      /\ \A q \in AllRequests \ Range(batch) : length'[q] = length[q]
      /\ \A q \in AllRequests : length'[q] \in Nat /\ length[q] \in Nat /\ length[q] <= length'[q]
  <2>1. ASSUME NEW q \in AllRequests
        PROVE  /\ length'[q] = IF q \in Range(batch) THEN Prompt[q] ELSE length[q]
               /\ length[q] \in Nat
    BY <1>1, <1>2
  <2>2. ASSUME NEW q \in Range(batch) PROVE Prompt[q] \in Nat /\ length[q] <= Prompt[q]
    <3>1. Prompt[q] \in Nat \ {0} /\ length[q] = 0
      BY <1>3
    <3> QED
      BY <3>1
  <2>3. \A q \in Range(batch) : q \in AllRequests
    BY <1>3
  <2>4. ASSUME NEW q \in AllRequests
        PROVE  length'[q] \in Nat /\ length[q] \in Nat /\ length[q] <= length'[q]
    <3>1. CASE q \in Range(batch)
      BY <2>1, <2>2, <3>1
    <3>2. CASE q \notin Range(batch)
      BY <2>1, <3>2
    <3> QED
      BY <3>1, <3>2
  <2> QED
    BY <2>1, <2>3, <2>4
<1>7. N \in Nat /\ DOMAIN batch = 1..N /\ \A n \in 1..N : batch[n] \in Range(batch)
  <2>1. N \in Nat /\ DOMAIN batch = 1..N
    BY LenProperties
  <2> QED
    BY <2>1 DEF Range
<1>8. /\ \A n \in 1..N : prompts[n] = Prompt[batch[n]] /\ prompts[n] \in Nat
      /\ Ascends(offset, N) /\ \A n \in 1..N : offset[n + 1] = offset[n] + prompts[n]
  <2>1. prompts \in Seq(Nat) /\ Len(prompts) = N /\ DOMAIN prompts = 1..N /\ \A n \in 1..N : prompts[n] = Prompt[batch[n]] /\ prompts[n] \in Nat
    BY <1>3, <1>7
  <2> HIDE DEF prompts, N
  <2>2. Ascends(Starts(prompts), N) /\ \A n \in 1..N : Starts(prompts)[n + 1] = Starts(prompts)[n] + prompts[n]
    BY <1>7, <2>1, StartsIs, ZenonT(40)
  <2> QED
    BY <2>1, <2>2
<1> HIDE DEF N, prompts, offset
<1>9. offset \in [1..(N + 1) -> Nat] /\ offset[N + 1] \in Nat
  <2>1. offset \in [1..(N + 1) -> Nat] /\ N + 1 \in 1..(N + 1)
    BY <1>7, <1>8 DEF Ascends
  <2> QED
    BY <2>1
<1>a. Packs(prompts, offset, N)
  BY <1>7, <1>8 DEF Packs
<1>10. ASSUME NEW n \in 1..N, NEW x \in 1..prompts[n]
       PROVE  /\ offset[n] + x \in 1..offset[N + 1] /\ offset[n] \in Nat
              /\ RowOf(offset[n] + x) = n /\ Pos(offset[n] + x) = x - 1
  <2>1. /\ offset[n] + x \in 1..offset[N + 1] /\ offset[n] \in Nat
        /\ (CHOOSE j \in 1..N : offset[j] < offset[n] + x /\ offset[n] + x <= offset[j + 1]) = n
    BY <1>a, PackedRow
  <2>2. RowOf(offset[n] + x) = n
    BY <1>7, <2>1
  <2> HIDE DEF RowOf
  <2>3. (offset[n] + x) - offset[n] - 1 = x - 1
    BY <2>1
  <2> QED
    BY <2>1, <2>2, <2>3
<1>11. \A k \in 1..offset[N + 1] : \E n \in 1..N : \E x \in 1..prompts[n] : k = offset[n] + x
  BY <1>a, PackedPlace
<1>12. DOMAIN packed = 1..offset[N + 1] /\ DOMAIN slots = 1..offset[N + 1]
       /\ \A k \in 1..offset[N + 1] : /\ packed[k] = Token(batch[RowOf(k)], Pos(k))
                                       /\ slots[k] = Slot(m.blocks[batch[RowOf(k)]], Pos(k))
  OBVIOUS
<1> HIDE DEF RowOf, Pos
<1>13. \A n \in 1..N : \A x \in 1..prompts[n] :
         /\ packed[offset[n] + x] = Token(batch[n], x - 1)
         /\ slots[offset[n] + x] = Slot(m.blocks[batch[n]], x - 1)
  BY <1>10, <1>12
<1> HIDE DEF packed, slots
<1>14. Fills(e, m, length, length', slots, packed)
  <2>1. ASSUME NEW k \in 1..offset[N + 1]
        PROVE  \E q \in Hosted(e) : \E p \in Nat :
                 /\ length[q] <= p /\ p < length'[q] /\ Alone(e, m, q, Index(p))
                 /\ slots[k] = Slot(m.blocks[q], p) /\ packed[k] = Token(q, p)
    <3>0. PICK n \in 1..N : \E x \in 1..prompts[n] : k = offset[n] + x
      BY <1>11
    <3>1. PICK x \in 1..prompts[n] : k = offset[n] + x
      BY <3>0
    <3>2. PICK r \in Range(batch) : r = batch[n]
      BY <1>7
    <3>3. PICK p \in Nat : p = x - 1
      OBVIOUS
    <3>4. r \in Hosted(e) /\ length[r] = 0 /\ length'[r] = Prompt[r] /\ Prompt[r] \in Nat /\ prompts[n] = Prompt[r]
      BY <1>3, <1>6, <1>8, <3>2
    <3>5. length[r] <= p /\ p < length'[r] /\ p \in 0..(Prompt[r] - 1)
      BY <3>3, <3>4
    <3>6. slots[k] = Slot(m.blocks[r], p) /\ packed[k] = Token(r, p)
      BY <1>13, <3>1, <3>2, <3>3
    <3>7. Index(p) \in DOMAIN m.blocks[r]
      BY <1>5, <3>4, <3>5, CoversAt
    <3>8. Alone(e, m, r, Index(p))
      <4>1. Alone(e, m, r, Index(p)) \/ Begun(0, Index(p))
        BY <1>5, <3>4, <3>7 DEF Sound
      <4> QED
        BY <4>1 DEF Begun
    <3> QED
      BY <3>4, <3>5, <3>6, <3>8
  <2>2. ASSUME NEW q \in Hosted(e), NEW p \in Nat, length[q] <= p, p < length'[q]
        PROVE  \E k \in DOMAIN slots : slots[k] = Slot(m.blocks[q], p)
    <3>1. q \in AllRequests
      BY <1>2
    <3>2. q \in Range(batch)
      BY <1>6, <2>2, <3>1
    <3>3. PICK n \in 1..N : batch[n] = q
      BY <1>7, <3>2 DEF Range
    <3>4. PICK x \in 1..prompts[n] : p = x - 1
      <4>1. p + 1 \in 1..prompts[n] /\ p = (p + 1) - 1
        BY <1>6, <1>8, <2>2, <3>2, <3>3
      <4> QED
        BY <4>1
    <3>5. offset[n] + x \in DOMAIN slots /\ slots[offset[n] + x] = Slot(m.blocks[q], p)
      BY <1>10, <1>12, <1>13, <3>3, <3>4
    <3> QED
      BY <3>5
  <2> QED
    BY <1>12, <2>1, <2>2 DEF Fills
<1>15. \A q \in Hosted(e) : /\ length[q] \in Nat /\ length'[q] \in Nat /\ length[q] <= length'[q]
                            /\ Covers(m, q, length'[q])
  <2>1. \A q \in Hosted(e) : Covers(m, q, length[q])
    BY <1>5 DEF Sound
  <2> QED
    BY <1>2, <1>5, <1>6, <2>1
<1>16. b.free = m.free /\ b.blocks = m.blocks /\ b.kv = store
  BY <1>5 DEF Sound, Shaped
<1>17. Sound(e, b, length')
  BY <1>5, <1>14, <1>15, FillSound
<1> HIDE DEF store, b
<1>18. PICK S : packed \in Seq(S) /\ Len(packed) = offset[N + 1]
  <2> DEFINE t(k) == Token(batch[RowOf(k)], Pos(k))
             T == {t(k) : k \in 1..offset[N + 1]}
  <2>1. packed = [k \in 1..offset[N + 1] |-> t(k)]
    BY DEF packed
  <2>2. \A k \in 1..offset[N + 1] : t(k) \in T
    OBVIOUS
  <2> HIDE DEF t, T
  <2>0. PICK l \in Nat : l = offset[N + 1]
    BY <1>9
  <2>4. [k \in 1..l |-> t(k)] \in Seq(T) /\ Len([k \in 1..l |-> t(k)]) = l
    BY <2>0, <2>2
  <2>3. packed \in Seq(T) /\ Len(packed) = offset[N + 1]
    BY <2>0, <2>1, <2>4
  <2> QED
    BY <2>3
<1>19. ASSUME NEW n \in 1..N, NEW x \in 1..prompts[n]
       PROVE  Segment(packed, offset, n, x) = Text(batch[n], x)
  <2>1. x \in Nat /\ offset[n] + x \in 1..offset[N + 1] /\ offset[n] \in Nat /\ prompts[n] \in Nat
    BY <1>8, <1>10
  <2>2. SubSeq(packed, offset[n] + 1, offset[n] + x) = [y \in 1..x |-> packed[offset[n] + y]]
    <3>1. offset[n] + x <= Len(packed)
      BY <1>18, <2>1
    <3> QED
      <4>1. packed \in Seq(S) /\ x \in Nat /\ offset[n] \in Nat
        BY <1>18, <2>1
      <4> QED
        <5>1. Slice(packed, offset[n], x)
          BY <3>1, <4>1, SliceIs
        <5> QED
          BY <5>1 DEF Slice
  <2>3. \A y \in 1..x : y \in 1..prompts[n]
    BY <2>1
  <2> QED
    BY <1>13, <2>2, <2>3 DEF Segment, Text
<1>20. astray' = {}
  <2>1. ASSUME NEW k \in DOMAIN packed
        PROVE  Segment(packed, offset, RowOf(k), Pos(k) + 1) = Text(batch[RowOf(k)], Pos(k) + 1)
    <3>0. PICK n \in 1..N : \E x \in 1..prompts[n] : k = offset[n] + x
      BY <1>11, <1>12
    <3>1. PICK x \in 1..prompts[n] : k = offset[n] + x
      BY <3>0
    <3>2. RowOf(k) = n /\ Pos(k) + 1 = x
      BY <1>10, <3>1
    <3> QED
      BY <1>19, <3>2
  <2>2. \A row \in rows : row.reads = Text(row.request, row.rope + 1)
    <3> SUFFICES ASSUME NEW k \in DOMAIN packed
                 PROVE  LET row == Row(batch[RowOf(k)], Pos(k), Segment(packed, offset, RowOf(k), Pos(k) + 1))
                        IN  row.reads = Text(row.request, row.rope + 1)
      OBVIOUS
    <3> QED
      BY <2>1 DEF Row
  <2> HIDE DEF rows
  <2> QED
    BY <1>1, <2>2, JudgedWell
<1>21. /\ free' = [free EXCEPT ![e] = b.free] /\ kv' = [kv EXCEPT ![e] = b.kv] /\ blocks' = b.blocks
       /\ plan' = plan
  BY <1>1 DEF Keep
<1>22. \A q \in AllRequests \ Hosted(e) : b.blocks[q] = blocks[q] /\ length'[q] = length[q]
  <2>1. m0.blocks = blocks
    BY DEF Memory, m0
  <2> QED
    BY <1>3, <1>5, <1>6, <1>16, <2>1
<1>23. ASSUME plan[e] # NoPlan PROVE Planned(e, b, length', plan[e])
  <2> DEFINE p == plan[e]
  <2>1. Planned(e, m0, length, p)
    BY <1>23 DEF Stored, m0
  <2> HIDE DEF p
  <2>2. ASSUME NEW n \in DOMAIN p.batch
        PROVE  LET r == p.batch[n] IN
               /\ b.blocks[r] = m0.blocks[r] /\ length'[r] = length[r]
               /\ \A i \in DOMAIN m0.blocks[r] : Alone(e, m0, r, i) => Alone(e, b, r, i)
    <3>1. PICK r : r = p.batch[n]
      OBVIOUS
    <3>2. r \in Hosted(e) /\ length[r] >= Prompt[r] /\ r \in AllRequests
      BY <1>2, <2>1, <2>2, <3>1 DEF Planned, RowPlanned
    <3>3. r \notin Range(batch)
      BY <1>3, <3>2
    <3>4. \A i \in DOMAIN m0.blocks[r] : Alone(e, m0, r, i) => Alone(e, m, r, i)
      BY <1>5, <3>2 DEF Lengthened
    <3> QED
      BY <1>5, <1>6, <1>16, <3>1, <3>2, <3>3, <3>4 DEF Alone
  <2>3. Planned(e, b, length', p)
    BY <2>1, <2>2, PlannedStays
  <2> QED
    BY <2>3 DEF p
<1> QED
  BY <1>17, <1>20, <1>21, <1>22, <1>23, EngineStores

-----------------------------------------------------------------------------
(* Siblings and releases *)

LEMMA LeaderIs ==
  ASSUME NEW r \in AllRequests
  PROVE  /\ Leader[r] \in AllRequests /\ Leader[Leader[r]] = Leader[r]
         /\ EngineOf[r] \in Engines /\ EngineOf[Leader[r]] = EngineOf[r]
         /\ Prompt[Leader[r]] = Prompt[r] /\ Prompt[r] \in Nat \ {0}
  BY ForwardAssumption DEF AllRequests

LEMMA ForkStores ==
  ASSUME Pinned, Stored, NEW r \in AllRequests, Fork(r)
  PROVE  Stored'
<1> DEFINE l == Leader[r]
           e == EngineOf[r]
           m == Memory(e)
           b == [m EXCEPT !.blocks = [blocks EXCEPT ![r] = blocks[l]]]
<1>1. /\ r # l /\ length[r] = 0 /\ length[l] = Prompt[l] /\ plan[e] = NoPlan
      /\ Len(blocks[l]) = BlocksFor(Prompt[l])
      /\ blocks' = [blocks EXCEPT ![r] = blocks[l]] /\ length' = [length EXCEPT ![r] = length[l]]
      /\ UNCHANGED <<free, kv, plan, astray>>
  BY DEF Fork
<1>2. /\ l \in AllRequests /\ Leader[l] = l /\ e \in Engines /\ EngineOf[l] = e
      /\ Prompt[l] = Prompt[r] /\ Prompt[r] \in Nat \ {0}
  BY LeaderIs
<1>3. r \in Hosted(e) /\ l \in Hosted(e) /\ \A q \in Hosted(e) : q \in AllRequests
  BY <1>2 DEF Hosted
<1> HIDE DEF l, e
<1>4. Sound(e, m, length) /\ m.blocks = blocks /\ m.free = free[e] /\ m.kv = kv[e] /\ length \in [AllRequests -> Nat]
      /\ free \in [Engines -> Seq(Pool)] /\ DOMAIN kv = Engines /\ astray = {}
  BY <1>2 DEF Stored, Memory, Pinned
<1> HIDE DEF m
<1>5. /\ DOMAIN m = {"free", "blocks", "kv"} /\ DOMAIN m.kv = Cells /\ blocks \in [AllRequests -> Seq(Pool)]
      /\ m.free \in Seq(Pool)
  BY <1>4 DEF Sound, Shaped
<1>6. b.free = m.free /\ b.kv = m.kv /\ b.blocks = blocks' /\ DOMAIN b = {"free", "blocks", "kv"}
  BY <1>1, <1>5
<1>7. /\ blocks' \in [AllRequests -> Seq(Pool)] /\ blocks'[r] = blocks[l]
      /\ \A q \in AllRequests \ {r} : blocks'[q] = blocks[q]
      /\ length'[r] = Prompt[l] /\ \A q \in AllRequests \ {r} : length'[q] = length[q]
  BY <1>1, <1>2, <1>4, <1>5
<1> HIDE DEF b
<1>8. Shaped(b)
  BY <1>5, <1>6, <1>7 DEF Shaped
<1>9. Apart(e, b)
  BY <1>3, <1>4, <1>6, <1>7 DEF Sound, Apart
<1>10. \A i \in DOMAIN blocks[l] : Begun(Prompt[l], i)
  <2>1. BlocksFor(Prompt[l]) \in Nat /\ Prompt[l] \in Nat /\ DOMAIN blocks[l] = 1..BlocksFor(Prompt[l])
    BY <1>1, <1>2, <1>5, BlocksForIs, LenProperties
  <2>2. \A i \in DOMAIN blocks[l] : i \in Nat \ {0} /\ i <= BlocksFor(Prompt[l])
    BY <2>1
  <2> QED
    BY <2>1, <2>2, BegunIs
<1>11. ASSUME NEW q \in Hosted(e)
       PROVE  /\ Covers(b, q, length'[q]) /\ Keyed(b, q, length'[q])
              /\ \A i \in DOMAIN b.blocks[q] : Alone(e, b, q, i) \/ Begun(length'[q], i)
  <2>1. /\ Covers(m, q, length[q]) /\ Keyed(m, q, length[q])
        /\ \A i \in DOMAIN m.blocks[q] : Alone(e, m, q, i) \/ Begun(length[q], i)
    BY <1>4 DEF Sound
  <2>2. Covers(m, l, Prompt[l]) /\ Keyed(m, l, Prompt[l])
    BY <1>1, <1>3, <1>4 DEF Sound
  <2>3. CASE q = r
    <3>1. b.blocks[q] = m.blocks[l] /\ length'[q] = Prompt[l]
      BY <1>4, <1>6, <1>7, <2>3
    <3>2. \A p \in 0..(Prompt[l] - 1) : Token(q, p) = Token(l, p)
      BY <1>2, <2>3 DEF Token, l
    <3> QED
      BY <1>4, <1>6, <1>10, <2>2, <3>1, <3>2 DEF Covers, Keyed
  <2>4. CASE q # r
    <3>1. q \in AllRequests /\ b.blocks[q] = m.blocks[q] /\ length'[q] = length[q]
      BY <1>3, <1>4, <1>6, <1>7, <2>4
    <3>2. ASSUME NEW i \in DOMAIN b.blocks[q], ~Alone(e, b, q, i) PROVE Begun(length'[q], i)
      <4>1. CASE q = l
        BY <1>1, <1>4, <1>10, <3>1, <3>2, <4>1
      <4>2. CASE q # l
        <5>1. PICK t \in Hosted(e) \ {q} : b.blocks[q][i] \in Range(b.blocks[t])
          BY <3>2 DEF Alone
        <5>2. ~Alone(e, m, q, i)
          <6>1. CASE t = r
            BY <1>3, <1>4, <1>6, <1>7, <3>1, <4>2, <5>1, <6>1 DEF Alone
          <6>2. CASE t # r
            BY <1>3, <1>4, <1>6, <1>7, <3>1, <5>1, <6>2 DEF Alone
          <6> QED
            BY <6>1, <6>2
        <5> QED
          BY <2>1, <3>1, <3>2, <5>2
      <4> QED
        BY <4>1, <4>2
    <3> QED
      BY <1>6, <2>1, <3>1, <3>2 DEF Covers, Keyed
  <2> QED
    BY <2>3, <2>4
<1>12. Sound(e, b, length')
  BY <1>8, <1>9, <1>11 DEF Sound
<1>13. /\ free' = [free EXCEPT ![e] = b.free]
       /\ DOMAIN kv' = Engines /\ kv'[e] = b.kv /\ \A f \in Engines \ {e} : kv'[f] = kv[f]
  BY <1>1, <1>4, <1>6
<1>14. \A q \in AllRequests \ Hosted(e) : b.blocks[q] = blocks[q] /\ length'[q] = length[q]
  BY <1>3, <1>6, <1>7
<1> QED
  BY <1>1, <1>2, <1>4, <1>6, <1>12, <1>13, <1>14, EngineKeeps

LEMMA FreeStores ==
  ASSUME Pinned, Stored, NEW r \in AllRequests, Free(r)
  PROVE  Stored'
<1> DEFINE e == EngineOf[r]
           m == Memory(e)
           T == blocks[r]
           shared == {x \in Range(T) : RefsIn(e, x) > 1}
           back == Without(T, shared)
           store == [s \in DOMAIN kv[e] |-> IF s \div BlockSize \in Range(back) THEN NoKV ELSE kv[e][s]]
           b == [free |-> free[e] \o back, blocks |-> blocks', kv |-> store]
<1>1. /\ plan[e] # NoPlan => r \notin Range(plan[e].batch)
      /\ free' = [free EXCEPT ![e] = free[e] \o back] /\ kv' = [kv EXCEPT ![e] = store]
      /\ blocks' = [blocks EXCEPT ![r] = <<>>] /\ length' = [length EXCEPT ![r] = 0]
      /\ UNCHANGED <<plan, astray>>
  <2>1. free' = [free EXCEPT ![e] = @ \o back]
    BY DEF Free
  <2>2. kv' = [kv EXCEPT ![e] = [s \in DOMAIN @ |-> IF s \div BlockSize \in Range(back) THEN NoKV ELSE @[s]]]
    BY DEF Free
  <2> HIDE DEF back
  <2>3. free' = [free EXCEPT ![e] = free[e] \o back] /\ kv' = [kv EXCEPT ![e] = store]
    BY <2>1, <2>2
  <2> QED
    BY <2>3 DEF Free
<1>2. e \in Engines /\ r \in Hosted(e) /\ \A q \in Hosted(e) : q \in AllRequests
  BY LeaderIs DEF Hosted
<1>3. Sound(e, m, length) /\ m.blocks = blocks /\ m.free = free[e] /\ m.kv = kv[e] /\ length \in [AllRequests -> Nat]
      /\ free \in [Engines -> Seq(Pool)] /\ DOMAIN kv = Engines /\ astray = {}
  BY <1>2 DEF Stored, Memory, Pinned
<1>4. /\ DOMAIN m.kv = Cells /\ blocks \in [AllRequests -> Seq(Pool)]
      /\ m.free \in Seq(Pool) /\ T \in Seq(Pool)
  BY <1>3 DEF Sound, Shaped
<1>5. /\ back \in Seq(Pool)
      /\ \A x : x \in Range(back) <=> x \in Range(T) /\ x \notin shared
      /\ IsInjective(T) => IsInjective(back)
  <2> HIDE DEF T, shared
  <2> QED
    BY <1>4, WithoutExact
<1>6. \A x \in Range(back) : x \in Range(T) /\ \A q \in Hosted(e) \ {r} : x \notin Range(blocks[q])
  <2>1. ASSUME NEW x \in Range(back) PROVE x \in Range(T) /\ \A q \in Hosted(e) \ {r} : x \notin Range(blocks[q])
    <3>1. x \in Range(T) /\ ~(RefsIn(e, x) > 1)
      BY <1>5
    <3>2. PICK i \in DOMAIN blocks[r] : blocks[r][i] = x
      BY <3>1 DEF Range
    <3>3. Alone(e, Memory(e), r, i)
      BY <1>2, <3>1, <3>2, SharedRefs
    <3> QED
      BY <1>3, <3>1, <3>2, <3>3 DEF Alone
  <2> QED
    BY <2>1
<1> HIDE DEF shared, back
<1>7. /\ blocks' \in [AllRequests -> Seq(Pool)] /\ blocks'[r] = <<>>
      /\ \A q \in AllRequests \ {r} : blocks'[q] = blocks[q]
      /\ length'[r] = 0 /\ \A q \in AllRequests \ {r} : length'[q] = length[q]
  BY <1>1, <1>3, <1>4
<1>8. b.free = m.free \o back /\ b.kv = store /\ b.blocks = blocks' /\ DOMAIN b = {"free", "blocks", "kv"}
      /\ DOMAIN store = Cells
  BY <1>3, <1>4
<1>9. \A s \in Cells : s \div BlockSize \notin Range(back) => store[s] = m.kv[s]
  BY <1>3, <1>4
<1>10. Range(<<>>) = {} /\ DOMAIN <<>> = {}
  BY DEF Range
<1> HIDE DEF b, store, m, e
<1>11. Shaped(b)
  <2>1. m.free \o back \in Seq(Pool)
    BY <1>4, <1>5, ConcatProperties
  <2> QED
    BY <1>7, <1>8, <2>1 DEF Shaped
<1>12. Apart(e, b)
  <2>1. IsInjective(m.free) /\ \A q \in Hosted(e) : IsInjective(blocks[q]) /\ Range(m.free) \cap Range(blocks[q]) = {}
    BY <1>3 DEF Sound, Apart
  <2>2. IsInjective(back) /\ Range(m.free) \cap Range(back) = {}
    BY <1>2, <1>5, <1>6, <2>1
  <2>3. Range(m.free \o back) = Range(m.free) \cup Range(back) /\ IsInjective(m.free \o back)
    BY <1>4, <1>5, <2>1, <2>2, JoinApart
  <2>4. ASSUME NEW q \in Hosted(e)
        PROVE  IsInjective(b.blocks[q]) /\ Range(b.free) \cap Range(b.blocks[q]) = {}
    <3>1. CASE q = r
      BY <1>7, <1>8, <1>10, <3>1 DEF IsInjective
    <3>2. CASE q # r
      BY <1>2, <1>6, <1>7, <1>8, <2>1, <2>3, <3>2
    <3> QED
      BY <3>1, <3>2
  <2> QED
    BY <1>8, <2>3, <2>4 DEF Apart
<1>13. ASSUME NEW q \in Hosted(e), NEW i \in DOMAIN blocks[q], Alone(e, m, q, i), q # r PROVE Alone(e, b, q, i)
  BY <1>2, <1>3, <1>7, <1>8, <1>10, <1>13 DEF Alone
<1>14. ASSUME NEW q \in Hosted(e)
       PROVE  /\ Covers(b, q, length'[q]) /\ Keyed(b, q, length'[q])
              /\ \A i \in DOMAIN b.blocks[q] : Alone(e, b, q, i) \/ Begun(length'[q], i)
  <2>1. CASE q = r
    <3>1. 0..(0 - 1) = {}
      OBVIOUS
    <3> QED
      BY <1>7, <1>8, <1>10, <2>1, <3>1 DEF Covers, Keyed
  <2>2. CASE q # r
    <3>1. q \in AllRequests /\ b.blocks[q] = blocks[q] /\ length'[q] = length[q] /\ blocks[q] \in Seq(Pool)
      BY <1>2, <1>4, <1>7, <1>8, <2>2
    <3>2. /\ Covers(m, q, length[q]) /\ Keyed(m, q, length[q])
          /\ \A i \in DOMAIN m.blocks[q] : Alone(e, m, q, i) \/ Begun(length[q], i)
      BY <1>3 DEF Sound
    <3>3. Covers(b, q, length'[q])
      BY <1>3, <3>1, <3>2 DEF Covers
    <3>4. ASSUME NEW p \in 0..(length[q] - 1) PROVE b.kv[Slot(b.blocks[q], p)] = Token(q, p)
      <4>1. p \in Nat /\ Index(p) \in DOMAIN blocks[q]
        BY <1>3, <3>2 DEF Covers
      <4>2. /\ Slot(blocks[q], p) \in Cells
            /\ Slot(blocks[q], p) \div BlockSize = blocks[q][Index(p)]
        BY <3>1, <4>1, SlotIs
      <4>3. blocks[q][Index(p)] \notin Range(back)
        BY <1>6, <2>2, <4>1 DEF Range
      <4>4. m.kv[Slot(blocks[q], p)] = Token(q, p)
        BY <1>3, <3>2 DEF Keyed
      <4> QED
        BY <1>8, <1>9, <3>1, <4>2, <4>3, <4>4
    <3>5. \A i \in DOMAIN b.blocks[q] : Alone(e, b, q, i) \/ Begun(length'[q], i)
      BY <1>3, <1>13, <2>2, <3>1, <3>2
    <3> QED
      BY <3>1, <3>3, <3>4, <3>5 DEF Keyed
  <2> QED
    BY <2>1, <2>2
<1>15. Sound(e, b, length')
  BY <1>11, <1>12, <1>14 DEF Sound
<1>16. free' = [free EXCEPT ![e] = b.free] /\ kv' = [kv EXCEPT ![e] = b.kv] /\ blocks' = b.blocks
  BY <1>1, <1>3, <1>8
<1>17. \A q \in AllRequests \ Hosted(e) : b.blocks[q] = blocks[q] /\ length'[q] = length[q]
  BY <1>2, <1>7, <1>8
<1>18. ASSUME plan[e] # NoPlan PROVE Planned(e, b, length', plan[e])
  <2> DEFINE p == plan[e]
  <2>1. Planned(e, m, length, p)
    BY <1>2, <1>18 DEF Stored, m
  <2>2. \A n \in DOMAIN p.batch : p.batch[n] # r
    BY <1>1, <1>18 DEF Range
  <2> HIDE DEF p
  <2>3. ASSUME NEW n \in DOMAIN p.batch
        PROVE  LET q == p.batch[n] IN
               /\ b.blocks[q] = m.blocks[q] /\ length'[q] = length[q]
               /\ \A i \in DOMAIN m.blocks[q] : Alone(e, m, q, i) => Alone(e, b, q, i)
    <3>1. p.batch[n] \in Hosted(e) /\ p.batch[n] # r
      BY <2>1, <2>2, <2>3 DEF Planned, RowPlanned
    <3> QED
      BY <1>2, <1>3, <1>7, <1>8, <1>13, <3>1
  <2>4. Planned(e, b, length', p)
    BY <2>1, <2>3, PlannedStays
  <2> QED
    BY <2>4 DEF p
<1> QED
  BY <1>1, <1>2, <1>3, <1>15, <1>16, <1>17, <1>18, EngineStores

-----------------------------------------------------------------------------
(* The plan of a window *)

(* The page metadata of a step: row n's pages are the first of its table.  *)
PageIs(page, m, batch, base, s, n) ==
  /\ page.indptr[n] \in Nat /\ page.indptr[n + 1] = page.indptr[n] + BlocksFor(base[n] + s)
  /\ page.last[n] = ((base[n] + s - 1) % BlockSize) + 1
  /\ SubSeq(page.indices, page.indptr[n] + 1, page.indptr[n + 1])
       = SubSeq(m.blocks[batch[n]], 1, BlocksFor(base[n] + s))

LEMMA PagesAre ==
  ASSUME NEW m, m.blocks \in [AllRequests -> Seq(Pool)], NEW batch \in Seq(AllRequests),
         NEW base \in [DOMAIN batch -> Nat], NEW s \in Nat,
         \A n \in DOMAIN batch : BlocksFor(base[n] + s) <= Len(m.blocks[batch[n]]),
         NEW n \in DOMAIN batch
  PROVE  PageIs(PagesOf(m, batch, base, s), m, batch, base, s, n)
<1> DEFINE N    == Len(batch)
           sizes == [k \in DOMAIN batch |-> BlocksFor(base[k] + s)]
           lists == [k \in DOMAIN batch |-> SubSeq(m.blocks[batch[k]], 1, BlocksFor(base[k] + s))]
           page == PagesOf(m, batch, base, s)
<1>1. N \in Nat /\ DOMAIN batch = 1..N
  BY LenProperties
<1>2. page.indptr = Starts(sizes) /\ page.indices = FlattenSeq(lists)
      /\ page.last[n] = ((base[n] + s - 1) % BlockSize) + 1
  BY DEF PagesOf
<1>3. ASSUME NEW k \in 1..N
      PROVE  /\ sizes[k] = BlocksFor(base[k] + s) /\ sizes[k] \in Nat
             /\ lists[k] = SubSeq(m.blocks[batch[k]], 1, BlocksFor(base[k] + s))
             /\ lists[k] \in Seq(Pool) /\ Len(lists[k]) = sizes[k]
  <2>0. k \in DOMAIN batch /\ batch[k] \in AllRequests
    BY <1>1, ElementOfSeq
  <2>1. /\ k \in DOMAIN batch /\ batch[k] \in AllRequests /\ m.blocks[batch[k]] \in Seq(Pool)
        /\ base[k] + s \in Nat
    <3>1. base[k] \in Nat
      BY <2>0
    <3> QED
      BY <2>0, <3>1
  <2>2. PICK w : w = BlocksFor(base[k] + s)
    OBVIOUS
  <2>3. w \in Nat /\ w <= Len(m.blocks[batch[k]])
    BY <2>1, <2>2, BlocksForIs
  <2>4. w \in 0..Len(m.blocks[batch[k]])
    BY <2>1, <2>3, LenProperties
  <2>5. SubSeq(m.blocks[batch[k]], 1, w) \in Seq(Pool) /\ Len(SubSeq(m.blocks[batch[k]], 1, w)) = w
    BY <2>1, <2>4, TwoHalves
  <2>6. sizes[k] = w /\ lists[k] = SubSeq(m.blocks[batch[k]], 1, w)
    BY <2>1, <2>2
  <2> QED
    BY <2>2, <2>3, <2>5, <2>6
<1>4. sizes \in Seq(Nat) /\ Len(sizes) = N /\ DOMAIN sizes = 1..N
  <2>1. sizes = [k \in 1..N |-> sizes[k]]
    BY <1>1
  <2> HIDE DEF sizes, N
  <2> QED
    BY <1>1, <1>3, <2>1, ListIs
<1>5. lists \in Seq(Seq(Pool)) /\ Len(lists) = N
  <2>1. lists = [k \in 1..N |-> lists[k]]
    BY <1>1
  <2> HIDE DEF lists, N
  <2> QED
    BY <1>1, <1>3, <2>1, ListIs
<1> HIDE DEF sizes, lists, page
<1>6. Packs(sizes, Starts(sizes), N)
  BY <1>1, <1>3, <1>4, StartsIs DEF Packs
<1>7. Packs(sizes, Starts(sizes), Len(lists)) /\ \A i \in 1..Len(lists) : sizes[i] = Len(lists[i])
  BY <1>3, <1>5, <1>6
<1>8. n \in 1..N /\ n \in 1..Len(lists)
  BY <1>1, <1>5
<1>9. SubSeq(FlattenSeq(lists), Starts(sizes)[n] + 1, Starts(sizes)[n + 1]) = lists[n]
  BY <1>5, <1>7, <1>8, FlattenSlice
<1>10. Starts(sizes)[n] \in Nat /\ Starts(sizes)[n + 1] = Starts(sizes)[n] + sizes[n]
  <2>1. n \in 1..(N + 1)
    BY <1>1, <1>8
  <2> QED
    BY <1>6, <1>8, <2>1 DEF Packs, Ascends
<1> QED
  BY <1>2, <1>3, <1>8, <1>9, <1>10 DEF page, PageIs

(* What a plan needs of the tables of its batch.                           *)
Plannable(e, m, batch, budget) ==
  \A r \in Range(batch) :
    /\ r \in Hosted(e) /\ Prefilled(r) /\ Covers(m, r, length[r] + budget)
    /\ \A i \in DOMAIN m.blocks[r] : Alone(e, m, r, i)

(* A plan knows where the tables have its rows.                            *)
LEMMA BuiltPlanned ==
  ASSUME length \in [AllRequests -> Nat], NEW e, NEW m, m.blocks \in [AllRequests -> Seq(Pool)],
         NEW batch \in Seq(AllRequests), batch # <<>>, IsInjective(batch), NEW budget \in Nat \ {0},
         Plannable(e, m, batch, budget), NEW id
  PROVE  Planned(e, m, length, BuildPlan(m, batch, budget, id))
<1> DEFINE p == BuildPlan(m, batch, budget, id)
           N == Len(batch)
           base == [n \in DOMAIN batch |-> length[batch[n]]]
           width == Max(Range(base)) + budget
           lens == Plus1(base)
<1>1. /\ p.batch = batch /\ p.budget = budget /\ p.base = base /\ p.positions = base
      /\ p.cu = Starts(lens) /\ p.total = Starts(lens)[N + 1]
      /\ p.writes = [s \in 1..budget |-> [n \in DOMAIN batch |-> Slot(m.blocks[batch[n]], base[n] + s - 1)]]
      /\ p.history = [n \in DOMAIN batch |->
                        [c \in 1..width |-> IF c <= base[n] THEN Slot(m.blocks[batch[n]], c - 1) ELSE 0]]
      /\ p.pages = [s \in 1..budget |-> PagesOf(m, batch, base, s)]
  BY DEF BuildPlan
<1> HIDE DEF p
<1>2. N \in Nat \ {0} /\ DOMAIN batch = 1..N
  BY LenProperties, EmptySeq
<1>3. ASSUME NEW n \in 1..N
      PROVE  /\ n \in DOMAIN batch /\ batch[n] \in AllRequests /\ batch[n] \in Range(batch)
             /\ base[n] = length[batch[n]] /\ base[n] \in Nat
             /\ lens[n] = base[n] + 1 /\ lens[n] \in Nat
  <2>1. n \in DOMAIN batch /\ batch[n] \in AllRequests /\ batch[n] \in Range(batch)
    BY <1>2, ElementOfSeq DEF Range
  <2> QED
    BY <2>1 DEF Plus1
<1>4. DOMAIN base = 1..N /\ DOMAIN lens = 1..N /\ base \in [DOMAIN batch -> Nat]
  BY <1>2, <1>3 DEF Plus1
<1> HIDE DEF base
<1>5. lens \in Seq(Nat) /\ Len(lens) = N
  <2>1. lens = [n \in 1..N |-> lens[n]]
    BY <1>4 DEF Plus1
  <2> HIDE DEF lens, N
  <2> QED
    BY <1>2, <1>3, <2>1, ListIs
<1> HIDE DEF lens, N
<1>6. /\ Ascends(Starts(lens), N)
      /\ \A n \in 1..N : Starts(lens)[n + 1] = Starts(lens)[n] + lens[n]
  <2>1. N \in Nat /\ DOMAIN lens = 1..N /\ Len(lens) = N /\ \A i \in 1..N : lens[i] \in Nat
    BY <1>2, <1>3, <1>4, <1>5
  <2> QED
    BY ONLY <2>1, StartsIs
<1>7. DOMAIN p.cu = 1..(N + 1) /\ p.cu[1] = 0 /\ p.total = p.cu[N + 1]
  BY <1>1, <1>6 DEF Ascends
<1>8. width \in Nat /\ \A n \in 1..N : base[n] + budget <= width
  <2> DEFINE S == Range(base)
  <2>1. S = {base[n] : n \in 1..N} /\ base[1] \in S
    <3>1. 1 \in 1..N
      BY <1>2
    <3> QED
      BY <1>4, <3>1 DEF Range
  <2>2. S \in SUBSET Nat /\ S # {} /\ \A n \in 1..N : base[n] \in S
    BY <1>3, <2>1
  <2>3. IsFiniteSet(S)
    <3> DEFINE f == [n \in 1..N |-> base[n]]
    <3>1. f \in Surjection(1..N, S)
      BY <2>1 DEF Surjection
    <3> HIDE DEF f, S
    <3> QED
      BY <1>2, <3>1, FS_NatSurjection DEF ExistsSurjection
  <2> HIDE DEF S
  <2>4. Max(S) \in Nat /\ \A n \in S : n <= Max(S)
    BY <2>2, <2>3, MaxOfFinite
  <2>5. width = Max(S) + budget
    BY DEF S
  <2> HIDE DEF width
  <2>6. PICK M \in Nat : M = Max(S)
    BY <2>4
  <2>7. \A n \in 1..N : base[n] \in Nat /\ base[n] <= M
    BY <1>3, <2>2, <2>4, <2>6
  <2> QED
    BY ONLY <2>5, <2>6, <2>7, budget \in Nat \ {0}
<1> HIDE DEF width
<1>9. ASSUME NEW n \in 1..N PROVE RowPlanned(e, m, length, p, n)
  <2>1. PICK r \in AllRequests : r = batch[n] /\ r \in Range(batch)
    BY <1>3
  <2>2. /\ r \in Hosted(e) /\ length[r] = base[n] /\ length[r] >= Prompt[r]
        /\ Covers(m, r, base[n] + budget) /\ \A i \in DOMAIN m.blocks[r] : Alone(e, m, r, i)
    BY <1>3, <2>1 DEF Plannable, Prefilled
  <2>3. p.cu[n] \in Nat /\ p.cu[n + 1] = p.cu[n] + p.positions[n] + 1
    <3>1. p.cu[n] \in Nat
      <4>1. n \in 1..(N + 1)
        BY <1>2
      <4> QED
        BY <1>1, <1>6, <4>1 DEF Ascends
    <3>2. p.cu[n + 1] = p.cu[n] + (base[n] + 1) /\ p.positions[n] = base[n] /\ base[n] \in Nat
      BY <1>1, <1>3, <1>6
    <3> QED
      BY ONLY <3>1, <3>2
  <2>4. p.history[n] = [c \in 1..width |-> IF c <= base[n] THEN Slot(m.blocks[r], c - 1) ELSE 0]
    <3>1. n \in DOMAIN batch
      BY <1>3
    <3>2. p.history[n] = [c \in 1..width |-> IF c <= base[n] THEN Slot(m.blocks[batch[n]], c - 1) ELSE 0]
      BY ONLY <1>1, <3>1
    <3> QED
      BY ONLY <2>1, <3>2
  <2>5. \A c \in 1..(base[n] + budget) : c \in DOMAIN p.history[n]
    <3>1. PICK x \in Nat, y \in Nat : x = base[n] + budget /\ y = width /\ x <= y
      BY <1>3, <1>8
    <3>2. \A c \in 1..x : c \in 1..y
      BY ONLY <3>1
    <3> QED
      BY <2>4, <3>1, <3>2
  <2>6. ASSUME NEW c \in 1..base[n] PROVE p.history[n][c] = Slot(m.blocks[r], c - 1)
    <3>1. c \in 1..width /\ c <= base[n]
      <4>1. base[n] \in Nat /\ base[n] + budget <= width /\ width \in Nat
        BY <1>3, <1>8
      <4> QED
        BY ONLY <4>1, budget \in Nat \ {0}, c \in 1..base[n]
    <3> QED
      BY <2>4, <3>1
  <2> QED
    BY <1>1, <2>1, <2>2, <2>3, <2>5, <2>6 DEF RowPlanned
<1>10. ASSUME NEW n \in 1..N, NEW s \in 1..budget PROVE PagePlanned(m, p, s, n)
  <2>1. p.writes[s][n] = Slot(m.blocks[batch[n]], base[n] + s - 1)
    BY <1>1, <1>3
  <2>2. ASSUME NEW k \in DOMAIN batch PROVE BlocksFor(base[k] + s) <= Len(m.blocks[batch[k]])
    <3>1. k \in 1..N
      BY <1>2
    <3>2. PICK r \in AllRequests : r = batch[k] /\ r \in Range(batch)
      BY <1>3, <3>1
    <3>3. Covers(m, r, base[k] + budget) /\ base[k] \in Nat /\ m.blocks[r] \in Seq(Pool)
      BY <1>3, <3>1, <3>2 DEF Plannable
    <3>4. base[k] + s \in Nat /\ \A x \in 0..(base[k] + s - 1) : x \in 0..(base[k] + budget - 1)
      <4>1. PICK x \in Nat : x = base[k]
        BY <3>3
      <4> QED
        BY ONLY <4>1, budget \in Nat \ {0}, s \in 1..budget
    <3>5. Covers(m, r, base[k] + s)
      BY ONLY <3>3, <3>4, SMTT(20) DEF Covers
    <3> QED
      BY <3>2, <3>3, <3>4, <3>5, CoversIs
  <2>3. n \in DOMAIN batch /\ s \in Nat
    BY <1>2
  <2>4. p.pages[s] = PagesOf(m, batch, base, s)
    BY <1>1
  <2>5. base \in [DOMAIN batch -> Nat]
    BY <1>4
  <2>6. PageIs(PagesOf(m, batch, base, s), m, batch, base, s, n)
    BY <2>2, <2>3, <2>5, PagesAre
  <2> QED
    BY <1>1, <2>1, <2>4, <2>6 DEF PagePlanned, PageIs
<1>11. \A s \in 1..budget : DOMAIN p.writes[s] = DOMAIN batch
  BY <1>1
<1> QED
  BY <1>1, <1>2, <1>7, <1>9, <1>10, <1>11 DEF Planned, p, N

(* A window opens on tables that nobody shares, with room for its steps.   *)
LEMMA OpenStores ==
  ASSUME Pinned, Stored, NEW e \in Engines, NEW batch \in Seq(AllRequests), batch # <<>>,
         IsInjective(batch), \A r \in Range(batch) : r \in Hosted(e) /\ Prefilled(r),
         NEW budget \in 1..MaxBudget, Open(e, batch, budget)
  PROVE  Stored'
<1> DEFINE m == ReserveAll(Memory(e), batch, Each(batch, budget))
           p == BuildPlan(m, batch, budget, plans + 1)
<1>1. /\ PlanSafe(e, batch) /\ HasRoom(e, batch, budget) /\ Keep(e, m)
      /\ plan' = [plan EXCEPT ![e] = p] /\ length' = length /\ astray' = astray
  BY DEF Open
<1>2. /\ length \in [AllRequests -> Nat] /\ Sound(e, Memory(e), length) /\ budget \in Nat \ {0}
      /\ DOMAIN plan = Engines /\ Range(batch) \subseteq Hosted(e)
  <2>1. MaxBudget \in Nat
    BY ForwardAssumption
  <2> QED
    BY <2>1 DEF Pinned, Stored
<1>3. Allotted(e, Memory(e), batch, Each(batch, budget), Copies(e, batch), m)
  BY <1>1, <1>2, Roomy
<1> HIDE DEF m
<1>4. /\ Sound(e, m, length) /\ Lengthened(e, Memory(e), m)
      /\ \A q \in AllRequests \ Range(batch) : m.blocks[q] = blocks[q]
      /\ \A r \in Range(batch) : Covers(m, r, length[r] + budget)
  BY <1>3 DEF Allotted, Each, Memory
<1>5. ASSUME NEW r \in Range(batch), NEW i \in DOMAIN m.blocks[r] PROVE Alone(e, m, r, i)
  <2>1. SUFFICES ASSUME i \in DOMAIN blocks[r], ~Alone(e, Memory(e), r, i) PROVE FALSE
    BY <1>2, <1>4 DEF Lengthened, Memory
  <2>2. RefsIn(e, blocks[r][i]) \in Nat /\ RefsIn(e, blocks[r][i]) > 1
    BY <1>2, <2>1, SharedRefs
  <2>3. blocks[r][i] \in Range(blocks[r])
    BY <2>1 DEF Range
  <2>4. RefsIn(e, blocks[r][i]) = 1
    BY <1>1, <2>3 DEF PlanSafe
  <2> QED
    BY ONLY <2>2, <2>4
<1>6. Planned(e, m, length, p)
  <2>1. Plannable(e, m, batch, budget)
    BY <1>4, <1>5 DEF Plannable
  <2>2. m.blocks \in [AllRequests -> Seq(Pool)]
    BY <1>4 DEF Sound, Shaped
  <2> QED
    BY <1>2, <2>1, <2>2, BuiltPlanned
<1> HIDE DEF p
<1>7. plan'[e] = p /\ \A f \in Engines \ {e} : plan'[f] = plan[f]
  BY <1>1, <1>2
<1>8. Planned(e, m, length', plan'[e]) /\ Sound(e, m, length')
  BY <1>1, <1>4, <1>6, <1>7
<1>9. \A q \in AllRequests \ Hosted(e) : m.blocks[q] = blocks[q] /\ length'[q] = length[q]
  BY <1>1, <1>2, <1>4
<1> QED
  BY <1>1, <1>7, <1>8, <1>9, EngineStores DEF Keep, Stored

(* A window that closes leaves the tables as they are. *)
LEMMA CloseStores ==
  ASSUME Pinned, Stored, NEW e \in Engines, Close(e)
  PROVE  Stored'
<1>1. /\ plan' = [plan EXCEPT ![e] = NoPlan] /\ UNCHANGED <<blocks, length, free, kv, astray>>
  BY DEF Close, tables
<1>2. DOMAIN plan = Engines
  BY DEF Pinned
<1>3. \A f \in Engines : Memory(f)' = Memory(f) /\ (plan'[f] = NoPlan \/ plan'[f] = plan[f])
  BY <1>1, <1>2 DEF Memory
<1> QED
  BY <1>1, <1>3 DEF Stored

LEMMA IdleStores ==
  ASSUME Stored, UNCHANGED <<tables, plan, astray>>
  PROVE  Stored'
<1>1. UNCHANGED <<blocks, length, free, kv, plan, astray>>
  BY DEF tables
<1>2. \A f \in Engines : Memory(f)' = Memory(f)
  BY <1>1 DEF Memory
<1> QED
  BY <1>1, <1>2 DEF Stored

-----------------------------------------------------------------------------
(* What a planned step reads *)

(* The pages of a row hold its positions up to the one it writes.          *)
LEMMA PageReadsAre ==
  ASSUME NEW m, NEW p, NEW n, NEW bs \in Seq(Pool), bs = m.blocks[p.batch[n]],
         p.base[n] \in Nat, p.used \in Nat, PagePlanned(m, p, p.used + 1, n),
         Covers(m, p.batch[n], p.base[n] + p.used + 1)
  PROVE  PageReads(p, n) = [k \in 1..(p.base[n] + p.used + 1) |-> Slot(bs, k - 1)]
<1> DEFINE page == p.pages[p.used + 1]
<1>1. PICK L \in Nat : L = p.base[n] + p.used
  OBVIOUS
<1>2. PICK w \in Nat : w = BlocksFor(L + 1)
  BY BlocksForIs
<1>3. w = Index(L) /\ w \in Nat \ {0} /\ L % BlockSize \in 0..(BlockSize - 1)
      /\ L = BlockSize * (w - 1) + (L % BlockSize)
  <2>1. L + 1 > 0 /\ L + 1 - 1 = L /\ L + 1 \in Nat
    OBVIOUS
  <2>2. w = Index(L)
    BY <1>2, <2>1, BlocksForIs
  <2> QED
    BY <2>2, IndexIs
<1>4. /\ page.indptr[n] \in Nat /\ page.indptr[n + 1] = page.indptr[n] + w
      /\ page.last[n] = (L % BlockSize) + 1
      /\ SubSeq(page.indices, page.indptr[n] + 1, page.indptr[n + 1]) = SubSeq(bs, 1, w)
  <2>1. p.base[n] + (p.used + 1) = L + 1 /\ p.base[n] + (p.used + 1) - 1 = L
    BY <1>1
  <2> HIDE DEF page
  <2> QED
    BY <1>2, <2>1 DEF PagePlanned, page
<1>5. page.indptr[n + 1] - page.indptr[n] = w
  <2>1. PICK x, y : x = page.indptr[n] /\ y = page.indptr[n + 1]
    OBVIOUS
  <2>2. x \in Nat /\ y = x + w
    BY <1>4, <2>1
  <2>3. y - x = w
    BY <2>2
  <2> QED
    BY <2>1, <2>3
<1>6. (w - 1) * BlockSize + page.last[n] = L + 1
  <2>1. PICK x \in 0..(BlockSize - 1) : x = L % BlockSize
    BY <1>3
  <2> QED
    BY <1>3, <1>4, <2>1, Sizes, SMTT(20)
<1>7. w <= Len(bs) /\ Len(bs) \in Nat
  <2>1. Covers(m, p.batch[n], L + 1) /\ L + 1 \in Nat
    BY <1>1
  <2> QED
    BY <1>2, <2>1, CoversIs, LenProperties
<1> DEFINE own == SubSeq(bs, 1, w)
<1>8. \A i \in 1..w : own[i] = bs[i]
  <2>1. Slice(bs, 0, w) /\ 0 + 1 = 1 /\ 0 + w = w
    BY <1>7, SliceIs
  <2>2. own = [x \in 1..w |-> bs[0 + x]]
    BY <2>1 DEF Slice
  <2> QED
    BY <2>2
<1> HIDE DEF own
<1>9. ASSUME NEW k \in 1..(L + 1) PROVE Slot(own, k - 1) = Slot(bs, k - 1)
  <2>1. k - 1 \in Nat /\ k - 1 <= L
    OBVIOUS
  <2>2. PICK q \in Nat : q = k - 1 /\ q <= L
    BY <2>1
  <2>3. Index(q) \in Nat \ {0} /\ Index(q) <= Index(L)
    BY <2>2, IndexMonotone, IndexIs
  <2>4. Index(q) \in 1..w
    BY <1>3, <2>3
  <2> QED
    BY <1>8, <2>2, <2>4 DEF Slot, Index
<1> HIDE DEF page
<1>10. PageReads(p, n) = [k \in 1..(L + 1) |-> Slot(own, k - 1)]
  BY <1>4, <1>5, <1>6 DEF PageReads, page, own
<1> QED
  BY <1>1, <1>9, <1>10

(* begin_step: the slot the step writes joins the row.                     *)
LEMMA ScatteredFields ==
  ASSUME NEW p, DOMAIN p = Fields
  PROVE  /\ DOMAIN Scattered(p) = Fields
         /\ \A f \in Fields \ {"history"} : Scattered(p)[f] = p[f]
         /\ Scattered(p).history =
              [n \in DOMAIN p.batch |->
                 [p.history[n] EXCEPT ![p.positions[n] + 1] = p.writes[p.used + 1][n]]]
  BY DEF Scattered, Fields

(* A row of a plan once its step has begun: the positions up to its own.   *)
LEMMA BegunRow ==
  ASSUME NEW e, NEW m, NEW len, NEW p, Window(p), Planned(e, m, len, p), p.used < p.budget,
         NEW n \in DOMAIN p.batch
  PROVE  /\ p.base[n] \in Nat /\ p.used \in Nat /\ p.positions[n] = p.base[n] + p.used
         /\ p.positions[n] \in Nat /\ p.used + 1 \in 1..p.budget
         /\ DOMAIN Scattered(p).history[n] = DOMAIN p.history[n]
         /\ \A c \in 1..(p.positions[n] + 1) :
              Scattered(p).history[n][c] = Slot(m.blocks[p.batch[n]], c - 1)
<1>1. /\ p.base[n] \in Nat /\ p.used \in Nat /\ p.budget \in Nat /\ p.positions[n] = p.base[n] + p.used
      /\ DOMAIN p = Fields
  BY DEF Window
<1>2. PICK L \in Nat : L = p.positions[n] /\ L = p.base[n] + p.used
  BY <1>1
<1>3. /\ RowPlanned(e, m, len, p, n) /\ p.used + 1 \in 1..p.budget
      /\ PagePlanned(m, p, p.used + 1, n)
  <2>1. p.used + 1 \in 1..p.budget
    BY <1>1
  <2> QED
    BY <2>1 DEF Planned
<1>4. p.writes[p.used + 1][n] = Slot(m.blocks[p.batch[n]], L)
  <2>1. p.base[n] + (p.used + 1) - 1 = L
    BY <1>1, <1>2
  <2> QED
    BY <1>3, <2>1 DEF PagePlanned
<1>5. Scattered(p).history[n] = [p.history[n] EXCEPT ![L + 1] = p.writes[p.used + 1][n]]
  <2>1. Scattered(p).history = [i \in DOMAIN p.batch |->
                                  [p.history[i] EXCEPT ![p.positions[i] + 1] = p.writes[p.used + 1][i]]]
    BY <1>1, ScatteredFields
  <2>2. Scattered(p).history[n] = [p.history[n] EXCEPT ![p.positions[n] + 1] = p.writes[p.used + 1][n]]
    BY ONLY <2>1, n \in DOMAIN p.batch
  <2> QED
    BY ONLY <1>2, <2>2
<1>6. /\ \A c \in 1..(p.base[n] + p.budget) : c \in DOMAIN p.history[n]
      /\ \A c \in 1..L : p.history[n][c] = Slot(m.blocks[p.batch[n]], c - 1)
  BY <1>2, <1>3 DEF RowPlanned
<1>7. ASSUME NEW c \in 1..(L + 1) PROVE Scattered(p).history[n][c] = Slot(m.blocks[p.batch[n]], c - 1)
  <2>1. CASE c = L + 1
    <3>1. c \in DOMAIN p.history[n] /\ c - 1 = L
      BY <1>6, <2>1, <1>1, <1>2
    <3> QED
      BY <1>4, <1>5, <2>1, <3>1
  <2>2. CASE c # L + 1
    <3>1. c \in 1..L
      BY <2>2
    <3> QED
      BY <1>5, <1>6, <2>2, <3>1
  <2> QED
    BY <2>1, <2>2
<1>8. DOMAIN Scattered(p).history[n] = DOMAIN p.history[n]
  BY <1>5
<1> QED
  BY <1>1, <1>2, <1>3, <1>7, <1>8

LEMMA CoversLess ==
  ASSUME NEW m, NEW r, NEW n \in Nat, NEW k \in Nat, k <= n, Covers(m, r, n)
  PROVE  Covers(m, r, k)
<1>1. \A x \in 0..(k - 1) : x \in 0..(n - 1)
  OBVIOUS
<1> QED
  BY <1>1 DEF Covers

(* The packed rows are found where the cumulative lengths say.             *)
LEMMA PackedReadsAre ==
  ASSUME NEW e, NEW m, NEW len, NEW p, Window(p), Planned(e, m, len, p), p.used < p.budget,
         NEW n \in DOMAIN p.batch
  PROVE  PackedReads(Scattered(p), n)
           = [k \in 1..(p.positions[n] + 1) |-> Slot(m.blocks[p.batch[n]], k - 1)]
<1> DEFINE q    == Scattered(p)
           N    == Len(p.batch)
           lens == Plus1(p.positions)
           from == Starts(lens)
           row(k) == CHOOSE i \in DOMAIN p.batch : from[i] <= k /\ k < from[i + 1]
<1>1. /\ q.batch = p.batch /\ q.cu = p.cu /\ q.total = p.total /\ q.positions = p.positions
      /\ DOMAIN p.positions = DOMAIN p.batch
  <2>1. DOMAIN p = Fields /\ DOMAIN p.positions = DOMAIN p.batch
    BY DEF Window
  <2> QED
    BY <2>1, ScatteredFields DEF Fields
<1>2. N \in Nat /\ DOMAIN p.batch = 1..N
  BY LenProperties DEF Window
<1>3. ASSUME NEW i \in 1..N
      PROVE  /\ p.positions[i] \in Nat /\ lens[i] = p.positions[i] + 1 /\ lens[i] \in Nat
             /\ p.cu[i] \in Nat /\ p.cu[i + 1] = p.cu[i] + lens[i]
  <2>1. i \in DOMAIN p.batch
    BY <1>2
  <2>2. p.positions[i] \in Nat
    BY <2>1, BegunRow
  <2>3. p.cu[i] \in Nat /\ p.cu[i + 1] = p.cu[i] + p.positions[i] + 1
    BY <2>1 DEF Planned, RowPlanned
  <2>4. lens[i] = p.positions[i] + 1
    BY <1>1, <2>1 DEF Plus1
  <2> QED
    BY <2>2, <2>3, <2>4
<1>4. DOMAIN lens = 1..N /\ Len(lens) = N
  <2>1. lens = [i \in 1..N |-> lens[i]]
    BY <1>1, <1>2 DEF Plus1
  <2> HIDE DEF lens, N
  <2> QED
    BY <1>2, <1>3, <2>1, ListIs
<1> HIDE DEF lens, N
<1>5. /\ Ascends(Starts(lens), N)
      /\ \A i \in 1..N : Starts(lens)[i + 1] = Starts(lens)[i] + lens[i]
  <2>1. N \in Nat /\ DOMAIN lens = 1..N /\ Len(lens) = N /\ \A i \in 1..N : lens[i] \in Nat
    BY <1>2, <1>3, <1>4
  <2> QED
    BY ONLY <2>1, StartsIs
<1>6. from[1] = 0 /\ p.cu[1] = 0 /\ p.total = p.cu[N + 1]
  BY <1>5 DEF Ascends, Planned, N
<1> HIDE DEF from
<1>7. Packs(lens, from, N)
  BY <1>2, <1>3, <1>5 DEF Packs, from
<1>8. \A i \in 1..(N + 1) : from[i] = p.cu[i]
  <2>1. \A i \in 1..N : from[i + 1] = from[i] + lens[i] /\ p.cu[i + 1] = p.cu[i] + lens[i]
    BY <1>3, <1>5 DEF from
  <2> QED
    <3>1. Climbs(from, lens, N) /\ Climbs(p.cu, lens, N)
      BY <1>6, <2>1 DEF Climbs
    <3> QED
      BY <1>2, <3>1, OffsetsAgree
<1>9. n \in 1..N /\ n \in 1..(N + 1) /\ N + 1 \in 1..(N + 1) /\ n + 1 \in 1..(N + 1)
  BY <1>2
<1>10. PICK a \in Nat : a = p.cu[n] /\ a = from[n]
  BY <1>3, <1>8, <1>9
<1>11. PICK l \in Nat : l = lens[n] /\ l = p.positions[n] + 1 /\ p.cu[n + 1] = a + l /\ from[n + 1] = a + l
  BY <1>3, <1>8, <1>9, <1>10
<1>12. PICK total \in Nat : total = p.total /\ total = from[N + 1]
  BY <1>5, <1>6, <1>8, <1>9 DEF Ascends, from
<1>13. ASSUME NEW x \in 1..l
       PROVE  /\ a + x - 1 \in 0..(total - 1) /\ row(a + x - 1) = n
  <2>1. PICK k \in Nat : k = a + x - 1
    OBVIOUS
  <2>2. a + x \in 1..total
    BY <1>7, <1>9, <1>10, <1>11, <1>12, PackedRow
  <2>3. k \in 0..(total - 1) /\ k < total /\ a <= k /\ k < a + l
    BY <2>1, <2>2
  <2>4. PICK i \in 1..N : \A j \in 1..N : from[j] <= k /\ k < from[j + 1] => j = i
    <3>1. Ascends(from, N) /\ k < from[N + 1]
      BY <1>7, <1>12, <2>3 DEF Packs
    <3> QED
      BY ONLY <1>2, <3>1, k \in Nat, OffsetsRow
  <2>5. from[n] <= k /\ k < from[n + 1]
    BY <1>10, <1>11, <2>3
  <2>6. row(k) = n
    BY <1>2, <1>9, <2>4, <2>5
  <2> QED
    BY <2>1, <2>3, <2>6
<1>14. Packed(q) = [k \in 0..(total - 1) |-> q.history[row(k)][k - p.cu[row(k)] + 1]]
  BY <1>1, <1>12 DEF Packed, from, lens
<1>15. \A c \in 1..l : q.history[n][c] = Slot(m.blocks[p.batch[n]], c - 1)
  BY <1>11, BegunRow
<1> HIDE DEF q, row
<1>16. ASSUME NEW x \in 1..l PROVE Packed(q)[a + x - 1] = Slot(m.blocks[p.batch[n]], x - 1)
  <2>1. PICK k \in 0..(total - 1) : k = a + x - 1 /\ row(k) = n
    BY <1>13
  <2>2. Packed(q)[k] = q.history[n][k - p.cu[n] + 1]
    BY <1>14, <2>1
  <2>3. k - p.cu[n] + 1 = x
    BY <1>10, <2>1
  <2> QED
    BY <1>15, <2>1, <2>2, <2>3
<1>17. PackedReads(q, n) = [k \in 1..l |-> Packed(q)[a + k - 1]]
  <2>1. q.cu[n + 1] - q.cu[n] = l
    <3>1. (a + l) - a = l
      OBVIOUS
    <3> QED
      BY <1>1, <1>10, <1>11, <3>1
  <2> QED
    BY <1>1, <1>10, <2>1 DEF PackedReads
<1>18. PackedReads(q, n) = [k \in 1..l |-> Slot(m.blocks[p.batch[n]], k - 1)]
  BY <1>16, <1>17
<1> QED
  BY <1>11, <1>18 DEF q

(* By pages or packed, a row of a step reads its own table up to its token.*)
OwnReads(m, p, n) ==
  Reads(Scattered(p), n) = [k \in 1..(p.positions[n] + 1) |-> Slot(m.blocks[p.batch[n]], k - 1)]

LEMMA ReadsAre ==
  ASSUME NEW e, NEW m, NEW len, Shaped(m), NEW p, Window(p), Planned(e, m, len, p),
         p.used < p.budget, NEW n \in DOMAIN p.batch
  PROVE  OwnReads(m, p, n)
<1> DEFINE q == Scattered(p)
<1>1. /\ q.batch = p.batch /\ q.base = p.base /\ q.used = p.used /\ q.pages = p.pages /\ q.writes = p.writes
  <2>1. DOMAIN p = Fields
    BY DEF Window
  <2> QED
    BY <2>1, ScatteredFields DEF Fields
<1>2. /\ p.base[n] \in Nat /\ p.used \in Nat /\ p.positions[n] = p.base[n] + p.used
      /\ p.used + 1 \in 1..p.budget
  BY BegunRow
<1> HIDE DEF q
<1>3. PageReads(q, n) = [k \in 1..(q.base[n] + q.used + 1) |-> Slot(m.blocks[p.batch[n]], k - 1)]
  <2>1. PICK r : r = p.batch[n]
    OBVIOUS
  <2>2. PagePlanned(m, q, q.used + 1, n)
    <3>1. PagePlanned(m, p, p.used + 1, n)
      BY <1>2 DEF Planned
    <3> QED
      BY <1>1, <3>1 DEF PagePlanned
  <2>3. r \in Hosted(e) /\ Covers(m, r, p.base[n] + p.budget)
    BY <2>1 DEF Planned, RowPlanned
  <2>4. m.blocks[r] \in Seq(Pool)
    BY <2>3 DEF Shaped, Hosted
  <2>5. Covers(m, r, p.base[n] + p.used + 1)
    <3>1. PICK x \in Nat, y \in Nat, z \in Nat : x = p.base[n] /\ y = p.used /\ z = p.budget
      BY <1>2 DEF Window
    <3>2. y + 1 <= z
      BY <1>2, <3>1
    <3>3. x + y + 1 \in Nat /\ x + z \in Nat /\ x + y + 1 <= x + z
      BY ONLY <3>2, x \in Nat, y \in Nat, z \in Nat
    <3>4. Covers(m, r, x + z)
      BY <2>3, <3>1
    <3>5. Covers(m, r, x + y + 1)
      BY <3>3, <3>4, CoversLess
    <3> QED
      BY <3>1, <3>5
  <2> QED
    <3>1. PICK bs \in Seq(Pool) : bs = m.blocks[r]
      BY <2>4
    <3>2. /\ bs = m.blocks[q.batch[n]] /\ q.base[n] \in Nat /\ q.used \in Nat
          /\ Covers(m, q.batch[n], q.base[n] + q.used + 1)
      BY <1>1, <1>2, <2>1, <2>5, <3>1
    <3>3. PageReads(q, n) = [k \in 1..(q.base[n] + q.used + 1) |-> Slot(bs, k - 1)]
      BY ONLY <2>2, <3>1, <3>2, PageReadsAre, SMTT(20)
    <3> QED
      BY ONLY <2>1, <3>1, <3>3
<1>4. PackedReads(q, n) = [k \in 1..(p.positions[n] + 1) |-> Slot(m.blocks[p.batch[n]], k - 1)]
  BY PackedReadsAre DEF q
<1>5. q.base[n] + q.used + 1 = p.positions[n] + 1
  BY <1>1, <1>2
<1> QED
  BY <1>3, <1>4, <1>5 DEF Reads, OwnReads, q

(* complete_step: the plan of the next step is where the tables are now.   *)
LEMMA StepPlanned ==
  ASSUME NEW e, NEW m, NEW len, NEW p, Window(p), Planned(e, m, len, p), p.used < p.budget,
         NEW b, NEW new, b.blocks = m.blocks,
         \A n \in DOMAIN p.batch : new[p.batch[n]] = len[p.batch[n]] + 1
  PROVE  Planned(e, b, new, Stepped(p))
<1> DEFINE s == Scattered(p)
           q == Stepped(p)
           N == Len(p.batch)
<1>1. DOMAIN p = Fields /\ DOMAIN p.positions = DOMAIN p.batch /\ p.batch # <<>> /\ p.batch \in Seq(AllRequests)
  BY DEF Window
<1>2. DOMAIN s = Fields /\ \A f \in Fields \ {"history"} : s[f] = p[f]
  BY <1>1, ScatteredFields
<1> HIDE DEF s
<1>3. /\ q.positions = Plus1(s.positions) /\ q.cu = [n \in DOMAIN s.cu |-> s.cu[n] + n - 1]
      /\ q.total = s.total + Len(s.batch)
      /\ \A f \in {"batch", "budget", "base", "writes", "history", "pages"} : q[f] = s[f]
  BY <1>2 DEF Advanced, Stepped, Fields, s
<1>4. /\ q.batch = p.batch /\ q.budget = p.budget /\ q.base = p.base /\ q.writes = p.writes
      /\ q.pages = p.pages /\ q.history = s.history /\ q.positions = Plus1(p.positions)
      /\ q.cu = [n \in DOMAIN p.cu |-> p.cu[n] + n - 1] /\ q.total = p.total + N
  BY <1>2, <1>3 DEF Fields
<1> HIDE DEF q
<1>5. N \in Nat \ {0} /\ DOMAIN p.batch = 1..N
  BY <1>1, EmptySeq, LenProperties
<1> HIDE DEF N
<1>6. DOMAIN p.cu = 1..(N + 1) /\ p.cu[1] = 0 /\ p.total = p.cu[N + 1] /\ IsInjective(p.batch)
  BY DEF Planned, N
<1>7. ASSUME NEW n \in 1..N
      PROVE  /\ p.positions[n] \in Nat /\ p.cu[n] \in Nat /\ p.cu[n + 1] = p.cu[n] + p.positions[n] + 1
             /\ q.positions[n] = p.positions[n] + 1
             /\ q.cu[n] = p.cu[n] + n - 1 /\ q.cu[n + 1] = p.cu[n + 1] + n
             /\ RowPlanned(e, m, len, p, n)
  <2>1. n \in DOMAIN p.batch /\ n \in 1..(N + 1) /\ n + 1 \in 1..(N + 1)
    BY <1>5
  <2>2. p.positions[n] \in Nat
    BY <2>1, BegunRow
  <2>3. RowPlanned(e, m, len, p, n)
    BY <2>1 DEF Planned
  <2>4. p.cu[n] \in Nat /\ p.cu[n + 1] = p.cu[n] + p.positions[n] + 1
    BY <2>3 DEF RowPlanned
  <2>5. q.cu[n + 1] = p.cu[n + 1] + (n + 1) - 1 /\ q.cu[n] = p.cu[n] + n - 1
    BY <1>4, <1>6, <2>1
  <2>6. p.cu[n + 1] + (n + 1) - 1 = p.cu[n + 1] + n
    <3>1. PICK x \in Nat : x = p.cu[n + 1]
      BY <2>2, <2>4
    <3> QED
      BY ONLY <3>1, <2>1, <1>5, n \in 1..N
  <2>7. q.positions[n] = p.positions[n] + 1
    BY <1>1, <1>4, <2>1 DEF Plus1
  <2> QED
    BY <2>2, <2>3, <2>4, <2>5, <2>6, <2>7
<1>8. DOMAIN q.cu = 1..(N + 1) /\ q.cu[1] = 0 /\ q.total = q.cu[N + 1]
  <2>1. 1 \in DOMAIN p.cu /\ N \in 1..N
    BY <1>5, <1>6
  <2>2. q.cu[1] = 0
    BY <1>4, <1>6, <2>1
  <2>3. q.cu[N + 1] = p.cu[N + 1] + N
    BY <1>7, <2>1
  <2> QED
    BY <1>4, <1>6, <2>2, <2>3
<1>9. ASSUME NEW n \in 1..N PROVE RowPlanned(e, b, new, q, n)
  <2>1. PICK r : r = p.batch[n]
    OBVIOUS
  <2>2. n \in DOMAIN p.batch
    BY <1>5
  <2>3. /\ r \in Hosted(e) /\ len[r] = p.positions[n] /\ len[r] >= Prompt[r]
        /\ \A i \in DOMAIN m.blocks[r] : Alone(e, m, r, i)
        /\ Covers(m, r, p.base[n] + p.budget)
        /\ \A c \in 1..(p.base[n] + p.budget) : c \in DOMAIN p.history[n]
    BY <1>7, <2>1 DEF RowPlanned
  <2>4. \A i \in DOMAIN b.blocks[r] : Alone(e, b, r, i)
    BY <2>3 DEF Alone
  <2>5. Covers(b, r, q.base[n] + q.budget)
    BY <1>4, <2>3 DEF Covers
  <2>6. new[r] = q.positions[n] /\ new[r] >= Prompt[r]
    <3>1. new[r] = len[r] + 1
      BY <2>1, <2>2
    <3>2. r \in AllRequests
      BY <2>3 DEF Hosted
    <3>3. Prompt[r] \in Nat
      BY <3>2, ForwardAssumption DEF AllRequests
    <3>4. PICK x \in Nat, y \in Nat : x = len[r] /\ y = Prompt[r] /\ x >= y
      BY <1>7, <2>3, <3>3
    <3> QED
      BY <1>7, <2>3, <3>1, <3>4
  <2>7. q.cu[n] \in Nat /\ q.cu[n + 1] = q.cu[n] + q.positions[n] + 1
    <3>1. PICK x \in Nat, y \in Nat : x = p.cu[n] /\ y = p.positions[n]
      BY <1>7
    <3>2. q.cu[n] = x + n - 1 /\ q.cu[n + 1] = (x + y + 1) + n /\ q.positions[n] = y + 1
      BY <1>7, <3>1
    <3> QED
      BY <3>2, <1>5
  <2>8. DOMAIN q.history[n] = DOMAIN p.history[n]
    BY <1>4, <2>2, BegunRow DEF s
  <2>9. \A c \in 1..q.positions[n] : q.history[n][c] = Slot(b.blocks[r], c - 1)
    <3>1. \A c \in 1..(p.positions[n] + 1) : s.history[n][c] = Slot(m.blocks[r], c - 1)
      BY <2>1, <2>2, BegunRow DEF s
    <3> QED
      BY <1>4, <1>7, <3>1
  <2> QED
    BY <1>4, <2>1, <2>3, <2>4, <2>5, <2>6, <2>7, <2>8, <2>9 DEF RowPlanned
<1>10. ASSUME NEW n \in 1..N, NEW k \in 1..q.budget PROVE PagePlanned(b, q, k, n)
  <2>1. PagePlanned(m, p, k, n)
    BY <1>4, <1>5 DEF Planned
  <2> QED
    BY <1>4, <2>1 DEF PagePlanned
<1>11. \A k \in 1..q.budget : DOMAIN q.writes[k] = DOMAIN q.batch
  BY <1>4 DEF Planned
<1> QED
  BY <1>4, <1>5, <1>6, <1>8, <1>9, <1>10, <1>11 DEF Planned, N, q

-----------------------------------------------------------------------------
(* A planned step *)

(* A step whose rows rotate by the positions they stand at writes and reads*)
(* where the tables have them, though it skips copy-on-write.              *)
LEMMA RunStores ==
  ASSUME Pinned, Stored, NEW e \in Engines, plan[e] # NoPlan, plan[e].used < plan[e].budget, NEW rope,
         \A n \in DOMAIN plan[e].batch : rope[n] = plan[e].positions[n], Run(e, plan[e], rope)
  PROVE  Stored'
<1> DEFINE p     == plan[e]
           m     == Memory(e)
           slots == p.writes[p.used + 1]
           toks  == [n \in DOMAIN p.batch |-> Token(p.batch[n], length[p.batch[n]])]
           store == Written(kv[e], slots, toks)
           b     == [m EXCEPT !.kv = store]
           begun == Scattered(p)
           rows  == {Row(p.batch[n], rope[n], Through(store, Reads(begun, n))) : n \in DOMAIN p.batch}
<1>1. /\ kv' = [kv EXCEPT ![e] = store] /\ Judge(rows) /\ plan' = [plan EXCEPT ![e] = Stepped(p)]
      /\ Grown(p.batch, 1) /\ blocks' = blocks /\ free' = free
  BY DEF Run, Stepped
<1>2. /\ Window(p) /\ Planned(e, m, length, p) /\ Sound(e, m, length) /\ length \in [AllRequests -> Nat]
      /\ m.free = free[e] /\ m.blocks = blocks /\ m.kv = kv[e]
      /\ DOMAIN plan = Engines /\ DOMAIN kv = Engines /\ free \in [Engines -> Seq(Pool)]
      /\ \A q \in Hosted(e) : q \in AllRequests
  BY DEF Pinned, Stored, Memory, Hosted
<1> HIDE DEF m, begun
<1> HIDE DEF p
<1>3. p.used < p.budget /\ \A n \in DOMAIN p.batch : rope[n] = p.positions[n]
  BY DEF p
<1>4. ASSUME NEW n \in DOMAIN p.batch
      PROVE  LET r == p.batch[n] IN
             /\ r \in Range(p.batch) /\ r \in Hosted(e) /\ r \in AllRequests
             /\ length[r] = p.positions[n] /\ p.positions[n] \in Nat
             /\ Index(length[r]) \in DOMAIN m.blocks[r] /\ Alone(e, m, r, Index(length[r]))
             /\ Covers(m, r, length[r] + 1)
             /\ slots[n] = Slot(m.blocks[r], length[r]) /\ toks[n] = Token(r, length[r])
  <2>1. PICK r : r = p.batch[n]
    OBVIOUS
  <2>2. /\ RowPlanned(e, m, length, p, n) /\ PagePlanned(m, p, p.used + 1, n)
        /\ p.base[n] \in Nat /\ p.used \in Nat /\ p.positions[n] = p.base[n] + p.used
        /\ p.positions[n] \in Nat
    <3>1. /\ p.used + 1 \in 1..p.budget /\ p.base[n] \in Nat /\ p.used \in Nat
          /\ p.positions[n] = p.base[n] + p.used /\ p.positions[n] \in Nat
      BY <1>2, <1>3, BegunRow
    <3> QED
      BY <1>2, <3>1 DEF Planned
  <2>3. /\ r \in Hosted(e) /\ length[r] = p.positions[n] /\ Covers(m, r, p.base[n] + p.budget)
        /\ \A i \in DOMAIN m.blocks[r] : Alone(e, m, r, i)
    BY <2>1, <2>2 DEF RowPlanned
  <2>4. PICK L \in Nat, x \in Nat : L = length[r] /\ L = p.base[n] + p.used /\ x = p.base[n] + p.budget /\ L + 1 <= x
    <3>1. p.budget \in Nat
      BY <1>2 DEF Window
    <3> QED
      BY <1>3, <2>2, <2>3, <3>1
  <2>5. Covers(m, r, L + 1) /\ Index(L) \in DOMAIN m.blocks[r]
    <3>1. Covers(m, r, x)
      BY <2>3, <2>4
    <3>2. Covers(m, r, L + 1)
      BY <2>4, <3>1, CoversLess
    <3>3. L \in 0..(L + 1 - 1)
      OBVIOUS
    <3> QED
      BY <3>2, <3>3, CoversAt
  <2>6. p.base[n] + (p.used + 1) - 1 = L
    BY <2>2, <2>4
  <2>7. slots[n] = Slot(m.blocks[r], L)
    BY <2>1, <2>2, <2>6 DEF PagePlanned
  <2>8. r \in Range(p.batch) /\ r \in AllRequests
    BY <1>2, <2>1, <2>3 DEF Range
  <2> HIDE DEF slots
  <2> QED
    BY <2>1, <2>2, <2>3, <2>4, <2>5, <2>7, <2>8
<1>5. DOMAIN slots = DOMAIN p.batch /\ DOMAIN toks = DOMAIN p.batch
  <2>1. p.used + 1 \in 1..p.budget
    BY <1>2, <1>3 DEF Window
  <2> QED
    BY <1>2, <2>1 DEF Planned
<1> HIDE DEF slots, toks
<1>6. /\ \A r \in Range(p.batch) : \E n \in DOMAIN p.batch : r = p.batch[n]
      /\ \A r \in Range(p.batch) : r \in Hosted(e) /\ r \in AllRequests /\ Covers(m, r, length[r] + 1)
  BY <1>4 DEF Range
<1>7. /\ \A r \in Range(p.batch) : length'[r] = length[r] + 1
      /\ \A q \in AllRequests \ Range(p.batch) : length'[q] = length[q]
      /\ \A q \in AllRequests : length'[q] \in Nat /\ length[q] \in Nat /\ length[q] <= length'[q]
  BY <1>1, <1>2, <1>6 DEF Grown
<1>8. Fills(e, m, length, length', slots, toks)
  <2>1. ASSUME NEW n \in DOMAIN slots
        PROVE  \E q \in Hosted(e) : \E k \in Nat :
                 /\ length[q] <= k /\ k < length'[q] /\ Alone(e, m, q, Index(k))
                 /\ slots[n] = Slot(m.blocks[q], k) /\ toks[n] = Token(q, k)
    <3>1. PICK r : r = p.batch[n]
      OBVIOUS
    <3>2. /\ r \in Range(p.batch) /\ r \in Hosted(e) /\ r \in AllRequests
          /\ Alone(e, m, r, Index(length[r]))
          /\ slots[n] = Slot(m.blocks[r], length[r]) /\ toks[n] = Token(r, length[r])
      BY <1>4, <1>5, <3>1
    <3>3. PICK k \in Nat : k = length[r] /\ length[r] <= k /\ k < length'[r]
      BY <1>7, <3>2
    <3> QED
      BY <3>2, <3>3
  <2>2. ASSUME NEW q \in Hosted(e), NEW k \in Nat, length[q] <= k, k < length'[q]
        PROVE  \E n \in DOMAIN slots : slots[n] = Slot(m.blocks[q], k)
    <3>1. q \in Range(p.batch)
      BY <1>2, <1>7, <2>2
    <3>2. k = length[q]
      BY <1>2, <1>7, <2>2, <3>1
    <3>3. PICK n \in DOMAIN p.batch : q = p.batch[n]
      BY <1>6, <3>1
    <3> QED
      BY <1>4, <1>5, <3>2, <3>3
  <2> QED
    BY <2>1, <2>2 DEF Fills
<1>9. \A q \in Hosted(e) : /\ length[q] \in Nat /\ length'[q] \in Nat /\ length[q] <= length'[q]
                           /\ Covers(m, q, length'[q])
  <2>1. \A q \in Hosted(e) : Covers(m, q, length[q])
    BY <1>2 DEF Sound
  <2> QED
    BY <1>2, <1>6, <1>7, <2>1
<1>10. store = Written(m.kv, slots, toks)
  BY <1>2
<1>11. Sound(e, b, length')
  <2> DEFINE other == Written(m.kv, slots, toks)
  <2>1. Sound(e, [m EXCEPT !.kv = other], length')
    BY <1>2, <1>8, <1>9, FillSound
  <2> QED
    BY <1>10, <2>1
<1>12. b.free = m.free /\ b.blocks = m.blocks /\ b.kv = store
  BY <1>2 DEF Sound, Shaped
<1> HIDE DEF store, b
<1>13. ASSUME NEW n \in DOMAIN p.batch
       PROVE  Through(store, Reads(begun, n)) = Text(p.batch[n], rope[n] + 1)
  <2>1. PICK r \in Hosted(e) : r = p.batch[n]
    BY <1>4
  <2>2. PICK k \in Nat : k = p.positions[n] + 1 /\ k = length'[r] /\ k = rope[n] + 1
    BY <1>3, <1>4, <1>7, <2>1
  <2>3. Reads(begun, n) = [x \in 1..k |-> Slot(m.blocks[r], x - 1)]
    <3>1. Shaped(m)
      BY <1>2 DEF Sound
    <3>2. OwnReads(m, p, n)
      BY <1>2, <1>3, <3>1, ReadsAre
    <3> QED
      BY <2>1, <2>2, <3>2 DEF begun, OwnReads
  <2>4. Keyed(b, r, k) /\ k <= k
    <3>1. Keyed(b, r, length'[r])
      BY <1>11 DEF Sound
    <3> QED
      BY <2>2, <3>1
  <2>5. [x \in 1..k |-> b.kv[Slot(b.blocks[r], x - 1)]] = Text(r, k)
    BY ONLY <2>4, k \in Nat, ReadsOwn
  <2>6. Through(store, Reads(begun, n)) = [x \in 1..k |-> store[Slot(m.blocks[r], x - 1)]]
    BY <2>3 DEF Through
  <2> QED
    BY <1>12, <2>1, <2>2, <2>5, <2>6
<1>14. astray' = {}
  <2>1. \A row \in rows : row.reads = Text(row.request, row.rope + 1)
    <3> SUFFICES ASSUME NEW n \in DOMAIN p.batch
                 PROVE  LET row == Row(p.batch[n], rope[n], Through(store, Reads(begun, n)))
                        IN  row.reads = Text(row.request, row.rope + 1)
      OBVIOUS
    <3> QED
      BY <1>13 DEF Row
  <2> HIDE DEF rows
  <2> QED
    BY <1>1, <2>1, JudgedWell
<1>15. Planned(e, b, length', Stepped(p))
  <2>1. \A n \in DOMAIN p.batch : length'[p.batch[n]] = length[p.batch[n]] + 1
    BY <1>4, <1>7
  <2> QED
    BY <1>2, <1>3, <1>12, <2>1, StepPlanned
<1>16. plan'[e] = Stepped(p) /\ \A f \in Engines \ {e} : plan'[f] = plan[f]
  BY <1>1, <1>2
<1>17. free' = [free EXCEPT ![e] = b.free] /\ kv' = [kv EXCEPT ![e] = b.kv] /\ blocks' = b.blocks
  BY <1>1, <1>2, <1>12
<1>18. \A q \in AllRequests \ Hosted(e) : b.blocks[q] = blocks[q] /\ length'[q] = length[q]
  BY <1>2, <1>6, <1>7, <1>12
<1> QED
  BY <1>11, <1>14, <1>15, <1>16, <1>17, <1>18, EngineStores

(* The buffer a runner takes a step with has its rows where the plan has   *)
(* them.                                                                   *)
LEMMA RopeIs ==
  ASSUME NEW p, Window(p), NEW size, NEW held, DOMAIN held = 1..size, size \in Nat, Len(p.batch) <= size,
         NEW name, Takes(p, name), name = p.id => Carries(p, held), NEW n \in DOMAIN p.batch
  PROVE  Loaded(p, held)[n] = p.positions[n]
<1>1. /\ p.positions[n] = p.base[n] + p.used /\ DOMAIN p.batch = 1..Len(p.batch) /\ Len(p.batch) \in Nat
  BY LenProperties DEF Window
<1>2. n \in DOMAIN held /\ n <= Len(p.batch)
  BY <1>1
<1>3. CASE p.used = 0
  BY <1>2, <1>3 DEF Loaded
<1>4. CASE p.used # 0
  <2>1. Loaded(p, held) = held /\ Carries(p, held)
    BY <1>4 DEF Loaded, Takes
  <2> QED
    BY <1>1, <1>2, <2>1 DEF Carries, Due
<1> QED
  BY <1>3, <1>4

LEMMA StepStores ==
  ASSUME Pinned, Stored, NEW e \in Engines, GroupedStep(e) \/ BucketStep(e) \/ EagerStep(e)
  PROVE  Stored'
<1> DEFINE p == plan[e]
<1>1. p # NoPlan /\ p.used < p.budget
  BY DEF GroupedStep, BucketStep, EagerStep
<1>2. Window(p) /\ setting \in Settings /\ Len(p.batch) \in Nat
  <2>1. Window(p) /\ setting \in Settings
    BY <1>1 DEF Pinned
  <2> QED
    BY <2>1, LenProperties DEF Window
<1>3. CASE GroupedStep(e)
  <2> DEFINE size == Len(p.batch)
             held == exact[e][size]
             rope == Loaded(p, held)
  <2>1. Route(e, p) = "grouped" /\ Run(e, p, rope)
    BY <1>3 DEF GroupedStep
  <2>2. size \in setting.grouped /\ Takes(p, owned[e][size])
    BY <2>1 DEF Route
  <2>3. DOMAIN held = 1..size /\ (owned[e][size] = p.id => Carries(p, held))
    BY <1>2, <2>2 DEF Pinned, Buffers
  <2> HIDE DEF held
  <2>4. ASSUME NEW n \in DOMAIN p.batch PROVE rope[n] = p.positions[n]
    <3> HIDE DEF p
    <3>1. size <= size
      BY <1>2
    <3> QED
      BY <1>2, <2>2, <2>3, <3>1, RopeIs
  <2> HIDE DEF rope
  <2> QED
    BY <1>1, <2>1, <2>4, RunStores
<1>4. CASE BucketStep(e)
  <2> DEFINE size == BucketFor(p.batch)
             held == bucket[size]
             rope == Loaded(p, held)
  <2>1. Route(e, p) = "bucket" /\ Run(e, p, rope)
    BY <1>4 DEF BucketStep
  <2>2. size # 0 /\ Takes(p, active)
    BY <2>1 DEF Route
  <2>3. size \in setting.buckets /\ size \in Nat /\ Len(p.batch) <= size
    <3> DEFINE fits == {b \in setting.buckets : b >= Len(p.batch)}
    <3>1. fits # {} /\ size = Min(fits)
      BY <2>2 DEF BucketFor
    <3>2. fits \in SUBSET Nat
      BY <1>2, ForwardAssumption
    <3> HIDE DEF fits, size
    <3>3. Min(fits) \in fits
      BY <3>1, <3>2, MinExists
    <3>4. size \in fits /\ size \in Nat
      BY <3>1, <3>2, <3>3
    <3> QED
      BY <1>2, <3>4 DEF fits
  <2>4. DOMAIN held = 1..size /\ (active = p.id => Carries(p, held))
    BY <1>2, <2>3 DEF Pinned, Buffers
  <2> HIDE DEF held, size
  <2>5. ASSUME NEW n \in DOMAIN p.batch PROVE rope[n] = p.positions[n]
    <3> HIDE DEF p
    <3> QED
      BY <1>2, <2>2, <2>3, <2>4, RopeIs
  <2> HIDE DEF rope
  <2> QED
    BY <1>1, <2>1, <2>5, RunStores
<1>5. CASE EagerStep(e)
  <2>1. Run(e, p, p.positions)
    BY <1>5 DEF EagerStep
  <2> QED
    BY <1>1, <2>1, RunStores
<1> QED
  BY <1>3, <1>4, <1>5

-----------------------------------------------------------------------------
(* Every step keeps the keys *)

(* A batch lists each of its requests once. *)
LEMMA BatchLists ==
  ASSUME NEW S \in SUBSET AllRequests, S # {}, NEW batch, batch = Without(Requests, AllRequests \ S)
  PROVE  /\ batch \in Seq(AllRequests) /\ batch # <<>> /\ IsInjective(batch)
         /\ \A r \in Range(batch) : r \in S
<1>1. Requests \in Seq(AllRequests) /\ IsInjective(Requests)
  BY ForwardAssumption DEF AllRequests
<1>2. /\ batch \in Seq(AllRequests) /\ IsInjective(batch)
      /\ \A x : x \in Range(batch) <=> x \in Range(Requests) /\ x \notin AllRequests \ S
  BY <1>1, WithoutExact
<1>3. PICK r \in S : r \in Range(batch)
  BY <1>2 DEF AllRequests
<1>4. Range(<<>>) = {}
  BY DEF Range
<1> QED
  BY <1>2, <1>3, <1>4 DEF AllRequests

LEMMA PrefillStores ==
  ASSUME Pinned, Stored, NEW e \in Engines, PrefillOne(e) \/ PrefillPacked(e)
  PROVE  Stored'
<1>1. ASSUME NEW r \in Hosted(e), NEW count \in Nat \ {0}, Contiguous(r, count), length[r] < Prompt[r]
      PROVE  Stored'
  <2>1. r \in AllRequests /\ length[r] \in Nat /\ Prompt[r] \in Nat
    BY PromptsTyped DEF Pinned, Hosted
  <2>2. ASSUME plan[e] # NoPlan, r \in Range(plan[e].batch) PROVE FALSE
    <3>1. PICK n \in DOMAIN plan[e].batch : r = plan[e].batch[n]
      BY <2>2 DEF Range
    <3>2. length[r] >= Prompt[r]
      BY <2>2, <3>1 DEF Stored, Planned, RowPlanned
    <3> QED
      BY <1>1, <2>1, <3>2
  <2> QED
    BY <1>1, <2>2, ContiguousStores
<1>2. ASSUME NEW r \in Hosted(e), PrefillAlone(r) PROVE Stored'
  <2>1. r \in AllRequests
    BY DEF Hosted
  <2>2. Prompt[r] \in Nat \ {0}
    BY <2>1, LeaderIs
  <2>3. length[r] < Prompt[r] /\ Contiguous(r, Prompt[r])
    BY <1>2, <2>2 DEF PrefillAlone
  <2> QED
    BY <1>1, <2>2, <2>3
<1>3. ASSUME NEW r \in Hosted(e), NEW size \in 1..2, PrefillChunk(r, size) PROVE Stored'
  <2> DEFINE rest == Prompt[r] - length[r]
             k == Min({size, rest})
  <2>1. rest \in Nat \ {0} /\ Contiguous(r, k) /\ length[r] < Prompt[r]
    <3>1. r \in AllRequests
      BY DEF Hosted
    <3>2. length[r] \in Nat /\ Prompt[r] \in Nat
      BY <3>1, PromptsTyped DEF Pinned
    <3> QED
      BY <1>3, <3>2 DEF PrefillChunk
  <2> HIDE DEF rest
  <2>2. k \in {size, rest}
    BY <2>1, MinExists
  <2> HIDE DEF k
  <2> QED
    BY <1>1, <2>1, <2>2
<1>4. CASE PrefillOne(e)
  <2>1. \A r \in AllRequests : EngineOf[r] = e => r \in Hosted(e)
    BY DEF Hosted
  <2> QED
    BY <1>2, <1>3, <1>4, <2>1, Zenon DEF PrefillOne
<1>5. CASE PrefillPacked(e)
  <2>1. PICK batch \in Batches(e, Fresh) : PrefillMany(e, batch)
    BY <1>5, Zenon DEF PrefillPacked
  <2>2. PICK S \in (SUBSET {r \in AllRequests : EngineOf[r] = e /\ Fresh(r)}) \ {{}} :
          batch = Without(Requests, AllRequests \ S)
    BY Zenon DEF Batches
  <2>3. S \in SUBSET AllRequests /\ S # {} /\ \A r \in S : r \in Hosted(e)
    BY DEF Hosted
  <2>4. batch \in Seq(AllRequests) /\ IsInjective(batch) /\ \A r \in Range(batch) : r \in Hosted(e)
    BY <2>2, <2>3, BatchLists
  <2> QED
    BY <2>1, <2>4, PrefillManyStores
<1> QED
  BY <1>4, <1>5

(* A batch of prefilled requests. *)
LEMMA PrefilledBatch ==
  ASSUME NEW e, NEW batch \in Batches(e, Prefilled)
  PROVE  /\ batch \in Seq(AllRequests) /\ batch # <<>> /\ IsInjective(batch)
         /\ \A r \in Range(batch) : r \in Hosted(e) /\ Prefilled(r)
<1>1. PICK S \in (SUBSET {r \in AllRequests : EngineOf[r] = e /\ Prefilled(r)}) \ {{}} :
        batch = Without(Requests, AllRequests \ S)
  BY Zenon DEF Batches
<1>2. S \in SUBSET AllRequests /\ S # {} /\ \A r \in S : r \in Hosted(e) /\ Prefilled(r)
  BY DEF Hosted
<1> QED
  BY <1>1, <1>2, BatchLists

LEMMA DecodeStores ==
  ASSUME Pinned, Stored, NEW e \in Engines, Decode(e)
  PROVE  Stored'
<1>1. ASSUME NEW batch \in Batches(e, Prefilled), DecodeMany(e, batch) PROVE Stored'
  BY <1>1, PrefilledBatch, DecodeManyStores
<1>2. ASSUME NEW r \in AllRequests, EngineOf[r] = e, plan[e] = NoPlan, DecodeTokens(r, 2) PROVE Stored'
  <2>1. r \in Hosted(e) /\ Contiguous(r, 2) /\ 2 \in Nat \ {0}
    BY <1>2 DEF Hosted, DecodeTokens
  <2> QED
    BY <1>2, <2>1, ContiguousStores
<1> QED
  BY <1>1, <1>2, Zenon DEF Decode

LEMMA OpenWindowStores ==
  ASSUME Pinned, Stored, NEW e \in Engines, OpenWindow(e)
  PROVE  Stored'
<1>1. PICK batch \in Batches(e, Prefilled), budget \in 1..MaxBudget : Open(e, batch, budget)
  BY Zenon DEF OpenWindow
<1>2. /\ batch \in Seq(AllRequests) /\ batch # <<>> /\ IsInjective(batch)
      /\ \A r \in Range(batch) : r \in Hosted(e) /\ Prefilled(r)
  BY PrefilledBatch
<1> QED
  BY <1>1, <1>2, OpenStores

LEMMA NextStored ==
  ASSUME Pinned, Stored, [Next]_vars
  PROVE  Stored'
<1>1. CASE Execute \/ UNCHANGED vars
  <2>1. UNCHANGED <<tables, plan, astray>>
    BY <1>1 DEF Execute, vars
  <2> QED
    BY <2>1, IdleStores
<1>2. ASSUME NEW e \in Engines,
             \/ PrefillPacked(e) \/ PrefillOne(e) \/ Decode(e) \/ OpenWindow(e) \/ GroupedStep(e)
             \/ BucketStep(e) \/ EagerStep(e) \/ Close(e)
      PROVE  Stored'
  BY <1>2, PrefillStores, DecodeStores, OpenWindowStores, StepStores, CloseStores
<1>3. ASSUME NEW r \in AllRequests, Fork(r) \/ Free(r) PROVE Stored'
  BY <1>3, ForkStores, FreeStores
<1> QED
  BY <1>1, <1>2, <1>3, Zenon DEF Next, QwenPrefill, QwenDecode

LEMMA InitStored ==
  ASSUME Init
  PROVE  Stored
<1>1. /\ blocks = [r \in AllRequests |-> <<>>] /\ length = [r \in AllRequests |-> 0]
      /\ free = [e \in Engines |-> [n \in 1..NumBlocks |-> n - 1]]
      /\ kv = [e \in Engines |-> [s \in Cells |-> NoKV]]
      /\ plan = [e \in Engines |-> NoPlan] /\ astray = {}
  BY DEF Init, Cells
<1> DEFINE F == [n \in 1..NumBlocks |-> n - 1]
<1>2. F \in Seq(Pool) /\ IsInjective(F) /\ DOMAIN F = 1..NumBlocks
  <2>1. F = [n \in 1..NumBlocks |-> F[n]] /\ \A n \in 1..NumBlocks : F[n] \in Pool
    BY Sizes DEF Pool
  <2>2. IsInjective(F)
    BY Sizes DEF IsInjective
  <2> HIDE DEF F
  <2> QED
    BY <2>1, <2>2, Sizes, ListIs
<1> HIDE DEF F
<1>3. ASSUME NEW e \in Engines PROVE Sound(e, Memory(e), length)
  <2> DEFINE m == Memory(e)
  <2>1. /\ DOMAIN m = {"free", "blocks", "kv"} /\ m.free = F /\ m.blocks = [r \in AllRequests |-> <<>>]
        /\ m.kv = [s \in Cells |-> NoKV]
    BY <1>1 DEF Memory, F
  <2> HIDE DEF m
  <2>2. Shaped(m)
    <3>1. <<>> \in Seq(Pool)
      OBVIOUS
    <3> QED
      BY <1>2, <2>1, <3>1 DEF Shaped
  <2>3. \A r \in Hosted(e) : /\ m.blocks[r] = <<>> /\ length[r] = 0
    BY <1>1, <2>1 DEF Hosted
  <2>4. DOMAIN <<>> = {} /\ Range(<<>>) = {} /\ IsInjective(<<>>)
    BY DEF Range, IsInjective
  <2>5. Apart(e, m)
    BY <1>2, <2>1, <2>3, <2>4 DEF Apart
  <2>6. ASSUME NEW r \in Hosted(e)
        PROVE  /\ Covers(m, r, length[r]) /\ Keyed(m, r, length[r])
               /\ \A i \in DOMAIN m.blocks[r] : Alone(e, m, r, i) \/ Begun(length[r], i)
    BY <2>3, <2>4 DEF Covers, Keyed
  <2> QED
    BY <2>2, <2>5, <2>6 DEF Sound, m
<1>4. free \in [Engines -> Seq(Pool)] /\ DOMAIN kv = Engines
  BY <1>1, <1>2 DEF F
<1> QED
  BY <1>1, <1>3, <1>4 DEF Stored

-----------------------------------------------------------------------------
(* The keys and what the rows read of them *)

(* kv_cache.py, paged_kv.py, planned_decode.py: whatever prefills, forks,  *)
(* copies on write, windows and runners take turns, the keys of a live     *)
(* request stay in the slots that its table names.                         *)
THEOREM KeysStayIntact == Spec => []KeysIntact
<1>1. ASSUME Pinned, Stored PROVE KeysIntact
  <2> SUFFICES ASSUME NEW r \in AllRequests, NEW p \in 0..(length[r] - 1)
               PROVE  kv[EngineOf[r]][Slot(blocks[r], p)] = Token(r, p)
    BY DEF KeysIntact
  <2> DEFINE e == EngineOf[r]
  <2>1. e \in Engines /\ r \in Hosted(e)
    BY LeaderIs DEF Hosted
  <2>2. Keyed(Memory(e), r, length[r])
    BY <1>1, <2>1 DEF Stored, Sound
  <2> QED
    BY <2>2 DEF Keyed, Memory
<1>2. Init => Pinned /\ Stored
  BY InitPinned, InitStored
<1>3. Pinned /\ Stored /\ [Next]_vars => (Pinned /\ Stored)'
  BY NextPinned, NextStored
<1> QED
  BY <1>1, <1>2, <1>3, PTL DEF Spec

(* decode_many, prefill_many, decode_tokens and decode_window_step with all*)
(* its runners: every row of every pass rotates by its token's position and*)
(* attends to exactly the tokens of its own request up to it.              *)
THEOREM RowsReadOwnHistory == Spec => []OwnHistory
<1>1. Stored => OwnHistory
  BY DEF Stored, OwnHistory
<1>2. Init => Pinned /\ Stored
  BY InitPinned, InitStored
<1>3. Pinned /\ Stored /\ [Next]_vars => (Pinned /\ Stored)'
  BY NextPinned, NextStored
<1> QED
  BY <1>1, <1>2, <1>3, PTL DEF Spec
=============================================================================
