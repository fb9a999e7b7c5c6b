---------------------------- MODULE StartupProofs ----------------------------
(***************************************************************************)
(* Proofs about Startup and Bundle: what the loader accepts can run a      *)
(* forward pass exactly if its heads are of even width, each decode graph  *)
(* recorded the kernels its application chose, flags left at auto never    *)
(* make the build refuse, and the graph captures leave the pool whole.     *)
(***************************************************************************)
EXTENDS Startup, WellFoundedInduction, TLAPS

(* -(-n // d) and (n + d - 1) // d round up to the same number. *)
LEMMA CeilingsAgree ==
  ASSUME NEW n \in Nat, NEW d \in Nat \ {0}
  PROVE  /\ -((-n) \div d) = (n + d - 1) \div d
         /\ (n + d - 1) \div d \in Nat
<1> DEFINE q == (n + d - 1) \div d
           p == (-n) \div d
           s == (n + d - 1) % d
           u == (-n) % d
<1>1. n + d - 1 \in Nat /\ -n \in Int /\ d \in Nat /\ d > 0
  OBVIOUS
<1>2. q \in Nat /\ s \in Nat /\ s < d /\ n + d - 1 = d * q + s
  BY <1>1
<1>3. p \in Int /\ u \in Nat /\ u < d /\ -n = d * p + u
  BY <1>1
<1> HIDE DEF q, p, s, u
<1> DEFINE k == q + p
<1>4. k \in Int /\ d * k = d * q + d * p /\ d * q \in Int /\ d * p \in Int /\ d * k \in Int
  BY <1>1, <1>2, <1>3
<1>5. d * k = d - 1 - s - u
  BY <1>1, <1>2, <1>3, <1>4
<1> HIDE DEF k
<1>6. d * k < d /\ -d < d * k
  BY <1>1, <1>2, <1>3, <1>5
<1>7. ~(k >= 1)
  <2>1. k >= 1 => d * k >= d
    BY <1>1, <1>4
  <2> QED
    BY <1>1, <1>4, <1>6, <2>1
<1>8. ~(k <= -1)
  <2>1. k <= -1 => d * k <= -d
    BY <1>1, <1>4
  <2> QED
    BY <1>1, <1>4, <1>6, <2>1
<1>9. k = 0
  BY <1>4, <1>7, <1>8
<1>10. q + p = 0
  BY <1>9 DEF k
<1>11. -p = q
  BY <1>2, <1>3, <1>10
<1> QED
  BY <1>2, <1>11 DEF p, q

(* A non-empty set of naturals has its minimum among its members. *)
LEMMA MinIsMember ==
  ASSUME NEW T \in SUBSET Nat, T # {}
  PROVE  Min(T) \in T
<1>1. PICK n \in T : \A m \in T : ~(<<m, n>> \in OpToRel(<, Nat))
  BY NatLessThanWellFounded, WFMin, Zenon
<1>2. \A m \in T : ~(m < n)
  BY <1>1 DEF OpToRel
<1>3. \A m \in T : n <= m
  BY <1>2
<1> QED
  BY <1>3, Zenon DEF Min

-----------------------------------------------------------------------------
(* The kernels of the graphs *)

Built == {"warm", "piecewise", "group", "engine", "capture", "serving"}

(* FusedAsChosen is inductive once the graphs belong to applications that    *)
(* made their choice, and the process-wide switch is the choice of the last. *)
Kernels ==
  /\ chosen \in Seq(BOOLEAN)
  /\ \A graph \in captured : graph.app \in 1..App /\ graph.fused = chosen[graph.app]
  /\ stage \in Built \cup {"crashed"} => App >= 1 /\ switch = chosen[App]

LEMMA NextKernels ==
  ASSUME Kernels, [Next]_vars
  PROVE  Kernels'
<1>1. App \in Nat
  BY DEF Kernels, App
<1>2. CASE Fuse
  <2>1. CASE stage' = "refused" /\ UNCHANGED <<switch, chosen, captured>>
    BY <2>1 DEF Kernels, Built, App
  <2>2. ASSUME NEW flag \in TriStates, stage' = "warm", captured' = captured,
               chosen' = Append(chosen, On(flag, FusedDefault)), switch' = On(flag, FusedDefault)
        PROVE  Kernels'
    <3> DEFINE f == On(flag, FusedDefault)
    <3>1. f \in BOOLEAN
      BY DEF On
    <3> HIDE DEF f
    <3>2. /\ chosen' \in Seq(BOOLEAN) /\ Len(chosen') = Len(chosen) + 1 /\ chosen'[Len(chosen) + 1] = f
          /\ \A i \in 1..Len(chosen) : chosen'[i] = chosen[i]
      BY <2>2, <3>1 DEF Kernels, f
    <3>3. switch' = f
      BY <2>2 DEF f
    <3> QED
      BY <1>1, <2>2, <3>2, <3>3 DEF Kernels, App
  <2> QED
    BY <1>2, <2>1, <2>2, Zenon DEF Fuse, Refuse, UseFused
<1>3. CASE stage \in Built /\ captured' = Recorded /\ UNCHANGED <<switch, chosen>>
  <2>1. \A graph \in captured' : graph \in captured \/ (graph.app = App /\ graph.fused = switch)
    BY <1>3 DEF Recorded
  <2> QED
    BY <1>1, <1>3, <2>1 DEF Kernels, App
<1>4. CASE UNCHANGED shared /\ (stage' \in Built \cup {"crashed"} => stage \in Built \cup {"crashed"})
  BY <1>4 DEF Kernels, shared, App
<1>5. CASE EnableDecodeGraphs
  BY <1>3, <1>4, <1>5 DEF EnableDecodeGraphs, Built, shared
<1>6. CASE CaptureGroup
  BY <1>3, <1>6 DEF CaptureGroup, Built
<1> QED
  BY <1>2, <1>4, <1>5, <1>6
  DEF Next, vars, shared, Parse, ResolveRuntimeDefaults, ResolveAttention, LoadBundle, LoadQwen,
      ResolveEngineDefaults, WarmFlashInfer, DecideGrouped, BuildEngine, OpenCapture,
      Serve, Relaunch, Refuse, Built

(* use_fused_elementwise: whatever the applications before it chose, a graph *)
(* keeps the kernels its own application chose.                              *)
THEOREM GraphsKeepTheirKernels == Spec => []FusedAsChosen
<1>1. Init => Kernels
  BY DEF Init, Kernels, Built, App
<1>2. Kernels => FusedAsChosen
  BY DEF Kernels, FusedAsChosen, Built, App
<1> QED
  BY <1>1, <1>2, NextKernels, PTL DEF Spec

-----------------------------------------------------------------------------
(* The blocks of the captures *)

Unbuilt == {"parse", "resolve", "attention", "load", "defaults", "fuse", "warm", "piecewise",
            "group", "engine"}

Typed ==
  /\ stage \in Unbuilt \cup {"capture", "serving", "refused", "crashed"}
  /\ pool \in [free : Nat, size : Nat] /\ held \in Nat
  /\ features \in [lookup : BOOLEAN, cache : BOOLEAN, window : {1, 8}, graphs : BOOLEAN,
                   grouped : BOOLEAN]
  /\ todo \subseteq Buckets

(* The throw-away tables hold what the pool misses, and the buckets a whole  *)
(* pool can hold a window for are the ones captured or still to capture.     *)
Pools ==
  /\ Typed
  /\ pool.free + held = pool.size
  /\ stage # "capture" => held = 0
  /\ held > 0 => todo # {}
  /\ stage # "crashed"
  /\ stage \in Unbuilt => runners = {} /\ todo = {}
  /\ stage = "serving" => todo = {}
  /\ stage \in {"capture", "serving"} =>
       runners \cup todo = IF features.grouped THEN Holdable(pool.size) ELSE {}

LEMMA NeededIsHoldable ==
  ASSUME NEW size \in Nat, NEW free \in Nat
  PROVE  Needed(size) \in Nat /\ (size * TableBlocks <= free <=> Needed(size) <= free)
<1>1. BlockSize \in Nat \ {0} /\ CaptureBudget \in Nat
  BY StartupAssumption
<1>2. /\ TableBlocks = (CaptureBudget + BlockSize - 1) \div BlockSize
      /\ (CaptureBudget + BlockSize - 1) \div BlockSize \in Nat
  BY <1>1, CeilingsAgree DEF TableBlocks
<1> QED
  BY <1>2 DEF Needed

LEMMA CaptureStepsPools ==
  ASSUME Pools, OpenCapture \/ CaptureGroup
  PROVE  Pools'
<1> DEFINE first == Min(todo)
<1>1. /\ Typed /\ pool.free \in Nat /\ pool.size \in Nat /\ held \in Nat
      /\ pool = [free |-> pool.free, size |-> pool.size]
      /\ stage = "capture" /\ todo \subseteq Nat
  BY StartupAssumption DEF Pools, Typed, OpenCapture, CaptureGroup
<1>2. todo # {} => first \in todo
  BY <1>1, MinIsMember
<1> HIDE DEF first
<1>3. CASE OpenCapture
  <2>1. /\ todo # {} /\ held = 0 /\ pool.free = pool.size /\ first \in todo /\ first \in Nat
    BY <1>1, <1>2, <1>3 DEF OpenCapture, Pools
  <2>2. CASE ~OnCuda
    <3>1. /\ runners' = runners \cup {first} /\ todo' = todo \ {first}
          /\ UNCHANGED <<stage, pool, held, features>>
      BY <1>3, <2>2, Zenon DEF OpenCapture, first, flags
    <3>2. runners' \cup todo' = runners \cup todo
      BY <2>1, <3>1
    <3>3. Holdable(pool.size)' = Holdable(pool.size)
      BY <3>1 DEF Holdable, TableBlocks
    <3> QED
      BY <1>1, <2>1, <3>1, <3>2, <3>3 DEF Pools, Typed, Unbuilt
  <2>3. CASE OnCuda
    <3>1. Needed(first) \in Nat /\ Needed(first) <= pool.free
      <4>1. todo \subseteq Holdable(pool.size)
        BY <1>1 DEF Pools
      <4>2. first * TableBlocks <= pool.size
        BY <2>1, <4>1 DEF Holdable
      <4> QED
        BY <1>1, <2>1, <4>2, NeededIsHoldable
    <3>2. /\ held' = Needed(first) /\ pool' = [pool EXCEPT !.free = @ - Needed(first)]
          /\ UNCHANGED <<stage, todo, runners, features>>
      BY <1>3, <2>3, <3>1, Zenon DEF OpenCapture, first, flags
    <3>3. pool' = [free |-> pool.free - Needed(first), size |-> pool.size]
      BY <1>1, <3>2
    <3>4. Holdable(pool.size)' = Holdable(pool.size)
      BY <3>3 DEF Holdable, TableBlocks
    <3> QED
      BY <1>1, <2>1, <3>1, <3>2, <3>3, <3>4 DEF Pools, Typed, Unbuilt
  <2> QED
    BY <2>2, <2>3
<1>4. CASE CaptureGroup
  <2>1. /\ todo # {} /\ first \in todo /\ held' = 0 /\ UNCHANGED features
        /\ pool' = [free |-> pool.free + held, size |-> pool.size]
    BY <1>1, <1>2, <1>4 DEF CaptureGroup, FreeTables, Pools
  <2>2. Holdable(pool.size)' = Holdable(pool.size)
    BY <2>1 DEF Holdable, TableBlocks
  <2>3. CASE Native
    <3>1. /\ runners' = runners \cup {first} /\ todo' = todo \ {first} /\ UNCHANGED stage
      BY <1>4, <2>3, Zenon DEF CaptureGroup, first
    <3>2. runners' \cup todo' = runners \cup todo
      BY <2>1, <3>1
    <3> QED
      BY <1>1, <2>1, <2>2, <3>1, <3>2 DEF Pools, Typed, Unbuilt
  <2>4. CASE ~Native
    <3>1. stage' = "refused" /\ UNCHANGED <<runners, todo>>
      BY <1>4, <2>4, Zenon DEF CaptureGroup, Refuse
    <3> QED
      BY <1>1, <2>1, <3>1 DEF Pools, Typed, Unbuilt
  <2> QED
    BY <2>3, <2>4
<1> QED
  BY <1>3, <1>4

LEMMA NextPools ==
  ASSUME Pools, [Next]_vars
  PROVE  Pools'
<1>1. CASE OpenCapture \/ CaptureGroup
  BY <1>1, CaptureStepsPools
<1>2. CASE BuildEngine
  <2>1. stage = "engine" /\ held = 0 /\ runners = {} /\ todo = {} /\ UNCHANGED <<held, runners, features>>
    BY <1>2 DEF BuildEngine, Pools, Unbuilt
  <2>2. CASE stage' = "refused" /\ UNCHANGED <<pool, todo>>
    BY <2>1, <2>2 DEF Pools, Typed, Unbuilt
  <2>3. ASSUME NEW size \in PoolSizes, stage' = "capture", pool' = [free |-> size, size |-> size],
               todo' = IF features.grouped THEN Holdable(size) ELSE {}
        PROVE  Pools'
    <3>1. size \in Nat /\ Holdable(size) \subseteq Buckets
      BY StartupAssumption DEF Holdable
    <3>2. pool'.size = size /\ pool'.free = size
      BY <2>3
    <3>3. Holdable(pool.size)' = Holdable(size)
      BY <3>2 DEF Holdable, TableBlocks
    <3> QED
      BY <2>1, <2>3, <3>1, <3>2, <3>3 DEF Pools, Typed, Unbuilt
  <2> QED
    BY <1>2, <2>2, <2>3, Zenon DEF BuildEngine, Refuse
<1>3. CASE stage \in {"serving", "refused"} /\ Relaunch
  <2>1. /\ stage' = "parse" /\ features' = NoFeatures /\ pool' = NoPool /\ todo' = {} /\ held' = 0
        /\ runners' = {}
    BY <1>3 DEF Relaunch
  <2> QED
    BY <2>1 DEF Pools, Typed, Unbuilt, NoFeatures, NoPool
<1>4. CASE Serve
  <2>1. stage = "capture" /\ stage' = "serving" /\ todo = {} /\ held = 0 /\ UNCHANGED <<features, engine>>
    BY <1>4 DEF Serve
  <2>2. Holdable(pool.size)' = Holdable(pool.size)
    BY <2>1 DEF Holdable, TableBlocks, engine
  <2> QED
    BY <2>1, <2>2 DEF Pools, Typed, Unbuilt, engine
<1>5. CASE /\ stage \in Unbuilt /\ stage' \in Unbuilt \cup {"refused"}
           /\ UNCHANGED engine
           /\ features' \in [lookup : BOOLEAN, cache : BOOLEAN, window : {1, 8}, graphs : BOOLEAN,
                             grouped : BOOLEAN]
  BY <1>5 DEF Pools, Typed, Unbuilt, engine
<1>6. CASE UNCHANGED vars
  <2>1. Holdable(pool.size)' = Holdable(pool.size)
    BY <1>6 DEF Holdable, TableBlocks, vars, engine
  <2> QED
    BY <1>6, <2>1 DEF Pools, Typed, vars, engine
<1>7. CASE ResolveEngineDefaults
  <2>1. PICK lookup, cache \in TriStates, preempt \in Preemptions, window \in {1, 8}, graphs \in BOOLEAN :
          /\ asked' = [asked EXCEPT !.lookup = lookup, !.cache = cache, !.preempt = preempt]
          /\ features' = [features EXCEPT !.lookup = On(lookup, ~OnCuda),
                                          !.cache = On(cache, IsBundle /\ ~OnCuda),
                                          !.window = window, !.graphs = graphs]
    BY <1>7 DEF ResolveEngineDefaults
  <2>2. On(lookup, ~OnCuda) \in BOOLEAN /\ On(cache, IsBundle /\ ~OnCuda) \in BOOLEAN
    BY DEF On
  <2>3. features' \in [lookup : BOOLEAN, cache : BOOLEAN, window : {1, 8}, graphs : BOOLEAN,
                      grouped : BOOLEAN]
    BY <2>1, <2>2 DEF Pools, Typed
  <2> QED
    BY <1>5, <1>7, <2>3 DEF ResolveEngineDefaults, Unbuilt
<1>8. CASE DecideGrouped
  <2>1. PICK flag \in TriStates : features' = [features EXCEPT !.grouped = On(flag, GroupedDefault)]
    BY <1>8, Zenon DEF DecideGrouped
  <2>2. On(flag, GroupedDefault) \in BOOLEAN
    BY DEF On
  <2>3. features' \in [lookup : BOOLEAN, cache : BOOLEAN, window : {1, 8}, graphs : BOOLEAN,
                      grouped : BOOLEAN]
    BY <2>1, <2>2 DEF Pools, Typed
  <2> QED
    BY <1>5, <1>8, <2>3 DEF DecideGrouped, Unbuilt
<1>9. CASE Parse \/ ResolveRuntimeDefaults \/ ResolveAttention \/ LoadBundle \/ LoadQwen \/ Fuse
           \/ WarmFlashInfer \/ EnableDecodeGraphs
  <2>1. /\ stage \in Unbuilt /\ stage' \in Unbuilt \cup {"refused"}
        /\ UNCHANGED <<features, engine>>
    BY <1>9
    DEF Parse, ResolveRuntimeDefaults, ResolveAttention, LoadBundle, LoadQwen, Fuse, WarmFlashInfer,
        EnableDecodeGraphs, Refuse, Unbuilt
  <2> QED
    BY <1>5, <2>1 DEF Pools, Typed
<1> QED
  BY <1>1, <1>2, <1>3, <1>4, <1>6, <1>7, <1>8, <1>9 DEF Next, Relaunch

(* capture_decode_buckets: the throw-away tables leave the pool whole, no    *)
(* allocation of a capture fails, and the buckets a whole pool can hold a    *)
(* window for are the ones captured.                                         *)
THEOREM CapturesLeavePoolWhole == Spec => []PoolWhole
<1>1. Init => Pools
  BY DEF Init, Pools, Typed, Unbuilt, NoFeatures, NoPool
<1>2. Pools => PoolWhole
  <2>1. SUFFICES ASSUME Pools PROVE PoolWhole
    OBVIOUS
  <2>2. pool.free \in Nat /\ pool.size \in Nat
    BY <2>1 DEF Pools, Typed
  <2>3. \A size \in Buckets : size \in Holdable(pool.size) <=> Needed(size) <= pool.size
    <3>1. TAKE size \in Buckets
    <3>2. size \in Nat
      BY StartupAssumption
    <3> QED
      BY <2>2, <3>2, NeededIsHoldable DEF Holdable
  <2> QED
    BY <2>1, <2>2, <2>3 DEF Pools, PoolWhole
<1> QED
  BY <1>1, <1>2, NextPools, PTL DEF Spec

-----------------------------------------------------------------------------
(* Flags left at auto *)

FlagsTyped ==
  asked \in [device : AskedDevices \cup {"auto"}, lookup : TriStates \cup {"auto"},
             cache : TriStates \cup {"auto"}, grouped : TriStates \cup {"auto"},
             fused : TriStates \cup {"auto"}, preempt : BOOLEAN]

(* AutosNeverClash is inductive with the flag the engine's grouped graphs were *)
(* decided from: nothing it was read from changes before the captures end.     *)
Autos ==
  /\ FlagsTyped
  /\ stage \in {"engine", "capture"} => features.grouped = On(asked.grouped, GroupedDefault)
  /\ AutosNeverClash

LEMMA NextAutos ==
  ASSUME Pools, Autos, [Next]_vars
  PROVE  Autos'
<1>1. Typed /\ FlagsTyped
  BY DEF Pools, Autos
<1>2. CASE ResolveEngineDefaults
  <2>1. PICK lookup, cache \in TriStates, preempt \in Preemptions :
          asked' = [asked EXCEPT !.lookup = lookup, !.cache = cache, !.preempt = preempt]
    BY <1>2, ZenonT(30) DEF ResolveEngineDefaults
  <2>2. stage' = "fuse" /\ preempt \in BOOLEAN
    BY <1>2, StartupAssumption DEF ResolveEngineDefaults
  <2> QED
    BY <1>1, <2>1, <2>2 DEF Autos, FlagsTyped, AutosNeverClash
<1>3. CASE Fuse
  <2>1. PICK flag \in TriStates :
          /\ asked' = [asked EXCEPT !.fused = flag]
          /\ \/ On(flag, FusedDefault) /\ ~(OnCuda /\ IsBundle) /\ stage' = "refused"
             \/ stage' = "warm"
    BY <1>3, Zenon DEF Fuse, Refuse
  <2>2. FlagsTyped' /\ asked'.fused = flag
    BY <1>1, <2>1 DEF FlagsTyped
  <2>3. stage' = "refused" => asked'.fused # "auto"
    BY <2>1, <2>2 DEF On, FusedDefault
  <2> QED
    BY <2>1, <2>2, <2>3 DEF Autos, AutosNeverClash
<1>4. CASE DecideGrouped
  <2>1. PICK flag \in TriStates :
          /\ asked' = [asked EXCEPT !.grouped = flag]
          /\ features' = [features EXCEPT !.grouped = On(flag, GroupedDefault)]
          /\ stage' = "engine" /\ UNCHANGED model
    BY <1>4, Zenon DEF DecideGrouped
  <2>2. FlagsTyped' /\ asked'.grouped = flag /\ asked'.preempt = asked.preempt
    BY <1>1, <2>1 DEF FlagsTyped
  <2>3. /\ features'.grouped = On(flag, GroupedDefault) /\ features'.graphs = features.graphs
        /\ features'.window = features.window /\ features'.lookup = features.lookup
    BY <1>1, <2>1 DEF Typed
  <2>4. GroupedDefault' = GroupedDefault
    BY <2>1, <2>2, <2>3 DEF GroupedDefault, OnCuda, IsBundle, Native
  <2> QED
    BY <2>1, <2>2, <2>3, <2>4 DEF Autos, AutosNeverClash
<1>5. CASE BuildEngine
  <2>1. /\ stage = "engine" /\ UNCHANGED <<asked, model, features>>
        /\ (Clashes /\ stage' = "refused") \/ stage' = "capture"
    BY <1>5 DEF BuildEngine, Refuse
  <2>2. GroupedDefault' = GroupedDefault /\ FlagsTyped'
    BY <1>1, <2>1 DEF GroupedDefault, OnCuda, IsBundle, Native, FlagsTyped
  <2>3. Clashes /\ asked.grouped = "auto" => asked.preempt
    BY <2>1 DEF Clashes, Autos, On, GroupedDefault
  <2> QED
    BY <2>1, <2>2, <2>3 DEF Autos, AutosNeverClash
<1>6. CASE OpenCapture \/ CaptureGroup
  <2>1. /\ stage = "capture" /\ UNCHANGED <<asked, model, features>>
        /\ stage' \in {"capture", "crashed"} \/ (stage' = "refused" /\ held > 0 /\ ~Native)
    BY <1>6 DEF OpenCapture, CaptureGroup, Refuse, flags
  <2>2. GroupedDefault' = GroupedDefault /\ FlagsTyped'
    BY <1>1, <2>1 DEF GroupedDefault, OnCuda, IsBundle, Native, FlagsTyped
  <2>3. held > 0 => features.grouped
    BY <2>1 DEF Pools
  <2>4. stage' = "refused" => asked.grouped # "auto"
    BY <2>1, <2>3 DEF Autos, On, GroupedDefault
  <2> QED
    BY <2>1, <2>2, <2>4 DEF Autos, AutosNeverClash
<1>7. CASE /\ asked' = asked \/ \E device \in AskedDevices : asked' = [asked EXCEPT !.device = device]
           /\ stage' \notin {"engine", "capture"}
           /\ stage' = "refused" => why' \notin {"fuse", "engine", "capture"}
  <2>1. FlagsTyped'
    BY <1>1, <1>7 DEF FlagsTyped
  <2> QED
    BY <1>7, <2>1 DEF Autos, AutosNeverClash
<1>8. CASE Relaunch
  BY <1>8 DEF Relaunch, Autos, FlagsTyped, AutosNeverClash, Unread
<1>9. CASE UNCHANGED vars
  BY <1>1, <1>9
  DEF Autos, FlagsTyped, AutosNeverClash, GroupedDefault, OnCuda, IsBundle, Native, vars, flags
<1>10. CASE ResolveRuntimeDefaults
  BY <1>7, <1>10 DEF ResolveRuntimeDefaults
<1>11. CASE Parse \/ ResolveAttention \/ LoadBundle \/ LoadQwen \/ WarmFlashInfer
            \/ EnableDecodeGraphs \/ Serve
  BY <1>7, <1>11
  DEF Parse, ResolveAttention, LoadBundle, LoadQwen, WarmFlashInfer, EnableDecodeGraphs, Serve, Refuse,
      flags
<1> QED
  BY <1>2, <1>3, <1>4, <1>5, <1>6, <1>8, <1>9, <1>10, <1>11 DEF Next

(* build_app_from_runtime and InferenceEngine.__init__: a server without     *)
(* preemption whose features are all left at auto is never refused by them.  *)
THEOREM AutosAreNeverRefused == Spec => []AutosNeverClash
<1>1. Init => Pools /\ Autos
  BY DEF Init, Pools, Typed, Unbuilt, NoFeatures, NoPool, Autos, FlagsTyped, AutosNeverClash, Unread
<1>2. (Pools /\ Autos) /\ [Next]_vars => (Pools /\ Autos)'
  BY NextPools, NextAutos
<1>3. Pools /\ Autos => AutosNeverClash
  BY DEF Autos
<1> QED
  BY <1>1, <1>2, <1>3, PTL DEF Spec

-----------------------------------------------------------------------------
(* What the loader accepts *)

LayerSpecs(raw) == LayerNormSpecs(raw) \cup ProjectionSpecs(raw) \cup QkNormSpecs(raw)

LayerNames(raw) ==
  {"input_norm", "q_proj", "k_proj", "v_proj", "o_proj", "post_attention_norm",
   "gate_proj", "up_proj", "down_proj"} \cup IF raw.qk_norm THEN {"q_norm", "k_norm"} ELSE {}

RootNames(raw) == {"embed_tokens", "norm"} \cup IF raw.tie_embeddings THEN {} ELSE {"lm_head"}

(* The shape normalize_state_dict demands of the tensor it copies under a name. *)
ShapeOf(raw, name) ==
  CASE name \in {"embed_tokens", "lm_head"} -> <<raw.vocab_size, raw.embedding_dim>>
    [] name \in {"norm", "input_norm", "post_attention_norm"} -> <<raw.embedding_dim>>
    [] name \in {"q_norm", "k_norm"} -> <<HeadDim(raw)>>
    [] name = "q_proj" -> <<raw.heads * HeadDim(raw), raw.embedding_dim>>
    [] name \in {"k_proj", "v_proj"} -> <<KvHeads(raw) * HeadDim(raw), raw.embedding_dim>>
    [] name = "o_proj" -> <<raw.embedding_dim, raw.embedding_dim>>
    [] name \in {"gate_proj", "up_proj"} -> <<raw.feedforward_dim, raw.embedding_dim>>
    [] name = "down_proj" -> <<raw.embedding_dim, raw.feedforward_dim>>

LEMMA SpecFields ==
  ASSUME NEW target, NEW source, NEW shape
  PROVE  /\ WeightSpec(target, source, shape).target = target
         /\ WeightSpec(target, source, shape).source = source
         /\ WeightSpec(target, source, shape).shape = shape
  BY DEF WeightSpec

LEMMA RootSpecShapes ==
  ASSUME NEW raw
  PROVE  /\ \A spec \in RootSpecs(raw) : spec.shape = ShapeOf(raw, spec.target)
         /\ \A name \in RootNames(raw) : \E spec \in RootSpecs(raw) : spec.target = name
<1>1. \A spec \in RootSpecs(raw) : spec.shape = ShapeOf(raw, spec.target)
  BY DEF RootSpecs, WeightSpec, ShapeOf
<1>2. ASSUME NEW name \in RootNames(raw)
      PROVE  \E spec \in RootSpecs(raw) : spec.target = name
  <2> DEFINE table == <<raw.vocab_size, raw.embedding_dim>>
             embedding == WeightSpec("embed_tokens", "token_embedding", table)
             norm == WeightSpec("norm", "final_norm", <<raw.embedding_dim>>)
             head == WeightSpec("lm_head", "lm_head", table)
  <2>1. CASE name = "embed_tokens"
    <3>1. embedding \in RootSpecs(raw) /\ embedding.target = name
      BY <2>1, SpecFields DEF RootSpecs
    <3> QED
      BY <3>1
  <2>2. CASE name = "norm"
    <3>1. norm \in RootSpecs(raw) /\ norm.target = name
      BY <2>2, SpecFields DEF RootSpecs
    <3> QED
      BY <3>1
  <2>3. CASE name = "lm_head" /\ ~raw.tie_embeddings
    <3>1. head \in RootSpecs(raw) /\ head.target = name
      BY <2>3, SpecFields DEF RootSpecs
    <3> QED
      BY <3>1
  <2> QED
    BY <2>1, <2>2, <2>3 DEF RootNames
<1> QED
  BY <1>1, <1>2

LEMMA LayerSpecShapes ==
  ASSUME NEW raw
  PROVE  /\ \A spec \in LayerSpecs(raw) : spec.shape = ShapeOf(raw, spec.target)
         /\ \A name \in LayerNames(raw) : \E spec \in LayerSpecs(raw) : spec.target = name
<1>1. \A spec \in LayerNormSpecs(raw) : spec.shape = ShapeOf(raw, spec.target)
  BY DEF LayerNormSpecs, WeightSpec, ShapeOf
<1>2. \A spec \in ProjectionSpecs(raw) : spec.shape = ShapeOf(raw, spec.target)
  BY DEF ProjectionSpecs, WeightSpec, ShapeOf
<1>3. \A spec \in QkNormSpecs(raw) : spec.shape = ShapeOf(raw, spec.target)
  BY DEF QkNormSpecs, WeightSpec, ShapeOf
<1>4. ASSUME NEW name \in {"input_norm", "post_attention_norm"}
      PROVE  \E spec \in LayerNormSpecs(raw) : spec.target = name
  BY DEF LayerNormSpecs, WeightSpec
<1>5. ASSUME NEW name \in {"q_norm", "k_norm"}, raw.qk_norm
      PROVE  \E spec \in QkNormSpecs(raw) : spec.target = name
  <2> DEFINE spec == WeightSpec(name, name, <<HeadDim(raw)>>)
  <2>1. spec \in QkNormSpecs(raw) /\ spec.target = name
    BY <1>5, SpecFields DEF QkNormSpecs
  <2> QED
    BY <2>1
<1>6. ASSUME NEW name \in {"q_proj", "k_proj", "v_proj", "o_proj", "gate_proj", "up_proj", "down_proj"}
      PROVE  \E spec \in ProjectionSpecs(raw) : spec.target = name
  BY DEF ProjectionSpecs, WeightSpec
<1>7. \A name \in LayerNames(raw) : \E spec \in LayerSpecs(raw) : spec.target = name
  BY <1>4, <1>5, <1>6 DEF LayerNames, LayerSpecs
<1> QED
  BY <1>1, <1>2, <1>3, <1>7 DEF LayerSpecs

Shaped(raw, specs) == \A spec \in specs : spec.shape = ShapeOf(raw, spec.target)

Placed(raw, layer, specs) ==
  /\ \A spec \in InLayer(layer, specs) : spec.shape = ShapeOf(raw, spec.target[2])
  /\ \A name : (\E spec \in specs : spec.target = name)
               => \E spec \in InLayer(layer, specs) : spec.target = <<layer, name>>

LEMMA InLayerPlaces ==
  ASSUME NEW raw, NEW specs, NEW layer, Shaped(raw, specs)
  PROVE  Placed(raw, layer, specs)
<1> DEFINE placed(spec) == WeightSpec(<<layer, spec.target>>, <<layer, spec.source>>, spec.shape)
<1>1. \A spec : placed(spec).target = <<layer, spec.target>> /\ placed(spec).shape = spec.shape
  BY SpecFields
<1>2. InLayer(layer, specs) = {placed(spec) : spec \in specs}
  BY DEF InLayer
<1> HIDE DEF placed
<1>3. \A spec \in specs : placed(spec).target[2] = spec.target
  BY <1>1
<1> QED
  BY <1>1, <1>2, <1>3 DEF Placed, Shaped

(* Every name a forward pass looks up is the target of a copy, and all the   *)
(* copies to a target demand the same shape.                                 *)
LEMMA SpecsCover ==
  ASSUME NEW raw
  PROVE  /\ \A spec \in Specs(raw) : spec.shape = ShapeOf(raw, spec.target[2])
         /\ \A target \in LookedUp(raw) : \E spec \in Specs(raw) : spec.target = target
<1> DEFINE Layers == 0..raw.layers - 1
<1>1. Specs(raw) = InLayer(Root, RootSpecs(raw)) \cup UNION {InLayer(layer, LayerSpecs(raw)) : layer \in Layers}
  BY DEF Specs, LayerSpecs
<1>2. LookedUp(raw) = ({Root} \X RootNames(raw)) \cup (Layers \X LayerNames(raw))
  BY DEF LookedUp, RootNames, LayerNames
<1> HIDE DEF Layers
<1>3. Shaped(raw, RootSpecs(raw)) /\ Shaped(raw, LayerSpecs(raw))
  BY RootSpecShapes, LayerSpecShapes DEF Shaped
<1>4. Placed(raw, Root, RootSpecs(raw)) /\ \A layer : Placed(raw, layer, LayerSpecs(raw))
  BY <1>3, InLayerPlaces, Zenon
<1>5. ASSUME NEW spec \in Specs(raw)
      PROVE  spec.shape = ShapeOf(raw, spec.target[2])
  <2>1. CASE spec \in InLayer(Root, RootSpecs(raw))
    BY <1>4, <2>1 DEF Placed
  <2>2. ASSUME NEW layer \in Layers, spec \in InLayer(layer, LayerSpecs(raw))
        PROVE  spec.shape = ShapeOf(raw, spec.target[2])
    BY <1>4, <2>2 DEF Placed
  <2> QED
    BY <1>1, <2>1, <2>2
<1>6. ASSUME NEW target \in LookedUp(raw)
      PROVE  \E spec \in Specs(raw) : spec.target = target
  <2>1. CASE target \in {Root} \X RootNames(raw)
    <3>1. PICK name \in RootNames(raw) : target = <<Root, name>>
      BY <2>1
    <3>2. PICK spec \in InLayer(Root, RootSpecs(raw)) : spec.target = target
      BY <1>4, <3>1, RootSpecShapes DEF Placed
    <3> QED
      BY <1>1, <3>2
  <2>2. CASE target \in Layers \X LayerNames(raw)
    <3>1. PICK layer \in Layers, name \in LayerNames(raw) : target = <<layer, name>>
      BY <2>2
    <3>2. PICK spec \in InLayer(layer, LayerSpecs(raw)) : spec.target = target
      <4>1. PICK spec \in LayerSpecs(raw) : spec.target = name
        BY <3>1, LayerSpecShapes
      <4>2. Placed(raw, layer, LayerSpecs(raw))
        BY <1>4
      <4> QED
        BY <3>1, <4>1, <4>2 DEF Placed
    <3> QED
      BY <1>1, <3>2
  <2> QED
    BY <1>2, <2>1, <2>2
<1> QED
  BY <1>5, <1>6

LEMMA WeightShapes ==
  ASSUME NEW bundle, Loads(bundle)
  PROVE  \A target \in LookedUp(Body(bundle, "config")) :
           /\ target \in DOMAIN Weights(bundle)
           /\ Weights(bundle)[target] = ShapeOf(Body(bundle, "config"), target[2])
<1> DEFINE raw == Body(bundle, "config")
           tensors == Body(bundle, "weights").tensors
           source(target) == CHOOSE spec \in Specs(raw) : spec.target = target
<1>1. \A spec \in Specs(raw) : tensors[spec.source].shape = spec.shape
  BY DEF Loads, CopySound
<1>2. Weights(bundle) = [target \in {spec.target : spec \in Specs(raw)} |-> tensors[source(target).source].shape]
  BY DEF Weights
<1> HIDE DEF raw, tensors
<1>3. SUFFICES ASSUME NEW target \in LookedUp(raw)
               PROVE  target \in DOMAIN Weights(bundle) /\ Weights(bundle)[target] = ShapeOf(raw, target[2])
  BY DEF raw
<1>4. \E spec \in Specs(raw) : spec.target = target
  BY SpecsCover
<1>5. source(target) \in Specs(raw) /\ source(target).target = target
  BY <1>4
<1>6. source(target).shape = ShapeOf(raw, target[2])
  BY <1>5, SpecsCover
<1> HIDE DEF source
<1>7. target \in {spec.target : spec \in Specs(raw)}
  BY <1>4
<1> QED
  BY <1>1, <1>2, <1>5, <1>6, <1>7

LEMMA HeadsDivide ==
  ASSUME NEW width \in Nat, NEW heads \in Nat \ {0}, NEW kv \in Nat \ {0},
         width % heads = 0, heads % kv = 0
  PROVE  /\ heads * (width \div heads) = width
         /\ (kv * (width \div heads)) * (heads \div kv) = heads * (width \div heads)
<1> DEFINE d == width \div heads
           g == heads \div kv
<1>1. d \in Nat /\ width = heads * d
  OBVIOUS
<1>2. g \in Nat /\ heads = kv * g
  OBVIOUS
<1> HIDE DEF d, g
<1>3. (kv * d) * g = (kv * g) * d
  BY <1>1, <1>2
<1>4. (kv * g) * d = heads * d
  BY <1>2
<1> QED
  BY <1>1, <1>3, <1>4 DEF d, g

(* Only an even number is twice its half, rounded down. *)
LEMMA TwiceTheHalf ==
  ASSUME NEW n \in Nat
  PROVE  2 * (n \div 2) = n <=> n % 2 = 0
  OBVIOUS

(* The shapes the loader checked are those the products of a pass need, the  *)
(* rotation's apart: its tables are as wide as the head if that is even.     *)
LEMMA LoadedMultiplies ==
  ASSUME NEW bundle, Loads(bundle)
  PROVE  Multiplies(Weights(bundle), Body(bundle, "config")) <=> HeadDim(Body(bundle, "config")) % 2 = 0
<1> DEFINE raw == Body(bundle, "config")
           w == Weights(bundle)
<1>1. \A target \in LookedUp(raw) : target \in DOMAIN w /\ w[target] = ShapeOf(raw, target[2])
  BY WeightShapes
<1>2. ConfigSound(raw)
  BY DEF Loads
<1> HIDE DEF raw, w
<1>3. /\ raw.embedding_dim \in Nat /\ raw.heads \in Nat \ {0} /\ raw.vocab_size \in Nat
      /\ KvHeads(raw) \in Nat \ {0} /\ raw.embedding_dim % raw.heads = 0
      /\ raw.heads % KvHeads(raw) = 0 /\ raw.layers \in Nat \ {0}
  BY <1>2 DEF ConfigSound, FieldsSound, Positives, Counts
<1>4. /\ raw.heads * HeadDim(raw) = raw.embedding_dim
      /\ (KvHeads(raw) * HeadDim(raw)) * (raw.heads \div KvHeads(raw)) = raw.heads * HeadDim(raw)
  BY <1>3, HeadsDivide DEF HeadDim
<1>5. \A name \in RootNames(raw) : w[<<Root, name>>] = ShapeOf(raw, name)
  BY <1>1 DEF LookedUp, RootNames
<1>6. \A layer \in 0..raw.layers - 1, name \in LayerNames(raw) : w[<<layer, name>>] = ShapeOf(raw, name)
  BY <1>1 DEF LookedUp, LayerNames
<1>7. w[<<Root, "embed_tokens">>] = <<raw.vocab_size, raw.embedding_dim>> /\ Width(w) = raw.embedding_dim
  BY <1>5 DEF RootNames, ShapeOf, Width
<1>8. w[<<Root, "norm">>] = <<Width(w)>>
  BY <1>5, <1>7 DEF RootNames, ShapeOf
<1>9. ~raw.tie_embeddings => w[<<Root, "lm_head">>] = w[<<Root, "embed_tokens">>]
  BY <1>5, <1>7 DEF RootNames, ShapeOf
<1>10. ASSUME NEW layer \in 0..raw.layers - 1
       PROVE  LayerMultiplies(w, raw, layer) <=> RopeWidth(raw) = HeadDim(raw)
  <2> DEFINE of(name) == w[<<layer, name>>]
  <2>1. \A name \in LayerNames(raw) : of(name) = ShapeOf(raw, name)
    BY <1>6
  <2> HIDE DEF of
  <2>2. of("input_norm") = <<raw.embedding_dim>> /\ of("post_attention_norm") = <<raw.embedding_dim>>
    BY <2>1 DEF LayerNames, ShapeOf
  <2>3. /\ of("q_proj") = <<raw.heads * HeadDim(raw), raw.embedding_dim>>
        /\ of("o_proj") = <<raw.embedding_dim, raw.embedding_dim>>
    BY <2>1 DEF LayerNames, ShapeOf
  <2>4. /\ of("k_proj") = <<KvHeads(raw) * HeadDim(raw), raw.embedding_dim>>
        /\ of("v_proj") = <<KvHeads(raw) * HeadDim(raw), raw.embedding_dim>>
    BY <2>1 DEF LayerNames, ShapeOf
  <2>5. raw.qk_norm => of("q_norm") = <<HeadDim(raw)>> /\ of("k_norm") = <<HeadDim(raw)>>
    BY <2>1 DEF LayerNames, ShapeOf
  <2>6. /\ of("gate_proj") = <<raw.feedforward_dim, raw.embedding_dim>>
        /\ of("up_proj") = <<raw.feedforward_dim, raw.embedding_dim>>
        /\ of("down_proj") = <<raw.embedding_dim, raw.feedforward_dim>>
    BY <2>1 DEF LayerNames, ShapeOf
  <2>7. of("gate_proj")[1] = raw.feedforward_dim /\ of("gate_proj")[2] = raw.embedding_dim
    BY <2>6
  <2> QED
    BY <1>4, <1>7, <2>2, <2>3, <2>4, <2>5, <2>6, <2>7 DEF LayerMultiplies, of
<1>11. LookedUp(raw) \subseteq DOMAIN w
  BY <1>1
<1>12. raw.vocab_size <= w[<<Root, "embed_tokens">>][1]
  BY <1>3, <1>7
<1>13. RopeWidth(raw) = HeadDim(raw) <=> HeadDim(raw) % 2 = 0
  <2>1. HeadDim(raw) \in Nat
    BY <1>3 DEF HeadDim
  <2> QED
    BY <2>1, TwiceTheHalf DEF RopeWidth
<1>14. (\A layer \in 0..raw.layers - 1 : LayerMultiplies(w, raw, layer)) <=> HeadDim(raw) % 2 = 0
  <2>1. 0 \in 0..raw.layers - 1
    BY <1>3
  <2> QED
    BY <1>10, <1>13, <2>1, Zenon
<1> QED
  BY <1>8, <1>9, <1>11, <1>12, <1>14 DEF Multiplies, raw, w

(* The bundle of a runtime that passed the load is one the loader accepted. *)
Loaded ==
  IsBundle /\ stage = "defaults"
    => model.bundle \in DOMAIN Exports /\ Loads(Exports[model.bundle])

ModelTyped == DOMAIN model = DOMAIN NoModel

LEMMA NextLoaded ==
  ASSUME ModelTyped, Loaded, [Next]_vars
  PROVE  ModelTyped' /\ Loaded'
<1>1. CASE LoadBundle
  <2>1. CASE stage' = "refused" /\ UNCHANGED model
    BY <2>1 DEF ModelTyped, Loaded
  <2>2. ASSUME NEW bundle \in DOMAIN Exports, Loads(Exports[bundle]),
               model' = [model EXCEPT !.bundle = bundle], stage' = "defaults"
        PROVE  ModelTyped' /\ Loaded'
    <3>1. DOMAIN model' = DOMAIN model /\ model'.bundle = bundle
      BY <2>2 DEF ModelTyped, NoModel
    <3> QED
      BY <2>2, <3>1 DEF ModelTyped, Loaded
  <2> QED
    BY <1>1, <2>1, <2>2, Zenon DEF LoadBundle, Refuse
<1>2. CASE LoadQwen \/ UNCHANGED vars
  BY <1>2 DEF LoadQwen, vars, flags, ModelTyped, Loaded, IsBundle
<1>3. CASE stage' # "defaults" /\ DOMAIN model' = DOMAIN NoModel
  BY <1>3 DEF ModelTyped, Loaded
<1>4. CASE Parse \/ ResolveRuntimeDefaults \/ ResolveAttention
  <2>1. stage' # "defaults"
    BY <1>4 DEF Parse, ResolveRuntimeDefaults, ResolveAttention, Refuse
  <2>2. DOMAIN model' = DOMAIN model
    BY <1>4 DEF Parse, ResolveRuntimeDefaults, ResolveAttention
  <2> QED
    BY <1>3, <2>1, <2>2 DEF ModelTyped
<1>5. CASE Relaunch
  BY <1>3, <1>5 DEF Relaunch
<1>6. CASE \/ ResolveEngineDefaults \/ Fuse \/ WarmFlashInfer \/ EnableDecodeGraphs \/ DecideGrouped
           \/ BuildEngine \/ OpenCapture \/ CaptureGroup \/ Serve
  <2>1. stage' # "defaults" /\ UNCHANGED model
    BY <1>6
    DEF ResolveEngineDefaults, Fuse, WarmFlashInfer, EnableDecodeGraphs, DecideGrouped, BuildEngine,
        OpenCapture, CaptureGroup, Serve, Refuse, flags
  <2> QED
    BY <1>3, <2>1 DEF ModelTyped
<1> QED
  BY <1>1, <1>2, <1>4, <1>5, <1>6 DEF Next

(* PretrainBundleModel.load: every bundle it accepts has the weights a       *)
(* forward pass looks up, and their products exist exactly when its heads    *)
(* have an even width.                                                       *)
THEOREM LoadedBundlesRun == Spec => []ForwardRuns
<1>1. Init => ModelTyped /\ Loaded
  BY DEF Init, ModelTyped, Loaded
<1>2. Loaded => ForwardRuns
  BY LoadedMultiplies, Zenon DEF Loaded, ForwardRuns
<1>3. (ModelTyped /\ Loaded) /\ [Next]_vars => (ModelTyped /\ Loaded)'
  BY NextLoaded
<1> QED
  BY <1>1, <1>2, <1>3, PTL DEF Spec

=============================================================================
