------------------------------ MODULE Startup ------------------------------
(***************************************************************************)
(* From the command line to a serving application: serve.main resolves the *)
(* flags left at auto, loads the model, and build_app_from_runtime fixes   *)
(* the elementwise kernels, warms the attention backend, captures the      *)
(* decode graphs and builds the engine, which may refuse the combination.  *)
(*                                                                         *)
(* A flag is an input read once, so it is chosen where the code reads it.  *)
(* One process may build several applications, one after another.  The     *)
(* device "mps" takes every branch of "cpu".                               *)
(***************************************************************************)
EXTENDS Bundle, FiniteSetsExt

CONSTANTS
  Exports,      \* name -> the export that may lie at the bundle path
  Flashes,      \* which of "flash_attn" and "flashinfer" may be installed: a set of sets
  AskedDevices, AskedDtypes, AskedAttention,   \* values of the flags, "auto" when absent
  TriStates,    \* of each feature flag: subset of {"auto", "on", "off"}
  Preemptions,  \* subset of BOOLEAN: --preemption-policy recompute
  Buckets,      \* --decode-graph-buckets
  PoolSizes,    \* values of --num-blocks
  BlockSize,    \* --block-size
  CaptureBudget,\* _CAPTURE_PLAN_BUDGET
  MaxLaunches   \* bound: applications one process builds

ASSUME StartupAssumption ==
  /\ Buckets \cup PoolSizes \subseteq Nat \ {0}
  /\ Preemptions \subseteq BOOLEAN
  /\ {BlockSize, CaptureBudget, MaxLaunches} \subseteq Nat \ {0}

VARIABLES
  stage,     \* the step of main or build_app_from_runtime that runs next
  why,       \* the step that refused
  asked,     \* the flags read so far
  model,     \* backend, device, dtype, attention object and the bundle of the runtime
  features,  \* resolved: lookup, cache, window, graphs, grouped
  pool,      \* free blocks of the engine under construction and its size
  todo,      \* buckets whose grouped graph is still to capture
  held,      \* blocks of the capture's throw-away tables
  runners,   \* InferenceEngine.grouped_decode_runners of this application
  switch,    \* process-wide: the elementwise kernels are the compiled ones
  chosen,    \* fused_elementwise of each application built
  captured   \* graphs in memory: the application and the kernels each recorded

flags == <<why, asked, model>>
shared == <<switch, chosen, captured>>
engine == <<pool, todo, held, runners>>
vars == <<stage, flags, features, engine, shared>>

App == Len(chosen)
IsBundle == model.backend = "esme"
OnCuda == model.device = "cuda"
LowPrecision == model.dtype # "float32"
Native == model.attention = "flashinfer"   \* isinstance PagedDecodeAttentionBackend

Unread == [device |-> "auto", lookup |-> "auto", cache |-> "auto", grouped |-> "auto",
           fused |-> "auto", preempt |-> FALSE]
NoModel == [backend |-> "esme", device |-> "cpu", dtype |-> "float32", attention |-> "auto",
            bundle |-> "none"]
NoFeatures == [lookup |-> FALSE, cache |-> FALSE, window |-> 1, graphs |-> FALSE, grouped |-> FALSE]
NoPool == [free |-> 0, size |-> 0]

Init ==
  /\ stage = "parse" /\ why = "none" /\ asked = Unread /\ model = NoModel
  /\ features = NoFeatures
  /\ pool = NoPool /\ todo = {} /\ held = 0 /\ runners = {}
  /\ switch = FALSE /\ chosen = <<>> /\ captured = {}

Refuse == stage' = "refused" /\ why' = stage

-----------------------------------------------------------------------------
\* Before the model is loaded.

\* The backend and its bundle, from --bundle or the environment.
Parse ==
  /\ stage = "parse"
  /\ \E backend \in {"esme", "qwen"}, explicit, env \in BOOLEAN :
       /\ model' = [model EXCEPT !.backend = backend]
       /\ IF (backend = "esme" => explicit \/ env) /\ (backend = "qwen" => ~explicit)
          THEN stage' = "resolve" /\ UNCHANGED why
          ELSE Refuse
  /\ UNCHANGED <<asked, features, engine, shared>>

Device(flag) == IF flag = "auto" THEN "cpu" ELSE flag
Dtype(flag, device) ==
  IF flag # "auto" THEN flag ELSE IF device = "cuda" THEN "float32" ELSE "float16"
Selector(flag, backend, device) ==
  IF flag = "auto" /\ backend = "esme" /\ device # "cuda" THEN "torch_sdpa" ELSE flag

ResolveRuntimeDefaults ==
  /\ stage = "resolve"
  /\ \E device \in AskedDevices, dtype \in AskedDtypes, attention \in AskedAttention :
       /\ asked' = [asked EXCEPT !.device = device]
       /\ model' = [model EXCEPT !.device = Device(device), !.dtype = Dtype(dtype, Device(device)),
                                 !.attention = Selector(attention, model.backend, Device(device))]
  /\ stage' = "attention"
  /\ UNCHANGED <<why, features, engine, shared>>

\* The backend a selector constructs; "none" when it is refused.
Resolved(flashes) ==
  LET flash(name) == IF name \in flashes THEN name ELSE "none"
  IN CASE model.attention = "auto" ->
            IF IsBundle /\ OnCuda /\ LowPrecision THEN flash("flashinfer") ELSE "torch_naive"
       [] model.attention \in {"torch_naive", "torch_sdpa"} -> model.attention
       [] model.attention = "flash_attn" ->
            IF OnCuda /\ LowPrecision THEN flash("flash_attn") ELSE "none"
       [] model.attention = "flashinfer" ->
            IF IsBundle /\ OnCuda /\ LowPrecision THEN flash("flashinfer") ELSE "none"

\* A bundle's model id and revision come from the bundle: the flags are refused.
ResolveAttention ==
  /\ stage = "attention"
  /\ \E named \in BOOLEAN, flashes \in Flashes :
       LET backend == Resolved(flashes)
       IN IF (IsBundle /\ named) \/ backend = "none"
          THEN Refuse /\ UNCHANGED model
          ELSE /\ model' = [model EXCEPT !.attention = backend]
               /\ stage' = "load" /\ UNCHANGED why
  /\ UNCHANGED <<asked, features, engine, shared>>

Given(object, field) == IF field \in DOMAIN object THEN <<object[field]>> ELSE <<>>

\* The chat template and whether special tokens are added may each be given in several
\* places: the first that is given counts, and must have its JSON type.
TokenizerMetadataSound(manifest) ==
  LET templates == Given(manifest, "chat_template") \o Given(manifest.tokenizer, "chat_template")
      settings == Given(manifest.tokenizer, "add_special_tokens") \o Given(manifest, "add_special_tokens")
                  \o IF templates = <<>> THEN <<>> ELSE Given(Head(templates), "add_special_tokens")
  IN /\ templates # <<>> => Head(templates).type = "object"
     /\ settings # <<>> => Head(settings) = "boolean"

LoadBundle ==
  /\ stage = "load" /\ IsBundle
  /\ \E bundle \in DOMAIN Exports :
       IF Loads(Exports[bundle]) /\ TokenizerMetadataSound(Exports[bundle].manifest)
       THEN model' = [model EXCEPT !.bundle = bundle] /\ stage' = "defaults" /\ UNCHANGED why
       ELSE Refuse /\ UNCHANGED model
  /\ UNCHANGED <<asked, features, engine, shared>>

LoadQwen ==
  /\ stage = "load" /\ ~IsBundle
  /\ stage' = "defaults"
  /\ UNCHANGED <<flags, features, engine, shared>>

-----------------------------------------------------------------------------
\* After it: the engine's features, the kernels, the warm-up, the graphs.

On(flag, auto) == flag = "on" \/ (flag = "auto" /\ auto)

\* Both backends advertise speculation, prefix caching and paged KV.
ResolveEngineDefaults ==
  /\ stage = "defaults"
  /\ \E lookup, cache \in TriStates, preempt \in Preemptions, window \in {1, 8}, graphs \in BOOLEAN :
       /\ asked' = [asked EXCEPT !.lookup = lookup, !.cache = cache, !.preempt = preempt]
       /\ features' = [features EXCEPT !.lookup = On(lookup, ~OnCuda),
                                       !.cache = On(cache, IsBundle /\ ~OnCuda),
                                       !.window = window, !.graphs = graphs]
  /\ stage' = "fuse"
  /\ UNCHANGED <<why, model, engine, shared>>

\* Mutant: any model on CUDA.
AnyLowPrecision == OnCuda /\ LowPrecision
FusedDefault == OnCuda /\ IsBundle /\ LowPrecision
\* Mutant: an earlier application's kernels stay on.
FuseOnly(fused) == switch' = (switch \/ fused)
UseFused(fused) == switch' = fused

Fuse ==
  /\ stage = "fuse"
  /\ \E flag \in TriStates :
       LET fused == On(flag, FusedDefault)
       IN /\ asked' = [asked EXCEPT !.fused = flag]
          /\ IF fused /\ ~(OnCuda /\ IsBundle)
             THEN Refuse /\ UNCHANGED <<switch, chosen>>
             ELSE UseFused(fused) /\ chosen' = Append(chosen, fused)
                  /\ stage' = "warm" /\ UNCHANGED why
  /\ UNCHANGED <<model, features, engine, captured>>

WarmFlashInfer ==
  /\ stage = "warm"
  /\ stage' = "piecewise"
  /\ UNCHANGED <<flags, features, engine, shared>>

Recorded == captured \cup {[app |-> App, fused |-> switch]}

EnableDecodeGraphs ==
  /\ stage = "piecewise"
  /\ captured' = IF features.graphs /\ OnCuda /\ IsBundle THEN Recorded ELSE captured
  /\ stage' = "group"
  /\ UNCHANGED <<flags, features, engine, switch, chosen>>

\* planned_decode is a bundle's capability.
GroupedDefault ==
  /\ features.graphs /\ OnCuda /\ IsBundle /\ Native
  /\ features.window > 1 /\ ~asked.preempt /\ ~features.lookup

DecideGrouped ==
  /\ stage = "group"
  /\ \E flag \in TriStates :
       /\ asked' = [asked EXCEPT !.grouped = flag]
       /\ features' = [features EXCEPT !.grouped = On(flag, GroupedDefault)]
  /\ stage' = "engine"
  /\ UNCHANGED <<why, model, engine, shared>>

-----------------------------------------------------------------------------
\* InferenceEngine.__init__ and the grouped captures it runs.

Clashes == \/ features.cache /\ asked.preempt
           \/ features.grouped /\ ~IsBundle

\* Mutant: rounded down.
WholeTables == CaptureBudget \div BlockSize
TableBlocks == -((-CaptureBudget) \div BlockSize)
Holdable(free) == {size \in Buckets : size * TableBlocks <= free}

BuildEngine ==
  /\ stage = "engine"
  /\ IF Clashes
     THEN Refuse /\ UNCHANGED <<pool, todo>>
     ELSE \E size \in PoolSizes :
            /\ pool' = [free |-> size, size |-> size]
            /\ todo' = IF features.grouped THEN Holdable(size) ELSE {}
            /\ stage' = "capture" /\ UNCHANGED why
  /\ UNCHANGED <<asked, model, features, held, runners, shared>>

Needed(size) == size * ((CaptureBudget + BlockSize - 1) \div BlockSize)

\* Fresh tables reserve the capture window's budget; a dry pool raises OutOfBlocksError.
OpenCapture ==
  /\ stage = "capture" /\ todo # {} /\ held = 0
  /\ IF ~OnCuda
     THEN /\ runners' = runners \cup {Min(todo)} /\ todo' = todo \ {Min(todo)}
          /\ UNCHANGED <<stage, pool, held>>
     ELSE LET need == Needed(Min(todo))
          IN IF need <= pool.free
             THEN /\ held' = need /\ pool' = [pool EXCEPT !.free = @ - need]
                  /\ UNCHANGED <<stage, todo, runners>>
             ELSE stage' = "crashed" /\ UNCHANGED <<pool, held, todo, runners>>
  /\ UNCHANGED <<flags, features, shared>>

FreeTables == pool' = [pool EXCEPT !.free = @ + held] /\ held' = 0

\* The runner captures its piecewise bucket, then the group; the tables are freed either way.
CaptureGroup ==
  /\ stage = "capture" /\ held > 0
  /\ captured' = Recorded
  /\ FreeTables
  /\ IF Native
     THEN /\ runners' = runners \cup {Min(todo)} /\ todo' = todo \ {Min(todo)}
          /\ UNCHANGED <<stage, why>>
     ELSE Refuse /\ UNCHANGED <<runners, todo>>
  /\ UNCHANGED <<asked, model, features, switch, chosen>>

Serve ==
  /\ stage = "capture" /\ todo = {} /\ held = 0
  /\ stage' = "serving"
  /\ UNCHANGED <<flags, features, engine, shared>>

\* The process builds its next application; the earlier ones' graphs stay.
Relaunch ==
  /\ stage \in {"serving", "refused"} /\ App \in 1..MaxLaunches - 1
  /\ stage' = "parse" /\ why' = "none" /\ asked' = Unread /\ model' = NoModel
  /\ features' = NoFeatures
  /\ pool' = NoPool /\ todo' = {} /\ held' = 0 /\ runners' = {}
  /\ UNCHANGED shared

Next ==
  \/ Parse \/ ResolveRuntimeDefaults \/ ResolveAttention \/ LoadBundle \/ LoadQwen
  \/ ResolveEngineDefaults \/ Fuse \/ WarmFlashInfer \/ EnableDecodeGraphs \/ DecideGrouped
  \/ BuildEngine \/ OpenCapture \/ CaptureGroup \/ Serve \/ Relaunch

Spec == Init /\ [][Next]_vars

-----------------------------------------------------------------------------
\* A graph keeps the kernels it captured, so each must be captured after its own
\* application chose, whatever the applications before it chose (serve.py:102).
FusedAsChosen ==
  /\ \A graph \in captured : graph.fused = chosen[graph.app]
  /\ stage \in {"warm", "piecewise", "group", "engine", "capture", "serving"} => switch = chosen[App]

\* With every feature left at auto and no preemption, what the flags resolve to is
\* never a combination the build refuses (serve.py:278, engine.py:112).
AutosNeverClash ==
  stage = "refused" /\ {asked.lookup, asked.cache, asked.grouped, asked.fused} = {"auto"} /\ ~asked.preempt
    => why \notin {"fuse", "engine", "capture"}

\* The captures' throw-away tables leave the pool whole, captured or refused, and a
\* small pool skips a bucket instead of failing the construction (grouped_decode_graph.py:320):
\* just the buckets a whole pool can hold a window for are captured.
PoolWhole ==
  /\ stage # "crashed"
  /\ stage \in {"serving", "refused"} => pool.free = pool.size
  /\ stage = "serving" /\ features.grouped =>
       \A size \in Buckets : size \in runners <=> Needed(size) <= pool.size

\* A forward pass of a bundle that was accepted finds every weight it looks up, in shapes
\* its products take, exactly when the heads have an even width.  The head counts, shapes and
\* names the loader checks (pretrain_bundle_loader.py:62) suffice for every product but the
\* rotation, whose tables are an element short for an odd width (layers.py:68).
ForwardRuns ==
  IsBundle /\ stage = "defaults"
    => LET bundle == Exports[model.bundle]
           raw == Body(bundle, "config")
       IN Multiplies(Weights(bundle), raw) <=> HeadDim(raw) % 2 = 0

=============================================================================
