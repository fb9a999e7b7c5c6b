------------------------------- MODULE Bundle -------------------------------
(***************************************************************************)
(* What PretrainBundleModel.load accepts: an exported directory, its       *)
(* manifest, the three files the manifest names, and the tensors the       *)
(* weights hold, each copied under the name the forward pass looks up.     *)
(*                                                                         *)
(* A bundle is [dir, manifest, store]: store maps a path to the digest and *)
(* the body found there.  Numbers keep only what the checks read; a value  *)
(* of the wrong type is 0, a wrong soft cap -1.  An absent field, or a null    *)
(* where the code takes null for absent, is absent from the DOMAIN.        *)
(***************************************************************************)
EXTENDS Integers, Sequences, FiniteSets

CONSTANTS
  Format,    \* BUNDLE_FORMAT
  Version,   \* SUPPORTED_BUNDLE_SCHEMA_VERSION
  Outside    \* paths that are absolute or leave the bundle

\* A field the exporter may leave out is supported when absent.
Supported(metadata, field) == field \in DOMAIN metadata => metadata[field] = Version

ManifestSound(bundle) ==
  /\ bundle.dir
  /\ "manifest" \in DOMAIN bundle
  /\ bundle.manifest.format = Format
  /\ Supported(bundle.manifest, "schema_version")

\* The entry names a file inside the bundle, and its bytes have the declared digest.
FileSound(bundle, name) ==
  /\ name \in DOMAIN bundle.manifest.files
  /\ LET entry == bundle.manifest.files[name]
     IN /\ entry.path # ""
        /\ entry.path \notin Outside
        /\ entry.path \in DOMAIN bundle.store
        /\ bundle.store[entry.path].digest = entry.sha256

Body(bundle, name) == bundle.store[bundle.manifest.files[name].path].body

TokenizerSound(bundle) ==
  /\ bundle.manifest.tokenizer.path = bundle.manifest.files["tokenizer"].path
  /\ Body(bundle, "tokenizer") = "json"

Counts == {"vocab_size", "embedding_dim", "feedforward_dim", "layers", "heads"}
Positives == Counts \cup {"rms_norm_eps", "rope_theta"}
Flags == {"tie_embeddings", "qk_norm"}

KvHeads(raw) == IF "kv_heads" \in DOMAIN raw THEN raw.kv_heads ELSE raw.heads
HeadDim(raw) == raw.embedding_dim \div raw.heads

\* Each field is present, of its type and positive; the soft cap may be absent or 0.
FieldsSound(raw) ==
  /\ Positives \cup Flags \subseteq DOMAIN raw
  /\ \A field \in Positives : raw[field] >= 1
  /\ \A field \in Counts : raw[field] \in Nat
  /\ KvHeads(raw) \in Nat \ {0}
  /\ \A field \in Flags : raw[field] \in BOOLEAN
  /\ "logit_soft_cap" \in DOMAIN raw => raw.logit_soft_cap >= 0

\* Mutant: the key heads need not divide the query heads.
AnyHeads(raw) == FieldsSound(raw) /\ raw.embedding_dim % raw.heads = 0

ConfigSound(raw) ==
  /\ FieldsSound(raw)
  /\ raw.embedding_dim % raw.heads = 0
  /\ raw.heads % KvHeads(raw) = 0

\* weights.pt: a dictionary with a non-empty state dict and its metadata.
WeightsSound(payload, raw) ==
  /\ payload.readable
  /\ payload.tensors # <<>>
  /\ payload.metadata.key_format = Format
  /\ Supported(payload.metadata, "format_version")
  /\ payload.metadata.model_config = raw

-----------------------------------------------------------------------------
\* What normalize_state_dict copies: [target, source, shape].  A tensor is named by
\* its layer and its name in the layer; Root stands for the tensors outside the layers.
Root == -1

WeightSpec(target, source, shape) == [target |-> target, source |-> source, shape |-> shape]

RootSpecs(raw) ==
  LET table == <<raw.vocab_size, raw.embedding_dim>>
  IN {WeightSpec("embed_tokens", "token_embedding", table),
      WeightSpec("norm", "final_norm", <<raw.embedding_dim>>)}
     \cup IF raw.tie_embeddings THEN {} ELSE {WeightSpec("lm_head", "lm_head", table)}

LayerNormSpecs(raw) ==
  {WeightSpec("input_norm", "attention_norm", <<raw.embedding_dim>>),
   WeightSpec("post_attention_norm", "feedforward_norm", <<raw.embedding_dim>>)}

QkNormSpecs(raw) ==
  {WeightSpec(name, name, <<HeadDim(raw)>>) : name \in IF raw.qk_norm THEN {"q_norm", "k_norm"} ELSE {}}

ProjectionSpecs(raw) ==
  LET hidden == raw.embedding_dim
      kv == KvHeads(raw) * HeadDim(raw)
  IN {WeightSpec("q_proj", "wq", <<raw.heads * HeadDim(raw), hidden>>),
      WeightSpec("k_proj", "wk", <<kv, hidden>>),
      WeightSpec("v_proj", "wv", <<kv, hidden>>),
      WeightSpec("o_proj", "wo", <<hidden, hidden>>),
      WeightSpec("gate_proj", "w_gate", <<raw.feedforward_dim, hidden>>),
      WeightSpec("up_proj", "w_up", <<raw.feedforward_dim, hidden>>),
      WeightSpec("down_proj", "w_down", <<hidden, raw.feedforward_dim>>)}

InLayer(layer, specs) ==
  {WeightSpec(<<layer, spec.target>>, <<layer, spec.source>>, spec.shape) : spec \in specs}

\* Every tensor to copy.
Specs(raw) ==
  InLayer(Root, RootSpecs(raw)) \cup
  UNION {InLayer(layer, LayerNormSpecs(raw) \cup ProjectionSpecs(raw) \cup QkNormSpecs(raw)) :
           layer \in 0..raw.layers - 1}

\* A tensor is copied only when it is there, has the shape and is floating point.
CopySound(tensors, spec) ==
  /\ spec.source \in DOMAIN tensors
  /\ tensors[spec.source].shape = spec.shape
  /\ tensors[spec.source].floating

Loads(bundle) ==
  /\ ManifestSound(bundle)
  /\ \A name \in {"config", "tokenizer", "weights"} : FileSound(bundle, name)
  /\ TokenizerSound(bundle)
  /\ bundle.manifest.model_config = Body(bundle, "config")
  /\ ConfigSound(Body(bundle, "config"))
  /\ WeightsSound(Body(bundle, "weights"), Body(bundle, "config"))
  /\ \A spec \in Specs(Body(bundle, "config")) : CopySound(Body(bundle, "weights").tensors, spec)

\* PretrainBundleModel.w: the shape held under each target.
Weights(bundle) ==
  LET specs == Specs(Body(bundle, "config"))
  IN [target \in {spec.target : spec \in specs} |->
        Body(bundle, "weights").tensors[(CHOOSE spec \in specs : spec.target = target).source].shape]

-----------------------------------------------------------------------------
\* What one forward pass does with the weights: the names it looks up, and the
\* shapes its products, views and repeats need of each other.

LookedUp(raw) ==
  {Root} \X ({"embed_tokens", "norm"} \cup IF raw.tie_embeddings THEN {} ELSE {"lm_head"})
  \cup (0..raw.layers - 1) \X
         ({"input_norm", "q_proj", "k_proj", "v_proj", "o_proj", "post_attention_norm",
           "gate_proj", "up_proj", "down_proj"} \cup IF raw.qk_norm THEN {"q_norm", "k_norm"} ELSE {})

Width(w) == w[<<Root, "embed_tokens">>][2]

\* The rotation's tables are two copies of the frequencies of half a head, rounded down.
RopeWidth(raw) == 2 * (HeadDim(raw) \div 2)

LayerMultiplies(w, raw, layer) ==
  LET of(name) == w[<<layer, name>>]
      heads == raw.heads * HeadDim(raw)
      kv == KvHeads(raw) * HeadDim(raw)
  IN /\ of("input_norm") = <<Width(w)>> /\ of("post_attention_norm") = <<Width(w)>>
     /\ of("q_proj") = <<heads, Width(w)>> /\ of("o_proj") = <<Width(w), heads>>
     /\ of("k_proj") = <<kv, Width(w)>> /\ of("v_proj") = <<kv, Width(w)>>
     /\ kv * (raw.heads \div KvHeads(raw)) = heads
     /\ RopeWidth(raw) = HeadDim(raw)
     /\ raw.qk_norm => of("q_norm") = <<HeadDim(raw)>> /\ of("k_norm") = <<HeadDim(raw)>>
     /\ of("gate_proj")[2] = Width(w) /\ of("up_proj") = of("gate_proj")
     /\ of("down_proj") = <<Width(w), of("gate_proj")[1]>>

Multiplies(w, raw) ==
  /\ LookedUp(raw) \subseteq DOMAIN w
  /\ w[<<Root, "norm">>] = <<Width(w)>>
  /\ raw.vocab_size <= w[<<Root, "embed_tokens">>][1]
  /\ ~raw.tie_embeddings => w[<<Root, "lm_head">>] = w[<<Root, "embed_tokens">>]
  /\ \A layer \in 0..raw.layers - 1 : LayerMultiplies(w, raw, layer)

=============================================================================
