----------------------------- MODULE MCStartup -----------------------------
EXTENDS Startup, TLC

\* config.json of a model of width 4 with two query heads and one key head.
Raw == [vocab_size |-> 3, embedding_dim |-> 4, feedforward_dim |-> 5, layers |-> 1, heads |-> 2,
        kv_heads |-> 1, rms_norm_eps |-> 1, rope_theta |-> 1, tie_embeddings |-> FALSE, qk_norm |-> TRUE]
Without(f, field) == [x \in DOMAIN f \ {field} |-> f[x]]

\* The tensors an exporter writes for a configuration whose key projections are kv wide.
Tensors(raw, kv) ==
  LET hidden == raw.embedding_dim
      sources(names, shape) == [name \in names |-> [shape |-> shape, floating |-> TRUE]]
      in == sources({<<Root, "final_norm">>, <<0, "attention_norm">>, <<0, "feedforward_norm">>}, <<hidden>>)
      table == sources({<<Root, "token_embedding">>, <<Root, "lm_head">>}, <<raw.vocab_size, hidden>>)
      norms == sources({<<0, "q_norm">>, <<0, "k_norm">>}, <<hidden \div raw.heads>>)
      square == sources({<<0, "wq">>, <<0, "wo">>}, <<hidden, hidden>>)
      keys == sources({<<0, "wk">>, <<0, "wv">>}, <<kv, hidden>>)
      wide == sources({<<0, "w_gate">>, <<0, "w_up">>}, <<raw.feedforward_dim, hidden>>)
      down == sources({<<0, "w_down">>}, <<hidden, raw.feedforward_dim>>)
  IN in @@ table @@ norms @@ square @@ keys @@ wide @@ down

Export(raw, tensors) ==
  [dir |-> TRUE,
   manifest |-> [format |-> "dense_v1", schema_version |-> 1,
                 tokenizer |-> [path |-> "tokenizer.json"], model_config |-> raw,
                 files |-> [config |-> [path |-> "config.json", sha256 |-> "c"],
                            tokenizer |-> [path |-> "tokenizer.json", sha256 |-> "t"],
                            weights |-> [path |-> "weights.pt", sha256 |-> "w"]]],
   store |-> "config.json" :> [digest |-> "c", body |-> raw]
          @@ "tokenizer.json" :> [digest |-> "t", body |-> "json"]
          @@ "weights.pt" :> [digest |-> "w",
                body |-> [readable |-> TRUE, tensors |-> tensors,
                          metadata |-> [key_format |-> "dense_v1", format_version |-> 1,
                                        model_config |-> raw]]]]

Good == Export(Raw, Tensors(Raw, 2))
Tied == [Raw EXCEPT !.tie_embeddings = TRUE]
Plain == [Raw EXCEPT !.qk_norm = FALSE]
Multihead == Without(Raw, "kv_heads")
Uneven == [Raw EXCEPT !.embedding_dim = 6, !.heads = 3, !.kv_heads = 2]
Ragged == [Raw EXCEPT !.embedding_dim = 5]
Odd == [Raw EXCEPT !.embedding_dim = 6, !.kv_heads = 2]
Single == [Raw EXCEPT !.embedding_dim = 2]
Capped(cap) == "logit_soft_cap" :> cap @@ Raw
Template(type, setting) == [type |-> type, add_special_tokens |-> setting]
Labelled(manifest, tokenizer) ==
  [Good EXCEPT !.manifest = manifest @@ [@ EXCEPT !.tokenizer = tokenizer @@ @]]

\* Complete exports, and exports that each break one thing the loader checks.
Sound ==
  [good |-> Good,
   tied |-> Export(Tied, Without(Tensors(Tied, 2), <<Root, "lm_head">>)),
   plain |-> Export(Plain, Without(Without(Tensors(Plain, 2), <<0, "q_norm">>), <<0, "k_norm">>)),
   multihead |-> Export(Multihead, Tensors(Multihead, 4)),
   odd |-> Export(Odd, Tensors(Odd, 6)),
   single |-> Export(Single, Tensors(Single, 1)),
   capped |-> Export(Capped(0), Tensors(Raw, 2)),
   older |-> [Good EXCEPT !.manifest = Without(@, "schema_version")],
   shadowed |-> Labelled("chat_template" :> Template("object", "string"),
                         "chat_template" :> Template("list", "string") @@ "add_special_tokens" :> "boolean")]
Broken ==
  [uneven |-> Export(Uneven, Tensors(Uneven, 4)),
   ragged |-> Export(Ragged, Tensors(Ragged, 2)),
   empty |-> Export([Raw EXCEPT !.layers = 0], Tensors(Raw, 2)),
   unnamed |-> Export(Without(Raw, "vocab_size"), Tensors(Raw, 2)),
   headless |-> Export(Raw, Without(Tensors(Raw, 2), <<Root, "lm_head">>)),
   widened |-> Export(Raw, Tensors(Raw, 4)),
   quantised |-> Export(Raw, [Tensors(Raw, 2) EXCEPT ![<<0, "wq">>].floating = FALSE]),
   nowhere |-> [Good EXCEPT !.dir = FALSE],
   foreign |-> [Good EXCEPT !.manifest.format = "other"],
   newer |-> [Good EXCEPT !.manifest.schema_version = 2],
   relabelled |-> [Good EXCEPT !.manifest.model_config = Tied],
   mislaid |-> [Good EXCEPT !.store = Without(@, "weights.pt")],
   escaping |-> [Good EXCEPT !.manifest.files.config.path = "../config.json"],
   altered |-> [Good EXCEPT !.store["tokenizer.json"].digest = "x"],
   renamed |-> [Good EXCEPT !.manifest.tokenizer.path = "other.json"],
   uncapped |-> Export(Capped(-1), Tensors(Raw, 2)),
   listed |-> Labelled(<<>>, "chat_template" :> Template("list", "boolean")),
   quoted |-> Labelled("chat_template" :> Template("object", "string"), <<>>),
   garbled |-> [Good EXCEPT !.store["tokenizer.json"].body = "text"],
   truncated |-> [Good EXCEPT !.store["weights.pt"].body.readable = FALSE],
   swapped |-> [Good EXCEPT !.store["weights.pt"].body.metadata.model_config = Tied]]
AllExports == Sound @@ Broken

Installed == {{}, {"flashinfer"}, {"flash_attn", "flashinfer"}}
AnyAttention == {"auto", "torch_naive", "torch_sdpa", "flash_attn", "flashinfer"}
AnyFlag == {"auto", "on", "off"}

=============================================================================
