---------------------------- MODULE MCTextStream ----------------------------
(* Requests of every endpoint: some well-formed, some with one defect.     *)
EXTENDS TextStream

Plain == [endpoint |-> "chat", schema |-> TRUE, model |-> "served", unsupported |-> {},
          prompt |-> 2, maxTokens |-> 4, sampling |-> TRUE, stops |-> <<>>,
          bare |-> TRUE, group |-> FALSE, stream |-> TRUE, usage |-> FALSE]

Ab  == <<"a", "b">>
Bab == <<"b", "a", "b">>
Ae  == <<"a", "()">>

Good ==
  {[Plain EXCEPT !.endpoint = "chat", !.stops = <<Ab>>, !.usage = TRUE],
   [Plain EXCEPT !.endpoint = "text", !.stops = <<Bab, <<>>>>],
   [Plain EXCEPT !.endpoint = "responses", !.stops = <<Ae, Bab>>],
   [Plain EXCEPT !.endpoint = "responses", !.stops = <<Ab>>, !.stream = FALSE],
   [Plain EXCEPT !.stops = <<<<"b", "a">>, <<"a", "a", "b">>>>, !.stream = FALSE],
   Plain, [Plain EXCEPT !.group = TRUE]}

Bad ==
  {[Plain EXCEPT !.schema = FALSE], [Plain EXCEPT !.maxTokens = 0], [Plain EXCEPT !.prompt = 0],
   [Plain EXCEPT !.endpoint = "responses", !.prompt = 0], [Plain EXCEPT !.endpoint = "text", !.prompt = 0],
   [Plain EXCEPT !.endpoint = "responses", !.prompt = 0, !.bare = FALSE],
   [Plain EXCEPT !.maxTokens = 6], [Plain EXCEPT !.maxTokens = 7], [Plain EXCEPT !.prompt = 9],
   [Plain EXCEPT !.model = "other"], [Plain EXCEPT !.sampling = FALSE],
   [Plain EXCEPT !.stops = <<Ab, Bab, Ae>>], [Plain EXCEPT !.stops = <<Bab \o Ab>>],
   [Plain EXCEPT !.endpoint = "text", !.unsupported = {"batch"}]} \cup
  {[Plain EXCEPT !.endpoint = e, !.unsupported = {u}] : e \in {"chat", "responses"},
   u \in {"tools", "store", "n"}}

Everything == Good \cup Bad
Letters == {"a", "b", "(", ")", "()", "?"}
Byte == {<<"a">>, <<"b">>, <<"b", "a">>, <<"b", "(">>, <<"(">>, <<")">>}
TheEnd == <<"end">>
=============================================================================
