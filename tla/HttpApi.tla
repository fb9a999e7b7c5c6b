------------------------------- MODULE HttpApi -------------------------------
(***************************************************************************)
(* What the HTTP routes decide about a request before it reaches the       *)
(* engine, and the events they put on the wire.  A request is a record:    *)
(* prompts are token counts, a stop string is a sequence of characters,    *)
(* and every part of the body the server cannot honour is a name in        *)
(* `unsupported`.  Wording, ids and time stamps are left out.              *)
(***************************************************************************)
EXTENDS Integers, Sequences, FiniteSets, SequencesExt, FiniteSetsExt

CONSTANTS
  BlockSize, NumBlocks,      \* the pool, as assert_admissible sees it
  PrefixCaching,             \* the backend's capability
  MaxStops, MaxStopLength    \* _MAX_STOP_SEQUENCES, _MAX_STOP_LENGTH

ASSUME ApiAssumption ==
  /\ BlockSize \in Nat \ {0} /\ NumBlocks \in Nat \ {0}
  /\ PrefixCaching \in BOOLEAN
  /\ MaxStops \in Nat /\ MaxStopLength \in Nat

BlocksForLength(positions) == (positions + BlockSize - 1) \div BlockSize

\* mutant: the whole pool is one block larger than it is
FitsRoughly(ask) == BlocksForLength(ask.prompt + ask.maxTokens - 1) <= NumBlocks + 1

\* assert_admissible: even an empty pool must hold the worst case.
Admissible(ask) == BlocksForLength(ask.prompt + ask.maxTokens - 1) <= NumBlocks

\* Fields a schema declares although the handler refuses their values.
SharedFields == {"n", "logprobs"}
ChatFields == SharedFields \cup {"tools", "functions"}
CompletionFields == SharedFields \cup {"batch"}
ResponsesFields == {"tools", "previous_response_id", "store", "background", "n"}

(* The schemas are strict and forbid every field they do not declare.      *)
WellFormed(ask) ==
  /\ ask.schema /\ ask.maxTokens >= 1
  /\ ask.unsupported \subseteq CASE ask.endpoint = "chat"      -> ChatFields
                                 [] ask.endpoint = "text"      -> CompletionFields
                                 [] ask.endpoint = "responses" -> ResponsesFields

StopsAccepted(ask) ==
  /\ Len(ask.stops) <= MaxStops
  /\ \A n \in DOMAIN ask.stops : Len(ask.stops[n]) <= MaxStopLength

NoTools(ask) == ask.unsupported \cap {"tools", "functions"} = {}

OneChoice(ask) == ask.unsupported \cap SharedFields = {}

Stateless(ask) == ask.unsupported \cap ResponsesFields = {}

Check(ok, status) == [ok |-> ok, status |-> status]

\* SamplingParams.__post_init__ raises, and the handler answers 400.
CheckSampling(ask) == Check(ask.sampling, 400)

CheckStops(ask) == Check(StopsAccepted(ask), 400)

CheckCapacity(ask) == Check(Admissible(ask), 400)

CheckModel(ask) == Check(ask.model = "served", 404)

\* The chat template must produce tokens, and so must encoding a bare string.
CheckTemplate(ask) == Check(ask.prompt > 0, 400)

CheckEncoded(ask) == Check(ask.prompt > 0, 400)

\* A Responses input is a bare string or goes through the template.
CheckInput(ask) == IF ask.bare THEN CheckEncoded(ask) ELSE CheckTemplate(ask)

ChatChecks(ask) ==
  <<Check(NoTools(ask), 422), Check(OneChoice(ask), 422), CheckModel(ask), CheckTemplate(ask),
    CheckSampling(ask), CheckStops(ask), CheckCapacity(ask)>>

CompletionChecks(ask) ==
  <<Check(OneChoice(ask), 422), CheckModel(ask), Check("batch" \notin ask.unsupported, 400),
    CheckEncoded(ask), CheckSampling(ask), CheckStops(ask), CheckCapacity(ask)>>

ResponsesChecks(ask) ==
  <<Check(Stateless(ask), 422), CheckModel(ask), CheckInput(ask),
    CheckSampling(ask), CheckStops(ask), CheckCapacity(ask)>>

Checks(ask) ==
  <<Check(WellFormed(ask), 422)>> \o
    CASE ask.endpoint = "chat"      -> ChatChecks(ask)
      [] ask.endpoint = "text"      -> CompletionChecks(ask)
      [] ask.endpoint = "responses" -> ResponsesChecks(ask)

(* The first check that fails names the status.                            *)
Status(ask) ==
  LET checks == Checks(ask)
      failed == {n \in DOMAIN checks : ~checks[n].ok}
  IN  IF failed = {} THEN 200 ELSE checks[Min(failed)].status

(* Whether Engine.add_request, called on the loop thread, would take the   *)
(* accepted request: Request.__post_init__, the prefix-group capability,   *)
(* and the bound of Scheduler.add.                                         *)
EngineTakes(ask) ==
  /\ ask.prompt > 0 /\ ask.maxTokens >= 1
  /\ ask.group => PrefixCaching
  /\ BlocksForLength(ask.prompt + ask.maxTokens - 1) <= NumBlocks

-----------------------------------------------------------------------------
(* The wire *)

Event(type, text) == [type |-> type, text |-> text]

\* What a streamed answer starts with, before the first token is asked for.
Opening(ask) ==
  IF ~ask.stream THEN <<>>
  ELSE CASE ask.endpoint = "chat"      -> <<Event("role", <<>>)>>
         [] ask.endpoint = "responses" -> <<Event("created", <<>>)>>
         [] OTHER                      -> <<>>

DeltaChunk(text) == <<Event("delta", text)>>

\* An answer that is not streamed is only collected.
Delta(ask, text) == IF ask.stream THEN DeltaChunk(text) ELSE <<>>

FinishChunk(reason) == <<Event("finish", reason)>>

UsageChunk(ask) == IF ask.usage THEN <<Event("usage", <<>>)>> ELSE <<>>

\* The last events of the two kinds of stream ...
OpenAiEnd(ask, reason) == FinishChunk(reason) \o UsageChunk(ask) \o <<Event("[DONE]", <<>>)>>

ResponsesEnd(text) == <<Event("completed", text)>>

\* ... and the bodies of the answers that are collected.
Completion(text, reason) == <<Event("body", text), Event("finish", reason)>>

ResponseBody(text) == <<Event("body", text)>>

Closing(ask, text, reason) ==
  CASE ask.endpoint = "responses" -> IF ask.stream THEN ResponsesEnd(text) ELSE ResponseBody(text)
    [] OTHER -> IF ask.stream THEN OpenAiEnd(ask, reason) ELSE Completion(text, reason)
=============================================================================
