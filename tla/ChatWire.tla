------------------------------ MODULE ChatWire ------------------------------
(***************************************************************************)
(* What the providers send and how they read what comes back: the payload  *)
(* built from a request (_build_payload*, _build_kwargs), the LLMResponse  *)
(* made from a vendor's whole answer (generate), and the chunks made from  *)
(* the records of a streamed one (complete_stream).  Texts, names and      *)
(* schemas are tokens; what is kept, renamed, dropped or replaced is not.  *)
(***************************************************************************)
EXTENDS Naturals, Sequences

CONSTANTS None,
          Apis,       \* of {"chat", "responses", "anthropic", "litellm"}
          MaxParts,   \* of an answer (bound)
          Providers,  \* of {"chat", "anthropic", "shaped", "litellm", "whole", "mock", "base"}
          Indices,    \* of parallel tool calls, 0..n
          MaxRecords  \* of a stream (bound)

VARIABLES
    provider,
    sent,       \* the records the server has sent
    out,        \* the chunks yielded
    pending,    \* pending_stop_reason
    usage,      \* latest_usage: which of the usages sent, 0 for none
    stored,     \* _last_response, when this stream stored one
    result      \* how the generator ended

vars == <<provider, sent, out, pending, usage, stored, result>>

-----------------------------------------------------------------------------
(* Requests. *)

\* A message of the conversation, in the shapes patterns give it: system text
\* or blocks, plain text, an assistant's tool calls (content None), a tool's
\* result in OpenAI's shape or as a block of a user message.
Shapes == {"text", "blocks", "calls", "result", "result_block"}
Roles == {"system", "user", "assistant", "tool"}
Messages == [role: {"system"}, shape: {"text", "blocks"}, call: {None}]
            \cup [role: {"user", "assistant"}, shape: {"text"}, call: {None}]
            \cup [role: {"assistant"}, shape: {"calls"}, call: {1}]
            \cup [role: {"tool"}, shape: {"result"}, call: {1}]
            \cup [role: {"user"}, shape: {"result_block"}, call: {1}]

\* Only role and content are copied.
RoleAndContent(m) == IF m.shape \in {"calls", "result"} THEN [m EXCEPT !.call = None] ELSE m

ChatInput(ms) == ms
ResponsesInput(ms) ==
    LET rest == SelectSeq(ms, LAMBDA m : m.role # "system")
    IN [k \in 1..Len(rest) |-> RoleAndContent(rest[k])]
AnthropicInput(ms) ==
    LET rest == SelectSeq(ms, LAMBDA m : m.role \in {"user", "assistant"})
    IN [k \in 1..Len(rest) |-> RoleAndContent(rest[k])]
Input(api, ms) == CASE api \in {"chat", "litellm"} -> ChatInput(ms)
                    [] api = "responses" -> ResponsesInput(ms)
                    [] api = "anthropic" -> AnthropicInput(ms)

\* Where the system messages go: the Responses API takes one text; Anthropic
\* blocks when all are blocks, else one text (_coalesce_system_content).
SystemParts(ms) == SelectSeq(ms, LAMBDA m : m.role = "system")
Instructions(api, ms) ==
    LET parts == SystemParts(ms) IN
    CASE api \in {"chat", "litellm"} \/ parts = <<>> -> None
      [] parts # <<>> /\ api = "responses" -> "text"
      [] OTHER -> IF \A k \in 1..Len(parts) : parts[k].shape = "blocks" THEN "blocks" ELSE "text"

\* The options of a request and of the client: [reasoning (opt-in or None),
\* pattern (does the model's name look like a reasoning model's?), temp,
\* default_temp, max, tools, choice, format, stream].
Reasoning(o) == IF o.reasoning # None THEN o.reasoning ELSE o.pattern
Given(o) == o.temp \/ o.default_temp
When(c, key) == IF c THEN {key} ELSE {}
Structured(o) == o.format \in {"json", "json_object", "json_schema"}

ChatKeys(o) ==
    {"model", "messages"}
    \cup When(Given(o) /\ ~Reasoning(o), "temperature")
    \cup When(o.max, IF Reasoning(o) THEN "max_completion_tokens" ELSE "max_tokens")
    \cup When(o.tools, "tools") \cup When(o.choice # None, "tool_choice")
    \cup When(o.format # None, "response_format")
    \cup (IF o.stream THEN {"stream", "stream_options"} ELSE {})
ResponsesKeys(o) ==
    {"model", "input"}
    \cup When(Given(o) /\ ~Reasoning(o), "temperature")
    \cup When(o.max, "max_output_tokens")
    \cup When(o.tools, "tools") \cup When(o.choice # None, "tool_choice")
    \cup When(o.format \in {"json_schema", "json_object", "text"}, "text")
    \cup When(o.stream, "stream")
\* A structured answer is asked for as a call of a tool made for it.
Choice(o) == IF Structured(o) THEN "tool"
             ELSE CASE o.choice \in {None, "none"} -> None
                    [] o.choice \in {"required", "any"} -> "any"
                    [] o.choice \in {"function", "tool"} -> "tool"
                    [] OTHER -> "auto"
AnthropicKeys(o) ==
    {"model", "messages", "max_tokens"}
    \cup When(Given(o), "temperature")
    \cup When(o.tools \/ Structured(o), "tools")
    \cup When(Choice(o) # None, "tool_choice")
    \cup When(o.stream, "stream")
LiteKeys(o) ==
    {"model", "messages", "max_tokens", "timeout", "stream"}
    \cup When(Given(o), "temperature") \cup When(o.tools, "tools")
    \cup When(o.choice # None, "tool_choice") \cup When(o.format # None, "response_format")
    \cup When(o.stream, "stream_options")
Keys(api, o) == CASE api = "chat" -> ChatKeys(o)
                  [] api = "responses" -> ResponsesKeys(o)
                  [] api = "anthropic" -> AnthropicKeys(o)
                  [] api = "litellm" -> LiteKeys(o)

\* A tool's schema, given in one of three shapes with or without parameters
\* and extra fields, in the shape of the Messages API (_normalize_tool_schema).
ToolShapes == [shape: {"anthropic", "openai", "bare", "nameless"}, schema: {"given", "null", "absent"}, extras: BOOLEAN]
NormalTool(t) ==
    IF t.shape \in {"anthropic", "nameless"} THEN t
    ELSE [t EXCEPT !.shape = "anthropic", !.schema = IF @ = "given" THEN @ ELSE "empty"]

-----------------------------------------------------------------------------
(* Answers. *)

\* An answer's parts, in the order the model produced them; a call's arguments
\* decode to an object or not.
ContentParts == [kind: {"text", "reasoning"}, args: {None}]
         \cup [kind: {"call"}, args: {"object", "garbled", "none"}]
         \cup [kind: {"nameless"}, args: {"object"}]
Answers == UNION {[1..n -> ContentParts] : n \in 0..MaxParts}
OfKind(a, k) == SelectSeq(a, LAMBDA p : p.kind = k)
IsCall(p) == p.kind \in {"call", "nameless"}

\* The vendor's reason for stopping (external).
VendorStop(api, a) ==
    LET calls == \E k \in 1..Len(a) : IsCall(a[k]) IN
    CASE api \in {"chat", "litellm"} -> IF calls THEN "tool_calls" ELSE "stop"
      [] api = "responses" -> "completed"
      [] api = "anthropic" -> IF calls THEN "tool_use" ELSE "end_turn"

Arguments(p) == IF p.args = "object" THEN "object" ELSE "empty"
Calls(a, kinds) == LET cs == SelectSeq(a, LAMBDA p : p.kind \in kinds)
                   IN [k \in 1..Len(cs) |-> [kind |-> cs[k].kind, args |-> Arguments(cs[k])]]
HasName == {"call"}
AllCalls == {"call", "nameless"}

\* generate of each provider, from the answer as its API frames it.  A tool
\* call without a name is dropped by two of them.
Response(text, calls, stop) == [text |-> text, calls |-> calls, stop |-> stop]
\* Mutant of FromChat: the vendor's reason is kept.
FromChat_Raw(a, stop) == Response(Len(OfKind(a, "text")), Calls(a, HasName), stop)
FromChat(a, stop) ==
    Response(Len(OfKind(a, "text")), Calls(a, HasName), IF stop = "tool_calls" THEN "tool_use" ELSE stop)
FromResponses(a, stop) ==
    LET calls == Calls(a, HasName)
    IN Response(Len(OfKind(a, "text")), calls,
                IF calls # <<>> THEN "tool_use" ELSE IF stop = "completed" THEN "end_turn" ELSE stop)
FromAnthropic(a, stop) == Response(Len(OfKind(a, "text")), Calls(a, AllCalls), stop)
FromLite(a, stop) == Response(Len(OfKind(a, "text")), Calls(a, AllCalls), stop)
Parsed(api, a) ==
    LET stop == VendorStop(api, a) IN
    CASE api = "chat" -> FromChat(a, stop)
      [] api = "responses" -> FromResponses(a, stop)
      [] api = "anthropic" -> FromAnthropic(a, stop)
      [] api = "litellm" -> FromLite(a, stop)

\* The usage a vendor reports: a part of the input was read from its cache,
\* told in OpenAI's field or in Anthropic's, a part written to it.
RawUsage == [input: 0..3, output: 0..1, cached: 0..2, read: 0..2, write: 0..2]
Usage(api, u) ==
    [input |-> u.input, output |-> u.output,
     read |-> CASE api \in {"chat", "responses"} -> u.cached
                [] api = "anthropic" -> u.read
                [] api = "litellm" -> IF u.read > 0 THEN u.read ELSE u.cached,
     write |-> IF api = "anthropic" THEN u.write ELSE 0]

\* _compute_cost_for: the tokens each rate is applied to, and whether the cost
\* is known: a rate is missing only where tokens are to be priced with it.
Priced(u) == [input |-> IF u.input > u.read + u.write THEN u.input - u.read - u.write ELSE 0,
              output |-> u.output, cached_read |-> u.read, cached_write |-> u.write]
Rate(defaults, overrides, k) == IF overrides[k] # None THEN overrides[k] ELSE defaults[k]
CostKnown(u, defaults, overrides) ==
    \A k \in DOMAIN Priced(u) : Priced(u)[k] > 0 => Rate(defaults, overrides, k) # None

-----------------------------------------------------------------------------
(* Streams: the records of an answer, one at a time, and the chunks the      *)
(* consumer gets for them.  The server keeps to its protocol but may leave   *)
(* out the optional records, be cut short, end without the last blank line,  *)
(* or break; the consumer may stop reading.  "chat" is OpenAICompatibleClient,*)
(* "shaped" AnthropicClient reading a server that answers in OpenAI's        *)
(* records; "whole" (Responses API), "mock" and "base" generate first and    *)
(* stream the answer.                                                        *)

Generated == {"whole", "mock", "base"}

\* What a record says: an event of Anthropic's protocol or OpenAI's "data".
Rec == [event |-> "data", text |-> FALSE, index |-> None, name |-> FALSE, args |-> FALSE,
        finish |-> None, usage |-> FALSE]
Text == [Rec EXCEPT !.text = TRUE]
Start(i) == [Rec EXCEPT !.index = i, !.name = TRUE]
Args(i) == [Rec EXCEPT !.index = i, !.args = TRUE]
Finish(reason, counted) == [Rec EXCEPT !.finish = reason, !.usage = counted]
Counts == [Rec EXCEPT !.usage = TRUE]
Event(name) == [Rec EXCEPT !.event = name]
Framed(rec, name) == [rec EXCEPT !.event = name]

Sent(P(_)) == \E k \in 1..Len(sent) : P(sent[k])
Started == {i \in Indices : Sent(LAMBDA r : r.name /\ r.index = i)}
Fresh == {i \in Indices \ Started : \A k \in 0..(i - 1) : k \in Started}
Finished == Sent(LAMBDA r : r.finish # None)
Counted == Sent(LAMBDA r : r.usage /\ r.event # "message_start")
Reason == IF Started = {} THEN "stop" ELSE "tool_calls"

\* The records a server may send next.
ChatRecords ==
    (IF Finished THEN {} ELSE {Text} \cup {Start(i) : i \in Fresh} \cup {Args(i) : i \in Started}
                              \cup {Finish(Reason, c) : c \in BOOLEAN})
    \cup (IF Finished /\ ~Counted THEN {Counts} ELSE {})
    \cup {Event("garbage")}
Done == IF Finished /\ ~Sent(LAMBDA r : r.event = "[DONE]") THEN {Event("[DONE]")} ELSE {}

AnthropicReason == IF Started = {} THEN "end_turn" ELSE "tool_use"
AnthropicRecords ==
    IF sent = <<>> THEN {Framed(Counts, "message_start")}
    ELSE IF Finished THEN {Event("message_stop"), Event("error")}
    ELSE {Framed(Text, "content_block_delta"), Event("ping"), Event("garbage"), Event("error"),
          Framed(Finish(AnthropicReason, TRUE), "message_delta")}
         \cup {Framed(Start(i), "content_block_start") : i \in Fresh}
         \cup {Framed(Args(i), "content_block_delta") : i \in Started}
         \cup {Event("content_block_stop") : i \in Started}

Complete == Sent(LAMBDA r : r.event \in {"[DONE]", "message_stop"}) \/ (provider \in Generated /\ Finished)
Records ==
    IF Complete THEN {}
    ELSE CASE provider = "anthropic" -> AnthropicRecords
           [] provider \in {"chat", "shaped"} -> ChatRecords \cup Done
           [] provider = "litellm" -> ChatRecords \ {Event("garbage")}
           [] provider \in Generated ->
                (IF sent = <<>> THEN {Text} ELSE {}) \cup {Finish("end_turn", TRUE), Finish("tool_use", TRUE)}

\* A chunk; index is there when the chunk says which tool call it belongs to.
Chunk(type, index, tool, reason) == [type |-> type, index |-> index, tool |-> tool, reason |-> reason]
Delta == Chunk("content_block_delta", None, None, None)
Error == Chunk("error", None, None, None)
Stop(reason) == Chunk("message_stop", None, None, reason)

Unified(reason) == IF reason = "tool_calls" THEN "tool_use" ELSE reason

Init ==
    /\ provider \in Providers
    /\ sent = <<>> /\ out = <<>>
    /\ pending = None /\ usage = 0 /\ stored = None
    /\ result = None

\* The chunks of a choice's delta in OpenAI's shape: tool_state keeps ids and
\* names by index, the chunks of arguments do not bear it.
ChatChunks(r) ==
    (IF r.text THEN <<Delta>> ELSE <<>>)
    \o (IF r.name THEN <<Chunk("content_block_start", None, r.index, None)>> ELSE <<>>)
    \o (IF r.args THEN <<Chunk("content_block_delta", None, r.index, None)>> ELSE <<>>)

\* Mutant of Told: the reason is told again at the next record.
Told_Keeps(tells, reason) == reason
\* pending_stop_reason is forgotten once it is told.
Told(tells, reason) == IF tells THEN None ELSE reason

\* A record in OpenAI's shape.  The stop is told once the reason and the usage
\* are both known, or at the end mark.
OnChat(r) ==
    LET counted == IF r.usage THEN Len(sent) + 1 ELSE usage
        reason == IF r.finish # None THEN Unified(r.finish) ELSE pending
        tells == reason # None /\ (counted # 0 \/ r.event = "[DONE]")
    IN IF r.event = "garbage" \/ (r.event = "[DONE]" /\ pending = None)
       THEN UNCHANGED <<out, pending, usage>>
       ELSE /\ usage' = counted
            /\ pending' = Told(tells, reason)
            /\ out' = out \o ChatChunks(r) \o (IF tells THEN <<Stop(reason)>> ELSE <<>>)

\* AnthropicClient given OpenAI's records knows no end mark: it is no JSON.
OnShaped(r) == IF r.event = "[DONE]" THEN UNCHANGED <<out, pending, usage>> ELSE OnChat(r)

OnAnthropic(r) ==
    LET says == CASE r.event \in {"garbage", "ping"} -> <<>>
                  [] r.event = "message_stop" -> <<Stop(pending)>>
                  [] r.event = "error" -> <<Error>>
                  [] r.event \notin {"garbage", "ping", "message_stop", "error"} ->
                         <<Chunk(r.event, r.index, r.index, None)>>
    IN /\ out' = out \o says
       /\ usage' = IF r.usage THEN Len(sent) + 1 ELSE usage
       /\ pending' = IF r.event = "message_stop" THEN None
                     ELSE IF r.finish # None THEN r.finish ELSE pending

\* LiteLLMClient: tool deltas keep their index, the finish reason is not read.
OnLite(r) ==
    /\ out' = out \o (IF r.text THEN <<Delta>> ELSE <<>>)
                  \o (IF r.name \/ r.args THEN <<Chunk("content_block_delta", r.index, r.index, None)>> ELSE <<>>)
    /\ usage' = IF r.usage THEN Len(sent) + 1 ELSE usage
    /\ UNCHANGED pending

\* The whole answer is there: its text, then the stop; tool calls are left out.
OnWhole(r) ==
    /\ out' = out \o (IF r.finish # None THEN <<Stop(r.finish)>> ELSE <<Delta>>)
    /\ usage' = IF r.usage THEN Len(sent) + 1 ELSE usage
    /\ UNCHANGED pending

OnMock(r) == OnWhole(r)
\* The base class: complete, then its text and a stop without reason.
OnBase(r) ==
    /\ out' = out \o (IF r.finish # None THEN <<Stop(None)>> ELSE <<Delta>>)
    /\ usage' = IF r.usage THEN Len(sent) + 1 ELSE usage
    /\ UNCHANGED pending

Handle(r) == CASE provider = "chat" -> OnChat(r)
               [] provider = "shaped" -> OnShaped(r)
               [] provider = "anthropic" -> OnAnthropic(r)
               [] provider = "litellm" -> OnLite(r)
               [] provider = "whole" -> OnWhole(r)
               [] provider = "mock" -> OnMock(r)
               [] provider = "base" -> OnBase(r)

\* The next record arrives, terminated.  Anthropic's error event ends the stream.
Receive ==
    /\ result = None /\ Len(sent) < MaxRecords
    /\ \E r \in Records :
          /\ sent' = Append(sent, r)
          /\ Handle(r)
          /\ result' = IF r.event = "error" THEN "returned" ELSE None
          /\ stored' = IF provider \in Generated THEN "answer" ELSE stored
    /\ UNCHANGED provider

\* The server closes.  A last record without its blank line counts only for
\* its usage ("chat") or its error ("anthropic"); then a stop reason not told
\* yet is.  LiteLLM, which frames the stream, loses no record and always stops.
LeftOver == IF provider \in {"chat", "anthropic", "shaped"} /\ Len(sent) < MaxRecords THEN Records ELSE {}
Last(r) == IF provider = "litellm" THEN <<Stop(None)>>
           ELSE IF pending # None THEN <<Stop(pending)>> ELSE <<>>

CloseClean ==
    /\ result = None
    /\ provider \in Generated => Finished
    /\ out' = out \o Last(None)
    /\ stored' = IF provider \in Generated \cup {"litellm"} THEN stored ELSE [usage |-> usage, reason |-> pending]
    /\ result' = "ended"
    /\ UNCHANGED <<provider, sent, pending, usage>>

CloseRagged ==
    /\ result = None
    /\ \E r \in LeftOver :
          /\ sent' = Append(sent, r)
          /\ usage' = IF r.usage /\ provider = "chat" THEN Len(sent) + 1 ELSE usage
          /\ IF r.event = "error"
             THEN out' = Append(out, Error) /\ result' = "returned" /\ UNCHANGED stored
             ELSE /\ out' = out \o Last(r)
                  /\ result' = "ended"
                  /\ stored' = [usage |-> usage', reason |-> pending]
    /\ UNCHANGED <<provider, pending>>

\* The connection breaks: the exception leaves the generator, through LiteLLM
\* it becomes a chunk.
Break ==
    /\ result = None /\ provider \notin Generated
    /\ IF provider = "litellm" THEN out' = Append(out, Error) /\ result' = "returned"
                               ELSE result' = "raised" /\ UNCHANGED out
    /\ UNCHANGED <<provider, sent, pending, usage, stored>>

\* The consumer closes the generator between two chunks.
Abandon ==
    /\ result = None
    /\ result' = "abandoned"
    /\ UNCHANGED <<provider, sent, out, pending, usage, stored>>

Next == Receive \/ CloseClean \/ CloseRagged \/ Break \/ Abandon
Spec == Init /\ [][Next]_vars
-----------------------------------------------------------------------------
\* The same answer reads the same whoever gives it: its text, its named calls,
\* and that it stopped for them -- a reason LiteLLM leaves as the vendor's.
Named(r) == SelectSeq(r.calls, LAMBDA c : c.kind = "call")
AnswersAgree(a) ==
    \A i, j \in Apis :
        /\ Parsed(i, a).text = Parsed(j, a).text
        /\ Named(Parsed(i, a)) = Named(Parsed(j, a))
        /\ Named(Parsed(i, a)) # <<>> => (Parsed(i, a).stop = "tool_use" <=> i # "litellm")

\* A tool's result reaches the server after the call it answers.  The chat API
\* gets every message as it is; the other two are not sent the calls of an
\* assistant's message, nor what a tool's message answers.
Paired(ms) == \A k \in 1..Len(ms) :
    ms[k].role = "tool" \/ ms[k].shape \in {"result", "result_block"} =>
        \E j \in 1..(k - 1) : ms[j].shape = "calls" /\ ms[j].call # None /\ ms[j].call = ms[k].call
KeepsPairs(ms) ==
    Paired(ms) => /\ Paired(Input("chat", ms)) /\ Paired(Input("litellm", ms))
                  /\ \A api \in {"responses", "anthropic"} :
                        LET input == Input(api, ms) IN
                        Paired(input) => \A k \in 1..Len(input) : input[k].role # "tool" /\ input[k].shape # "result_block"

\* What is not for the conversation goes elsewhere, and nothing else is lost:
\* each system message is in the instructions or in the input.
SystemKept(ms) ==
    \A api \in Apis : SystemParts(ms) # <<>> =>
        (Instructions(api, ms) = None <=> SystemParts(Input(api, ms)) # <<>>)

\* No request has a parameter its API does not know (external), and a
\* reasoning model of the OpenAI APIs none it refuses.
Accepted(api, o) ==
    CASE api = "chat" -> {"model", "messages", "tools", "tool_choice", "response_format", "stream", "stream_options"}
                         \cup (IF Reasoning(o) THEN {"max_completion_tokens"} ELSE {"temperature", "max_tokens"})
      [] api = "responses" -> {"model", "input", "max_output_tokens", "tools", "tool_choice", "text", "stream"}
                              \cup When(~Reasoning(o), "temperature")
      [] api = "anthropic" -> {"model", "messages", "max_tokens", "temperature", "tools", "tool_choice", "stream"}
      [] api = "litellm" -> Keys("litellm", o)
RequestFits(o) ==
    \A api \in Apis : Keys(api, o) \subseteq Accepted(api, o) /\ (o.max => Keys(api, o) \cap
        {"max_tokens", "max_completion_tokens", "max_output_tokens"} # {})

\* A tool's schema in any shape a pattern gives it reaches Anthropic in its own,
\* with nothing of it lost; a tool without a name is left for the server to refuse.
ToolFits(t) == LET n == NormalTool(t) IN
    /\ n.shape = IF t.shape = "nameless" THEN "nameless" ELSE "anthropic"
    /\ n.extras = t.extras
    /\ t.schema = "given" => n.schema = "given"

\* Every input token is priced once, whatever part of the input was cached, and
\* a cost is left unknown only for want of a rate.
Rates == [{"input", "output", "cached_read", "cached_write"} -> {None, 1}]
TokensPricedOnce(raw) ==
    \A api \in Apis :
        LET u == Usage(api, raw)  p == Priced(u) IN
        /\ u.read + u.write <= u.input => p.input + p.cached_read + p.cached_write = u.input
        /\ \A given, own \in Rates :
               (\A k \in DOMAIN given : given[k] # None) => CostKnown(u, own, given)

Stops == {k \in 1..Len(out) : out[k].type = "message_stop"}
FinishOf == IF \E k \in 1..Len(sent) : sent[k].finish # None
            THEN LET k == CHOOSE j \in 1..Len(sent) : sent[j].finish # None IN Unified(sent[k].finish)
            ELSE None

\* A stream whose server finished its answer ends in exactly one stop, which
\* is the last chunk and bears the finish's reason (LiteLLM's and the base
\* class's bears none);
\* one the server cut short has none, except through LiteLLM.  (A ragged last
\* record that carries the finish is not read.)
OneStop ==
    /\ \A k \in Stops : k = Len(out)
    /\ result = "ended" /\ provider \notin {"litellm", "base"} =>
           \/ Stops # {} /\ out[Len(out)].reason = FinishOf
           \/ Stops = {} /\ (FinishOf = None \/ sent[Len(sent)].finish # None)
    /\ result = "ended" /\ provider \in {"litellm", "base"} => Stops # {}
    /\ result = None /\ FinishOf = None => Stops = {}

\* The call a piece of arguments belongs to can be told: the chunk bears its
\* index, or it belongs to the call that started last -- unless the server
\* returned to an earlier call.
LastStarted(k) == LET s == {j \in 1..k : out[j].type = "content_block_start"}
                  IN out[CHOOSE j \in s : \A i \in s : i <= j].tool
Interleaved == \E j, k \in 1..Len(sent) : j < k /\ sent[j].name /\ sent[k].args /\ sent[k].index < sent[j].index
ArgumentsTold ==
    \A k \in 1..Len(out) :
        out[k].type = "content_block_delta" /\ out[k].tool # None =>
            \/ out[k].index = out[k].tool
            \/ LastStarted(k) = out[k].tool
            \/ Interleaved

ChunksFaithful == OneStop /\ ArgumentsTold
=============================================================================
