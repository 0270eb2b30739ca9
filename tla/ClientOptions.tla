----------------------------- MODULE ClientOptions -----------------------------
(***************************************************************************)
(* The client an agent's llm options make (LLMOptions, create_llm_client): *)
(* which options are let through, what each provider keeps of them, where  *)
(* it sends its requests and with what headers, how often it tries, what   *)
(* it makes of a Retry-After and of LiteLLM's exceptions, and the replies  *)
(* of the mock.  Values are tokens; a URL is its path, segment by segment. *)
(***************************************************************************)
EXTENDS Integers, Sequences, SequencesExt

CONSTANTS None, MaxAttempts

-----------------------------------------------------------------------------
(* Options and clients. *)

ProviderNames == {"mock", "anthropic", "openai_compatible", "litellm"}
\* Extra options come as they were written: of any type, under any name.
Configs == [provider : ProviderNames \cup {"other"}, base : {None, "base"}, temperature : {None, 0, 2, 3},
            max_tokens : {None, "max"}, model : {None, "model"},
            seed : {None, "number", "text"}, top_p : {None, "number", "text"}, parallel : {None, "flag", "number"},
            region : BOOLEAN, format : BOOLEAN, unknown : BOOLEAN]

\* Mutant of Valid: a base is not asked for.
Valid_NoBase(o) == o.provider \in ProviderNames /\ o.temperature \in {None} \cup 0..2
Valid(o) ==
    /\ o.provider \in ProviderNames
    /\ o.provider = "openai_compatible" => o.base # None
    /\ o.temperature \in {None} \cup 0..2

Or(given, default) == IF given = None THEN default ELSE given
OfType(given, type) == IF given = type THEN given ELSE None
\* Extras LiteLLM is given; others are dropped with a warning.
Forwarded(o) ==
    (IF o.region THEN {"aws_region_name"} ELSE {}) \cup (IF o.format THEN {"response_format"} ELSE {})
    \cup (IF o.seed # None THEN {"seed"} ELSE {}) \cup (IF o.top_p # None THEN {"top_p"} ELSE {})
    \cup (IF o.parallel # None THEN {"parallel_tool_calls"} ELSE {})

Client(o, base, model, max, seed, top_p, parallel, extras) ==
    [class |-> o.provider, base |-> base, model |-> model, max_tokens |-> max, seed |-> seed,
     top_p |-> top_p, parallel |-> parallel, extras |-> extras]
MockClient(o) == Client(o, None, Or(o.model, ""), None, None, None, None, {})
AnthropicClient(o) ==
    Client(o, Or(o.base, "default"), Or(o.model, "default"), Or(o.max_tokens, "default"), None, None, None, {})
OpenAIClient(o) ==
    Client(o, o.base, Or(o.model, "default"), None,
           OfType(o.seed, "number"), OfType(o.top_p, "number"), OfType(o.parallel, "flag"), {})
LiteClient(o) ==
    Client(o, o.base, Or(o.model, ""), Or(o.max_tokens, "default"), None, None, None, Forwarded(o))

\* create_llm_client, which raises for what it cannot build.
Created(o) ==
    CASE o.provider = "mock" -> MockClient(o)
      [] o.provider = "anthropic" -> AnthropicClient(o)
      [] o.provider = "openai_compatible" /\ o.base # None -> OpenAIClient(o)
      [] o.provider = "litellm" -> LiteClient(o)
      [] OTHER -> [class |-> "error"]

-----------------------------------------------------------------------------
(* Attempts. *)

Retries == {None} \cup [attempts : 1..MaxAttempts, initial : {1, 4}, cap : {2}, factor : {1, 2},
                        connection : BOOLEAN, budget : {None, 9}]
DefaultStatus == {429, 502, 503, 504}
Default == [attempts |-> 3, initial |-> 1, cap |-> 10, factor |-> 2, connection |-> TRUE, budget |-> None]

WithStatus(policy, status) == [policy |-> policy, status |-> status]
FromOptions(retry) == WithStatus(Or(retry, Default), DefaultStatus)
\* Mutant of ForAnthropic: made anew, for the status that is its own.
ForAnthropic_Anew(p) == WithStatus(Default, p.status \cup {529})
ForAnthropic(p) == WithStatus(p.policy, p.status \cup {529})
PolicyOf(provider, retry) ==
    IF provider = "anthropic" THEN ForAnthropic(FromOptions(retry)) ELSE FromOptions(retry)

\* LiteLLM is told how many times to try again.
\* Mutant of LiteRetries: as many times as attempts.
LiteRetries_Attempts(retry) == retry.attempts
LiteRetries(retry) == retry.attempts - 1

Min2(a, b) == IF a < b THEN a ELSE b
\* Mutant of BackoffMs: the cap is for the first delay.
BackoffMs_Uncapped(policy, attempt) == Min2(policy.initial, policy.cap) * policy.factor ^ (attempt - 1)
BackoffMs(policy, attempt) == Min2(policy.initial * policy.factor ^ (attempt - 1), policy.cap)

\* Retry-After: seconds, "inf" and "nan" among them, or a date; seconds from now.
Infinite == 1000
NotANumber == 1001
Hints == {"absent", "blank", "seconds", "negative", "inf", "nan", "future", "past", "garbage"}
\* Mutant of RetryAfter: a date that has passed is taken as it is.
RetryAfter_Raw(hint) ==
    CASE hint = "seconds" -> 5 [] hint = "negative" -> 0 [] hint = "inf" -> Infinite [] hint = "nan" -> NotANumber
      [] hint = "future" -> 7 [] hint = "past" -> -7 [] OTHER -> None
RetryAfter(hint) ==
    CASE hint = "seconds" -> 5 [] hint = "negative" -> 0 [] hint = "inf" -> Infinite [] hint = "nan" -> NotANumber
      [] hint = "future" -> 7 [] hint = "past" -> 0 [] OTHER -> None
\* What a caller gets of a status that was tried to the end: int() of it fails.
Reported(hint) ==
    CASE RetryAfter(hint) = Infinite -> "OverflowError" [] RetryAfter(hint) = NotANumber -> "ValueError" [] OTHER -> "typed"

-----------------------------------------------------------------------------
(* Where requests go. *)

Roots == {<<>>, <<"proxy">>}
Tails == {<<>>, <<"v1">>, <<"v1", "chat", "completions">>, <<"v1", "responses">>, <<"v1", "RESPONSES">>, <<"responses">>}
Urls == [provider : {"anthropic", "openai_compatible"}, root : Roots, tail : Tails, slash : BOOLEAN,
         style : {None, "chat_completions", "responses"}, streaming : {None, <<"other">>}]
Base(u) == u.root \o u.tail \o (IF u.slash THEN <<"">> ELSE <<>>)

\* Mutant of Stripped: a slash at the end is left.
Stripped_Not(base) == base
Stripped(base) == SelectSeq(base, LAMBDA segment : segment # "")

\* A suffix in small letters is looked for, and looked for again as it is.
Style(u) ==
    IF u.style # None THEN u.style
    ELSE IF Len(Stripped(Base(u))) > 0 /\ Last(Stripped(Base(u))) \in {"responses", "RESPONSES"} THEN "responses"
    ELSE "chat_completions"

Under(base, path) ==
    IF IsSuffix(<<"v1">>, base) THEN base \o path ELSE base \o <<"v1">> \o path
ChatEndpoint(base) ==
    IF IsSuffix(<<"chat", "completions">>, base) THEN base ELSE Under(base, <<"chat", "completions">>)
ResponsesEndpoint(base) ==
    IF IsSuffix(<<"responses">>, base) THEN base ELSE Under(base, <<"responses">>)
MessagesEndpoint(base) == Under(base, <<"messages">>)

Endpoint(u) ==
    CASE u.provider = "anthropic" -> MessagesEndpoint(Stripped(Base(u)))
      [] Style(u) = "responses" -> ResponsesEndpoint(Stripped(Base(u)))
      [] OTHER -> ChatEndpoint(Stripped(Base(u)))
\* A stream of the Responses API is a plain request.
StreamEndpoint(u) ==
    IF u.provider = "anthropic" /\ u.streaming # None THEN u.streaming ELSE Endpoint(u)

\* A header is a name in some spelling; HTTP tells names by their letters only.
HeaderNames == {"Content-Type", "key", "X-Trace"}
Header(name, small) == [name |-> name, small |-> small]
\* The names of a client's extra headers, and whether the environment has its
\* key, which the provider sends under a name of its own.
Exchanges == [extra : SUBSET {Header(n, s) : n \in HeaderNames, s \in BOOLEAN}, key : BOOLEAN,
              provider : {"anthropic", "openai_compatible"}]
Own(x) ==
    {Header("Content-Type", FALSE)} \cup
    (IF x.key \/ x.provider = "anthropic" THEN {Header("key", FALSE)} ELSE {})
\* Mutant of Merged: the provider's headers are put over the caller's.
Merged_OwnLast(x) ==
    {[header |-> h, from |-> "provider"] : h \in Own(x)} \cup {[header |-> h, from |-> "user"] : h \in x.extra \ Own(x)}
Merged(x) ==
    {[header |-> h, from |-> "user"] : h \in x.extra} \cup {[header |-> h, from |-> "provider"] : h \in Own(x) \ x.extra}

-----------------------------------------------------------------------------
(* Exceptions of LiteLLM, for a call and for a stream. *)

Exceptions == {"RateLimitError", "APIConnectionError", "Timeout", "APIError", "AuthenticationError", "foreign"}
Mapped(e) ==
    CASE e = "foreign" -> "unknown"
      [] e = "RateLimitError" -> "rate_limit"
      [] e \in {"APIConnectionError", "Timeout"} -> "connection"
      [] OTHER -> "response"
\* Mutant of StreamType: a timeout is not in the table.
StreamType_NoTimeout(e) ==
    CASE e = "foreign" -> "unknown" [] e = "RateLimitError" -> "rate_limit"
      [] e = "APIConnectionError" -> "connection" [] OTHER -> "response"
StreamType(e) ==
    CASE e = "foreign" -> "unknown" [] e = "RateLimitError" -> "rate_limit"
      [] e \in {"APIConnectionError", "Timeout"} -> "connection" [] OTHER -> "response"

-----------------------------------------------------------------------------
(* The mock: of the last user message, its INPUT line, if it has one; a /tool  *)
(* directive is an action for patterns that read text and, if the tool is      *)
(* offered, a tool call for the others.                                        *)

Prompts == [asks : {"text", "usage", "t1", "ghost"}, marked : BOOLEAN, offered : SUBSET {"t1", "t2"}]
Heard(p) == IF p.marked THEN p.asks ELSE "text"
Text(p) == CASE Heard(p) = "text" -> "echo" [] Heard(p) = "usage" -> "usage" [] OTHER -> "tool_call"
\* Mutant of ToolCalls: whatever it is that was asked for.
ToolCalls_Any(p) == IF Text(p) = "tool_call" THEN {Heard(p)} ELSE {}
ToolCalls(p) == IF Text(p) = "tool_call" THEN {Heard(p)} \cap p.offered ELSE {}
StopReason(p) == IF ToolCalls(p) = {} THEN "end_turn" ELSE "tool_use"

-----------------------------------------------------------------------------
\* What validation lets through the factory builds, with somewhere to send its
\* requests, and no client is given an option of a type it was not made for.
ValidIsBuilt(o) ==
    Valid(o) =>
        LET c == Created(o) IN
        /\ c.class = o.provider
        /\ o.provider \in {"anthropic", "openai_compatible"} => c.base # None
        /\ c.seed # "text" /\ c.top_p # "text" /\ c.parallel # "number"

\* Each client tries as often as it is told, on the statuses of its provider,
\* with delays that grow to the cap and no further.
RetriesHonoured(retry) ==
    /\ \A provider \in {"anthropic", "openai_compatible"} :
          /\ retry # None => PolicyOf(provider, retry).policy = retry
          /\ 529 \in PolicyOf(provider, retry).status <=> provider = "anthropic"
          /\ LET p == PolicyOf(provider, retry).policy IN
             \A n \in 1..p.attempts :
                 BackoffMs(p, n) <= p.cap /\ (n > 1 => BackoffMs(p, n) >= BackoffMs(p, n - 1))
    /\ retry # None => 1 + LiteRetries(retry) = retry.attempts

\* A Retry-After never asks for less than no time.
HintsHeld(hint) == RetryAfter(hint) # None => RetryAfter(hint) >= 0

\* A base that is the server, its /v1, or the endpoint of the style, with a slash
\* at the end or not, leads to the one endpoint of the server.
EndpointsReached(u) ==
    LET path == CASE u.provider = "anthropic" -> <<"v1", "messages">>
                  [] Style(u) = "responses" -> <<"v1", "responses">>
                  [] OTHER -> <<"v1", "chat", "completions">>
    IN u.tail \in {<<>>, <<"v1">>} \/ u.tail = path =>
           Endpoint(u) = u.root \o path /\ (u.streaming = None => StreamEndpoint(u) = Endpoint(u))

\* A header of the user's replaces the provider's of that name and spelling.
UserHeadersWin(x) ==
    \A h \in x.extra : {m.from : m \in {n \in Merged(x) : n.header = h}} = {"user"}

\* An exception is of one class for a call and for a stream.
ErrorsAgree(e) == Mapped(e) = StreamType(e)

\* The mock calls a tool that is offered or none, and the one its text names.
MockAgrees(p) ==
    /\ ToolCalls(p) \subseteq p.offered
    /\ ToolCalls(p) # {} => Text(p) = "tool_call" /\ ToolCalls(p) = {p.asks} /\ StopReason(p) = "tool_use"

\* Statements of the documentation that the code does not meet (README,
\* Disagreements); no run checks them.

\* An explicit api_style overrides what the base's suffix says: requests go to
\* the endpoint of the style.
StyleOverrides(u) ==
    u.provider = "openai_compatible" /\ u.style = "chat_completions" /\ u.tail = <<"v1", "responses">> =>
        Endpoint(u) = u.root \o <<"v1", "chat", "completions">>

\* User keys win: of two headers of one name only the user's is sent.
SentOnce(x) == \A m \in Merged(x) : m.from = "provider" => m.header.name \notin {h.name : h \in x.extra}

\* The errors of a call are of the SDK's types.
ErrorsTyped(hint) == Reported(hint) = "typed"

\* A stream carries the limit on tokens that the options give.
MaxTokensKept(o) == Valid(o) /\ o.provider # "mock" => Created(o).max_tokens = Or(o.max_tokens, "default")
=============================================================================
