---------------------------- MODULE MCLlmClient ----------------------------
(* The LLM client as one instance: one initial choice of the part that is    *)
(* exercised: a call with all its timing, runs that share a client being     *)
(* dropped, a streamed answer, what is sent and read by each provider, the   *)
(* client that a set of options makes, and what of its session's transcript  *)
(* a run has to send.                                                        *)
EXTENDS LlmTransport

CONSTANTS r1, r2, Providers, Indices, MaxRecords, Apis, MaxParts, MaxMessages, Parts

VARIABLES part, provider, sent, out, pending, usage, stored, result, given,
          assembler, messages, assembly

\* Two runs of two calls on a client the application drops; no timing.
Cache == INSTANCE LlmTransport WITH
    Runs <- {r1, r2}, Durations <- {0}, Outcomes <- {"ok", "aborted", "unreachable"}, Afters <- {0},
    MaxCalls <- 2, Drops <- 2, Policies <- {}
Wire == INSTANCE ChatWire
Made == INSTANCE ClientOptions WITH MaxAttempts <- 4

\* ContextWindow: every kind of assembler, with its limits at, under and over
\* what three messages may cost.
Assembler(kind, max, head, input) ==
    [kind |-> kind, max |-> max, head |-> head, input |-> input, reserve |-> 1, summary |-> max # 2]
Assemblers ==
    {Assembler("default", 0, 0, 0)}
      \cup {Assembler("truncating", n, 0, 0) : n \in 0..2}
      \cup {Assembler(k, 0, 0, i) : k \in {"sliding_window", "importance_weighted"}, i \in {0, 3, 5}}
      \cup {Assembler("head_tail", 0, h, i) : h \in 0..2, i \in {0, 3, 5}}

Window == INSTANCE ContextWindow WITH
    Setups <- Assemblers, Roles <- {"system", "user", "tool", "assistant"}, Costs <- {1, 2}, NoticeCost <- 1

MCPolicies ==
    {[attempts |-> 3, initial |-> 1, cap |-> 3, retry |-> TRUE, budget |-> b, anthropic |-> a]
        : b \in {None, 4}, a \in BOOLEAN}
    \cup {[attempts |-> n, initial |-> 2, cap |-> 3, retry |-> n # 3, budget |-> 3, anthropic |-> FALSE] : n \in {1, 3, 4}}
SharedPolicy == [attempts |-> 1, initial |-> 1, cap |-> 1, retry |-> TRUE, budget |-> None, anthropic |-> FALSE]

Options == [reasoning : {None, TRUE, FALSE}, pattern : BOOLEAN, temp : BOOLEAN, default_temp : BOOLEAN,
            max : BOOLEAN, tools : BOOLEAN, choice : {None, "auto", "none", "required", "function"},
            format : {None, "text", "json_object", "json_schema"}, stream : BOOLEAN]
Conversations == UNION {[1..n -> Wire!Messages] : n \in 0..MaxMessages}

ClientInit == /\ cached = None /\ created = {}
              /\ transport = [o \in Clients |-> "none"]

Idle == /\ policy = SharedPolicy /\ cached = None /\ created = {} /\ transport = <<>>
        /\ drops = None /\ pc = [r \in Runs |-> "idle"] /\ held = <<>> /\ call = [r \in Runs |-> NoCall]
Quiet == /\ provider = None /\ sent = <<>> /\ out = <<>> /\ pending = None
         /\ usage = 0 /\ stored = None /\ result = None
Unasked == Window!Init /\ assembler = Assembler("default", 0, 0, 0)

MCInit ==
    /\ part \in Parts
    /\ IF part = "context" THEN Window!Init ELSE Unasked
    /\ CASE part = "call" -> Init /\ Quiet /\ given = None
         [] part = "cache" -> policy = SharedPolicy /\ ClientInit /\ Quiet /\ given = None
                              /\ drops = [state |-> "idle", client |-> None, left |-> 2, stranded |-> {}]
                              /\ pc = [r \in {r1, r2} |-> "idle"] /\ held = [r \in {r1, r2} |-> None]
                              /\ call = [r \in {r1, r2} |-> NoCall]
         [] part = "stream" -> Idle /\ Wire!Init /\ given = None
         [] part = "answer" -> Idle /\ Quiet /\ given \in Wire!Answers
         [] part = "tokens" -> Idle /\ Quiet /\ given \in Wire!RawUsage
         [] part = "options" -> Idle /\ Quiet /\ given \in Options
         [] part = "tools" -> Idle /\ Quiet /\ given \in Wire!ToolShapes
         [] part = "messages" -> Idle /\ Quiet /\ given \in Conversations
         [] part = "config" -> Idle /\ Quiet /\ given \in Made!Configs
         [] part = "retry" -> Idle /\ Quiet /\ given \in Made!Retries
         [] part = "hint" -> Idle /\ Quiet /\ given \in Made!Hints
         [] part = "url" -> Idle /\ Quiet /\ given \in Made!Urls
         [] part = "headers" -> Idle /\ Quiet /\ given \in Made!Exchanges
         [] part = "exception" -> Idle /\ Quiet /\ given \in Made!Exceptions
         [] part = "context" -> Idle /\ Quiet /\ given = None
         [] part = "mock" -> Idle /\ Quiet /\ given \in Made!Prompts

streamVars == <<provider, sent, out, pending, usage, stored, result>>
windowVars == <<assembler, messages, assembly>>
MCNext ==
    /\ UNCHANGED <<part, given>>
    /\ \/ part = "call" /\ Next /\ UNCHANGED <<streamVars, windowVars>>
       \/ part = "cache" /\ Cache!Next /\ UNCHANGED <<streamVars, windowVars>>
       \/ part = "stream" /\ Wire!Next /\ UNCHANGED <<vars, windowVars>>
       \/ part = "context" /\ Window!Next /\ UNCHANGED <<vars, streamVars>>

MCFairness == \A r \in Runs : WF_vars(part = "call" /\ (Attempt(r) \/ Wake(r) \/ Tail(r)))
MCSpec == MCInit /\ [][MCNext]_<<vars, streamVars, windowVars, part, given>> /\ MCFairness

\* LlmTransport: calls end.
CallsEndHere == \A r \in Runs : (part = "call" /\ InCall(r)) ~> (part # "call" \/ ~InCall(r))
\* ChatWire: what the providers send fits their API, and what they read is the
\* same answer, whole or as the chunks of a stream.  ClientOptions: what is
\* valid is built, retries, headers and bases mean what was meant by them.
\* ContextWindow: what a run is given is a part of the transcript, in order,
\* within the budget, and nothing that could be paid for is left out.
WireFaithful ==
    CASE part = "stream" -> Wire!ChunksFaithful
      [] part = "answer" -> Wire!AnswersAgree(given)
      [] part = "tokens" -> Wire!TokensPricedOnce(given)
      [] part = "options" -> Wire!RequestFits(given)
      [] part = "tools" -> Wire!ToolFits(given)
      [] part = "messages" -> Wire!KeepsPairs(given) /\ Wire!SystemKept(given)
      [] part = "config" -> Made!ValidIsBuilt(given)
      [] part = "retry" -> Made!RetriesHonoured(given)
      [] part = "hint" -> Made!HintsHeld(given)
      [] part = "url" -> Made!EndpointsReached(given)
      [] part = "headers" -> Made!UserHeadersWin(given)
      [] part = "exception" -> Made!ErrorsAgree(given)
      [] part = "mock" -> Made!MockAgrees(given)
      [] part = "context" -> Window!WindowFaithful
      [] OTHER -> TRUE
=============================================================================
