---------------------------- MODULE LlmTransport ----------------------------
(***************************************************************************)
(* The HTTP transport of the LLM providers (HTTPProviderClient) and the    *)
(* runtime's cache of clients.  A run takes the agent's client once and    *)
(* issues calls through it: plain ones (_request) and streams              *)
(* (_open_stream), each a loop of attempts with back-off under a budget.   *)
(* The application may drop the cached client (reload, close) while runs   *)
(* still hold it.                                                          *)
(*                                                                         *)
(* Time is a call's own: how long it has run since its loop began.         *)
(***************************************************************************)
EXTENDS Naturals, FiniteSets

CONSTANTS
    Runs,
    Clients,    \* the client objects that may be created, numbers
    None,
    Policies,   \* the retry policies: [attempts, initial, cap, retry, budget, anthropic]
    Durations,  \* how long an attempt takes to be answered
    Outcomes,   \* what becomes of an attempt
    Afters,     \* values of a Retry-After header, in the same unit
    MaxCalls,   \* the calls of a run (bound)
    Drops       \* how often the application drops the client (bound)

\* LLMRetryOptions: at least one attempt, delays and budget are not negative.
\* (That a doubled delay is a number is said for the provers, which know nothing
\* of exponents.)
ASSUME PolicyAssumption ==
    /\ Policies \subseteq [attempts : Nat \ {0}, initial : Nat, cap : Nat, retry : BOOLEAN,
                           budget : Nat \cup {None}, anthropic : BOOLEAN]
    /\ \A p \in Policies : \A n \in 1..p.attempts : p.initial * 2 ^ (n - 1) \in Nat
    /\ None \notin Nat
ASSUME CallAssumption ==
    /\ Durations \subseteq Nat /\ Afters \subseteq Nat /\ MaxCalls \in Nat /\ Drops \in Nat
    /\ None \notin Clients /\ None \notin Outcomes

VARIABLES
    policy,     \* the agent's _retry_policy (the multiplier is 2)
    cached,     \* _llm_clients[agent.id]
    created,    \* the client objects created so far
    transport,  \* of a client object: its _http_client
    drops,
    pc, held,   \* of a run: where it is, its client object
    call        \* of a run: the call it is making or made last

vars == <<policy, cached, created, transport, drops, pc, held, call>>

Max2(a, b) == IF a > b THEN a ELSE b
Min2(a, b) == IF a < b THEN a ELSE b

\* What the server or the network does with an attempt: 200; a status the
\* caller must deal with (4xx, 500); 429, 529 and 502-504; an exception of
\* _CONNECTION_EXC_TYPES; any other exception of httpx.
Statuses == {"ok", "refused", "broken", "limited", "overloaded", "down"}
Answers == [status: Outcomes \ {"limited"}, after: {None}]
           \cup [status: Outcomes \cap {"limited"}, after: Afters \cup {None}]

Retryable == {"limited", "down"} \cup (IF policy.anthropic THEN {"overloaded"} ELSE {})

\* _make_error_for_status.
Classified(status) == CASE status \in {"limited", "overloaded"} -> "rate_limit"
                        [] status \in {"down", "broken"} -> "connection"
                        [] OTHER -> "response"
\* The class of the error chunk when a stream is answered with a status that
\* is handed over (_classify_status).
Streamed(status) == IF Classified(status) = "response" THEN "unknown" ELSE Classified(status)

NoCall == [n |-> 0, stream |-> FALSE, attempt |-> 0, elapsed |-> 0, begun |-> 0,
           nap |-> 0, notBefore |-> 0, exc |-> FALSE, status |-> None, last |-> None, dead |-> FALSE,
           open |-> {}, result |-> None]

Init ==
    /\ policy \in Policies
    /\ cached = None /\ created = {}
    /\ transport = [o \in Clients |-> "none"]
    /\ drops = [state |-> "idle", client |-> None, left |-> Drops, stranded |-> {}]
    /\ pc = [r \in Runs |-> "idle"]
    /\ held = [r \in Runs |-> None]
    /\ call = [r \in Runs |-> NoCall]

Goto(r, at) == pc' = [pc EXCEPT ![r] = at]
With(r, c) == call' = [call EXCEPT ![r] = c]

\* A call ends: it returns or raises.
Ends(r, c, result) == Goto(r, "ready") /\ With(r, [c EXCEPT !.result = result])

\* _get_llm_client, when a run starts.
Take(r) ==
    /\ pc[r] = "idle"
    /\ Goto(r, "ready")
    /\ IF cached # None
       THEN held' = [held EXCEPT ![r] = cached] /\ UNCHANGED <<cached, created>>
       ELSE \E o \in Clients \ created :
                /\ cached' = o /\ created' = created \cup {o}
                /\ held' = [held EXCEPT ![r] = o]
    /\ UNCHANGED <<policy, transport, drops, call>>

Leave(r) ==
    /\ pc[r] = "ready" /\ Goto(r, "gone")
    /\ UNCHANGED <<policy, cached, created, transport, drops, held, call>>

\* Mutant of Spent: an attempt is made with no time left.
Spent_Late(c) == policy.budget # None /\ c.elapsed > policy.budget
\* Is the budget used up?
Spent(c) == policy.budget # None /\ c.elapsed >= policy.budget

\* The loop is over without a response to hand to the caller.  The first of:
\* an exception seen in any attempt, the last retryable status, neither.  A
\* stream answered with a retryable status last is read and closed first.
GiveUp(r, c) ==
    CASE c.exc -> Ends(r, c, "connection")
      [] ~c.exc /\ c.status # None /\ c.stream -> Goto(r, "tail") /\ With(r, c)
      [] ~c.exc /\ c.status # None /\ ~c.stream -> Ends(r, c, Classified(c.status))
      [] OTHER -> Ends(r, c, "connection")

\* Mutant of NextAttempt: without budget the loop goes on, not out.
NextAttempt_Continues(r, c) ==
    LET sent == [c EXCEPT !.attempt = @ + 1, !.begun = c.elapsed] IN
    CASE Spent(c) -> Goto(r, "nap") /\ With(r, c)
      [] ~Spent(c) /\ c.dead -> Ends(r, sent, "untyped")
      [] OTHER -> Goto(r, "sent") /\ With(r, sent)
\* The head of the loop.  A request on an httpx client that was closed raises.
NextAttempt(r, c) ==
    LET sent == [c EXCEPT !.attempt = @ + 1, !.begun = c.elapsed] IN
    CASE Spent(c) -> GiveUp(r, c)
      [] ~Spent(c) /\ c.dead -> Ends(r, sent, "untyped")
      [] OTHER -> Goto(r, "sent") /\ With(r, sent)

\* A call begins: _get_http_client, then the first attempt.
Call(r) ==
    /\ pc[r] = "ready" /\ call[r].n < MaxCalls
    /\ transport' = [transport EXCEPT ![held[r]] = IF @ = "none" THEN "open" ELSE @]
    /\ \E s \in BOOLEAN :
          NextAttempt(r, [NoCall EXCEPT !.n = call[r].n + 1, !.stream = s, !.open = call[r].open,
                                        !.dead = transport[held[r]] = "closing"])
    /\ UNCHANGED <<policy, cached, created, drops, held>>

Backoff(n) == Min2(policy.initial * 2 ^ (n - 1), policy.cap)
\* Mutant of Delay: the header is not read.
Delay_Own(c, after) ==
    IF policy.budget = None THEN Backoff(c.attempt) ELSE Min2(Backoff(c.attempt), policy.budget - c.begun)
Delay(c, after) ==
    LET asked == IF after = None THEN Backoff(c.attempt) ELSE Max2(Backoff(c.attempt), after)
    IN IF policy.budget = None THEN asked ELSE Min2(asked, policy.budget - c.begun)

Sleep(r, c, after) ==
    /\ Goto(r, "nap")
    /\ With(r, [c EXCEPT !.nap = Delay(c, after),
                         !.notBefore = IF after = None THEN 0 ELSE c.elapsed + after])

\* An attempt ends in an exception.
Fails(r, c, kind) ==
    IF kind = "aborted" THEN Ends(r, c, "untyped")
    ELSE LET f == [c EXCEPT !.exc = TRUE] IN
         IF ~policy.retry \/ c.attempt >= policy.attempts THEN GiveUp(r, f) ELSE Sleep(r, f, None)

\* An attempt is answered.  A stream's response is entered; one that will be
\* retried is closed before the nap.
Entered(c) == IF c.stream THEN c.open \cup {<<c.n, c.attempt>>} ELSE c.open
Answered(r, c, a) ==
    LET got == [c EXCEPT !.open = Entered(c)]
        kept == [got EXCEPT !.status = a.status]
    IN CASE a.status \notin Retryable /\ c.stream -> Goto(r, "reading") /\ With(r, kept)
         [] a.status \notin Retryable /\ ~c.stream ->
                Ends(r, kept, IF a.status = "ok" THEN "returned" ELSE Classified(a.status))
         [] a.status \in Retryable /\ c.attempt >= policy.attempts -> GiveUp(r, kept)
         [] OTHER -> Sleep(r, [c EXCEPT !.status = a.status], a.after)

Attempt(r) ==
    /\ pc[r] = "sent"
    /\ \E a \in Answers, d \in Durations :
          LET c == [call[r] EXCEPT !.elapsed = @ + d, !.last = a.status] IN
          /\ call[r].dead => a.status = "aborted"
          /\ IF a.status \in Statuses THEN Answered(r, c, a) ELSE Fails(r, c, a.status)
    /\ UNCHANGED <<policy, cached, created, transport, drops, held>>

Wake(r) ==
    /\ pc[r] = "nap"
    /\ NextAttempt(r, [call[r] EXCEPT !.elapsed = @ + call[r].nap, !.nap = 0])
    /\ UNCHANGED <<policy, cached, created, transport, drops, held>>

\* Mutant of Closed: the response is left open.
Closed_Not(c) == c
Closed(c) == [c EXCEPT !.open = @ \ {<<c.n, c.attempt>>}]

\* The body of the last retryable answer is read for the message.
Tail(r) ==
    /\ pc[r] = "tail"
    /\ Ends(r, Closed(call[r]), Classified(call[r].status))
    /\ UNCHANGED <<policy, cached, created, transport, drops, held>>

\* The consumer of a stream is done with it (complete_stream's finally).
Read(r) ==
    /\ pc[r] = "reading"
    /\ Ends(r, Closed(call[r]),
            IF call[r].status = "ok" THEN "returned" ELSE Streamed(call[r].status))
    /\ UNCHANGED <<policy, cached, created, transport, drops, held>>

\* The run is cancelled in a call: the reader of a stream closes it, the
\* reading of the last answer's body does not.
Cancel(r) ==
    /\ pc[r] \in {"sent", "nap", "tail", "reading"}
    /\ Goto(r, "gone")
    /\ With(r, [IF pc[r] = "reading" THEN Closed(call[r]) ELSE call[r] EXCEPT !.result = "cancelled"])
    /\ UNCHANGED <<policy, cached, created, transport, drops, held>>

Using(o) == {r \in Runs : held[r] = o /\ pc[r] # "gone"}

\* Mutant of Closes: the client is dropped and not closed.
Closes_Never(o) == FALSE
\* aclose has something to close.
Closes(o) == transport[o] = "open"

\* invalidate_llm_client, close: the client leaves the cache and its transport
\* begins to close; requests on it fail from then on.
Drop ==
    /\ drops.state = "idle" /\ drops.left > 0 /\ cached # None
    /\ cached' = None
    /\ LET o == cached IN
       /\ drops' = [drops EXCEPT !.left = @ - 1, !.client = o,
                                 !.state = IF Closes(o) THEN "closing" ELSE "idle",
                                 !.stranded = IF Using(o) # {} THEN @ \cup {o} ELSE @]
       /\ transport' = [transport EXCEPT ![o] = IF Closes(o) THEN "closing" ELSE @]
       /\ call' = [r \in Runs |-> IF held[r] = o /\ Closes(o)
                                  THEN [call[r] EXCEPT !.dead = TRUE] ELSE call[r]]
    /\ UNCHANGED <<policy, created, pc, held>>

\* aclose forgets the transport once it is closed.
Forget ==
    /\ drops.state = "closing"
    /\ transport' = [transport EXCEPT ![drops.client] = "none"]
    /\ drops' = [drops EXCEPT !.state = "idle"]
    /\ UNCHANGED <<policy, cached, created, pc, held, call>>

Step(r) == Call(r) \/ Attempt(r) \/ Wake(r) \/ Tail(r) \/ Read(r)
Next ==
    \/ \E r \in Runs : Take(r) \/ Step(r) \/ Leave(r) \/ Cancel(r)
    \/ Drop \/ Forget

\* httpx's timeouts answer an attempt, the timer wakes a nap.
Fairness == \A r \in Runs : WF_vars(Attempt(r) \/ Wake(r) \/ Tail(r))
Spec == Init /\ [][Next]_vars /\ Fairness
-----------------------------------------------------------------------------
InCall(r) == pc[r] \in {"sent", "nap", "tail"}

\* No attempt is issued after the budget is exhausted, so a call takes at most
\* its budget and one attempt, back-off included.
WithinBudget ==
    \A r \in Runs, d \in Durations :
        (policy.budget # None /\ \A e \in Durations : e <= d)
            => /\ call[r].elapsed <= policy.budget + d
               /\ pc[r] = "sent" => call[r].begun < policy.budget

\* A server that asks for a pause is not asked again before it is over: where
\* the budget shortens the nap, the next attempt is not made.
RetryAfterHonoured ==
    \A r \in Runs : pc[r] = "sent" => call[r].begun >= call[r].notBefore

\* _request, _open_stream: a call stays within its budget and waits as long as
\* it is told.
CallTimes == WithinBudget /\ RetryAfterHonoured

\* At most one response of a call is open at a time, and after a call that was
\* not cancelled none is, except where an exception of an earlier attempt hides
\* the status of the last one.
StreamsClosed ==
    \A r \in Runs :
        LET c == call[r]  own == {o \in c.open : o[1] = c.n} IN
        /\ Cardinality(own) <= 1
        /\ pc[r] = "sent" => own = {}
        /\ pc[r] = "ready" /\ c.exc = FALSE => own = {}

\* A client object that is neither cached nor used has no open transport,
\* unless a run held it when it was dropped and called again afterwards.
TransportsClosed ==
    \A o \in created :
        o # cached /\ o \notin drops.stranded => transport[o] = "none" \/ drops.client = o

\* complete_stream, aclose: neither responses nor transports are left open.
NothingLeftOpen == StreamsClosed /\ TransportsClosed

\* Every call ends or hands its stream over, however the server answers.
CallsEnd == \A r \in Runs : InCall(r) ~> ~InCall(r)

\* Statements of the documentation that the code does not meet (README,
\* Disagreements); no run checks them.

\* A call whose last answer was a status to retry raises that status's error
\* (openspec llm-provider-reliability: "WHEN a provider receives HTTP 429 after
\* retries are exhausted THEN it raises LLMRateLimitError").  An exception of an
\* earlier attempt is raised instead.
LastAnswerRaised ==
    \A r \in Runs :
        LET c == call[r] IN
        c.last \in {"limited", "overloaded"} /\ c.attempt = policy.attempts /\ c.result \notin {None, "cancelled"}
            => c.result = "rate_limit"
=============================================================================
