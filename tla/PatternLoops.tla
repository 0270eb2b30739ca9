---------------------------- MODULE PatternLoops ----------------------------
(***************************************************************************)
(* The loops of the three patterns (react, plan_execute, reflexion), in     *)
(* both modes: native, where the client returns tool calls and the pattern  *)
(* keeps a conversation, and legacy, where every reply is one JSON action.  *)
(* Replies, the outcomes of tools and the expiry of the step timer come     *)
(* when they like, and an answer is told only by where it comes from.  A   *)
(* run may execute() its pattern again, when its output does not validate. *)
(* What the patterns put before the model, and how they take the text of   *)
(* its replies, are functions at the end: the wording is left out.         *)
(***************************************************************************)
EXTENDS Integers, Sequences

CONSTANTS
    Setups,        \* [kind, native, llm, tariff]: the patterns a run may have
    Tools,         \* the ids in ctx.tools
    NameOf,        \* what each tool's describe() calls it
    NamesAsked,    \* the tool calls of one reply, as sequences of names
    Plans,         \* the plans the model may draw up, as sequences of items
    MaxSteps, MaxRetries,
    RetryLimit,    \* budget.max_validation_retries
    Ceiling,       \* budget.max_cost_usd
    CallCosts,     \* what one reply may cost
    MaxExecutes,   \* bound on the executions of a run
    Nameless       \* what a describe() without a name gives

\* What the run is given: budgets and costs are not negative, and a reply with
\* tool calls has one at least.
LoopAssumption ==
    /\ RetryLimit \in Nat /\ Ceiling \in Nat /\ CallCosts \subseteq Nat
    /\ \A names \in NamesAsked : names \in Seq(STRING) /\ names # <<>>

VARIABLES
    setup,         \* never changes
    at,            \* what execute() awaits, or is about to
    executes, step, retries,
    todo,          \* what the last reply asked for and is still to be done
    conversation,  \* self._messages, after the prompts
    said,          \* the tool calls the model has made in this execution
    noted,         \* has PlanExecute results to report?
    answer,        \* what execute() returned, or "error"
    recorded,      \* ctx.state["_runtime_last_output"]
    ctx,           \* [cost, unknown, skipped, results]: the rest of the run's context
    refusals,      \* __tool_retry_counts__
    spent,         \* what the replies of this run have cost, accounted for or not
    requested      \* tool.retry_requested events of a tool since it last succeeded

ends == <<answer, recorded>>
talk == <<conversation, said>>
tools == <<refusals, requested>>
still == <<setup, executes>>
vars == <<still, at, step, retries, todo, talk, noted, ends, ctx, tools, spent>>

Nothing == "none"
NoCost == -1    \* cost_usd is None
Kind == setup.kind
Native == setup.native
Capped == setup.tariff # "uncapped"
Priced == setup.tariff # "unpriced"

Init ==
    /\ setup \in Setups
    /\ at = "start"
    /\ executes = 1 /\ step = 0 /\ retries = 0
    /\ todo = <<>> /\ conversation = <<>> /\ said = <<>> /\ noted = FALSE
    /\ answer = Nothing /\ recorded = Nothing
    /\ ctx = [cost |-> NoCost, unknown |-> FALSE, skipped |-> FALSE, results |-> FALSE]
    /\ refusals = [t \in Tools |-> 0] /\ requested = [t \in Tools |-> 0]
    /\ spent = 0

(***************************************************************************)
(* The ends of execute(), and of a step.                                   *)
(***************************************************************************)
Raise == at' = "over" /\ answer' = "error" /\ UNCHANGED recorded
Unrecorded(value) == at' = "over" /\ answer' = value /\ UNCHANGED recorded

\* Mutant of Final: the answer is returned, but not kept for the memory.
Final_Unrecorded(value) == at' = "over" /\ answer' = value /\ UNCHANGED recorded

Final(value) == at' = "over" /\ answer' = value /\ recorded' = value

\* Legacy Reflexion reflects first, if it has tool results to reflect on.
FirstWait(results) ==
    IF Native THEN "ask" ELSE IF Kind = "reflexion" /\ results THEN "to_reflect" ELSE "to_act"

\* One more step, or RuntimeError.
NextStep(results) ==
    IF step + 1 < MaxSteps
      THEN step' = step + 1 /\ at' = FirstWait(results) /\ UNCHANGED ends
      ELSE Raise /\ UNCHANGED step

\* Mutant of Fresh: the conversation of the execution before goes on.
Fresh_Kept == UNCHANGED conversation /\ said' = <<>>

Fresh == conversation' = <<>> /\ said' = <<>>

\* A subclass may resolve the follow-up itself.
Resolved == Final("resolved")

\* execute() up to its first call.
Start ==
    /\ at = "start"
    /\ Fresh
    /\ step' = 0 /\ retries' = 0 /\ todo' = <<>> /\ noted' = FALSE
    /\ \/ Resolved
       \/ Kind = "plan" /\ ~setup.llm /\ Unrecorded("needs_llm")
       \/ Kind = "plan" /\ setup.llm /\ at' = "to_plan" /\ UNCHANGED ends
       \/ Kind # "plan" /\ at' = FirstWait(ctx.results) /\ UNCHANGED ends
    /\ UNCHANGED <<still, ctx, tools, spent>>

(***************************************************************************)
(* call_llm: the cost budget before a call and after it, and its accounts.  *)
(***************************************************************************)
\* Mutant of Refuses: the budget is left to the check after the call.
Refuses_Never(estimate) == FALSE

\* The prompt's own cost is counted in advance.
Refuses(estimate) == Capped /\ Priced /\ ctx.cost # NoCost /\ ctx.cost + estimate > Ceiling

\* budget.cost_skipped is due; also for a priced client that has cost nothing yet.
Skips == Capped /\ (~Priced \/ ctx.cost = NoCost)

\* Reflection swallows every exception and goes on to select an action.
Failed == IF at \in {"to_reflect", "reflect"} THEN at' = "to_act" /\ UNCHANGED ends ELSE Raise

Awaited == [to_plan |-> "plan", to_reflect |-> "reflect", to_act |-> "act"]

Ask ==
    /\ at \in DOMAIN Awaited
    /\ IF setup.llm
         THEN /\ UNCHANGED step
              /\ \E estimate \in {0, 1} :
                    IF Refuses(estimate)
                      THEN Failed /\ UNCHANGED ctx
                      ELSE /\ at' = Awaited[at]
                           /\ ctx' = [ctx EXCEPT !.skipped = @ \/ Skips]
                           /\ UNCHANGED ends
         ELSE /\ IF Kind = "reflexion" /\ at = "to_act"
                   THEN NextStep(ctx.results)
                   ELSE Failed /\ UNCHANGED step
              /\ UNCHANGED ctx
    /\ UNCHANGED <<still, retries, todo, talk, noted, tools, spent>>

\* The cost is unknown for good once a reply does not tell it.
Charged(price) ==
    IF ctx.unknown \/ ~Priced
      THEN [ctx EXCEPT !.cost = NoCost, !.unknown = TRUE, !.skipped = @ \/ Capped]
      ELSE [ctx EXCEPT !.cost = price + IF @ = NoCost THEN 0 ELSE @]

\* A reply tells its usage, or does not.
Account ==
    \/ \E price \in (IF Priced THEN CallCosts ELSE {0}) :
          ctx' = Charged(price) /\ spent' = spent + price
    \/ UNCHANGED <<ctx, spent>>

Exhausted == Capped /\ ctx'.cost # NoCost /\ ctx'.cost > Ceiling

(***************************************************************************)
(* call_tool: an id that is not registered raises; a ModelRetryError is     *)
(* counted, and permanent beyond the limit; another exception may be        *)
(* answered by the tool's fallback().                                      *)
(***************************************************************************)
ToolId(name) ==
    IF name \notin Tools /\ \E t \in Tools : NameOf[t] = name
      THEN CHOOSE t \in Tools : NameOf[t] = name
      ELSE name

\* Mutant of MayAskAgain: one request more than the limit.
MayAskAgain_OneMore(t) == refusals[t] + 1 <= RetryLimit + 1

MayAskAgain(t) == refusals[t] + 1 <= RetryLimit

Succeeds(t) ==
    /\ refusals' = [refusals EXCEPT ![t] = 0]
    /\ requested' = [requested EXCEPT ![t] = 0]
    /\ ctx' = [ctx EXCEPT !.results = TRUE]

AsksAgain(t) ==
    /\ refusals' = [refusals EXCEPT ![t] = @ + 1]
    /\ requested' = [requested EXCEPT ![t] = IF MayAskAgain(t) THEN @ + 1 ELSE @]
    /\ UNCHANGED ctx

FallsBackOrFails == UNCHANGED <<tools, ctx>>

CallTool(id, ok) ==
    \/ id \in Tools /\ IF ok THEN Succeeds(id) ELSE AsksAgain(id)
    \/ (ok => id \in Tools) /\ FallsBackOrFails

(***************************************************************************)
(* Native mode.  generate() is called without a look at the budget, and     *)
(* its usage is not counted.  A reply has tool calls, or text, or neither,  *)
(* which a subclass may repair.                                            *)
(***************************************************************************)
CallsTools(names) ==
    /\ todo' = names
    /\ said' = said \o [i \in DOMAIN names |-> <<step, i>>]
    /\ at' = "call"
    /\ UNCHANGED ends

\* What the text of a reply ends with.  PlanExecute forgets it if it has no
\* results.
ReactCloses == \E value \in {"repaired", "text", "empty"} : Final(value)
ReflexionCloses == \E value \in {"repaired", "text", "empty"} : Final(value)
PlanCloses ==
    \/ Final("repaired")
    \/ \E value \in {"text", "empty"} :
          Final(IF ~noted THEN "executed" ELSE IF value = "text" THEN "text" ELSE "results")

\* A reply with tool calls, one that closes, or an error of the client.
Replies(Closes) ==
    /\ at = "ask"
    /\ \/ /\ setup.llm
          /\ \E price \in (IF Priced THEN CallCosts ELSE {0}) : spent' = spent + price
          /\ \/ \E names \in NamesAsked : CallsTools(names)
             \/ Closes /\ UNCHANGED <<todo, said>>
       \/ Raise /\ UNCHANGED <<todo, said, spent>>
    /\ UNCHANGED <<still, step, retries, conversation, noted, ctx, tools>>

ReactReply == Kind = "react" /\ Replies(ReactCloses)
ReflexionReply == Kind = "reflexion" /\ Replies(ReflexionCloses)
PlanReply == Kind = "plan" /\ Replies(PlanCloses)

\* Mutant of Answered: a call that failed is left without a result.
Answered_CallOnly(id, ok) ==
    conversation \o << <<"call", id>> >> \o IF ok THEN << <<"result", id>> >> ELSE <<>>

\* The call and its result enter the conversation together.
Answered(id, ok) == conversation \o << <<"call", id>>, <<"result", id>> >>

\* The first call that is still to be done is, and has its result or an error.
Done(ok) ==
    /\ CallTool(ToolId(Head(todo)), ok)
    /\ conversation' = Answered(said[Len(said) - Len(todo) + 1], ok)
    /\ todo' = Tail(todo)
    /\ IF Len(todo) = 1 THEN NextStep(ctx.results) ELSE UNCHANGED <<at, step, ends>>
    /\ UNCHANGED <<still, retries, said, spent>>

\* A tool that raises ends the run; PlanExecute tells the model.
Fails ==
    /\ CallTool(ToolId(Head(todo)), FALSE)
    /\ Raise /\ UNCHANGED <<still, step, retries, todo, talk, noted, spent>>

ReactCall == at = "call" /\ Kind = "react" /\ (Fails \/ (Done(TRUE) /\ UNCHANGED noted))
ReflexionCall == at = "call" /\ Kind = "reflexion" /\ (Fails \/ (Done(TRUE) /\ UNCHANGED noted))
PlanCall == at = "call" /\ Kind = "plan" /\ (\E ok \in BOOLEAN : Done(ok)) /\ noted' = TRUE

(***************************************************************************)
(* Legacy mode.  "odd" is a type no pattern has, a tool's name an action    *)
(* that calls it, "nameless" one that forgets to say which.                *)
(***************************************************************************)
GoesOn == NextStep(ctx.results) /\ UNCHANGED <<retries, todo>>
Refused == Raise /\ UNCHANGED <<step, retries, todo>>

ReactActs(action) ==
    CASE action = "final" -> Final("text") /\ UNCHANGED <<step, retries, todo>>
      [] action = "continue" -> GoesOn
      [] action \in {"retry", "odd", "nameless"} -> Refused
      [] OTHER -> at' = "acting" /\ todo' = <<action>> /\ UNCHANGED <<step, retries, ends>>

ReflexionActs(action) ==
    CASE action = "final" -> Final("text") /\ UNCHANGED <<step, retries, todo>>
      [] action \in {"continue", "odd"} -> GoesOn
      [] action = "nameless" -> Refused
      [] action = "retry" ->
            /\ retries' = retries + 1
            /\ IF retries + 1 >= MaxRetries
                 THEN Unrecorded("gave_up") /\ UNCHANGED step
                 ELSE NextStep(ctx.results)
            /\ UNCHANGED todo
      [] OTHER -> at' = "acting" /\ todo' = <<action>> /\ UNCHANGED <<step, retries, ends>>

Acts(action) == IF Kind = "react" THEN ReactActs(action) ELSE ReflexionActs(action)

Actions == {Head(names) : names \in NamesAsked} \cup {"final", "continue", "retry", "odd", "nameless"}

Selected ==
    /\ at = "act"
    /\ \/ /\ Account
          /\ \E action \in Actions :
                IF Exhausted THEN Raise /\ UNCHANGED <<step, retries, todo>> ELSE Acts(action)
       \/ Raise /\ UNCHANGED <<step, retries, todo, ctx, spent>>
    /\ UNCHANGED <<still, talk, noted, tools>>

\* Only "final" and a retry that names a tool are heeded.
Reflected ==
    /\ at = "reflect"
    /\ \/ /\ Account
          /\ \/ ~Exhausted /\ Final("text") /\ UNCHANGED todo
             \/ /\ ~Exhausted
                /\ \E names \in NamesAsked : todo' = <<Head(names)>>
                /\ at' = "acting" /\ UNCHANGED ends
             \/ Failed /\ UNCHANGED todo
       \/ Failed /\ UNCHANGED <<todo, ctx, spent>>
    /\ UNCHANGED <<still, step, retries, talk, noted, tools>>

\* The tool of an action runs after the step, and outside its timer.
Acting ==
    /\ at = "acting"
    /\ \E ok \in BOOLEAN :
          /\ CallTool(Head(todo), ok)
          /\ IF ok THEN NextStep(ctx'.results) ELSE Raise /\ UNCHANGED step
    /\ todo' = <<>>
    /\ UNCHANGED <<still, retries, talk, noted, spent>>

(***************************************************************************)
(* PlanExecute.  The plan is a prompt for the native mode; the legacy mode  *)
(* follows it, item by item.                                               *)
(***************************************************************************)
Executes(plan) ==
    /\ at' = IF Native THEN "ask" ELSE "follow"
    /\ todo' = IF Native THEN <<>> ELSE SubSeq(plan, 1, IF Len(plan) < MaxSteps THEN Len(plan) ELSE MaxSteps)
    /\ UNCHANGED ends

Planned ==
    /\ at = "plan"
    /\ \/ /\ Account
          /\ \E plan \in Plans :
                IF Exhausted THEN Raise /\ UNCHANGED todo ELSE Executes(plan)
       \/ Raise /\ UNCHANGED <<todo, ctx, spent>>
    /\ UNCHANGED <<still, step, retries, talk, noted, tools>>

Follow ==
    /\ at = "follow"
    /\ IF todo = <<>>
         THEN Final(IF noted THEN "results" ELSE "executed") /\ UNCHANGED <<todo, noted, tools, ctx>>
         ELSE /\ todo' = Tail(todo)
              /\ noted' = TRUE
              /\ CASE Head(todo) = "malformed" -> Raise /\ UNCHANGED <<tools, ctx>>
                   [] Head(todo) = "final" -> Final("text") /\ UNCHANGED <<tools, ctx>>
                   [] Head(todo) = "note" -> UNCHANGED <<at, ends, tools, ctx>>
                   [] OTHER -> (\E ok \in BOOLEAN : CallTool(Head(todo), ok)) /\ UNCHANGED <<at, ends>>
    /\ UNCHANGED <<still, step, retries, talk, spent>>

(***************************************************************************)
(* The timer of a step, which cancels what the step awaits; PlanExecute     *)
(* times only its native calls of the model.                               *)
(***************************************************************************)
\* Mutant of Timed: a step is timed until its first tool call.
Timed_UntilTools == at \in {"ask", "reflect", "to_act", "act"} /\ (Kind # "plan" \/ at = "ask")

Timed ==
    IF Kind = "plan" THEN at = "ask"
                     ELSE at \in {"ask", "call", "to_reflect", "reflect", "to_act", "act"}

Expire ==
    /\ Timed
    /\ Raise
    /\ UNCHANGED <<still, step, retries, todo, talk, noted, ctx, tools, spent>>

\* The runtime executes the pattern again, with the context as it is.
Again ==
    /\ at = "over" /\ answer # "error"
    /\ executes < MaxExecutes
    /\ executes' = executes + 1
    /\ at' = "start" /\ answer' = Nothing
    /\ UNCHANGED <<setup, step, retries, todo, talk, noted, recorded, ctx, tools, spent>>

Next ==
    \/ Start \/ Ask \/ Selected \/ Reflected \/ Acting
    \/ ReactReply \/ ReflexionReply \/ PlanReply \/ ReactCall \/ ReflexionCall \/ PlanCall
    \/ Planned \/ Follow \/ Expire \/ Again

Spec == Init /\ [][Next]_vars

\* What no timer of the pattern bounds.
Unbounded == PlanCall \/ Acting \/ Follow

\* Only the timer is sure to end what it times; elsewhere the client's own
\* timeouts and the tools' executors do.
Fairness ==
    /\ WF_vars(Start \/ Ask)
    /\ WF_vars(Expire)
    /\ WF_vars(Planned)
    /\ WF_vars(Unbounded)

FairSpec == Spec /\ Fairness

(***************************************************************************)
(* Prompts: which entries of the history and which results of tools one    *)
(* shows, under what name a tool is offered, in what shape a result goes   *)
(* back, what is made of a reply's text.  Entries and results are told by  *)
(* their place.                                                            *)
(***************************************************************************)
Kinds == {"react", "plan", "reflexion"}

\* A limit from the configuration: a positive integer, or the default.
Limit(configured, default) == IF configured > 0 THEN configured ELSE default

\* Mutant of Last: the first ones.
Last_First(n, k) == IF n < k THEN 1..n ELSE 1..k
\* The places of the last k of n.
Last(n, k) == (IF n < k THEN 1 ELSE n - k + 1)..n

\* An entry shows what the user and the assistant said, unless it is empty.
ShownHistory(entries) == {i \in Last(Len(entries), 5) : entries[i] # "empty"}

\* A request: the history's entries and the results' places that it shows, and
\* whether it lists the tools in its text or offers them beside it.
Request(history, results, offers) == [history |-> history, results |-> results, offers |-> offers]
Fragments(given) == SelectSeq(given, LAMBDA f : f # "blank")

\* _legacy_system_prompt and _legacy_user_prompt: the input and the tools.
Reacting == Request({}, {}, "listed")
Reflecting(entries, results) == Request(ShownHistory(entries), Last(results, 2), "no")
Selecting(entries) == Request(ShownHistory(entries), {}, "listed")
Planning(entries) == Request(ShownHistory(entries), {}, "no")
\* Native conversations begin with the input alone, or the input and the plan;
\* the results are messages of it.
Conversing(results) == Request({}, 1..results, "offered")

\* The requests a step makes in turn.
Requests(kind, native, entries, results) ==
    CASE kind = "react" -> IF native THEN <<Conversing(results)>> ELSE <<Reacting>>
      [] kind = "plan" -> IF native THEN <<Planning(entries), Conversing(results)>> ELSE <<Planning(entries)>>
      [] kind = "reflexion" ->
             IF native THEN <<Conversing(results)>>
             ELSE (IF results > 0 THEN <<Reflecting(entries, results)>> ELSE <<>>) \o <<Selecting(entries)>>

\* The name a tool is offered by, and the tool a call by that name reaches.
OfferedName(names, t) == IF names[t] = Nameless THEN t ELSE names[t]
\* Mutant of Reached: the name is taken for an id.
Reached_ById(names, name) == IF name \in Tools THEN name ELSE Nameless
Reached(names, name) ==
    IF name \in Tools THEN name
    ELSE IF \E t \in Tools : names[t] = name THEN CHOOSE t \in Tools : names[t] = name
    ELSE Nameless

\* A result goes back as a message of its own, or as a block of the user's.
ResultMessage(provider) ==
    IF provider = "anthropic" THEN [role |-> "user", shape |-> "result_block"]
                              ELSE [role |-> "tool", shape |-> "result"]

\* The text of a reply: an object; other JSON; a list of one object or of two;
\* an object among other text, or two; text without any.
ReplyTexts == {"object", "number", "list_of_one", "list_of_two", "embedded", "two_embedded", "text"}
\* Mutant of Parsed: only the whole text is tried.
Parsed_Whole(reply) == IF reply = "object" THEN "action" ELSE "answer"
\* From the first brace to the last, if the whole is no object.
Parsed(reply) == IF reply \in {"object", "list_of_one", "embedded"} THEN "action" ELSE "answer"

\* A plan is a list; what is not is its only item; no object is no plan.
PlanOf(reply, plan) ==
    CASE Parsed(reply) = "answer" \/ plan = "absent" -> <<>>
      [] plan = "list" -> <<"items">>
      [] OTHER -> <<"final">>

\* finalize: an output is validated only against a type.
Finalized(typed, fits) == IF ~typed \/ fits THEN "returned" ELSE "retry"
\* The correction is a message of the transcript, made once of an error.
Corrected(scratch, transcript) ==
    IF scratch = "none" THEN [scratch |-> "none", transcript |-> transcript]
    ELSE [scratch |-> "none", transcript |-> Append(transcript, "correction")]

(***************************************************************************)
(* Properties.                                                             *)
(***************************************************************************)
\* The conversation a native pattern sends is the tool calls the model has
\* made in this execution, in its order, each followed by its one result;
\* and while a batch is under way, the part of it that has been done.
ConversationPaired ==
    at \in {"ask", "call"} =>
        LET done == Len(said) - Len(todo)
        IN  /\ Len(conversation) = 2 * done
            /\ \A i \in 1..done :
                  conversation[2 * i - 1] = <<"call", said[i]>> /\ conversation[2 * i] = <<"result", said[i]>>

\* What the memory is given as the run's output is what its execution
\* returned, unless it gave up or had no client to plan with.
RecordedIsReturned ==
    at = "over" => answer \in {recorded, "error", "gave_up", "needs_llm"}

\* A tool asks the model for another attempt at most RetryLimit times between
\* two successes, whatever becomes of the requests.
RetriesBounded == \A t \in Tools : requested[t] <= RetryLimit

\* In legacy mode no reply is paid for once those before it have cost more than
\* the run's ceiling, though Reflexion swallows the error that says so.
LegacyCostCeiling ==
    [][ ~Native /\ Capped /\ spent' > spent => spent <= Ceiling ]_vars

\* The same of every mode: the documented meaning of max_cost_usd.
CostCeiling ==
    [][ Capped /\ spent' > spent => spent <= Ceiling ]_vars

\* Every execution ends, even if the model and the tools a step awaits never
\* answer.
EveryExecuteEnds == (at = "start") ~> (at = "over")

\* Reflexion reflects on the result of the last tool call, and a pattern that
\* shows history shows the latest of it.
LatestShown(entries, results) ==
    \A kind \in Kinds, native \in BOOLEAN :
        LET asked == Requests(kind, native, entries, results) IN
        /\ kind = "reflexion" /\ ~native /\ results > 0 => results \in asked[1].results
        /\ kind # "react" /\ ~native /\ Len(entries) > 0 /\ entries[Len(entries)] # "empty" =>
               \A i \in DOMAIN asked : Len(entries) \in asked[i].history

\* A tool that is offered is reached by the name it is offered by, if no other
\* has that for its name or its id.
OfferedIsReached(names) ==
    \A t \in Tools :
        LET name == OfferedName(names, t) IN
        (\A u \in Tools \ {t} : OfferedName(names, u) # name /\ u # name) => Reached(names, name) = t

\* The model may wrap the JSON it was asked for in other text; what is not a
\* single object is an answer.
RepliesTaken ==
    \A r \in ReplyTexts : Parsed(r) = "action" <=> r \in {"object", "list_of_one", "embedded"}

PromptsFaithful(entries, results, names) ==
    LatestShown(entries, results) /\ OfferedIsReached(names) /\ RepliesTaken

\* A statement of the documentation that the code does not meet (README,
\* Disagreements); no run checks it.

\* ReActPattern: the loop "feeds the results back"; in legacy mode it shows the
\* model no result.
ResultsFedBack(entries, results) ==
    results > 0 => \A native \in BOOLEAN : results \in Requests("react", native, entries, results)[1].results
=============================================================================
