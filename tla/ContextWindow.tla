---------------------------- MODULE ContextWindow ----------------------------
(***************************************************************************)
(* The context assemblers: what of a session's transcript a run is given.  *)
(* Messages are kept or left out whole, each at the cost the client counts *)
(* for it; an assembly is a sequence of positions in the transcript, with  *)
(* 0 for the notice that says how many were left out.                      *)
(***************************************************************************)
EXTENDS Integers, Sequences, SequencesExt, FiniteSetsExt

CONSTANTS
    Setups,         \* assemblers: [kind, max, head, input, reserve, summary]
    Roles,          \* roles of messages
    Costs,          \* what a message may cost: max(1, count_tokens)
    NoticeCost,     \* what the notice costs
    MaxMessages     \* messages of a transcript (bound)

VARIABLES
    assembler,      \* the agent's context assembler
    messages,       \* the transcript: [role, cost], equal ones are equal
    assembly        \* what assemble() returned last, and for how long a transcript

vars == <<assembler, messages, assembly>>

Nothing == [of |-> 0, kept |-> <<>>, omitted |-> 0, kept_tokens |-> 0, omitted_tokens |-> 0]

Init ==
    /\ assembler \in Setups
    /\ messages = <<>>
    /\ assembly = Nothing

CostOf(i) == IF i = 0 THEN NoticeCost ELSE messages[i].cost
Total(s) == FoldLeft(LAMBDA sum, i : sum + CostOf(i), 0, s)
Positions == [i \in DOMAIN messages |-> i]
Upwards(S) == SetToSortSeq(S, <)

\* _effective_budget.
Budget == Max({0, assembler.input - assembler.reserve})

\* s[-n:], which is all of s for n = 0.
Slice(s, n) == IF n = 0 \/ n >= Len(s) THEN s ELSE SubSeq(s, Len(s) - n + 1, Len(s))
-----------------------------------------------------------------------------
\* The longest end of s that can be paid: the first that cannot ends it.
\* Mutant of Suffix: older messages are looked at past one that does not fit.
Suffix_Skips(s, budget) ==
    LET Walk(kept, i) == IF Total(kept) + CostOf(i) <= budget THEN <<i>> \o kept ELSE kept
    IN FoldRight(LAMBDA i, kept : Walk(kept, i), s, <<>>)
Suffix(s, budget) ==
    LET fits == {n \in 0..Len(s) : Total(SubSeq(s, Len(s) - n + 1, Len(s))) <= budget}
        n == Max(fits)
    IN SubSeq(s, Len(s) - n + 1, Len(s))

\* TruncatingContextAssembler: the notice says what was to be left out, also
\* when max_messages is 0 and nothing is.
Truncated ==
    LET omitted == Max({0, Len(messages) - assembler.max})
    IN [omitted |-> omitted,
        kept |-> IF omitted = 0 THEN Positions
                 ELSE (IF assembler.summary THEN <<0>> ELSE <<>>) \o Slice(Positions, assembler.max)]

\* SlidingWindowContextAssembler.
Slid ==
    LET kept == Suffix(Positions, Budget)
    IN [kept |-> kept, omitted |-> Len(messages) - Len(kept)]

\* Mutant of HeadAndTail: the tail may cost the whole budget.
HeadAndTail_Both ==
    LET n == Min({assembler.head, Len(messages)})
        tail == Suffix(SubSeq(Positions, n + 1, Len(messages)), Budget)
    IN [omitted |-> Len(messages) - n - Len(tail),
        kept |-> SubSeq(Positions, 1, n) \o (IF Len(messages) > n + Len(tail) THEN <<0>> ELSE <<>>) \o tail]
\* HeadTailContextAssembler: the head is kept at any cost, and the notice is
\* not paid for.
HeadAndTail ==
    LET n == Min({assembler.head, Len(messages)})
        head == SubSeq(Positions, 1, n)
        tail == Suffix(SubSeq(Positions, n + 1, Len(messages)), Max({0, Budget - Total(head)}))
        omitted == Len(messages) - n - Len(tail)
    IN [omitted |-> omitted, kept |-> head \o (IF omitted > 0 THEN <<0>> ELSE <<>>) \o tail]

\* _score, as the rank of a class and the position in it.
Class(i) ==
    CASE messages[i].role = "system" /\ i = 1 -> 4
      [] messages[i].role = "tool" -> 3
      [] messages[i].role = "user" -> 2
      [] messages[i].role = "assistant" -> 1
      [] OTHER -> 0
Outranks(i, j) == Class(i) > Class(j) \/ (Class(i) = Class(j) /\ i > j)

\* Mutant of Weighted: in the order of their scores.
Weighted_Ranked ==
    LET ranked == SortSeq(Positions, Outranks)
        Take(kept, i) == IF Total(kept) + CostOf(i) <= Budget THEN Append(kept, i) ELSE kept
        kept == FoldLeft(Take, <<>>, ranked)
    IN [kept |-> kept, omitted |-> Len(messages) - Len(kept)]
\* ImportanceWeightedContextAssembler: whatever still fits, by rank, in the
\* order it was said.
Weighted ==
    LET ranked == SortSeq(Positions, Outranks)
        Take(kept, i) == IF Total(kept) + CostOf(i) <= Budget THEN Append(kept, i) ELSE kept
        kept == FoldLeft(Take, <<>>, ranked)
    IN [kept |-> Upwards(ToSet(kept)), omitted |-> Len(messages) - Len(kept)]

\* _DefaultContextAssembler.
Whole == [kept |-> Positions, omitted |-> 0]

Strategy == [default |-> Whole, truncating |-> Truncated, sliding_window |-> Slid,
             head_tail |-> HeadAndTail, importance_weighted |-> Weighted]

\* The messages that are not among those kept, equal ones left out.
LeftOut(kept) == {i \in DOMAIN messages : \A k \in ToSet(kept) \ {0} : messages[k] # messages[i]}

\* assemble().
Assemble ==
    LET trimmed == Strategy[assembler.kind]
    IN /\ assembly' = [of |-> Len(messages), kept |-> trimmed.kept, omitted |-> trimmed.omitted,
                       kept_tokens |-> Total(trimmed.kept),
                       omitted_tokens |-> Total(Upwards(LeftOut(trimmed.kept)))]
       /\ UNCHANGED <<assembler, messages>>

\* What a run, or the application, appends to the transcript.
Say(role, cost) ==
    /\ Len(messages) < MaxMessages
    /\ messages' = Append(messages, [role |-> role, cost |-> cost])
    /\ UNCHANGED <<assembler, assembly>>

Next == Assemble \/ \E role \in Roles, cost \in Costs : Say(role, cost)

Spec == Init /\ [][Next]_vars
-----------------------------------------------------------------------------
KeptMessages == SelectSeq(assembly.kept, LAMBDA i : i # 0)
Missing == (1..assembly.of) \ ToSet(KeptMessages)
Fitting == assembler.kind \in {"sliding_window", "importance_weighted"}

\* assemble: what a run is given is a part of the transcript in its order, one
\* notice at most; what is left out is as many as it says, and with what was
\* kept costs no more than the transcript; the one assembler that is told to
\* keep 0 messages aside.
PartInOrder ==
    LET kept == KeptMessages
    IN /\ \A i \in 1..Len(kept) - 1 : kept[i] < kept[i + 1]
       /\ Len(assembly.kept) - Len(kept) \in {0, 1}
       /\ (assembler.kind = "truncating" => assembler.max > 0) =>
             /\ assembly.omitted = Cardinality(Missing)
             /\ assembly.kept_tokens + assembly.omitted_tokens
                   <= Total(SubSeq(Positions, 1, assembly.of)) + (IF 0 \in ToSet(assembly.kept) THEN NoticeCost ELSE 0)

\* _trim_by_budget: the budget is kept to by the two that keep nothing at any
\* cost, and head_tail exceeds it by its head and its notice only.
WithinBudget ==
    /\ Fitting => Total(assembly.kept) <= Budget
    /\ assembler.kind = "head_tail" =>
          Total(KeptMessages) <= Max({Budget, Total(SubSeq(KeptMessages, 1, Min({assembler.head, Len(KeptMessages)})))})

\* _trim_by_budget: nothing is left out for want of a budget that was there: a
\* message that is missing does not fit with those of a higher score, or with
\* the head and everything newer, and then nothing older is kept.
NothingSpared ==
    LET kept == ToSet(KeptMessages)
        TooDear(before, i) == Total(Upwards(before)) + CostOf(i) > Budget
    IN \A i \in Missing :
          CASE assembler.kind = "importance_weighted" -> TooDear({k \in kept : Outranks(k, i)}, i)
            [] assembler.kind \in {"sliding_window", "head_tail"} ->
                  LET head == IF assembler.kind = "head_tail" THEN {k \in kept : k <= assembler.head} ELSE {}
                  IN /\ \A k \in kept \ head : k > i
                     /\ (\A j \in Missing : j <= i) => TooDear(kept, i)
            [] OTHER -> TRUE

WindowFaithful == PartInOrder /\ WithinBudget /\ NothingSpared

\* Statements of the documentation that the code does not meet (README,
\* Disagreements); no run checks them.

\* ImportanceWeightedContextAssembler: the newest message of the user goes
\* before the newest of a tool.
UserBeforeTool ==
    \A i \in Missing, k \in ToSet(KeptMessages) :
        assembler.kind = "importance_weighted" /\ messages[i].role = "user" /\ messages[k].role = "tool"
        /\ (\A j \in (i + 1)..assembly.of : messages[j].role # "user") => CostOf(i) > Budget
=============================================================================
