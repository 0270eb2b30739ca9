------------------------- MODULE RunLifecycleProofs -------------------------
(***************************************************************************)
(* Proofs about RunLifecycle, for every set of runs, sessions, agents and  *)
(* delegations, and for every backend: what a caller is told is the one    *)
(* verdict announced; the handlers on the bus are those of the runs under  *)
(* way; the runs inside a session are a chain of delegations; memory       *)
(* writeback stores a run's own input and output; the transcript tells of  *)
(* every run how it ended; and turns are whole where append_message        *)
(* neither suspends nor raises.                                            *)
(*                                                                         *)
(* OneVerdict is made inductive by saying where the announcement is made:  *)
(* nothing is announced before "concluding", where the announcement is the *)
(* outcome of a verdict that does not change any more, and only a run that *)
(* is done has a result.                                                   *)
(*                                                                         *)
(* ChainInside needs that a session's list holds exactly the runs in the   *)
(* lock, each once, and that whoever acts is its last: a run that waits    *)
(* has not moved since it delegated (LockInv). MemoryIsOwn rests on that:  *)
(* between a run's entry and its writeback the innermost hold is of its    *)
(* own line, so what overwrites the session's last output or the pattern's *)
(* context is too (OwnLines). TurnTellsVerdict and TurnsWhole are          *)
(* inductive over the order of a run's own appends (Tale, WholeInv).       *)
(***************************************************************************)
EXTENDS RunLifecycle, TLAPS

Shape ==
    /\ pc \in [Runs -> Stages]
    /\ verdict \in [Runs -> Verdicts]
    /\ result \in [Runs -> {"none", "completed", "failed", "raised", "cancelled"}]
    /\ announced \in [Runs -> Seq({"completed", "failed"})]

Announced ==
    \A r \in Runs :
       /\ pc[r] \notin {"concluding", "done"} => announced[r] = <<>>
       /\ pc[r] = "concluding" => announced[r] = <<Outcome(r)>>
       /\ pc[r] # "done" => result[r] = "none"

VerdictInv == Shape /\ Announced /\ OneVerdict

\* Where a run stands in the story of its announcement, apart from the rest of
\* the state: a step of one run keeps the others' where it is.
Story(r) ==
    /\ pc[r] \notin {"concluding", "done"} => announced[r] = <<>>
    /\ pc[r] = "concluding" => announced[r] = <<Outcome(r)>>
    /\ pc[r] # "done" => result[r] = "none"
    /\ Len(announced[r]) <= 1
    /\ result[r] \in {"completed", "failed"} => announced[r] = <<result[r]>>

\* The parts of the invariant, run by run.
LEMMA StoryByRun == (Announced /\ OneVerdict) <=> \A r \in Runs : Story(r)
  BY DEF Announced, OneVerdict, Story

\* A run whose own part of the state is unchanged keeps its story.
LEMMA OthersKeep ==
    ASSUME NEW q \in Runs, Story(q), pc'[q] = pc[q], verdict'[q] = verdict[q],
           result'[q] = result[q], announced'[q] = announced[q]
    PROVE  Story(q)'
  BY DEF Story, Outcome, Errs

\* The outcome of a run is one of two.
LEMMA OutcomeType == ASSUME NEW r \in Runs PROVE Outcome(r) \in {"completed", "failed"}
  BY DEF Outcome

\* A step before the announcement, which announces nothing.
LEMMA EarlyStep ==
    ASSUME Shape, NEW r \in Runs, Story(r), pc[r] \notin {"concluding", "done"},
           NEW stage \in Stages \ {"concluding", "done"}, Goto(r, stage),
           NEW v \in Verdicts, verdict' = [verdict EXCEPT ![r] = v],
           UNCHANGED <<result, announced>>, \A q \in Runs : Story(q)
    PROVE  Shape' /\ \A q \in Runs : Story(q)'
<1>1. Shape'
  BY DEF Shape, Goto
<1>2. ASSUME NEW q \in Runs
      PROVE  Story(q)'
  <2>1. CASE q = r
    <3>1. pc'[q] = stage /\ announced'[q] = <<>> /\ result'[q] = "none"
      BY <2>1 DEF Shape, Story, Goto
    <3> QED BY <3>1 DEF Story
  <2>2. CASE q # r
    <3>1. pc'[q] = pc[q] /\ verdict'[q] = verdict[q]
      BY <2>2 DEF Shape, Goto
    <3> QED BY <3>1, OthersKeep
  <2> QED BY <2>1, <2>2
<1> QED BY <1>1, <1>2

\* The end of a run, with a result that was announced or none that promises one.
LEMMA LastStep ==
    ASSUME Shape, NEW r \in Runs, \A q \in Runs : Story(q), pc[r] # "done",
           NEW got \in {"completed", "failed", "raised", "cancelled"}, Finish(r, got),
           got \in {"completed", "failed"} => announced[r] = <<got>>,
           UNCHANGED <<verdict, announced>>
    PROVE  Shape' /\ \A q \in Runs : Story(q)'
<1>1. Shape'
  BY DEF Shape, Finish, Goto, Stages
<1>2. ASSUME NEW q \in Runs
      PROVE  Story(q)'
  <2>1. CASE q = r
    <3>1. pc'[q] = "done" /\ result'[q] = got /\ announced'[q] = announced[q]
      BY <2>1 DEF Shape, Finish, Goto
    <3>2. Len(announced[q]) <= 1
      BY DEF Story
    <3> QED BY <2>1, <3>1, <3>2 DEF Story
  <2>2. CASE q # r
    <3>1. pc'[q] = pc[q] /\ result'[q] = result[q]
      BY <2>2 DEF Shape, Finish, Goto
    <3> QED BY <3>1, OthersKeep
  <2> QED BY <2>1, <2>2
<1> QED BY <1>1, <1>2

\* The announcement itself.
LEMMA AnnounceStep ==
    ASSUME Shape, NEW r \in Runs, \A q \in Runs : Story(q), Announce(r)
    PROVE  Shape' /\ \A q \in Runs : Story(q)'
<1>1. /\ pc[r] = "announcing" /\ pc' = [pc EXCEPT ![r] = "concluding"]
      /\ announced' = [announced EXCEPT ![r] = Append(@, Outcome(r))]
      /\ UNCHANGED <<verdict, result>>
  BY DEF Announce, At, Goto
<1>2. announced[r] = <<>> /\ result[r] = "none"
  BY <1>1 DEF Story
<1>3. announced'[r] = <<Outcome(r)>>
  BY <1>1, <1>2 DEF Shape
<1>4. Outcome(r)' = Outcome(r)
  BY <1>1 DEF Outcome, Errs
<1>5. Shape'
  BY <1>1, OutcomeType DEF Shape, Stages
<1>6. ASSUME NEW q \in Runs
      PROVE  Story(q)'
  <2>1. CASE q = r
    <3>1. pc'[q] = "concluding" /\ result'[q] = "none"
      BY <1>1, <1>2, <2>1 DEF Shape
    <3> QED BY <2>1, <3>1, <1>3, <1>4 DEF Story
  <2>2. CASE q # r
    <3>1. pc'[q] = pc[q] /\ announced'[q] = announced[q]
      BY <1>1, <2>2 DEF Shape
    <3> QED BY <1>1, <3>1, OthersKeep
  <2> QED BY <2>1, <2>2
<1> QED BY <1>5, <1>6

\* The steps that announce nothing and do not end the run.
LEMMA EarlySteps ==
    ASSUME Shape, NEW r \in Runs, \A q \in Runs : Story(q),
           \/ Request(r) \/ Acquire(r) \/ Setup(r) \/ Observe(r)
           \/ \E stores \in BOOLEAN : Return(r, stores)
           \/ Exhaust(r) \/ Remember(r) \/ RecordUser(r) \/ RecordAssistant(r)
           \/ Persist(r) \/ Fail(r) \/ Handoff(r)
    PROVE  Shape' /\ \A q \in Runs : Story(q)'
<1>0. verdict[r] \in Verdicts /\ verdict = [verdict EXCEPT ![r] = verdict[r]] /\ Story(r)
  BY DEF Shape
<1>1. CASE Request(r) \/ Acquire(r) \/ Setup(r) \/ Remember(r) \/ RecordUser(r) \/ Persist(r)
  <2>1. /\ pc[r] \notin {"concluding", "done"}
        /\ UNCHANGED <<verdict, result, announced>>
        /\ \E stage \in Stages \ {"concluding", "done"} : Goto(r, stage)
    BY <1>1 DEF Request, Called, Acquire, Setup, Remember, RecordUser, Persist, At, Stages
  <2> QED BY <1>0, <2>1, EarlyStep
<1>2. CASE RecordAssistant(r)
  <2>1. /\ pc[r] = "paired"
        /\ UNCHANGED <<verdict, result, announced>>
        /\ Goto(r, "announcing") \/ Goto(r, "persisting")
    BY <1>2 DEF RecordAssistant, At
  <2> QED BY <1>0, <2>1, EarlyStep DEF Stages
<1>3. CASE Fail(r)
  <2>1. /\ pc[r] \notin {"concluding", "done"}
        /\ Goto(r, "recording") /\ verdict' = [verdict EXCEPT ![r] = "failed"]
        /\ UNCHANGED <<result, announced>>
    BY <1>3 DEF Fail, MayFailAt, At
  <2> QED BY <1>0, <2>1, EarlyStep DEF Stages, Verdicts
<1>4. CASE Exhaust(r) \/ Handoff(r) \/ \E stores \in BOOLEAN : Return(r, stores)
  <2>1. /\ pc[r] = "executing"
        /\ \E stage \in Stages \ {"concluding", "done"} : Goto(r, stage)
        /\ \E v \in Verdicts : verdict' = [verdict EXCEPT ![r] = v]
        /\ UNCHANGED <<result, announced>>
    BY <1>4 DEF Exhaust, Handoff, Return, At, Stages, Verdicts
  <2> QED BY <1>0, <2>1, EarlyStep
<1>5. CASE Observe(r)
  <2>1. UNCHANGED <<pc, verdict, result, announced>>
    BY <1>5 DEF Observe
  <2> QED BY <2>1, OthersKeep DEF Shape
<1> QED BY <1>1, <1>2, <1>3, <1>4, <1>5

\* The steps that end a run.
LEMMA LastSteps ==
    ASSUME Shape, NEW r \in Runs, \A q \in Runs : Story(q),
           Refuse(r) \/ Conclude(r) \/ Escape(r) \/ Cancel(r)
    PROVE  Shape' /\ \A q \in Runs : Story(q)'
<1>1. CASE Refuse(r) \/ Escape(r) \/ Cancel(r)
  <2>1. /\ pc[r] # "done" /\ UNCHANGED <<verdict, announced>>
        /\ Finish(r, "raised") \/ Finish(r, "cancelled")
    BY <1>1 DEF Refuse, Called, Escape, Cancel, At
  <2> QED BY <2>1, LastStep
<1>2. CASE Conclude(r)
  <2>1. /\ pc[r] = "concluding" /\ UNCHANGED <<verdict, announced>> /\ Finish(r, Outcome(r))
    BY <1>2 DEF Conclude, At
  <2>2. announced[r] = <<Outcome(r)>>
    BY <2>1 DEF Story
  <2> QED BY <2>1, <2>2, OutcomeType, LastStep
<1> QED BY <1>1, <1>2

\* The initial state satisfies the invariant.
LEMMA VerdictInit == Init => VerdictInv
  BY DEF Init, VerdictInv, Shape, Announced, OneVerdict, Stages, Verdicts

\* Every step keeps it.
LEMMA VerdictStep == VerdictInv /\ [Next]_vars => VerdictInv'
<1> SUFFICES ASSUME VerdictInv, [Next]_vars
             PROVE  VerdictInv'
  OBVIOUS
<1>1. Shape /\ \A q \in Runs : Story(q)
  BY StoryByRun DEF VerdictInv
<1>2. CASE UNCHANGED vars
  <2>1. UNCHANGED <<pc, verdict, result, announced>>
    BY <1>2 DEF vars
  <2>2. Shape' /\ \A q \in Runs : Story(q)'
    BY <1>1, <2>1, OthersKeep DEF Shape
  <2> QED BY <2>2, StoryByRun DEF VerdictInv, Announced, OneVerdict, Story
<1>3. ASSUME NEW r \in Runs, Announce(r)
      PROVE  Shape' /\ \A q \in Runs : Story(q)'
  BY <1>1, <1>3, AnnounceStep
<1>4. CASE Next
  <2>1. Shape' /\ \A q \in Runs : Story(q)'
    BY <1>1, <1>3, <1>4, EarlySteps, LastSteps DEF Next
  <2> QED BY <2>1 DEF VerdictInv, Announced, OneVerdict, Story
<1> QED BY <1>2, <1>4

\* A run that returns reports the one verdict it announced, and no run announces
\* two, for any number of runs, sessions and delegations.
THEOREM VerdictIsOne == Spec => []OneVerdict
<1>1. VerdictInv => OneVerdict
  BY DEF VerdictInv
<1> QED BY <1>1, VerdictInit, VerdictStep, PTL DEF Spec

\* The handlers on the bus are always those of the runs under way: whatever ends
\* a run takes its handlers away, and no other run's.
THEOREM NoHandlerLeaks == Spec => []HandlersGone
<1> DEFINE IInv == pc \in [Runs -> Stages] /\ HandlersGone
<1>1. Init => IInv
  BY DEF Init, HandlersGone, Listens, Stages
<1>2. IInv /\ [Next]_vars => IInv'
  <2> SUFFICES ASSUME IInv, [Next]_vars
               PROVE  IInv'
    OBVIOUS
  <2>1. ASSUME NEW r \in Runs, NEW stage \in Stages \ {"new", "done"}, Goto(r, stage),
               pc[r] \notin {"new", "done"}, handlers' = handlers
        PROVE  IInv'
    BY <2>1 DEF Goto, HandlersGone, Listens
  <2>2. ASSUME NEW r \in Runs, NEW got, Finish(r, got)
        PROVE  IInv'
    BY <2>2 DEF Finish, Unsubscribed, Goto, HandlersGone, Listens, Stages
  <2>3. ASSUME NEW r \in Runs, Request(r)
        PROVE  IInv'
    BY <2>3 DEF Request, Called, Subscribed, At, Goto, HandlersGone, Listens, Stages
  <2>4. ASSUME NEW r \in Runs,
               \/ Acquire(r) \/ Setup(r) \/ Exhaust(r) \/ Remember(r) \/ RecordUser(r)
               \/ \E stores \in BOOLEAN : Return(r, stores)
               \/ RecordAssistant(r) \/ Persist(r) \/ Fail(r) \/ Handoff(r) \/ Announce(r)
        PROVE  IInv'
    <3>1. /\ pc[r] \notin {"new", "done"} /\ handlers' = handlers
          /\ \E stage \in Stages \ {"new", "done"} : Goto(r, stage)
      BY <2>4 DEF Acquire, Setup, Exhaust, Remember, RecordUser, Return, RecordAssistant,
                  Persist, Fail, MayFailAt, Handoff, Announce, At, Stages
    <3> QED BY <3>1, <2>1
  <2>5. ASSUME NEW r \in Runs, Refuse(r) \/ Conclude(r) \/ Escape(r) \/ Cancel(r)
        PROVE  IInv'
    BY <2>5, <2>2 DEF Refuse, Conclude, Escape, Cancel
  <2>6. ASSUME UNCHANGED <<pc, handlers>>
        PROVE  IInv'
    BY <2>6 DEF HandlersGone, Listens
  <2>7. ASSUME NEW r \in Runs, Observe(r)
        PROVE  UNCHANGED <<pc, handlers>>
    BY <2>7 DEF Observe
  <2> QED BY <2>3, <2>4, <2>5, <2>6, <2>7 DEF Next, vars
<1>3. IInv => HandlersGone
  OBVIOUS
<1> QED BY <1>1, <1>2, <1>3, PTL DEF Spec

(***************************************************************************)
(* The runs inside a session.                                              *)
(***************************************************************************)
\* What a verdict can be, by the stage.
Staged ==
    /\ pc \in [Runs -> Stages]
    /\ verdict \in [Runs -> Verdicts]
    /\ \A r \in Runs : pc[r] \in {"new", "queued", "assembling", "executing"} => verdict[r] = "none"
    /\ \A r \in Runs : pc[r] = "remembering" => verdict[r] = "completed"

\* Who is inside holds the lock, once; each was delegated by the one before, so
\* that each comes of all those before.
Inside ==
    /\ inside \in [Sessions -> Seq(Runs)]
    /\ \A r \in Runs : Holds(r) <=> \E i \in DOMAIN inside[Session[r]] : inside[Session[r]][i] = r
    /\ \A s \in Sessions : \A i \in DOMAIN inside[s] : Session[inside[s][i]] = s
    /\ \A s \in Sessions : \A i, j \in DOMAIN inside[s] : inside[s][i] = inside[s][j] => i = j
    /\ ChainInside
    /\ \A s \in Sessions : \A i, j \in DOMAIN inside[s] : i <= j => inside[s][j] \in Line(inside[s][i])

LockInv == Staged /\ Inside

\* A run comes of itself, and so do the runs delegated by those that come of it.
LEMMA LineGrows ==
    ASSUME NEW r \in Runs
    PROVE  /\ r \in Line(r)
           /\ \A q \in Line(r), c \in Runs : Parent[c] = q => c \in Line(r)
  BY DEF Line

\* A run that is in a session and waits for no run it delegated is innermost.
LEMMA Innermost ==
    ASSUME Inside, NEW r \in Runs, Holds(r), ~Waiting(r)
    PROVE  LET in == inside[Session[r]] IN Len(in) \in Nat \ {0} /\ in[Len(in)] = r
<1> DEFINE in == inside[Session[r]]
<1>1. in \in Seq(Runs) /\ Len(in) \in Nat /\ DOMAIN in = 1 .. Len(in) /\ Session[r] \in Sessions
  BY DEF Inside, Sessions
<1>2. PICK i \in 1 .. Len(in) : in[i] = r
  BY <1>1 DEF Inside
<1>3. ASSUME i # Len(in)
      PROVE  FALSE
  <2>1. i \in 1 .. (Len(in) - 1) /\ i + 1 \in 1 .. Len(in)
    BY <1>1, <1>3
  <2>2. Parent[in[i + 1]] = r /\ in[i + 1] \in Runs /\ Session[in[i + 1]] = Session[r]
    BY <1>1, <1>2, <2>1 DEF Inside, ChainInside
  <2>3. Holds(in[i + 1])
    BY <1>1, <2>1, <2>2 DEF Inside
  <2> QED BY <2>2, <2>3 DEF Holds, Waiting, Children
<1> QED BY <1>1, <1>2, <1>3

\* Whoever may act in a session comes of everyone inside.
LEMMA ActsInLine ==
    ASSUME Inside, NEW r \in Runs, NEW q \in Runs, Session[q] = Session[r], Holds(r), Holds(q),
           ~Waiting(q)
    PROVE  q \in Line(r)
<1> DEFINE in == inside[Session[r]]
<1>1. in \in Seq(Runs) /\ DOMAIN in = 1 .. Len(in) /\ Session[r] \in Sessions
  BY DEF Inside, Sessions
<1>2. Len(in) \in Nat \ {0} /\ in[Len(in)] = q
  BY Innermost
<1>3. PICK i \in 1 .. Len(in) : in[i] = r
  BY <1>1 DEF Inside
<1>4. Len(in) \in 1 .. Len(in) /\ i <= Len(in)
  BY <1>2
<1>5. in[Len(in)] \in Line(in[i])
  BY <1>1, <1>3, <1>4 DEF Inside
<1> QED BY <1>2, <1>3, <1>5

\* A step in which nobody enters or leaves.
LEMMA NobodyMoves ==
    ASSUME Inside, inside' = inside, \A q \in Runs : Holds(q)' <=> Holds(q)
    PROVE  Inside'
<1>1. \A r \in Runs : Holds(r)' <=> \E i \in DOMAIN inside'[Session[r]] : inside'[Session[r]][i] = r
  BY DEF Inside
<1>2. ChainInside'
  BY DEF Inside, ChainInside, Sessions
<1> QED BY <1>1, <1>2 DEF Inside, Sessions, Line

\* A run leaves its session, or had left it.
LEMMA Leaves ==
    ASSUME Inside, NEW r \in Runs, inside' = Released(r), ~Waiting(r), ~Holds(r)',
           \A q \in Runs \ {r} : Holds(q)' <=> Holds(q)
    PROVE  Inside'
<1> DEFINE in == inside[Session[r]]
<1>1. in \in Seq(Runs) /\ Len(in) \in Nat /\ DOMAIN in = 1 .. Len(in) /\ Session[r] \in Sessions
      /\ inside \in [Sessions -> Seq(Runs)] /\ ChainInside
  BY DEF Inside, Sessions
<1>2. CASE ~Holds(r)
  <2>1. inside' = inside
    BY <1>2 DEF Released
  <2> QED BY <1>2, <2>1, NobodyMoves
<1>3. CASE Holds(r)
  <2>1. Len(in) \in Nat \ {0} /\ in[Len(in)] = r
    BY <1>3, Innermost
  <2> DEFINE rest == SubSeq(in, 1, Len(in) - 1)
  <2>2. inside' = [inside EXCEPT ![Session[r]] = rest]
    BY <1>3 DEF Released
  <2>3. /\ rest \in Seq(Runs) /\ Len(rest) = Len(in) - 1 /\ DOMAIN rest = 1 .. (Len(in) - 1)
        /\ \A i \in 1 .. (Len(in) - 1) : rest[i] = in[i]
    BY <1>1, <2>1
  <2> HIDE DEF rest
  <2>4. /\ inside' \in [Sessions -> Seq(Runs)]
        /\ \A s \in Sessions : Len(inside'[s]) \in Nat /\ DOMAIN inside'[s] = 1 .. Len(inside'[s])
        /\ \A s \in Sessions : s # Session[r] => inside'[s] = inside[s]
        /\ inside'[Session[r]] = rest
    BY <1>1, <2>2, <2>3
  <2>5. \A s \in Sessions : /\ DOMAIN inside'[s] \subseteq DOMAIN inside[s]
                            /\ \A i \in DOMAIN inside'[s] : inside'[s][i] = inside[s][i]
    <3> SUFFICES ASSUME NEW s \in Sessions
                 PROVE  /\ DOMAIN inside'[s] \subseteq DOMAIN inside[s]
                        /\ \A i \in DOMAIN inside'[s] : inside'[s][i] = inside[s][i]
      OBVIOUS
    <3>1. CASE s = Session[r]
      BY <1>1, <2>1, <2>3, <2>4, <3>1
    <3>2. CASE s # Session[r]
      BY <2>4, <3>2
    <3> QED BY <3>1, <3>2
  <2>6. \A q \in Runs : Holds(q)' <=> \E i \in DOMAIN inside'[Session[q]] : inside'[Session[q]][i] = q
    <3> SUFFICES ASSUME NEW q \in Runs
                 PROVE  Holds(q)' <=> \E i \in DOMAIN inside'[Session[q]] : inside'[Session[q]][i] = q
      OBVIOUS
    <3>0. Session[q] \in Sessions
      BY DEF Sessions
    <3>1. CASE q = r
      <4>1. \A i \in 1 .. (Len(in) - 1) : in[i] # r
        BY <1>1, <2>1 DEF Inside
      <4> QED BY <2>3, <2>4, <3>1, <4>1
    <3>2. CASE q # r /\ Session[q] = Session[r]
      <4>1. Holds(q)' <=> \E i \in 1 .. Len(in) : in[i] = q
        BY <1>1, <3>2 DEF Inside
      <4>2. \A i \in 1 .. Len(in) : in[i] = q => i \in 1 .. (Len(in) - 1)
        BY <1>1, <2>1, <3>2
      <4>3. \A i : i \in 1 .. (Len(in) - 1) => i \in 1 .. Len(in)
        BY <1>1
      <4>4. (\E i \in DOMAIN rest : rest[i] = q) <=> \E i \in 1 .. Len(in) : in[i] = q
        BY <2>3, <4>2, <4>3
      <4> QED BY <2>4, <3>2, <4>1, <4>4
    <3>3. CASE Session[q] # Session[r]
      <4>1. inside'[Session[q]] = inside[Session[q]] /\ (Holds(q)' <=> Holds(q))
        BY <2>4, <3>0, <3>3
      <4> QED BY <4>1 DEF Inside
    <3> QED BY <3>1, <3>2, <3>3
  <2>7. ChainInside'
    <3> SUFFICES ASSUME NEW s \in Sessions, NEW i \in 1 .. (Len(inside'[s]) - 1)
                 PROVE  Parent[inside'[s][i + 1]] = inside'[s][i]
      BY DEF ChainInside, Sessions
    <3>1. i \in DOMAIN inside'[s] /\ i + 1 \in DOMAIN inside'[s]
      BY <2>4
    <3>2. DOMAIN inside[s] = 1 .. Len(inside[s]) /\ Len(inside[s]) \in Nat
      BY <1>1
    <3>3. i \in 1 .. (Len(inside[s]) - 1)
      BY <2>5, <3>1, <3>2
    <3> QED BY <1>1, <2>5, <3>1, <3>3 DEF ChainInside
  <2>8. \A s \in Sessions : \A i \in DOMAIN inside'[s] : Session[inside'[s][i]] = s
    BY <2>5 DEF Inside
  <2>9. \A s \in Sessions : \A i, j \in DOMAIN inside'[s] : inside'[s][i] = inside'[s][j] => i = j
    BY <2>5 DEF Inside
  <2>10. \A s \in Sessions : \A i, j \in DOMAIN inside'[s] :
             i <= j => inside'[s][j] \in Line(inside'[s][i])
    BY <2>5 DEF Inside
  <2> QED BY <2>4, <2>6, <2>7, <2>8, <2>9, <2>10 DEF Inside, Sessions, Line
<1> QED BY <1>2, <1>3

\* A run enters a session: nobody is inside, or the innermost has delegated it.
LEMMA Enters ==
    ASSUME Inside, NEW r \in Runs, MayEnter(r), ~Holds(r), Holds(r)',
           inside' = [inside EXCEPT ![Session[r]] = Append(@, r)],
           \A q \in Runs \ {r} : Holds(q)' <=> Holds(q)
    PROVE  Inside'
<1> DEFINE in == inside[Session[r]]
           more == Append(in, r)
<1>1. in \in Seq(Runs) /\ Len(in) \in Nat /\ DOMAIN in = 1 .. Len(in) /\ Session[r] \in Sessions
      /\ inside \in [Sessions -> Seq(Runs)] /\ ChainInside
  BY DEF Inside, Sessions
<1>2. /\ more \in Seq(Runs) /\ Len(more) = Len(in) + 1 /\ DOMAIN more = 1 .. (Len(in) + 1)
      /\ \A i \in 1 .. Len(in) : more[i] = in[i]
      /\ more[Len(in) + 1] = r
  BY <1>1
<1>3. inside' = [inside EXCEPT ![Session[r]] = more]
  OBVIOUS
<1> HIDE DEF more
<1>4. /\ inside' \in [Sessions -> Seq(Runs)]
      /\ \A s \in Sessions : s # Session[r] => inside'[s] = inside[s]
      /\ inside'[Session[r]] = more
  BY <1>1, <1>2, <1>3
<1>5. \A i \in 1 .. Len(in) : in[i] \in Runs /\ in[i] # r /\ Session[in[i]] = Session[r]
  BY <1>1 DEF Inside
<1>6. \A q \in Runs : Holds(q)' <=> \E i \in DOMAIN inside'[Session[q]] : inside'[Session[q]][i] = q
  <2> SUFFICES ASSUME NEW q \in Runs
               PROVE  Holds(q)' <=> \E i \in DOMAIN inside'[Session[q]] : inside'[Session[q]][i] = q
    OBVIOUS
  <2>0. Session[q] \in Sessions
    BY DEF Sessions
  <2>1. CASE q = r
    <3>1. Len(in) + 1 \in 1 .. (Len(in) + 1)
      BY <1>1
    <3> QED BY <1>2, <1>4, <2>1, <3>1
  <2>2. CASE q # r /\ Session[q] = Session[r]
    <3>1. Holds(q)' <=> \E i \in 1 .. Len(in) : in[i] = q
      BY <1>1, <2>2 DEF Inside
    <3>2. \A i \in 1 .. (Len(in) + 1) : more[i] = q <=> i \in 1 .. Len(in) /\ in[i] = q
      BY <1>1, <1>2, <2>2
    <3>3. (\E i \in DOMAIN more : more[i] = q) <=> \E i \in 1 .. Len(in) : in[i] = q
      <4>1. \A i : i \in 1 .. Len(in) => i \in 1 .. (Len(in) + 1)
        BY <1>1
      <4> QED BY <1>2, <3>2, <4>1
    <3> QED BY <1>4, <2>2, <3>1, <3>3
  <2>3. CASE Session[q] # Session[r]
    <3>0. q # r
      BY <2>3
    <3>1. inside'[Session[q]] = inside[Session[q]] /\ (Holds(q)' <=> Holds(q))
      BY <1>4, <2>0, <2>3, <3>0
    <3>2. Holds(q) <=> \E i \in DOMAIN inside[Session[q]] : inside[Session[q]][i] = q
      BY DEF Inside
    <3> QED BY <3>1, <3>2
  <2> QED BY <2>1, <2>2, <2>3
<1>7. ASSUME Len(in) # 0
      PROVE  in[Len(in)] = Parent[r] /\ Len(in) \in 1 .. Len(in)
  BY <1>1, <1>7 DEF MayEnter
<1>8. \A i \in 1 .. Len(in) : r \in Line(in[i])
  <2> SUFFICES ASSUME NEW i \in 1 .. Len(in)
               PROVE  r \in Line(in[i])
    OBVIOUS
  <2>1. in[Len(in)] = Parent[r] /\ Len(in) \in 1 .. Len(in) /\ i <= Len(in)
    BY <1>1, <1>7
  <2>2. Parent[r] \in Line(in[i])
    BY <1>1, <2>1 DEF Inside
  <2> QED BY <1>5, <2>2, LineGrows
<1>9. \A s \in Sessions : \A i \in DOMAIN inside'[s] : Session[inside'[s][i]] = s
  <2> SUFFICES ASSUME NEW s \in Sessions, NEW i \in DOMAIN inside'[s]
               PROVE  Session[inside'[s][i]] = s
    OBVIOUS
  <2>1. CASE s = Session[r]
    <3>1. i \in 1 .. Len(in) \/ i = Len(in) + 1
      BY <1>1, <1>2, <1>4, <2>1
    <3> QED BY <1>2, <1>4, <1>5, <2>1, <3>1
  <2>2. CASE s # Session[r]
    BY <1>4, <2>2 DEF Inside
  <2> QED BY <2>1, <2>2
<1>10. \A s \in Sessions : \A i, j \in DOMAIN inside'[s] : inside'[s][i] = inside'[s][j] => i = j
  <2> SUFFICES ASSUME NEW s \in Sessions, NEW i \in DOMAIN inside'[s], NEW j \in DOMAIN inside'[s],
                      inside'[s][i] = inside'[s][j]
               PROVE  i = j
    OBVIOUS
  <2>1. CASE s = Session[r]
    <3>1. /\ i \in 1 .. Len(in) \/ i = Len(in) + 1
          /\ j \in 1 .. Len(in) \/ j = Len(in) + 1
      BY <1>1, <1>2, <1>4, <2>1
    <3>2. more[i] = more[j]
      BY <1>4, <2>1
    <3> QED BY <1>1, <1>2, <1>5, <3>1, <3>2 DEF Inside
  <2>2. CASE s # Session[r]
    BY <1>4, <2>2 DEF Inside
  <2> QED BY <2>1, <2>2
<1>11. ChainInside'
  <2> SUFFICES ASSUME NEW s \in Sessions, NEW i \in 1 .. (Len(inside'[s]) - 1)
               PROVE  Parent[inside'[s][i + 1]] = inside'[s][i]
    BY DEF ChainInside, Sessions
  <2>1. CASE s # Session[r]
    BY <1>1, <1>4, <2>1 DEF ChainInside
  <2>2. CASE s = Session[r] /\ i # Len(in)
    <3>1. i \in 1 .. (Len(in) - 1) /\ i \in 1 .. Len(in) /\ i + 1 \in 1 .. Len(in)
      BY <1>1, <1>2, <1>4, <2>2
    <3> QED BY <1>1, <1>2, <1>4, <2>2, <3>1 DEF ChainInside
  <2>3. CASE s = Session[r] /\ i = Len(in)
    <3>1. Len(in) # 0
      BY <2>3
    <3> QED BY <1>2, <1>4, <1>7, <2>3, <3>1
  <2> QED BY <2>1, <2>2, <2>3
<1>12. \A s \in Sessions : \A i, j \in DOMAIN inside'[s] : i <= j => inside'[s][j] \in Line(inside'[s][i])
  <2> SUFFICES ASSUME NEW s \in Sessions, NEW i \in DOMAIN inside'[s], NEW j \in DOMAIN inside'[s], i <= j
               PROVE  inside'[s][j] \in Line(inside'[s][i])
    OBVIOUS
  <2>1. CASE s # Session[r]
    BY <1>4, <2>1 DEF Inside
  <2>2. CASE s = Session[r] /\ j \in 1 .. Len(in)
    <3>1. i \in 1 .. Len(in)
      BY <1>1, <1>2, <1>4, <2>2
    <3> QED BY <1>1, <1>2, <1>4, <2>2, <3>1 DEF Inside
  <2>3. CASE s = Session[r] /\ j \notin 1 .. Len(in)
    <3>1. j = Len(in) + 1 /\ inside'[s][j] = r
      BY <1>1, <1>2, <1>4, <2>3
    <3>2. CASE i = j
      BY <3>1, <3>2, LineGrows
    <3>3. CASE i # j
      <4>1. i \in 1 .. Len(in)
        BY <1>1, <1>2, <1>4, <2>3, <3>1, <3>3
      <4> QED BY <1>2, <1>4, <1>8, <2>3, <3>1, <4>1
    <3> QED BY <3>2, <3>3
  <2> QED BY <2>1, <2>2, <2>3
<1> QED BY <1>4, <1>6, <1>9, <1>10, <1>11, <1>12 DEF Inside, Sessions, Line

\* One run moves on: the others stay where they were.
Moves(r, stage, v) ==
    /\ pc' = [pc EXCEPT ![r] = stage]
    /\ verdict' = [verdict EXCEPT ![r] = v]

\* What a move does to the stages and to who holds a lock.
LEMMA MoveHolds ==
    ASSUME Staged, NEW r \in Runs, NEW stage \in Stages, NEW v \in Verdicts, Moves(r, stage, v),
           stage \in {"new", "queued", "assembling", "executing"} => v = "none",
           stage = "remembering" => v = "completed"
    PROVE  /\ Staged'
           /\ \A q \in Runs \ {r} : Holds(q)' <=> Holds(q)
           /\ Holds(r)' <=> stage \notin {"new", "queued", "done"} /\ v \notin {"failed", "handoff"}
<1>1. pc'[r] = stage /\ verdict'[r] = v
  BY DEF Staged, Moves
<1>2. \A q \in Runs \ {r} : pc'[q] = pc[q] /\ verdict'[q] = verdict[q]
  BY DEF Staged, Moves
<1>3. Staged'
  BY <1>1, <1>2 DEF Staged, Moves
<1> QED BY <1>1, <1>2, <1>3 DEF Holds, Outside

\* The verdict of a run that does not get a new one.
LEMMA SameVerdict == ASSUME Staged, NEW r \in Runs, verdict' = verdict
                     PROVE  verdict[r] \in Verdicts /\ verdict' = [verdict EXCEPT ![r] = verdict[r]]
  BY DEF Staged

\* A step of a run that neither enters nor leaves its session.
LEMMA StaysStep ==
    ASSUME LockInv, NEW r \in Runs,
           \/ Request(r) \/ Setup(r) \/ Observe(r) \/ Exhaust(r) \/ Remember(r)
           \/ \E stores \in BOOLEAN : Return(r, stores)
           \/ RecordUser(r) \/ RecordAssistant(r) \/ Persist(r) \/ Announce(r)
    PROVE  LockInv' /\ \A q \in Runs : Holds(q)' <=> Holds(q)
<1>0. Staged /\ Inside /\ pc[r] \in Stages /\ verdict[r] \in Verdicts
  BY DEF LockInv, Staged
<1>1. inside' = inside
  BY DEF Request, Setup, Observe, Exhaust, Remember, Return, RecordUser, RecordAssistant, Persist, Announce
<1>2. Staged' /\ \A q \in Runs : Holds(q)' <=> Holds(q)
  <2>1. CASE Request(r)
    <3>1. pc[r] = "new" /\ Moves(r, "queued", verdict[r])
      BY <2>1, <1>0, SameVerdict DEF Request, Called, At, Goto, Moves
    <3> QED BY <3>1, <1>0, MoveHolds DEF Staged, Stages, Holds
  <2>2. CASE Setup(r)
    <3>1. pc[r] = "assembling" /\ Moves(r, "executing", verdict[r])
      BY <2>2, <1>0, SameVerdict DEF Setup, At, Goto, Moves
    <3> QED BY <3>1, <1>0, MoveHolds DEF Staged, Stages, Holds, Outside
  <2>3. CASE Observe(r)
    <3>1. UNCHANGED <<pc, verdict>>
      BY <2>3 DEF Observe
    <3> QED BY <3>1, <1>0 DEF Staged, Holds, Outside
  <2>4. CASE Exhaust(r)
    <3>1. pc[r] = "executing" /\ verdict[r] = "none" /\ Moves(r, "recording", "exhausted")
      BY <2>4, <1>0 DEF Exhaust, At, Goto, Moves, Staged
    <3> QED BY <3>1, <1>0, MoveHolds DEF Stages, Verdicts, Holds, Outside
  <2>5. CASE \E stores \in BOOLEAN : Return(r, stores)
    <3>1. pc[r] = "executing" /\ verdict[r] = "none" /\ Moves(r, "remembering", "completed")
      BY <2>5, <1>0 DEF Return, At, Goto, Moves, Staged
    <3> QED BY <3>1, <1>0, MoveHolds DEF Stages, Verdicts, Holds, Outside
  <2>6. CASE Remember(r) \/ RecordUser(r) \/ RecordAssistant(r) \/ Persist(r) \/ Announce(r)
    <3>1. /\ pc[r] \in {"remembering", "recording", "paired", "persisting", "announcing"}
          /\ verdict' = verdict
          /\ \E stage \in {"recording", "paired", "persisting", "announcing", "concluding"} : Goto(r, stage)
      BY <2>6 DEF Remember, RecordUser, RecordAssistant, Persist, Announce, At
    <3>2. PICK stage \in {"recording", "paired", "persisting", "announcing", "concluding"} :
             Moves(r, stage, verdict[r])
      BY <3>1, <1>0, SameVerdict DEF Goto, Moves
    <3>3. stage \in Stages
      BY DEF Stages
    <3> QED BY <3>1, <3>2, <3>3, <1>0, MoveHolds DEF Holds, Outside
  <2> QED BY <2>1, <2>2, <2>3, <2>4, <2>5, <2>6
<1> QED BY <1>0, <1>1, <1>2, NobodyMoves DEF LockInv

\* A step in which a run leaves its session, if it is in it.
LEMMA LeavesStep ==
    ASSUME LockInv, NEW r \in Runs,
           Fail(r) \/ Handoff(r) \/ Conclude(r) \/ Refuse(r) \/ Escape(r) \/ Cancel(r)
    PROVE  /\ LockInv' /\ ~Waiting(r) /\ ~Holds(r)'
           /\ \A q \in Runs \ {r} : Holds(q)' <=> Holds(q)
<1>0. Staged /\ Inside /\ pc[r] \in Stages /\ verdict[r] \in Verdicts
  BY DEF LockInv, Staged
<1>1. ~Waiting(r) /\ inside' = Released(r)
  BY DEF Fail, Handoff, Conclude, Refuse, Called, Escape, Cancel, Finish, Running, Turn
<1>2. Staged' /\ ~Holds(r)' /\ \A q \in Runs \ {r} : Holds(q)' <=> Holds(q)
  <2>1. CASE Fail(r)
    <3>1. Moves(r, "recording", "failed")
      BY <2>1 DEF Fail, Goto, Moves
    <3> QED BY <3>1, <1>0, MoveHolds DEF Stages, Verdicts
  <2>2. CASE Handoff(r)
    <3>1. Moves(r, "announcing", "handoff")
      BY <2>2 DEF Handoff, Goto, Moves
    <3> QED BY <3>1, <1>0, MoveHolds DEF Stages, Verdicts
  <2>3. CASE Conclude(r) \/ Refuse(r) \/ Escape(r) \/ Cancel(r)
    <3>1. Goto(r, "done") /\ verdict' = verdict
      BY <2>3 DEF Conclude, Refuse, Escape, Cancel, Finish
    <3>2. Moves(r, "done", verdict[r])
      BY <3>1, <1>0, SameVerdict DEF Goto, Moves
    <3> QED BY <3>2, <1>0, MoveHolds DEF Stages
  <2> QED BY <2>1, <2>2, <2>3
<1> QED BY <1>0, <1>1, <1>2, Leaves DEF LockInv

\* A run enters its session.
LEMMA AcquireStep ==
    ASSUME LockInv, NEW r \in Runs, Acquire(r)
    PROVE  /\ LockInv' /\ ~Holds(r) /\ Holds(r)'
           /\ \A q \in Runs \ {r} : Holds(q)' <=> Holds(q)
<1>0. Staged /\ Inside /\ pc[r] = "queued" /\ verdict[r] = "none" /\ MayEnter(r)
  BY DEF LockInv, Staged, Acquire, At
<1>1. Moves(r, "assembling", verdict[r]) /\ verdict[r] \in Verdicts
  BY <1>0, SameVerdict DEF Acquire, Goto, Moves
<1>2. Staged' /\ Holds(r)' /\ \A q \in Runs \ {r} : Holds(q)' <=> Holds(q)
  BY <1>0, <1>1, MoveHolds DEF Stages
<1>3. ~Holds(r) /\ inside' = [inside EXCEPT ![Session[r]] = Append(@, r)]
  BY <1>0 DEF Acquire, Holds
<1> QED BY <1>0, <1>2, <1>3, Enters DEF LockInv

\* Every step keeps the order inside the sessions.
LEMMA LockStep == ASSUME LockInv, [Next]_vars PROVE LockInv'
<1>1. CASE UNCHANGED vars
  <2>1. UNCHANGED <<pc, verdict, inside>>
    BY <1>1 DEF vars
  <2>2. \A q \in Runs : Holds(q)' <=> Holds(q)
    BY <2>1 DEF Holds, Outside
  <2> QED BY <2>1, <2>2, NobodyMoves DEF LockInv, Staged
<1> QED BY <1>1, StaysStep, LeavesStep, AcquireStep DEF Next

\* Nobody is inside to begin with.
LEMMA LockInit == ASSUME Init PROVE LockInv
<1>1. \A s \in Sessions : inside[s] = <<>>
  BY DEF Init
<1>2. \A s \in Sessions : Len(inside[s]) = 0 /\ DOMAIN inside[s] = {}
  BY <1>1
<1>3. ChainInside
  BY <1>2 DEF ChainInside
<1>4. \A r \in Runs : ~Holds(r) /\ Session[r] \in Sessions
  BY DEF Init, Holds, Sessions
<1> QED BY <1>2, <1>3, <1>4 DEF LockInv, Staged, Inside, Init, Stages, Verdicts

\* What is known of the runs inside holds in every reachable state.
THEOREM LockInvariant == Spec => []LockInv
  BY LockInit, LockStep, PTL DEF Spec

\* The runs inside a session are a chain of delegations in every reachable state,
\* for any number of runs, sessions and depths, whatever fails, hands off or is
\* cancelled in between.
THEOREM DelegationsAreChains == Spec => []ChainInside
<1>1. LockInv => ChainInside
  BY DEF LockInv, Inside
<1> QED BY <1>1, LockInvariant, PTL

(***************************************************************************)
(* What memory writeback stores.                                           *)
(***************************************************************************)
\* The output left in a session is of the line of every run inside, and the
\* context of its pattern too once the run has set it up.
OwnLines ==
    /\ last \in [Sessions -> Runs \cup {NoRun}]
    /\ context \in [Patterns -> Runs \cup {NoRun}]
    /\ DOMAIN memory = Runs
    /\ \A r \in Runs : Holds(r) => last[Session[r]] \in Line(r) \cup {NoRun}
    /\ \A r \in Runs : pc[r] \in {"executing", "remembering"} => context[PatternOf(r)] \in Line(r)
    /\ MemoryIsOwn

\* A run that executes or remembers holds the lock.
LEMMA Engaged == ASSUME Staged, NEW r \in Runs, pc[r] \in {"assembling", "executing", "remembering"}
                 PROVE  Holds(r)
  BY DEF Staged, Holds, Outside

\* Runs with a pattern in common have a session in common.
LEMMA SamePattern == ASSUME NEW q, NEW r, PatternOf(q) = PatternOf(r) PROVE Session[q] = Session[r]
<1>1. <<Session[q], Agent[q]>>[1] = Session[q] /\ <<Session[r], Agent[r]>>[1] = Session[r]
  OBVIOUS
<1> QED BY <1>1 DEF PatternOf

\* The output of a session: a run that holds the lock and acts leaves its own.
LEMMA OutputStep ==
    ASSUME LockInv, OwnLines, NEW r \in Runs, Holds(r), ~Waiting(r),
           last' = [last EXCEPT ![Session[r]] = r] \/ last' = last
    PROVE  /\ last' \in [Sessions -> Runs \cup {NoRun}]
           /\ \A q \in Runs : Holds(q) => last'[Session[q]] \in Line(q) \cup {NoRun}
<1>0. Session[r] \in Sessions /\ last \in [Sessions -> Runs \cup {NoRun}] /\ Inside
  BY DEF Sessions, OwnLines, LockInv
<1>1. ASSUME NEW q \in Runs, Holds(q)
      PROVE  last'[Session[q]] \in Line(q) \cup {NoRun}
  <2>0. Session[q] \in Sessions /\ last[Session[q]] \in Line(q) \cup {NoRun}
    BY <1>1 DEF Sessions, OwnLines
  <2>1. CASE Session[q] = Session[r] /\ last' # last
    <3>1. r \in Line(q)
      BY <1>0, <1>1, <2>1, ActsInLine
    <3> QED BY <1>0, <2>1, <3>1
  <2>2. CASE Session[q] # Session[r] \/ last' = last
    BY <1>0, <2>0, <2>2
  <2> QED BY <2>1, <2>2
<1> QED BY <1>0, <1>1

\* A step that leaves output, contexts and records alone, lets nobody in and has
\* nobody begin to execute.
LEMMA LinesStay ==
    ASSUME OwnLines, UNCHANGED <<last, context, memory>>,
           \A q \in Runs : Holds(q)' => Holds(q),
           \A q \in Runs : pc'[q] \in {"executing", "remembering"} => pc[q] \in {"executing", "remembering"}
    PROVE  OwnLines'
<1>1. MemoryIsOwn'
  BY DEF OwnLines, MemoryIsOwn, Line, NoRecord
<1>2. \A r \in Runs : Holds(r)' => last'[Session[r]] \in Line(r) \cup {NoRun}
  BY DEF OwnLines
<1>3. \A r \in Runs : pc'[r] \in {"executing", "remembering"} => context'[PatternOf(r)] \in Line(r)
  BY DEF OwnLines
<1> QED BY <1>1, <1>2, <1>3 DEF OwnLines, Line, PatternOf, Sessions, Patterns

\* Every step keeps it.
LEMMA OwnStep ==
    ASSUME LifecycleAssumption, LockInv, OwnLines, [Next]_vars
    PROVE  OwnLines'
<1>0. /\ Staged /\ Inside /\ pc \in [Runs -> Stages]
      /\ last \in [Sessions -> Runs \cup {NoRun}] /\ context \in [Patterns -> Runs \cup {NoRun}]
      /\ DOMAIN memory = Runs
  BY DEF LockInv, Staged, OwnLines
<1>1. CASE UNCHANGED vars
  <2>1. UNCHANGED <<pc, verdict, last, context, memory>>
    BY <1>1 DEF vars
  <2>2. \A q \in Runs : Holds(q)' <=> Holds(q)
    BY <2>1 DEF Holds, Outside
  <2> QED BY <2>1, <2>2, LinesStay
<1>2. ASSUME NEW r \in Runs,
             \/ Fail(r) \/ Handoff(r) \/ Conclude(r) \/ Refuse(r) \/ Escape(r) \/ Cancel(r)
      PROVE  OwnLines'
  <2>1. UNCHANGED <<last, context, memory>>
    BY <1>2 DEF Fail, Handoff, Conclude, Refuse, Escape, Cancel
  <2>2. \E stage \in {"recording", "announcing", "done"} : Goto(r, stage)
    BY <1>2 DEF Fail, Handoff, Conclude, Refuse, Escape, Cancel, Finish
  <2>3. \A q \in Runs : pc'[q] \in {"executing", "remembering"} => pc[q] \in {"executing", "remembering"}
    BY <2>2, <1>0 DEF Goto
  <2>4. \A q \in Runs : Holds(q)' => Holds(q)
    BY <1>2, LeavesStep
  <2> QED BY <2>1, <2>3, <2>4, LinesStay
<1>3. ASSUME NEW r \in Runs, Acquire(r)
      PROVE  OwnLines'
  <2>1. /\ pc' = [pc EXCEPT ![r] = "assembling"] /\ last' = [last EXCEPT ![Session[r]] = NoRun]
        /\ UNCHANGED <<context, memory>> /\ Session[r] \in Sessions
    BY <1>3 DEF Acquire, Goto, Cleared, Sessions
  <2>2. \A q \in Runs : q # r /\ Holds(q)' => Holds(q)
    BY <1>3, AcquireStep
  <2>3. \A q \in Runs : Holds(q)' => last'[Session[q]] \in Line(q) \cup {NoRun}
    BY <1>0, <2>1, <2>2 DEF OwnLines, Sessions
  <2>4. \A q \in Runs : pc'[q] \in {"executing", "remembering"} => context'[PatternOf(q)] \in Line(q)
    BY <1>0, <2>1 DEF OwnLines
  <2>5. MemoryIsOwn' /\ last' \in [Sessions -> Runs \cup {NoRun}]
    BY <1>0, <2>1 DEF OwnLines, MemoryIsOwn, Line, NoRecord
  <2> QED BY <1>0, <2>1, <2>3, <2>4, <2>5 DEF OwnLines, Line, PatternOf, Sessions, Patterns
<1>4. ASSUME NEW r \in Runs, Setup(r)
      PROVE  OwnLines'
  <2>1. /\ pc' = [pc EXCEPT ![r] = "executing"] /\ context' = [context EXCEPT ![PatternOf(r)] = r]
        /\ UNCHANGED <<last, memory>> /\ PatternOf(r) \in Patterns /\ pc[r] = "assembling"
        /\ ~Waiting(r)
    BY <1>4 DEF Setup, Goto, At, Patterns, Running, Turn
  <2>2. \A q \in Runs : Holds(q)' <=> Holds(q)
    BY <1>4, StaysStep
  <2>3. \A q \in Runs : Holds(q)' => last'[Session[q]] \in Line(q) \cup {NoRun}
    BY <2>1, <2>2 DEF OwnLines
  <2>4. ASSUME NEW q \in Runs, pc'[q] \in {"executing", "remembering"}
        PROVE  context'[PatternOf(q)] \in Line(q)
    <3>0. PatternOf(q) \in Patterns
      BY DEF Patterns
    <3>1. CASE q = r
      BY <1>0, <2>1, <3>1, LineGrows
    <3>2. CASE q # r /\ PatternOf(q) = PatternOf(r)
      <4>1. Holds(q) /\ Holds(r) /\ Session[q] = Session[r]
        BY <1>0, <2>1, <2>4, <3>2, Engaged, SamePattern
      <4>2. r \in Line(q)
        BY <1>0, <2>1, <4>1, ActsInLine
      <4> QED BY <1>0, <2>1, <3>2, <4>2
    <3>3. CASE q # r /\ PatternOf(q) # PatternOf(r)
      BY <1>0, <2>1, <2>4, <3>0, <3>3 DEF OwnLines
    <3> QED BY <3>1, <3>2, <3>3
  <2>5. MemoryIsOwn' /\ context' \in [Patterns -> Runs \cup {NoRun}]
    BY <1>0, <2>1 DEF OwnLines, MemoryIsOwn, Line, NoRecord
  <2> QED BY <1>0, <2>1, <2>3, <2>4, <2>5 DEF OwnLines, Line, PatternOf, Sessions, Patterns
<1>5. ASSUME NEW r \in Runs, RecordUser(r) \/ \E stores \in BOOLEAN : Return(r, stores)
      PROVE  OwnLines'
  <2>1. /\ pc[r] \in {"executing", "recording"} /\ UNCHANGED <<context, memory>> /\ ~Waiting(r)
        /\ pc' = [pc EXCEPT ![r] = IF pc[r] = "executing" THEN "remembering" ELSE "paired"]
        /\ \/ last' = last
           \/ /\ last' = [last EXCEPT ![Session[r]] = r]
              /\ pc[r] = "executing" \/ verdict[r] = "completed"
    BY <1>5 DEF RecordUser, Return, At, Goto, Running, Turn
  <2>2. \A q \in Runs : Holds(q)' <=> Holds(q)
    BY <1>5, StaysStep
  <2>3. /\ last' \in [Sessions -> Runs \cup {NoRun}]
        /\ \A q \in Runs : Holds(q)' => last'[Session[q]] \in Line(q) \cup {NoRun}
    <3>1. CASE last' = last
      BY <1>0, <2>2, <3>1 DEF OwnLines
    <3>2. CASE last' # last
      <4>1. Holds(r)
        BY <1>0, <2>1, <3>2, Engaged DEF Holds, Outside
      <4> QED BY <2>1, <2>2, <4>1, OutputStep
    <3> QED BY <3>1, <3>2
  <2>4. \A q \in Runs : pc'[q] \in {"executing", "remembering"} => context'[PatternOf(q)] \in Line(q)
    BY <1>0, <2>1 DEF OwnLines
  <2>5. MemoryIsOwn'
    BY <2>1 DEF OwnLines, MemoryIsOwn, Line, NoRecord
  <2> QED BY <1>0, <2>1, <2>3, <2>4, <2>5 DEF OwnLines, Line, PatternOf, Sessions, Patterns
<1>6. ASSUME NEW r \in Runs, Remember(r)
      PROVE  OwnLines'
  <2>1. /\ pc[r] = "remembering" /\ pc' = [pc EXCEPT ![r] = "recording"] /\ UNCHANGED <<last, context>>
        /\ memory' = [memory EXCEPT ![r] = [input |-> context[PatternOf(r)], output |-> last[Session[r]]]]
    BY <1>6 DEF Remember, At, Goto
  <2>2. \A q \in Runs : Holds(q)' <=> Holds(q)
    BY <1>6, StaysStep
  <2>3. context[PatternOf(r)] \in Line(r) /\ last[Session[r]] \in Line(r) \cup {NoRun}
    BY <1>0, <2>1, Engaged DEF OwnLines
  <2>4. memory'[r].input \in Line(r) /\ memory'[r].output \in Line(r) \cup {NoRun}
    BY <1>0, <2>1, <2>3
  <2>5. ASSUME NEW q \in Runs, memory'[q] # NoRecord
        PROVE  memory'[q].input \in Line(q) /\ memory'[q].output \in Line(q) \cup {NoRun}
    <3>1. CASE q = r
      BY <2>4, <3>1
    <3>2. CASE q # r
      BY <1>0, <2>1, <2>5, <3>2 DEF OwnLines, MemoryIsOwn
    <3> QED BY <3>1, <3>2
  <2>6. MemoryIsOwn'
    BY <2>5 DEF MemoryIsOwn, Line, NoRecord
  <2>7. DOMAIN memory' = Runs
    BY <1>0, <2>1
  <2>8. \A q \in Runs : Holds(q)' => last'[Session[q]] \in Line(q) \cup {NoRun}
    BY <2>1, <2>2 DEF OwnLines
  <2>9. \A q \in Runs : pc'[q] \in {"executing", "remembering"} => context'[PatternOf(q)] \in Line(q)
    BY <1>0, <2>1 DEF OwnLines
  <2> QED BY <1>0, <2>1, <2>6, <2>7, <2>8, <2>9 DEF OwnLines, Line, PatternOf, Sessions, Patterns
<1>7. ASSUME NEW r \in Runs,
             Request(r) \/ Observe(r) \/ Exhaust(r) \/ RecordAssistant(r) \/ Persist(r) \/ Announce(r)
      PROVE  OwnLines'
  <2>1. UNCHANGED <<last, context, memory>>
    BY <1>7 DEF Request, Observe, Exhaust, RecordAssistant, Persist, Announce
  <2>2. pc' = pc \/ \E stage \in {"queued", "recording", "persisting", "announcing", "concluding"} : Goto(r, stage)
    BY <1>7 DEF Request, Observe, Exhaust, RecordAssistant, Persist, Announce
  <2>3. \A q \in Runs : pc'[q] \in {"executing", "remembering"} => pc[q] \in {"executing", "remembering"}
    BY <2>2, <1>0 DEF Goto
  <2>4. \A q \in Runs : Holds(q)' => Holds(q)
    BY <1>7, StaysStep
  <2> QED BY <2>1, <2>3, <2>4, LinesStay
<1> QED BY <1>1, <1>2, <1>3, <1>4, <1>5, <1>6, <1>7 DEF Next

\* Memory writeback stores, for any number of runs, sessions and delegations, the
\* input and the output of the run itself or of a run it delegated: what an
\* earlier run of the session left, and what one that waits for it will do, is
\* never taken for its own.
THEOREM MemoryStaysOwn == Spec => []MemoryIsOwn
<1>1. Init => OwnLines
  <2> SUFFICES ASSUME Init PROVE OwnLines
    OBVIOUS
  <2>1. \A r \in Runs : ~Holds(r) /\ pc[r] = "new" /\ memory[r] = NoRecord
    BY DEF Init, Holds
  <2> QED BY <2>1 DEF Init, OwnLines, MemoryIsOwn
<1>2. LockInv /\ OwnLines /\ [Next]_vars => OwnLines'
  BY OwnStep, LifecycleAssumption
<1>3. OwnLines => MemoryIsOwn
  BY DEF OwnLines
<1> QED BY <1>1, <1>2, <1>3, LockInvariant, PTL DEF Spec

(***************************************************************************)
(* What the transcript tells.                                              *)
(***************************************************************************)
\* A transcript in which a run has said an entry last.
LastIn(said, r, entry) ==
    \E i \in DOMAIN said : said[i] = entry /\ \A j \in DOMAIN said : j > i => said[j].run # r

\* The transcripts are lists of entries.
Written == transcript \in [Sessions -> Seq(Entry)]

\* Past its turn and until it returns, a run's last entry is its verdict; once
\* it has returned, its result.
Tale(r) ==
    /\ pc[r] \in {"persisting", "announcing", "concluding"} /\ verdict[r] # "handoff" =>
          LastSaid(r, Said(r, "assistant"))
    /\ result[r] \in {"completed", "failed"} /\ verdict[r] # "handoff" =>
          LastSaid(r, [run |-> r, role |-> "assistant", error |-> result[r] = "failed"])

\* What a run appends is an entry.
LEMMA SaidType == ASSUME NEW r \in Runs, NEW role \in {"user", "assistant"}
                  PROVE  Said(r, role) \in Entry /\ Said(r, role).run = r /\ Said(r, role).role = role
  BY DEF Said, Entry, Errs

\* A transcript after an entry has been appended.
LEMMA Appended ==
    ASSUME Written, NEW r \in Runs, NEW role \in {"user", "assistant"}, Recorded(r, role)
    PROVE  LET old == transcript[Session[r]]
               now == transcript'[Session[r]]
           IN /\ Written'
              /\ \A s \in Sessions : s # Session[r] => transcript'[s] = transcript[s]
              /\ old \in Seq(Entry) /\ now = Append(old, Said(r, role)) /\ Len(old) \in Nat
              /\ DOMAIN old = 1 .. Len(old) /\ DOMAIN now = 1 .. (Len(old) + 1)
              /\ \A i \in 1 .. Len(old) : now[i] = old[i]
              /\ now[Len(old) + 1] = Said(r, role)
<1>1. Session[r] \in Sessions /\ Said(r, role) \in Entry
  BY SaidType DEF Sessions
<1> DEFINE old == transcript[Session[r]]
           entry == Said(r, role)
           more == Append(old, entry)
<1>2. old \in Seq(Entry) /\ transcript' = [transcript EXCEPT ![Session[r]] = more]
  BY <1>1 DEF Written, Recorded
<1> HIDE DEF entry, old
<1>3. /\ more \in Seq(Entry) /\ Len(old) \in Nat /\ DOMAIN old = 1 .. Len(old)
      /\ DOMAIN more = 1 .. (Len(old) + 1)
      /\ \A i \in 1 .. Len(old) : more[i] = old[i]
      /\ more[Len(old) + 1] = entry
  BY <1>1, <1>2 DEF entry
<1> HIDE DEF more
<1>4. Written' /\ transcript'[Session[r]] = more /\ \A s \in Sessions : s # Session[r] => transcript'[s] = transcript[s]
  BY <1>1, <1>2, <1>3 DEF Written, Sessions
<1> QED BY <1>2, <1>3, <1>4 DEF more, old, entry

\* What another run appends does not change what a run has said last.
LEMMA StillSaid ==
    ASSUME Written, NEW r \in Runs, NEW q \in Runs, q # r, NEW role \in {"user", "assistant"},
           Recorded(q, role), NEW entry, LastSaid(r, entry)
    PROVE  LastIn(transcript'[Session[r]], r, entry)
<1>0. Session[r] \in Sessions /\ Said(q, role).run = q
  BY SaidType DEF Sessions
<1>1. CASE Session[q] # Session[r]
  <2>1. transcript'[Session[r]] = transcript[Session[r]]
    BY <1>0, <1>1, Appended
  <2> QED BY <2>1 DEF LastSaid, LastIn
<1>2. CASE Session[q] = Session[r]
  <2> DEFINE old == transcript[Session[r]]
             now == transcript'[Session[r]]
  <2>1. /\ Len(old) \in Nat /\ DOMAIN old = 1 .. Len(old) /\ DOMAIN now = 1 .. (Len(old) + 1)
        /\ \A i \in 1 .. Len(old) : now[i] = old[i]
        /\ now[Len(old) + 1] = Said(q, role)
    BY <1>2, Appended
  <2>2. PICK i \in DOMAIN old : old[i] = entry /\ \A j \in DOMAIN old : j > i => old[j].run # r
    BY DEF LastSaid
  <2> HIDE DEF old, now
  <2>3. i \in DOMAIN now /\ now[i] = entry
    BY <2>1, <2>2
  <2>4. ASSUME NEW j \in DOMAIN now, j > i
        PROVE  now[j].run # r
    <3>1. j \in 1 .. Len(old) \/ j = Len(old) + 1
      BY <2>1
    <3> QED BY <1>0, <2>1, <2>2, <2>4, <3>1
  <2> QED BY <2>3, <2>4 DEF now, LastIn
<1> QED BY <1>1, <1>2

\* A run whose own part of the state stays, while another run may append.
LEMMA OthersTell ==
    ASSUME Written, NEW r \in Runs, Tale(r), pc'[r] = pc[r], verdict'[r] = verdict[r],
           result'[r] = result[r],
           \/ transcript' = transcript
           \/ \E q \in Runs \ {r}, role \in {"user", "assistant"} : Recorded(q, role)
    PROVE  Tale(r)'
<1>1. ASSUME NEW entry, LastSaid(r, entry)
      PROVE  LastIn(transcript'[Session[r]], r, entry)
  <2>1. CASE transcript' = transcript
    BY <1>1, <2>1 DEF LastSaid, LastIn
  <2>2. ASSUME NEW q \in Runs \ {r}, NEW role \in {"user", "assistant"}, Recorded(q, role)
        PROVE  LastIn(transcript'[Session[r]], r, entry)
    BY <1>1, <2>2, StillSaid
  <2> QED BY <2>1, <2>2
<1>2. Said(r, "assistant")' = Said(r, "assistant")
  BY DEF Said, Errs
<1>3. ASSUME pc'[r] \in {"persisting", "announcing", "concluding"}, verdict'[r] # "handoff"
      PROVE  LastSaid(r, Said(r, "assistant"))'
  <2> PICK entry : entry = Said(r, "assistant")
    OBVIOUS
  <2>1. LastSaid(r, entry)
    BY <1>3 DEF Tale
  <2> QED BY <1>1, <1>2, <2>1 DEF LastSaid, LastIn
<1>4. ASSUME result'[r] \in {"completed", "failed"}, verdict'[r] # "handoff"
      PROVE  LastSaid(r, [run |-> r, role |-> "assistant", error |-> result[r] = "failed"])'
  <2> PICK entry : entry = [run |-> r, role |-> "assistant", error |-> result[r] = "failed"]
    OBVIOUS
  <2>1. LastSaid(r, entry)
    BY <1>4 DEF Tale
  <2> QED BY <1>1, <2>1 DEF LastSaid, LastIn
<1> QED BY <1>3, <1>4 DEF Tale

\* The run that records its turn.
LEMMA RecordTells ==
    ASSUME Written, VerdictInv, NEW r \in Runs, RecordUser(r) \/ RecordAssistant(r)
    PROVE  Written' /\ Tale(r)'
<1>1. pc[r] \in {"recording", "paired"} /\ pc \in [Runs -> Stages] /\ UNCHANGED <<verdict, result>>
  BY DEF RecordUser, RecordAssistant, At, VerdictInv, Shape
<1>2. result'[r] = "none"
  BY <1>1 DEF VerdictInv, Announced
<1>3. CASE RecordUser(r)
  <2>1. Recorded(r, "user") /\ pc'[r] = "paired"
    BY <1>1, <1>3 DEF RecordUser, Goto
  <2>2. Written'
    BY <2>1, Appended
  <2> QED BY <1>2, <2>1, <2>2 DEF Tale
<1>4. CASE RecordAssistant(r)
  <2>1. Recorded(r, "assistant")
    BY <1>4 DEF RecordAssistant
  <2> DEFINE old == transcript[Session[r]]
             now == transcript'[Session[r]]
  <2>2. /\ Written' /\ Len(old) \in Nat /\ DOMAIN now = 1 .. (Len(old) + 1)
        /\ now[Len(old) + 1] = Said(r, "assistant")
    BY <2>1, Appended
  <2> HIDE DEF old, now
  <2>3. Len(old) + 1 \in DOMAIN now /\ \A j \in DOMAIN now : ~(j > Len(old) + 1)
    BY <2>2
  <2>4. Said(r, "assistant")' = Said(r, "assistant")
    BY <1>1 DEF Said, Errs
  <2>5. LastSaid(r, Said(r, "assistant"))'
    BY <2>2, <2>3, <2>4 DEF LastSaid, now
  <2> QED BY <1>2, <2>2, <2>5 DEF Tale
<1> QED BY <1>3, <1>4

\* The run that returns: its result is the verdict it has recorded.
LEMMA ConcludeTells ==
    ASSUME Written, VerdictInv, NEW r \in Runs, Tale(r), Conclude(r)
    PROVE  Tale(r)'
<1>1. /\ pc[r] = "concluding" /\ pc'[r] = "done" /\ result'[r] = Outcome(r)
      /\ UNCHANGED <<verdict, transcript>>
  BY DEF Conclude, Finish, Goto, At, VerdictInv, Shape
<1>2. Errs(r) <=> Outcome(r) = "failed"
  BY DEF Outcome
<1>3. ASSUME verdict[r] # "handoff"
      PROVE  LastSaid(r, [run |-> r, role |-> "assistant", error |-> result[r] = "failed"])'
  <2> PICK entry : entry = Said(r, "assistant")
    OBVIOUS
  <2>1. LastSaid(r, entry)
    BY <1>1, <1>3 DEF Tale
  <2>2. entry = [run |-> r, role |-> "assistant", error |-> result'[r] = "failed"]
    <3>1. Errs(r) = (Outcome(r) = "failed")
      BY <1>2 DEF Errs, Outcome
    <3>2. ("assistant" = "assistant" /\ Errs(r)) = (result'[r] = "failed")
      BY <1>1, <3>1
    <3> QED BY <3>2 DEF Said
  <2> QED BY <1>1, <2>1, <2>2 DEF LastSaid
<1> QED BY <1>1, <1>3 DEF Tale

\* The steps by which a run neither records nor returns a result.
LEMMA QuietTells ==
    ASSUME Written, VerdictInv, NEW r \in Runs, Tale(r),
           \/ Request(r) \/ Refuse(r) \/ Acquire(r) \/ Setup(r) \/ Observe(r)
           \/ \E stores \in BOOLEAN : Return(r, stores)
           \/ Exhaust(r) \/ Remember(r) \/ Persist(r) \/ Fail(r) \/ Handoff(r) \/ Announce(r)
           \/ Escape(r) \/ Cancel(r)
    PROVE  transcript' = transcript /\ Tale(r)'
<1>0. pc \in [Runs -> Stages] /\ verdict \in [Runs -> Verdicts] /\ DOMAIN result = Runs
      /\ (pc[r] # "done" => result[r] = "none")
  BY DEF VerdictInv, Shape, Announced
<1>1. CASE Refuse(r) \/ Escape(r) \/ Cancel(r)
  <2>1. pc'[r] = "done" /\ result'[r] \in {"raised", "cancelled"} /\ transcript' = transcript
    BY <1>0, <1>1 DEF Refuse, Escape, Cancel, Finish, Goto
  <2> QED BY <2>1 DEF Tale
<1>2. CASE Persist(r) \/ Announce(r)
  <2>1. /\ pc[r] \in {"persisting", "announcing"} /\ UNCHANGED <<verdict, result, transcript>>
    BY <1>2 DEF Persist, Announce, At
  <2>2. LastSaid(r, Said(r, "assistant"))' <=> LastSaid(r, Said(r, "assistant"))
    BY <2>1 DEF LastSaid, Said, Errs
  <2> QED BY <1>0, <2>1, <2>2 DEF Tale
<1>3. CASE Handoff(r)
  <2>1. verdict'[r] = "handoff" /\ transcript' = transcript
    BY <1>0, <1>3 DEF Handoff
  <2> QED BY <2>1 DEF Tale
<1>4. CASE \/ Request(r) \/ Acquire(r) \/ Setup(r) \/ Exhaust(r) \/ Remember(r) \/ Fail(r)
           \/ \E stores \in BOOLEAN : Return(r, stores)
  <2>1. /\ pc[r] # "done" /\ UNCHANGED <<result, transcript>>
        /\ pc'[r] \in {"queued", "assembling", "executing", "remembering", "recording"}
    BY <1>0, <1>4 DEF Request, Called, Acquire, Setup, Exhaust, Remember, Fail, MayFailAt, Return, At, Goto
  <2> QED BY <1>0, <2>1 DEF Tale
<1>5. CASE Observe(r)
  <2>1. UNCHANGED <<pc, verdict, result, transcript>>
    BY <1>5 DEF Observe
  <2> QED BY <2>1, OthersTell
<1> QED BY <1>1, <1>2, <1>3, <1>4, <1>5

\* A step of one run leaves what the others depend on.
LEMMA OthersStand ==
    ASSUME VerdictInv, NEW r \in Runs, NEW q \in Runs \ {r},
           \/ Request(r) \/ Refuse(r) \/ Acquire(r) \/ Setup(r) \/ Observe(r)
           \/ \E stores \in BOOLEAN : Return(r, stores)
           \/ Exhaust(r) \/ Remember(r) \/ RecordUser(r) \/ RecordAssistant(r) \/ Persist(r)
           \/ Fail(r) \/ Handoff(r) \/ Announce(r) \/ Conclude(r) \/ Escape(r) \/ Cancel(r)
    PROVE  pc'[q] = pc[q] /\ verdict'[q] = verdict[q] /\ result'[q] = result[q]
<1>0. DOMAIN pc = Runs /\ DOMAIN verdict = Runs /\ DOMAIN result = Runs
  BY DEF VerdictInv, Shape
<1>1. pc' = pc \/ \E stage : Goto(r, stage)
  BY DEF Request, Refuse, Acquire, Setup, Observe, Return, Exhaust, Remember, RecordUser, RecordAssistant,
         Persist, Fail, Handoff, Announce, Conclude, Escape, Cancel, Finish
<1>2. verdict' = verdict \/ \E v : verdict' = [verdict EXCEPT ![r] = v]
  BY DEF Request, Refuse, Acquire, Setup, Observe, Return, Exhaust, Remember, RecordUser, RecordAssistant,
         Persist, Fail, Handoff, Announce, Conclude, Escape, Cancel, Finish
<1>3. result' = result \/ \E got : result' = [result EXCEPT ![r] = got]
  BY DEF Request, Refuse, Acquire, Setup, Observe, Return, Exhaust, Remember, RecordUser, RecordAssistant,
         Persist, Fail, Handoff, Announce, Conclude, Escape, Cancel, Finish
<1> QED BY <1>0, <1>1, <1>2, <1>3 DEF Goto

\* Every step keeps the tales.
LEMMA TellStep ==
    ASSUME Written, VerdictInv, \A r \in Runs : Tale(r), [Next]_vars
    PROVE  Written' /\ \A r \in Runs : Tale(r)'
<1>1. CASE UNCHANGED vars
  <2>1. UNCHANGED <<pc, verdict, result, transcript>>
    BY <1>1 DEF vars
  <2> QED BY <2>1, OthersTell DEF Written
<1>2. ASSUME NEW r \in Runs, RecordUser(r) \/ RecordAssistant(r)
      PROVE  Written' /\ \A q \in Runs : Tale(q)'
  <2>1. \E role \in {"user", "assistant"} : Recorded(r, role)
    BY <1>2 DEF RecordUser, RecordAssistant
  <2>2. \A q \in Runs \ {r} : Tale(q)'
    BY <1>2, <2>1, OthersStand, OthersTell
  <2> QED BY <1>2, <2>2, RecordTells
<1>3. ASSUME NEW r \in Runs, Conclude(r)
      PROVE  Written' /\ \A q \in Runs : Tale(q)'
  <2>1. transcript' = transcript
    BY <1>3 DEF Conclude
  <2>2. \A q \in Runs \ {r} : Tale(q)'
    BY <1>3, <2>1, OthersStand, OthersTell
  <2> QED BY <1>3, <2>1, <2>2, ConcludeTells DEF Written
<1>4. ASSUME NEW r \in Runs,
             \/ Request(r) \/ Refuse(r) \/ Acquire(r) \/ Setup(r) \/ Observe(r)
             \/ \E stores \in BOOLEAN : Return(r, stores)
             \/ Exhaust(r) \/ Remember(r) \/ Persist(r) \/ Fail(r) \/ Handoff(r) \/ Announce(r)
             \/ Escape(r) \/ Cancel(r)
      PROVE  Written' /\ \A q \in Runs : Tale(q)'
  <2>1. transcript' = transcript /\ Tale(r)'
    BY <1>4, QuietTells
  <2>2. \A q \in Runs \ {r} : Tale(q)'
    BY <1>4, <2>1, OthersStand, OthersTell
  <2> QED BY <2>1, <2>2 DEF Written
<1> QED BY <1>1, <1>2, <1>3, <1>4 DEF Next

\* The transcript of a session tells of every run that returned, handoffs apart,
\* how it ended: its last entry there is an error exactly if its result is a
\* failure, on any backend, also when it failed after its turn was appended and
\* whatever the other runs of the session append in between.
THEOREM TranscriptTellsVerdict == Spec => []TurnTellsVerdict
<1> DEFINE TellInv == VerdictInv /\ Written /\ \A r \in Runs : Tale(r)
<1>1. Init => TellInv
  <2> SUFFICES ASSUME Init PROVE Written /\ \A r \in Runs : Tale(r)
    BY VerdictInit
  <2> QED BY DEF Init, Written, Tale
<1>2. TellInv /\ [Next]_vars => TellInv'
  BY TellStep, VerdictStep
<1>3. TellInv => TurnTellsVerdict
  BY DEF TurnTellsVerdict, Tale
<1> QED BY <1>1, <1>2, <1>3, PTL DEF Spec

(***************************************************************************)
(* Turns on a backend that does not suspend.                               *)
(***************************************************************************)
\* A user's entry is followed by the assistant's of the same run.
PairedUp(said) ==
    \A i \in 1 .. (Len(said) - 1) :
        said[i].role = "user" => said[i + 1].run = said[i].run /\ said[i + 1].role = "assistant"

\* An unfinished turn is at the end of a transcript, and is that of the run that
\* has its user's entry in.
WholeInv ==
    /\ pc \in [Runs -> Stages]
    /\ Written
    /\ \A s \in Sessions : PairedUp(transcript[s])
    /\ \A s \in Sessions : LET said == transcript[s] IN
          said # <<>> /\ said[Len(said)].role = "user" =>
             Session[said[Len(said)].run] = s /\ pc[said[Len(said)].run] = "paired"
    /\ \A r \in Runs : LET said == transcript[Session[r]] IN
          pc[r] = "paired" => said # <<>> /\ said[Len(said)].run = r

\* Appending what follows keeps the turns whole.
LEMMA PairedGrows ==
    ASSUME NEW said \in Seq(Entry), PairedUp(said), NEW entry \in Entry,
           said # <<>> /\ said[Len(said)].role = "user" =>
              entry.run = said[Len(said)].run /\ entry.role = "assistant"
    PROVE  LET more == Append(said, entry) IN
           PairedUp(more) /\ more # <<>> /\ more[Len(more)] = entry
<1> DEFINE more == Append(said, entry)
<1>1. /\ Len(said) \in Nat /\ Len(more) = Len(said) + 1
      /\ \A i \in 1 .. Len(said) : more[i] = said[i]
      /\ more[Len(said) + 1] = entry
  OBVIOUS
<1>2. more # <<>>
  BY <1>1
<1> HIDE DEF more
<1>3. ASSUME NEW i \in 1 .. (Len(more) - 1), more[i].role = "user"
      PROVE  more[i + 1].run = more[i].run /\ more[i + 1].role = "assistant"
  <2>1. CASE i # Len(said)
    <3>1. i \in 1 .. (Len(said) - 1) /\ i \in 1 .. Len(said) /\ i + 1 \in 1 .. Len(said)
      BY <1>1, <2>1
    <3> QED BY <1>1, <1>3, <3>1 DEF PairedUp
  <2>2. CASE i = Len(said)
    <3>1. said # <<>> /\ i \in 1 .. Len(said)
      BY <1>1, <2>2
    <3> QED BY <1>1, <1>3, <2>2, <3>1
  <2> QED BY <2>1, <2>2
<1> QED BY <1>1, <1>2, <1>3 DEF more, PairedUp

\* A run records: nobody else has a turn begun.
LEMMA RecordWhole ==
    ASSUME ~Suspends, WholeInv, NEW r \in Runs, RecordUser(r) \/ RecordAssistant(r)
    PROVE  WholeInv'
<1>0. pc \in [Runs -> Stages] /\ Written /\ Session[r] \in Sessions
  BY DEF WholeInv, Sessions
<1>1. \A q \in Runs \ {r} : pc[q] # "paired"
  BY DEF RecordUser, RecordAssistant, Running, Turn, Unbroken
<1> DEFINE old == transcript[Session[r]]
<1>2. old \in Seq(Entry) /\ Len(old) \in Nat
      /\ (old # <<>> => old[Len(old)].run \in Runs /\ old[Len(old)].role \in {"user", "assistant"})
  <2>1. old \in Seq(Entry) /\ Len(old) \in Nat
    BY <1>0 DEF Written
  <2>2. old # <<>> => Len(old) \in 1 .. Len(old)
    BY <2>1
  <2>3. old # <<>> => old[Len(old)] \in Entry
    BY <2>1, <2>2
  <2> QED BY <2>1, <2>3 DEF Entry
<1>3. PICK role \in {"user", "assistant"} :
         /\ Recorded(r, role)
         /\ role = "user" => pc[r] = "recording" /\ pc'[r] = "paired"
         /\ role = "assistant" => pc[r] = "paired" /\ pc'[r] # "paired"
  BY <1>0 DEF RecordUser, RecordAssistant, At, Goto
<1>4. \A q \in Runs \ {r} : pc'[q] = pc[q]
  BY <1>0 DEF RecordUser, RecordAssistant, Goto
<1>5. Said(r, role) \in Entry /\ Said(r, role).run = r /\ Said(r, role).role = role
  BY SaidType
<1>6. old # <<>> /\ old[Len(old)].role = "user" =>
         Said(r, role).run = old[Len(old)].run /\ Said(r, role).role = "assistant"
  <2> SUFFICES ASSUME old # <<>>, old[Len(old)].role = "user"
               PROVE  r = old[Len(old)].run /\ role = "assistant"
    BY <1>5
  <2>1. old[Len(old)].run \in Runs /\ pc[old[Len(old)].run] = "paired"
    BY <1>0, <1>2 DEF WholeInv
  <2> QED BY <1>1, <1>3, <2>1
<1> DEFINE now == transcript'[Session[r]]
<1>7. PairedUp(now) /\ now # <<>> /\ now[Len(now)] = Said(r, role)
  <2>1. PairedUp(old)
    BY <1>0 DEF WholeInv
  <2>2. now = Append(old, Said(r, role))
    BY <1>0, <1>3, Appended
  <2> HIDE DEF old, now
  <2> QED BY <1>2, <1>5, <1>6, <2>1, <2>2, PairedGrows
<1>8. Written' /\ \A s \in Sessions : s # Session[r] => transcript'[s] = transcript[s]
  BY <1>0, <1>3, Appended
<1>9. pc' \in [Runs -> Stages]
  BY <1>0 DEF RecordUser, RecordAssistant, Goto, Stages
<1> HIDE DEF old, now
<1>10. \A s \in Sessions : PairedUp(transcript'[s])
  BY <1>7, <1>8 DEF WholeInv, now
<1>11. ASSUME NEW s \in Sessions, transcript'[s] # <<>>,
              transcript'[s][Len(transcript'[s])].role = "user"
       PROVE  /\ Session[transcript'[s][Len(transcript'[s])].run] = s
              /\ pc'[transcript'[s][Len(transcript'[s])].run] = "paired"
  <2>1. CASE s = Session[r]
    BY <1>3, <1>5, <1>7, <1>11, <2>1 DEF now
  <2>2. CASE s # Session[r]
    <3>1. transcript'[s] = transcript[s]
      BY <1>8, <2>2
    <3>2. Session[transcript[s][Len(transcript[s])].run] = s /\ pc[transcript[s][Len(transcript[s])].run] = "paired"
      BY <1>11, <3>1 DEF WholeInv
    <3>3. transcript[s] \in Seq(Entry) /\ Len(transcript[s]) \in 1 .. Len(transcript[s])
      BY <1>0, <1>11, <3>1 DEF Written
    <3>4. transcript[s][Len(transcript[s])].run \in Runs
      <4>1. transcript[s][Len(transcript[s])] \in Entry
        BY <3>3
      <4> QED BY <4>1 DEF Entry
    <3> QED BY <1>1, <2>2, <3>2, <3>4
  <2> QED BY <2>1, <2>2
<1>12. ASSUME NEW q \in Runs, pc'[q] = "paired"
       PROVE  transcript'[Session[q]] # <<>> /\ transcript'[Session[q]][Len(transcript'[Session[q]])].run = q
  BY <1>1, <1>3, <1>4, <1>5, <1>7, <1>12 DEF now
<1> QED BY <1>8, <1>9, <1>10, <1>11, <1>12 DEF WholeInv, Sessions

\* Every other step leaves the transcript, and who is between its two entries.
LEMMA NobodyPairs ==
    ASSUME ~Suspends, ~StoreMayFail, pc \in [Runs -> Stages], NEW r \in Runs,
           \/ Request(r) \/ Refuse(r) \/ Acquire(r) \/ Setup(r) \/ Observe(r)
           \/ \E stores \in BOOLEAN : Return(r, stores)
           \/ Exhaust(r) \/ Remember(r) \/ Persist(r) \/ Fail(r) \/ Handoff(r) \/ Announce(r)
           \/ Conclude(r) \/ Escape(r) \/ Cancel(r)
    PROVE  transcript' = transcript /\ pc' \in [Runs -> Stages]
           /\ \A q \in Runs : pc'[q] = "paired" <=> pc[q] = "paired"
<1>1. transcript' = transcript
  BY DEF Request, Refuse, Acquire, Setup, Observe, Return, Exhaust, Remember, Persist, Fail, Handoff,
         Announce, Conclude, Escape, Cancel, Finish
<1>2. pc' = pc \/ \E stage \in Stages \ {"paired"} : pc' = [pc EXCEPT ![r] = stage]
  BY DEF Request, Refuse, Acquire, Setup, Observe, Return, Exhaust, Remember, Persist, Fail, Handoff,
         Announce, Conclude, Escape, Cancel, Finish, Goto, Stages
<1>3. pc' # pc => pc[r] # "paired"
  BY DEF Request, Refuse, Called, Acquire, Setup, Observe, Return, Exhaust, Remember, Persist, Fail, MayFailAt,
         Handoff, Announce, Conclude, Escape, Cancel, Unbroken, At
<1> QED BY <1>1, <1>2, <1>3

\* Every step keeps the turns whole.
LEMMA WholeStep == ASSUME ~Suspends, ~StoreMayFail, WholeInv, [Next]_vars PROVE WholeInv'
<1>1. ASSUME transcript' = transcript, pc' \in [Runs -> Stages],
             \A q \in Runs : pc'[q] = "paired" <=> pc[q] = "paired"
      PROVE  WholeInv'
  <2>1. ASSUME NEW s \in Sessions, transcript[s] # <<>>, transcript[s][Len(transcript[s])].role = "user"
        PROVE  /\ Session[transcript[s][Len(transcript[s])].run] = s
               /\ pc'[transcript[s][Len(transcript[s])].run] = "paired"
    <3>1. /\ Session[transcript[s][Len(transcript[s])].run] = s
          /\ pc[transcript[s][Len(transcript[s])].run] = "paired"
      BY <2>1 DEF WholeInv
    <3>2. transcript[s] \in Seq(Entry) /\ Len(transcript[s]) \in 1 .. Len(transcript[s])
      BY <2>1 DEF WholeInv, Written
    <3>3. transcript[s][Len(transcript[s])].run \in Runs
      <4>1. transcript[s][Len(transcript[s])] \in Entry
        BY <3>2
      <4> QED BY <4>1 DEF Entry
    <3> QED BY <1>1, <3>1, <3>3
  <2> QED BY <1>1, <2>1 DEF WholeInv, Written, Sessions, Stages
<1>2. CASE UNCHANGED vars
  <2>1. transcript' = transcript /\ pc' = pc
    BY <1>2 DEF vars
  <2> QED BY <1>1, <2>1 DEF WholeInv
<1>3. ASSUME NEW r \in Runs, RecordUser(r) \/ RecordAssistant(r)
      PROVE  WholeInv'
  BY <1>3, RecordWhole
<1>4. ASSUME NEW r \in Runs,
             \/ Request(r) \/ Refuse(r) \/ Acquire(r) \/ Setup(r) \/ Observe(r)
             \/ \E stores \in BOOLEAN : Return(r, stores)
             \/ Exhaust(r) \/ Remember(r) \/ Persist(r) \/ Fail(r) \/ Handoff(r) \/ Announce(r)
             \/ Conclude(r) \/ Escape(r) \/ Cancel(r)
      PROVE  WholeInv'
  BY <1>1, <1>4, NobodyPairs DEF WholeInv
<1> QED BY <1>2, <1>3, <1>4 DEF Next

\* On a backend whose append_message neither suspends nor raises (memory), no
\* entry comes between the two of a turn, though failed runs append theirs
\* without the session lock while others append under it.
THEOREM TurnsStayWhole == ASSUME ~Suspends, ~StoreMayFail PROVE Spec => []TurnsWhole
<1>1. Init => WholeInv
  BY DEF Init, WholeInv, Written, PairedUp, Sessions, Stages
<1>2. WholeInv /\ [Next]_vars => WholeInv'
  BY WholeStep
<1>3. WholeInv => TurnsWhole
  <2> SUFFICES ASSUME WholeInv, NEW s \in Sessions, NEW i \in 1 .. (Len(transcript[s]) - 1),
                      transcript[s][i].role = "user"
               PROVE  transcript[s][i + 1] = [transcript[s][i + 1] EXCEPT !.run = transcript[s][i].run, !.role = "assistant"]
    BY DEF TurnsWhole
  <2>1. transcript[s] \in Seq(Entry) /\ i + 1 \in 1 .. Len(transcript[s])
    BY DEF WholeInv, Written
  <2>2. transcript[s][i + 1].run = transcript[s][i].run /\ transcript[s][i + 1].role = "assistant"
    BY DEF WholeInv, PairedUp
  <2>3. transcript[s][i + 1] \in Entry
    BY <2>1
  <2> QED BY <2>2, <2>3 DEF Entry
<1> QED BY <1>1, <1>2, <1>3, PTL DEF Spec
=============================================================================
