------------------------ MODULE ToolExecutionProofs ------------------------
(***************************************************************************)
(* Proofs about what happens between the model and its tools.              *)
(*                                                                         *)
(* First ToolExecution, for every batch, every executor and every number of *)
(* attempts: no tool outlives the batch that returned its answer, and      *)
(* tools overlap only where their calls may.  AloneUnlessSafe counts tools *)
(* that run; it is made inductive by counting the calls that keep their    *)
(* place (Busy), those between two attempts included, and by saying in     *)
(* which order calls have begun.  A lemma says what one step does to those *)
(* parts of the state (Progress); the invariant is then proved from it     *)
(* without looking at the actions again.                                   *)
(*                                                                         *)
(* Then the parts around it, each with an inductive invariant of its own:  *)
(* bound tools (CallInv), the patterns' loops (LoopInv), the gates in      *)
(* front of tools (GateInv), the host's tools (HostInv) and the memories   *)
(* (MemoryInv); servers and prompts need none.  The last section puts them *)
(* together under the specification of MCAgentLoops.                       *)
(***************************************************************************)
EXTENDS MCAgentLoops, FiniteSetTheorems, SequenceTheorems, TLAPS

\* A call keeps its place, and may overlap others, until its tool has ended.
Busy(i) == Active(i) \/ tool[i] \in Alive

BusyCalls == {i \in Items : Busy(i)}

\* What holds of each call: it has no tool running before it begins, while it
\* backs off or once it is answered, and it has attempts left when it needs one.
Quiet ==
    \A i \in Items :
       /\ stage[i] \in {"waiting", "backoff", "answered"} => tool[i] \notin Alive
       /\ stage[i] = "waiting" => attempts[i] = 0
       /\ stage[i] = "backoff" => attempts[i] < MaxAttempts

\* No call is given up while its batch goes on.
NoneGone == caller = "executing" => \A i \in Items : stage[i] # "gone"

\* A tool's calls begin when those of the tools before it are done.
ToolsInOrder ==
    \A i, j \in Items : stage[j] # "waiting" /\ Group[i] < Group[j] => Done(i)

\* A call that runs alone has begun in its turn.
UnsafeInTurn == \A j \in Items : stage[j] # "waiting" /\ ~Parallel(j) => InTurn(j)

Together ==
    \A i, j \in Items : i # j /\ Busy(i) /\ Busy(j) =>
        Parallel(i) /\ Parallel(j) /\ Group[i] = Group[j]

Bounded == Cardinality(BusyCalls) <= MaxConcurrency

ReturnedWhole == caller = "returned" => AllAnswered

Inv ==
    /\ TypeOK
    /\ Quiet
    /\ NoneGone
    /\ ToolsInOrder
    /\ UnsafeInTurn
    /\ Together
    /\ Bounded
    /\ ReturnedWhole

(***************************************************************************)
(* One step.                                                               *)
(***************************************************************************)
\* A call begins in its turn, or is given up with a sibling that runs.
MayLeaveWaiting(k) ==
    \/ Turn(k)
    \/ Parallel(k) /\ \E i \in Items : Active(i) /\ Parallel(i) /\ Group[i] = Group[k]

\* A call takes a place in its turn, and nothing else happens.
TakesPlace(k) ==
    /\ stage[k] = "waiting"
    /\ Turn(k)
    /\ \A j \in Items \ {k} : stage'[j] = stage[j] /\ tool'[j] = tool[j]

Progress ==
    /\ setup' = setup
    /\ \A k \in Items : Done(k) => stage'[k] = stage[k]
    /\ \A k \in Items : stage'[k] = "waiting" => stage[k] = "waiting"
    /\ \A k \in Items : stage[k] = "waiting" /\ stage'[k] # "waiting" => MayLeaveWaiting(k)
    /\ \A k \in Items : Busy(k)' => Busy(k) \/ TakesPlace(k)
    /\ caller' = "returned" => caller = "returned" \/ AllAnswered

\* What a step keeps of each call.
Kept == TypeOK' /\ Quiet' /\ NoneGone'

\* A step of one call, which leaves the others where they are.
LEMMA OneCall ==
    ASSUME TypeOK, Quiet, NoneGone, NEW i \in Items,
           NEW st \in {"waiting", "racing", "awaiting", "stopping", "backoff", "answered", "gone"},
           NEW tl \in {"idle"} \cup Alive \cup Ended,
           NEW rs \in {"none", "timeout", "cancelled"},
           NEW tries \in 0..MaxAttempts,
           stage' = [stage EXCEPT ![i] = st], tool' = [tool EXCEPT ![i] = tl],
           reason' = [reason EXCEPT ![i] = rs], attempts' = [attempts EXCEPT ![i] = tries],
           UNCHANGED <<setup, event>>,
           caller' = caller \/ (caller' \in {"raised", "cancelled"}),
           ~Done(i), st # "waiting",
           st \in {"backoff", "answered"} => tl \notin Alive,
           st = "backoff" => tries < MaxAttempts,
           st = "gone" => caller' # "executing",
           stage[i] = "waiting" => Turn(i)
    PROVE  Kept /\ Progress
<1>1. TypeOK'
  BY DEF TypeOK
<1>2. Quiet'
  BY DEF Quiet, TypeOK
<1>3. NoneGone'
  BY DEF NoneGone, TypeOK
<1>4. \A k \in Items : Done(k) => stage'[k] = stage[k]
  BY DEF TypeOK, Done
<1>5. \A k \in Items : stage'[k] = "waiting" => stage[k] = "waiting"
  BY DEF TypeOK
<1>6. \A k \in Items : stage[k] = "waiting" /\ stage'[k] # "waiting" => MayLeaveWaiting(k)
  BY DEF TypeOK, MayLeaveWaiting
<1>7. \A j \in Items \ {i} : stage'[j] = stage[j] /\ tool'[j] = tool[j]
  BY DEF TypeOK
<1>8. ASSUME NEW k \in Items, Busy(k)' PROVE Busy(k) \/ TakesPlace(k)
  <2>1. CASE k # i
    BY <1>7, <1>8, <2>1 DEF Busy, Active
  <2>2. CASE k = i
    BY <1>7, <1>8, <2>2 DEF Busy, Active, Done, TakesPlace, TypeOK
  <2> QED BY <2>1, <2>2
<1>9. caller' = "returned" => caller = "returned"
  OBVIOUS
<1> QED BY <1>1, <1>2, <1>3, <1>4, <1>5, <1>6, <1>8, <1>9 DEF Kept, Progress

\* A step that starts no tool and moves no call.
LEMMA NoCall ==
    ASSUME TypeOK, Quiet, NoneGone, UNCHANGED <<setup, stage, tool, reason, attempts>>,
           event' \in BOOLEAN, caller' \in {"executing", "cancelling", "returned", "raised", "cancelled"},
           caller' = "executing" => caller = "executing",
           caller' = "returned" => caller = "returned" \/ AllAnswered
    PROVE  Kept /\ Progress
<1>1. Kept
  BY DEF Kept, TypeOK, Quiet, NoneGone
<1>2. \A k \in Items : Busy(k)' => Busy(k)
  BY DEF Busy, Active
<1> QED BY <1>1, <1>2 DEF Progress

\* An attempt that begins.
LEMMA LaunchStep ==
    ASSUME TypeOK, Quiet, NoneGone, NEW i \in Items, Launch(i),
           stage[i] \in {"waiting", "backoff"}, stage[i] = "waiting" => Turn(i)
    PROVE  Kept /\ Progress
<1>1. attempts[i] + 1 \in 0..MaxAttempts
  BY ToolAssumption DEF TypeOK, Quiet
<1>2. reason' = [reason EXCEPT ![i] = reason[i]] /\ reason[i] \in {"none", "timeout", "cancelled"}
  BY DEF TypeOK, Launch
<1>3. PICK st \in {"racing", "awaiting"} : stage' = [stage EXCEPT ![i] = st]
  BY DEF Launch
<1>4. /\ tool' = [tool EXCEPT ![i] = "running"] /\ "running" \in Alive
      /\ attempts' = [attempts EXCEPT ![i] = attempts[i] + 1]
      /\ UNCHANGED <<setup, event>> /\ caller' = caller /\ ~Done(i)
  BY DEF Launch, Alive, Done
<1> QED BY <1>1, <1>2, <1>3, <1>4, OneCall

\* An attempt the gate refuses.
LEMMA RefusedStep ==
    ASSUME TypeOK, Quiet, NoneGone, NEW i \in Items, Refused(i),
           stage[i] \in {"waiting", "backoff"}, stage[i] = "waiting" => Turn(i)
    PROVE  Kept /\ Progress
<1>1. /\ reason' = [reason EXCEPT ![i] = reason[i]] /\ reason[i] \in {"none", "timeout", "cancelled"}
      /\ tool' = [tool EXCEPT ![i] = tool[i]] /\ tool[i] \in {"idle"} \cup Alive \cup Ended
      /\ attempts' = [attempts EXCEPT ![i] = attempts[i]] /\ attempts[i] \in 0..MaxAttempts
      /\ tool[i] \notin Alive
  BY DEF TypeOK, Refused, Quiet
<1>2. /\ stage' = [stage EXCEPT ![i] = "answered"] /\ ~Done(i)
      /\ UNCHANGED <<setup, event>> /\ caller' = caller
  BY DEF Refused, Done
<1> QED BY <1>1, <1>2, OneCall

\* A call that is answered or backs off when its tool has ended.
LEMMA SettleStep ==
    ASSUME TypeOK, Quiet, NoneGone, NEW i \in Items, NEW what, Settle(i, what),
           Active(i), tool[i] \notin Alive, UNCHANGED <<setup, caller, event, attempts>>
    PROVE  Kept /\ Progress
<1>1. attempts' = [attempts EXCEPT ![i] = attempts[i]] /\ attempts[i] \in 0..MaxAttempts
  BY DEF TypeOK
<1>2. /\ tool' = [tool EXCEPT ![i] = "idle"] /\ "idle" \notin Alive
      /\ reason' = [reason EXCEPT ![i] = "none"]
      /\ stage[i] # "waiting" /\ ~Done(i)
  BY DEF Settle, Alive, Active, Done
<1>3. PICK st \in {"backoff", "answered"} :
        stage' = [stage EXCEPT ![i] = st] /\ (st = "backoff" => attempts[i] < MaxAttempts)
  BY DEF Settle, MayRetry
<1> QED BY <1>1, <1>2, <1>3, OneCall

\* The task of a tool goes on or ends.
LEMMA ToolStep ==
    ASSUME TypeOK, Quiet, NoneGone, NEW i \in Items, NEW how \in Alive \cup Ended, tool[i] \in Alive,
           tool' = [tool EXCEPT ![i] = how], UNCHANGED <<setup, caller, event, stage, reason, attempts>>
    PROVE  Kept /\ Progress
<1>1. TypeOK'
  BY DEF TypeOK
<1>2. Quiet' /\ NoneGone'
  BY DEF Quiet, NoneGone, TypeOK
<1>3. \A k \in Items : Busy(k)' => Busy(k)
  BY DEF Busy, Active, TypeOK
<1> QED BY <1>1, <1>2, <1>3 DEF Kept, Progress

\* A call that stops its tool, awaits it, or is given up.
LEMMA StageStep ==
    ASSUME TypeOK, Quiet, NoneGone, NEW i \in Items, Active(i),
           NEW st \in {"awaiting", "stopping", "gone"},
           NEW tl \in {"idle"} \cup Alive \cup Ended, NEW rs \in {"none", "timeout", "cancelled"},
           stage' = [stage EXCEPT ![i] = st], tool' = [tool EXCEPT ![i] = tl],
           reason' = [reason EXCEPT ![i] = rs], UNCHANGED <<setup, event, attempts>>,
           caller' = caller \/ caller' \in {"raised", "cancelled"},
           st = "gone" => caller' # "executing"
    PROVE  Kept /\ Progress
<1>1. attempts' = [attempts EXCEPT ![i] = attempts[i]] /\ attempts[i] \in 0..MaxAttempts
  BY DEF TypeOK
<1> QED BY <1>1, OneCall DEF Active, Done

\* A call that is cancelled, with those that end with it.
LEMMA CancelStep ==
    ASSUME TypeOK, Quiet, NoneGone, NEW i \in Items, Cancel(i)
    PROVE  Kept /\ Progress
<1> DEFINE ending == {j \in Reached(i) : EndsAtOnce(j)}
<1>0. /\ caller = "executing" /\ Active(i)
      /\ stage' = [j \in Items |-> IF j \in ending THEN "gone" ELSE stage[j]]
      /\ tool' = [j \in Items |-> IF j \in Reached(i) \ ending /\ tool[j] \in Alive
                                  THEN "asked" ELSE tool[j]]
      /\ caller' = IF ending # {} THEN "cancelled"
                   ELSE IF Parallel(i) THEN "cancelling" ELSE caller
      /\ UNCHANGED <<setup, event, reason, attempts>>
  BY DEF Cancel
<1>1. \A j \in ending : ~Done(j) /\ stage[j] \in {"waiting", "racing", "backoff", "awaiting"}
  BY DEF EndsAtOnce, Done
<1>2. \A j \in ending : j = i \/ (Parallel(i) /\ Parallel(j) /\ Group[j] = Group[i])
  BY DEF Reached, Abreast, Siblings
<1> HIDE DEF ending
<1>3. TypeOK'
  BY <1>0 DEF TypeOK, Alive
<1>4. Quiet'
  BY <1>0, <1>1 DEF Quiet, TypeOK
<1>5. NoneGone'
  BY <1>0 DEF NoneGone
<1>6. \A k \in Items : Busy(k)' => Busy(k)
  BY <1>0, <1>1 DEF Busy, Active
<1>7. \A k \in Items : Done(k) => stage'[k] = stage[k]
  BY <1>0, <1>1 DEF TypeOK
<1>8. \A k \in Items : stage[k] = "waiting" /\ stage'[k] # "waiting" => MayLeaveWaiting(k)
  BY <1>0, <1>2 DEF MayLeaveWaiting, Active, TypeOK
<1>9. \A k \in Items : stage'[k] = "waiting" => stage[k] = "waiting"
  BY <1>0 DEF TypeOK
<1>10. caller' # "returned"
  BY <1>0
<1> QED BY <1>0, <1>3, <1>4, <1>5, <1>6, <1>7, <1>8, <1>9, <1>10 DEF Kept, Progress

\* Every step, action by action.
LEMMA EveryStep ==
    ASSUME TypeOK, Quiet, NoneGone, [Next]_vars
    PROVE  Kept /\ Progress
<1>1. ASSUME NEW i \in Items, Begin(i) PROVE Kept /\ Progress
  BY <1>1, LaunchStep, RefusedStep DEF Begin
<1>2. ASSUME NEW i \in Items, Retry(i) PROVE Kept /\ Progress
  BY <1>2, LaunchStep, RefusedStep DEF Retry
<1>3. ASSUME NEW i \in Items, End(i) PROVE Kept /\ Progress
  BY <1>3, ToolStep DEF End
<1>4. ASSUME NEW i \in Items, Ignore(i) PROVE Kept /\ Progress
  BY <1>4, ToolStep DEF Ignore, Alive
<1>5. ASSUME NEW i \in Items, Collect(i) PROVE Kept /\ Progress
  BY <1>5, SettleStep DEF Collect, Active, Alive, Ended
<1>6. ASSUME NEW i \in Items, Escape(i) PROVE Kept /\ Progress
  <2>1. tool' = [tool EXCEPT ![i] = tool[i]] /\ reason' = [reason EXCEPT ![i] = reason[i]]
    BY <1>6 DEF Escape, TypeOK
  <2> QED BY <1>6, <2>1, StageStep DEF Escape, Active, TypeOK
<1>7. ASSUME NEW i \in Items, NEW why \in {"timeout", "cancelled"}, stage[i] = "racing", Stop(i, why),
             UNCHANGED <<setup, caller, event, attempts>>
      PROVE  Kept /\ Progress
  BY <1>7, StageStep DEF Stop, Active, Alive
<1>8. ASSUME NEW i \in Items, Interrupt(i) PROVE Kept /\ Progress
  <2>1. CASE i \in Blocks
    <3>1. tool' = [tool EXCEPT ![i] = tool[i]] /\ reason' = [reason EXCEPT ![i] = reason[i]]
      BY <1>8, <2>1 DEF Interrupt, TypeOK
    <3> QED BY <1>8, <2>1, <3>1, StageStep DEF Interrupt, Active, TypeOK
  <2>2. CASE i \notin Blocks
    BY <1>7, <1>8, <2>2 DEF Interrupt
  <2> QED BY <2>1, <2>2
<1>9. ASSUME NEW i \in Items, TimeOut(i) PROVE Kept /\ Progress
  BY <1>7, <1>9 DEF TimeOut
<1>10. ASSUME NEW i \in Items, Stopped(i) PROVE Kept /\ Progress
  BY <1>10, SettleStep DEF Stopped, MayAnswer, Active, Alive, Ended
<1>11. ASSUME NEW i \in Items, Cancel(i) PROVE Kept /\ Progress
  BY <1>11, CancelStep
<1>12. ASSUME NEW i \in Items, Abandon(i) PROVE Kept /\ Progress
  <2>1. /\ tool' = [tool EXCEPT ![i] = tool[i]] /\ tool[i] \in {"idle"} \cup Alive \cup Ended
        /\ reason' = [reason EXCEPT ![i] = reason[i]] /\ reason[i] \in {"none", "timeout", "cancelled"}
        /\ stage' = [stage EXCEPT ![i] = "gone"] /\ caller' = "cancelled"
        /\ UNCHANGED <<setup, event, attempts>> /\ Active(i)
    BY <1>12 DEF Abandon, Active, TypeOK
  <2> QED BY <2>1, StageStep
<1>13. CASE SetEvent
  BY <1>13, NoCall DEF SetEvent, TypeOK
<1>14. CASE Unwind
  BY <1>14, NoCall DEF Unwind, TypeOK
<1>15. CASE Return
  BY <1>15, NoCall DEF Return, TypeOK
<1>16. CASE UNCHANGED vars
  BY <1>16, NoCall DEF vars, TypeOK
<1> QED
  BY <1>1, <1>2, <1>3, <1>4, <1>5, <1>6, <1>8, <1>9, <1>10, <1>11, <1>12, <1>13, <1>14, <1>15, <1>16
  DEF Next

(***************************************************************************)
(* The invariant.                                                          *)
(***************************************************************************)
\* The invariant holds at first.
LEMMA Initially == Init => Inv
<1> SUFFICES ASSUME Init PROVE Inv
  OBVIOUS
<1>0. 0 \in 0..MaxAttempts
  BY ToolAssumption
<1>1. TypeOK
  BY <1>0 DEF Init, TypeOK
<1>2. Quiet /\ NoneGone /\ ToolsInOrder /\ UnsafeInTurn /\ ReturnedWhole
  BY DEF Init, Quiet, NoneGone, ToolsInOrder, UnsafeInTurn, ReturnedWhole, Alive
<1>3. BusyCalls = {} /\ Together
  BY DEF Init, Together, BusyCalls, Busy, Active, Alive
<1>4. Bounded
  BY <1>3, FS_EmptySet, ToolAssumption DEF Bounded
<1> QED BY <1>1, <1>2, <1>3, <1>4 DEF Inv

\* A call that takes its place finds those of its tool busy only if both are safe.
LEMMA Alongside ==
    ASSUME TypeOK, Quiet, NoneGone, ToolsInOrder, UnsafeInTurn,
           NEW i \in Items, stage[i] = "waiting", Turn(i), NEW j \in Items, j # i, Busy(j)
    PROVE  Parallel(i) /\ Parallel(j) /\ Group[i] = Group[j] /\ Active(j)
<1>1. stage[j] # "waiting" /\ stage[j] # "gone" /\ caller = "executing"
  BY DEF Busy, Active, Quiet, NoneGone, Turn
<1>2. Active(j) /\ ~Done(j) /\ ~Done(i)
  BY <1>1 DEF Busy, Active, Done, Quiet, TypeOK
<1>3. Group[i] = Group[j]
  BY <1>1, <1>2, ToolAssumption DEF ToolsInOrder, Turn
<1>4. i \in Siblings(j) /\ j \in Siblings(i)
  BY <1>3 DEF Siblings
<1>5. Parallel(i) => Parallel(j)
  BY <1>1, <1>2, <1>4 DEF UnsafeInTurn, InTurn
<1>6. Parallel(j) => Parallel(i)
  BY <1>2, <1>4 DEF Turn, InTurn
<1>7. Parallel(i) \/ Parallel(j)
  <2> SUFFICES ASSUME ~Parallel(i), ~Parallel(j) PROVE FALSE
    OBVIOUS
  <2>1. InTurn(i) /\ InTurn(j)
    BY <1>1 DEF Turn, UnsafeInTurn
  <2>2. ~(j < i) /\ ~(i < j)
    BY <2>1, <1>2, <1>4 DEF InTurn
  <2> QED BY <2>2, ToolAssumption DEF Items
<1> QED BY <1>2, <1>3, <1>5, <1>6, <1>7

\* Calls begin and end in the order of the batch where it matters.
LEMMA KeepsOrder ==
    ASSUME Inv, Kept, Progress
    PROVE  ToolsInOrder' /\ UnsafeInTurn'
<1> USE DEF Inv
<1>1. \A k \in Items : Done(k) => Done(k)'
  BY DEF Progress, Done
<1>2. \A k \in Items : Parallel(k)' = Parallel(k)
  BY DEF Progress, Parallel, Concurrent
<1>3. \A k \in Items : Siblings(k)' = Siblings(k)
  BY DEF Siblings
<1>4. ASSUME NEW i \in Items, NEW j \in Items, stage'[j] # "waiting", Group[i] < Group[j]
      PROVE  Done(i)
  <2>1. CASE stage[j] # "waiting"
    BY <1>4, <2>1 DEF ToolsInOrder
  <2>2. CASE Turn(j)
    BY <1>4, <2>2 DEF Turn
  <2>3. CASE stage[j] = "waiting" /\ ~Turn(j)
    <3>1. PICK k \in Items : Active(k) /\ Group[k] = Group[j]
      BY <1>4, <2>3 DEF Progress, MayLeaveWaiting
    <3>2. stage[k] # "waiting"
      BY <3>1 DEF Active
    <3> QED BY <1>4, <3>1, <3>2 DEF ToolsInOrder
  <2> QED BY <2>1, <2>2, <2>3
<1>5. ToolsInOrder'
  BY <1>1, <1>4 DEF ToolsInOrder
<1>6. ASSUME NEW j \in Items, stage'[j] # "waiting", ~Parallel(j)
      PROVE  InTurn(j)
  <2>1. CASE stage[j] # "waiting"
    BY <1>6, <2>1 DEF UnsafeInTurn
  <2>2. CASE stage[j] = "waiting"
    BY <1>6, <2>2 DEF Progress, MayLeaveWaiting, Turn
  <2> QED BY <2>1, <2>2
<1>7. \A j \in Items : InTurn(j) => InTurn(j)'
  BY <1>1, <1>2, <1>3 DEF InTurn, Siblings
<1>8. UnsafeInTurn'
  BY <1>2, <1>6, <1>7 DEF UnsafeInTurn
<1> QED BY <1>5, <1>8

\* Calls run together only when they may, and no more than the limit.
LEMMA KeepsOverlap ==
    ASSUME Inv, Kept, Progress
    PROVE  Together' /\ Bounded'
<1> USE DEF Inv
<1>0. IsFiniteSet(Items)
  BY FS_Interval, ToolAssumption DEF Items
<1>1. \A k \in Items : Parallel(k)' = Parallel(k)
  BY DEF Progress, Parallel, Concurrent
<1>2. CASE \A k \in Items : Busy(k)' => Busy(k)
  <2>1. Together'
    BY <1>1, <1>2 DEF Together
  <2>2. BusyCalls' \subseteq BusyCalls /\ IsFiniteSet(BusyCalls)
    BY <1>0, <1>2, FS_Subset DEF BusyCalls
  <2>3. Cardinality(BusyCalls') <= Cardinality(BusyCalls) /\ Cardinality(BusyCalls') \in Nat
        /\ Cardinality(BusyCalls) \in Nat
    BY <2>2, FS_Subset, FS_CardinalityType
  <2>4. Bounded'
    BY <2>3, ToolAssumption DEF Bounded
  <2> QED BY <2>1, <2>4
<1>3. CASE \E k \in Items : Busy(k)' /\ ~Busy(k)
  <2>1. PICK i \in Items : Busy(i)' /\ ~Busy(i)
    BY <1>3
  <2>2. TakesPlace(i)
    BY <2>1 DEF Progress
  <2>3. \A j \in Items \ {i} : Busy(j)' => Busy(j)
    BY <2>2 DEF TakesPlace, Busy, Active
  <2>4. \A j \in Items \ {i} : Busy(j) =>
            Parallel(i) /\ Parallel(j) /\ Group[i] = Group[j] /\ Active(j)
    BY <2>2, Alongside DEF TakesPlace
  <2>5. Together'
    BY <1>1, <2>3, <2>4 DEF Together
  <2>6. BusyCalls' \subseteq BusyCalls \cup {i} /\ i \notin BusyCalls /\ IsFiniteSet(BusyCalls)
    BY <1>0, <2>1, <2>3, FS_Subset DEF BusyCalls
  <2>7. Cardinality(BusyCalls) + 1 <= MaxConcurrency /\ Cardinality(BusyCalls) \in Nat
    <3>1. CASE Parallel(i)
      <4> DEFINE besides == {j \in Abreast(i) : Active(j)}
      <4>1. Cardinality(besides) < MaxConcurrency
        BY <2>2, <3>1 DEF TakesPlace, Turn, Admitted
      <4>2. BusyCalls \subseteq besides /\ IsFiniteSet(besides)
        <5>1. BusyCalls \subseteq besides
          BY <2>1, <2>4 DEF BusyCalls, Abreast, Siblings
        <5>2. besides \subseteq Items
          BY DEF Abreast, Siblings
        <5> QED BY <5>1, <5>2, <1>0, FS_Subset
      <4> HIDE DEF besides
      <4>3. Cardinality(BusyCalls) <= Cardinality(besides) /\ Cardinality(besides) \in Nat
            /\ Cardinality(BusyCalls) \in Nat
        BY <4>2, <2>6, FS_Subset, FS_CardinalityType
      <4> QED BY <4>1, <4>3, ToolAssumption
    <3>2. CASE ~Parallel(i)
      <4>1. BusyCalls = {}
        BY <2>1, <2>4, <3>2 DEF BusyCalls
      <4> QED BY <4>1, FS_EmptySet, ToolAssumption
    <3> QED BY <3>1, <3>2
  <2>8. Bounded'
    <3>1. IsFiniteSet(BusyCalls \cup {i})
          /\ Cardinality(BusyCalls \cup {i}) = Cardinality(BusyCalls) + 1
      BY <2>6, FS_AddElement
    <3>2. Cardinality(BusyCalls') <= Cardinality(BusyCalls) + 1 /\ Cardinality(BusyCalls') \in Nat
      BY <2>6, <3>1, FS_Subset, FS_CardinalityType
    <3> QED BY <2>7, <3>2, ToolAssumption DEF Bounded
  <2> QED BY <2>5, <2>8
<1> QED BY <1>2, <1>3

\* execute_batch returns when every call has its answer.
LEMMA KeepsAnswers == ASSUME Inv, Progress PROVE ReturnedWhole'
<1> SUFFICES ASSUME caller' = "returned" PROVE AllAnswered'
  BY DEF ReturnedWhole
<1>1. \A i \in Items : stage[i] = "answered"
  BY DEF Progress, Inv, ReturnedWhole, AllAnswered
<1> QED BY <1>1 DEF Progress, Done, AllAnswered

\* The invariant is inductive.
LEMMA Inductive == Inv /\ [Next]_vars => Inv'
<1> SUFFICES ASSUME Inv, [Next]_vars PROVE Inv'
  OBVIOUS
<1>1. Kept /\ Progress
  BY EveryStep DEF Inv
<1> QED BY <1>1, KeepsOrder, KeepsOverlap, KeepsAnswers DEF Inv, Kept

\* It holds in every execution.
LEMMA Invariance == Spec => []Inv
  BY Initially, Inductive, PTL DEF Spec

(***************************************************************************)
(* The theorems.                                                           *)
(***************************************************************************)
\* The state of a batch is of its type, for every batch and executor; in
\* particular no call is attempted more often than its executor may.
THEOREM ToolTypes == Spec => []TypeOK
<1>1. Inv => TypeOK
  BY DEF Inv
<1> QED BY Invariance, <1>1, PTL

\* When a batch has returned its answers, no task of its tools runs on
\* (execute() of safe.py and retry.py, execute_batch of concurrent_batch.py).
THEOREM ReturnedBatchIsQuiet == Spec => []NothingRunsOn
<1>1. Inv => NothingRunsOn
  BY DEF Inv, ReturnedWhole, AllAnswered, Quiet, NothingRunsOn
<1> QED BY Invariance, <1>1, PTL

\* Tools run at the same time only for safe calls of one tool, and no more of
\* them than the batch executor's semaphore admits, whatever was stopped, given
\* up or is between two attempts.
THEOREM OverlapIsSafe == Spec => []AloneUnlessSafe
<1>1. ASSUME Inv PROVE AloneUnlessSafe
  <2>1. Overlap \subseteq BusyCalls
    BY DEF Overlap, BusyCalls, Busy
  <2>2. \A i, j \in Overlap : i # j => Parallel(i) /\ Parallel(j) /\ Group[i] = Group[j]
    BY <1>1, <2>1 DEF Inv, Together, BusyCalls
  <2>3. IsFiniteSet(Items)
    BY FS_Interval, ToolAssumption DEF Items
  <2>4. IsFiniteSet(BusyCalls)
    BY <2>3, FS_Subset DEF BusyCalls
  <2>5. Cardinality(Overlap) <= Cardinality(BusyCalls) /\ Cardinality(Overlap) \in Nat
        /\ Cardinality(BusyCalls) \in Nat
    BY <2>1, <2>4, FS_Subset, FS_CardinalityType
  <2> QED BY <1>1, <2>2, <2>5, ToolAssumption DEF Inv, Bounded, AloneUnlessSafe
<1> QED BY Invariance, <1>1, PTL

-----------------------------------------------------------------------------
(***************************************************************************)
(* The calls of a bound tool.                                              *)
(***************************************************************************)
\* Where a call is tells what has been counted of it, and which of its hooks
\* have run: until it is decided the run's usage is what its successes were,
\* a success that Execute counted is not counted again, and the hook is open
\* exactly between before_invoke() and after_invoke().
CallInv ==
    /\ tool_calls \in Nat /\ before \in Nat /\ succeeded \in Nat
    /\ at \in {"idle", "gate", "before", "executing", "after_success", "after_failure", "returned", "refused",
               "job_before", "submitting"}
    /\ tool_calls = succeeded
    /\ succeeded <= MaxToolCalls
    /\ at \in {"gate", "before", "executing"} => before = tool_calls /\ tool_calls < MaxToolCalls
    /\ at \in {"after_success", "returned"} => tool_calls = before + 1
    /\ open = IF at \in {"executing", "submitting", "after_success", "after_failure"} THEN TRUE ELSE FALSE
    /\ hooked = 0

\* A bound tool's accounts are empty before its first call.
LEMMA CallsStart == Bound!Init => CallInv
<1> SUFFICES ASSUME Bound!Init PROVE CallInv
  OBVIOUS
<1>1. at = "idle" /\ open = FALSE /\ tool_calls = 0 /\ before = 0 /\ succeeded = 0 /\ hooked = 0
  BY DEF Bound!Init
<1>2. open = IF at \in {"executing", "submitting", "after_success", "after_failure"} THEN TRUE ELSE FALSE
  BY <1>1, Zenon
<1>3. MaxToolCalls \in Nat
  BY PartsAssumption
<1> QED BY <1>1, <1>2, <1>3 DEF CallInv

\* Each operation of a bound tool keeps its accounts.
LEMMA CallsStep ==
    ASSUME MaxToolCalls \in Nat PROVE CallInv /\ [Bound!Next]_(Bound!vars) => CallInv'
<1> SUFFICES ASSUME CallInv, [Bound!Next]_(Bound!vars) PROVE CallInv'
  OBVIOUS
<1>1. CASE Bound!Invoke
  BY <1>1 DEF CallInv, Bound!Invoke, Bound!OverBudget, Bound!request, Bound!hooks
<1>2. CASE Bound!Gate
  BY <1>2 DEF CallInv, Bound!Gate, Bound!usage, Bound!request, Bound!hooks
<1>3. CASE Bound!Refused
  BY <1>3 DEF CallInv, Bound!Refused, Bound!usage, Bound!request, Bound!hooks
<1>4. CASE Bound!BeforeInvoke
  BY <1>4 DEF CallInv, Bound!BeforeInvoke, Bound!Before, Bound!usage, Bound!request
<1>5. CASE Bound!Execute
  BY <1>5 DEF CallInv, Bound!Execute, Bound!Counted, Bound!request, Bound!hooks
<1>6. CASE Bound!AfterInvoke
  BY <1>6 DEF CallInv, Bound!AfterInvoke, Bound!HookDue, Bound!usage, Bound!request, Bound!hooks
<1>7. CASE Bound!Return
  BY <1>7 DEF CallInv, Bound!Return, Bound!Uncounted, Bound!request, Bound!hooks
<1>8. CASE Bound!Batch
  BY <1>8 DEF CallInv, Bound!Batch, Bound!usage, Bound!request, Bound!hooks
<1>9. CASE Bound!Background
  BY <1>9 DEF CallInv, Bound!Background, Bound!usage, Bound!request, Bound!hooks
<1>10. CASE Bound!BeforeJob
  BY <1>10 DEF CallInv, Bound!BeforeJob, Bound!Before, Bound!usage, Bound!request
<1>11. CASE Bound!Submit
  BY <1>11 DEF CallInv, Bound!Submit, Bound!usage, Bound!request, Bound!hooks
<1>12. CASE Bound!RunAgain
  BY <1>12 DEF CallInv, Bound!RunAgain, Bound!hooks
<1>13. CASE UNCHANGED Bound!vars
  BY <1>13 DEF CallInv, Bound!vars, Bound!usage, Bound!request, Bound!hooks
<1> QED
  BY <1>1, <1>2, <1>3, <1>4, <1>5, <1>6, <1>7, <1>8, <1>9, <1>10, <1>11, <1>12, <1>13 DEF Bound!Next

-----------------------------------------------------------------------------
(***************************************************************************)
(* The loops of the patterns.  A legacy loop's cost is known as long as the *)
(* client is priced, and a call that was let through is within the ceiling  *)
(* until it is answered; a native conversation is, at every call, what was  *)
(* done of what was said.                                                  *)
(***************************************************************************)
\* What a tool has asked for again has been counted, and was within the limit.
RetriesCounted ==
    /\ refusals \in [Tools -> Nat] /\ requested \in [Tools -> Nat]
    /\ \A t \in Tools : requested[t] <= refusals[t] /\ requested[t] <= RetryLimit

\* Native patterns await replies and the calls of one, the others their actions.
ModesApart ==
    /\ where \in {"ask", "call"} => Loop!Native
    /\ where \in {"to_reflect", "reflect", "to_act", "act", "acting", "follow"} => ~Loop!Native

\* The conversation holds what is done of what was said, call by call.
Paired(n) ==
    /\ Len(conversation) = 2 * n
    /\ \A i \in 1..n :
          conversation[2 * i - 1] = <<"call", said[i]>> /\ conversation[2 * i] = <<"result", said[i]>>

TalkInv ==
    /\ step \in Nat
    /\ where \in {"to_plan", "plan"} => conversation = <<>> /\ said = <<>>
    /\ where \in {"ask", "call"} =>
          /\ said \in Seq(Nat \X Nat) /\ conversation \in Seq({"call", "result"} \X (Nat \X Nat))
          /\ todo \in Seq(STRING) /\ Len(todo) <= Len(said)
          /\ where = "ask" <=> todo = <<>>
          /\ Paired(Len(said) - Len(todo))

\* A legacy run whose client is priced knows what it has spent.
CostKnown ==
    /\ spent \in Nat
    /\ {"cost", "unknown"} \subseteq DOMAIN ctx
    /\ ~Loop!Native /\ Loop!Priced =>
          ctx.unknown = FALSE /\ ((ctx.cost = Loop!NoCost /\ spent = 0) \/ ctx.cost = spent)

\* A call that was let through was within the ceiling, and still is while it is awaited.
CallsAfforded ==
    where \in {"plan", "reflect", "act"} /\ ~Loop!Native /\ Loop!Capped /\ Loop!Priced => ctx.cost = Loop!NoCost \/ ctx.cost <= Ceiling

LoopInv == RetriesCounted /\ ModesApart /\ TalkInv /\ CostKnown /\ CallsAfforded /\ Loop!RecordedIsReturned

\* A call of a tool, or none.
ToolMoves == UNCHANGED Loop!tools \/ (\E id : Loop!CallTool(id, TRUE)) \/ (\E id : Loop!CallTool(id, FALSE))
\* What the run knows of its costs: nothing moved, a reply was accounted for, or
\* only what has nothing to do with costs moved.
MoneyMoves ==
    \/ ctx'.cost = ctx.cost /\ ctx'.unknown = ctx.unknown /\ DOMAIN ctx' = DOMAIN ctx /\ spent' = spent
    \/ where \in {"plan", "reflect", "act"} /\ Loop!Account
    \/ where = "ask" /\ spent' \in Nat /\ UNCHANGED ctx

\* A call of a tool leaves what was paid and what is known of it as they are.
LEMMA CallKeepsMoney ==
    ASSUME CostKnown, NEW id, NEW ok \in BOOLEAN, Loop!CallTool(id, ok)
    PROVE  ctx'.cost = ctx.cost /\ ctx'.unknown = ctx.unknown /\ DOMAIN ctx' = DOMAIN ctx
<1>1. ctx' = ctx \/ ctx' = [ctx EXCEPT !.results = TRUE]
  BY DEF Loop!CallTool, Loop!Succeeds, Loop!AsksAgain, Loop!FallsBackOrFails
<1> QED BY <1>1 DEF CostKnown

\* A call of a tool keeps each tool's requests for another attempt within its limit.
LEMMA CallKeepsCounts ==
    ASSUME Loop!LoopAssumption, RetriesCounted, ToolMoves PROVE RetriesCounted'
<1>1. CASE UNCHANGED Loop!tools
  BY <1>1 DEF RetriesCounted, Loop!tools
<1>2. ASSUME NEW t \in Tools, Loop!Succeeds(t) PROVE RetriesCounted'
  BY <1>2 DEF RetriesCounted, Loop!Succeeds, Loop!LoopAssumption
<1>3. ASSUME NEW t \in Tools, Loop!AsksAgain(t) PROVE RetriesCounted'
  BY <1>3 DEF RetriesCounted, Loop!AsksAgain, Loop!MayAskAgain, Loop!LoopAssumption
<1> QED BY <1>1, <1>2, <1>3 DEF ToolMoves, Loop!CallTool, Loop!FallsBackOrFails

\* Whatever a step of a loop does to the tools and to the money is one of those moves.
LEMMA StepMoves ==
    ASSUME Loop!LoopAssumption, LoopInv, Loop!Next
    PROVE  pattern' = pattern /\ ToolMoves /\ MoneyMoves
<1> USE DEF Loop!still, Loop!tools
<1>0. CostKnown /\ spent \in Nat /\ \A p \in CallCosts : spent + p \in Nat
  BY DEF LoopInv, CostKnown, Loop!LoopAssumption
<1>u. UNCHANGED <<ctx, spent>> => MoneyMoves
  BY <1>0 DEF MoneyMoves, CostKnown
<1>c. ASSUME NEW id, NEW ok \in BOOLEAN, Loop!CallTool(id, ok), UNCHANGED spent PROVE ToolMoves /\ MoneyMoves
  BY <1>0, <1>c, CallKeepsMoney, Zenon DEF MoneyMoves, ToolMoves
<1>1. CASE Loop!Start
  BY <1>1, <1>u DEF Loop!Start, ToolMoves
<1>2. CASE Loop!Ask
  <2>1. CASE UNCHANGED ctx
    BY <1>2, <2>1, <1>u DEF Loop!Ask, ToolMoves
  <2>2. CASE ctx' = [ctx EXCEPT !.skipped = @ \/ Loop!Skips]
    <3>1. ctx'.cost = ctx.cost /\ ctx'.unknown = ctx.unknown /\ DOMAIN ctx' = DOMAIN ctx
      BY <2>2, <1>0 DEF CostKnown
    <3> QED BY <3>1, <1>2 DEF Loop!Ask, ToolMoves, MoneyMoves
  <2> QED BY <1>2, <2>1, <2>2 DEF Loop!Ask
<1>3. CASE Loop!Selected
  BY <1>3, <1>u DEF Loop!Selected, ToolMoves, MoneyMoves
<1>4. CASE Loop!Reflected
  BY <1>4, <1>u DEF Loop!Reflected, ToolMoves, MoneyMoves
<1>5. CASE Loop!Acting
  BY <1>5, <1>c DEF Loop!Acting
<1>6. ASSUME where = "ask", UNCHANGED <<Loop!still, ctx, Loop!tools>>,
             (\E price \in (IF Loop!Priced THEN CallCosts ELSE {0}) : spent' = spent + price) \/ UNCHANGED spent
      PROVE  pattern' = pattern /\ ToolMoves /\ MoneyMoves
  BY <1>6, <1>0 DEF ToolMoves, MoneyMoves
<1>7. CASE Loop!ReactReply \/ Loop!ReflexionReply \/ Loop!PlanReply
  <2>1. where = "ask" /\ UNCHANGED <<Loop!still, ctx, Loop!tools>>
    BY <1>7 DEF Loop!ReactReply, Loop!ReflexionReply, Loop!PlanReply, Loop!Replies
  <2>2. (\E price \in (IF Loop!Priced THEN CallCosts ELSE {0}) : spent' = spent + price) \/ UNCHANGED spent
    BY <1>7, Zenon DEF Loop!ReactReply, Loop!ReflexionReply, Loop!PlanReply, Loop!Replies
  <2> QED BY <2>1, <2>2, <1>6
<1>8. CASE Loop!ReactCall \/ Loop!ReflexionCall \/ Loop!PlanCall
  BY <1>8, <1>c DEF Loop!ReactCall, Loop!ReflexionCall, Loop!PlanCall, Loop!Done, Loop!Fails
<1>9. CASE Loop!Planned
  BY <1>9, <1>u DEF Loop!Planned, ToolMoves, MoneyMoves
<1>10. CASE Loop!Follow
  <2>1. CASE UNCHANGED <<Loop!tools, ctx>>
    BY <2>1, <1>10, <1>u DEF Loop!Follow, ToolMoves
  <2>2. CASE \E ok \in BOOLEAN : Loop!CallTool(Head(todo), ok)
    BY <2>2, <1>10, <1>c DEF Loop!Follow
  <2> QED BY <1>10, <2>1, <2>2 DEF Loop!Follow
<1>11. CASE Loop!Expire
  BY <1>11, <1>u DEF Loop!Expire, ToolMoves
<1>12. CASE Loop!Again
  BY <1>12, <1>u DEF Loop!Again, ToolMoves
<1> QED BY <1>1, <1>2, <1>3, <1>4, <1>5, <1>7, <1>8, <1>9, <1>10, <1>11, <1>12 DEF Loop!Next

\* The money of a run, step by step.
LEMMA MoneyKept ==
    ASSUME Loop!LoopAssumption, LoopInv, pattern' = pattern, MoneyMoves PROVE CostKnown'
<1>0. CostKnown /\ ModesApart
  BY DEF LoopInv
<1>p. Loop!Native' = Loop!Native /\ Loop!Priced' = Loop!Priced /\ Loop!Capped' = Loop!Capped
  BY DEF Loop!Native, Loop!Priced, Loop!Capped
<1>1. CASE ctx'.cost = ctx.cost /\ ctx'.unknown = ctx.unknown /\ DOMAIN ctx' = DOMAIN ctx /\ spent' = spent
  BY <1>0, <1>1, <1>p DEF CostKnown
<1>2. CASE where = "ask" /\ spent' \in Nat /\ UNCHANGED ctx
  <2>1. Loop!Native
    BY <1>0, <1>2 DEF ModesApart
  <2> QED BY <2>1, <1>0, <1>2, <1>p DEF CostKnown
<1>3. CASE UNCHANGED <<ctx, spent>>
  BY <1>0, <1>3, <1>p DEF CostKnown
<1>4. ASSUME NEW price \in (IF Loop!Priced THEN CallCosts ELSE {0}), ctx' = Loop!Charged(price), spent' = spent + price
      PROVE CostKnown'
  <2>1. price \in Nat /\ spent' \in Nat
    BY <1>4, <1>0 DEF Loop!LoopAssumption, CostKnown
  <2>2. CASE ctx.unknown \/ ~Loop!Priced
    <3>1. ctx' = [ctx EXCEPT !.cost = Loop!NoCost, !.unknown = TRUE, !.skipped = @ \/ Loop!Capped]
      BY <1>4, <2>2 DEF Loop!Charged
    <3>2. DOMAIN ctx' = DOMAIN ctx
      BY <3>1
    <3>3. Loop!Native \/ ~Loop!Priced
      BY <2>2, <1>0 DEF CostKnown
    <3> QED BY <2>1, <3>2, <3>3, <1>p, <1>0, Zenon DEF CostKnown
  <2>3. CASE ~(ctx.unknown \/ ~Loop!Priced)
    <3>1. PICK x : x = price + (IF ctx.cost = Loop!NoCost THEN 0 ELSE ctx.cost)
      OBVIOUS
    <3>2. ctx' = [ctx EXCEPT !.cost = x]
      BY <1>4, <2>3, <3>1 DEF Loop!Charged
    <3>3. DOMAIN ctx' = DOMAIN ctx /\ ctx'.cost = x /\ ctx'.unknown = ctx.unknown
      BY <3>2, <1>0 DEF CostKnown
    <3>4. ~Loop!Native => ctx.unknown = FALSE /\ x = spent'
      BY <1>0, <2>1, <2>3, <3>1, <1>4 DEF CostKnown, Loop!NoCost
    <3> QED BY <2>1, <3>3, <3>4, <1>p, <1>0, Zenon DEF CostKnown
  <2> QED BY <2>2, <2>3
<1> QED BY <1>1, <1>2, <1>3, <1>4 DEF MoneyMoves, Loop!Account

\* No legacy pattern pays for a reply beyond the ceiling.
LEMMA PaidWithinCeiling ==
    ASSUME Loop!LoopAssumption, LoopInv, MoneyMoves, ~Loop!Native, Loop!Capped, spent' > spent PROVE spent <= Ceiling
<1>0. CostKnown /\ ModesApart /\ CallsAfforded
  BY DEF LoopInv
<1>1. ~(spent' = spent) /\ where # "ask"
  BY <1>0 DEF CostKnown, ModesApart
<1>2. where \in {"plan", "reflect", "act"} /\ Loop!Account
  BY <1>1 DEF MoneyMoves
<1>3. PICK price \in (IF Loop!Priced THEN CallCosts ELSE {0}) : spent' = spent + price
  BY <1>1, <1>2 DEF Loop!Account
<1>4. Loop!Priced
  BY <1>0, <1>1, <1>3 DEF CostKnown
<1>5. ctx.cost = Loop!NoCost \/ ctx.cost <= Ceiling
  BY <1>0, <1>2, <1>4 DEF CallsAfforded
<1> QED BY <1>0, <1>4, <1>5 DEF CostKnown, Loop!LoopAssumption, Loop!NoCost

\* Where a step leads, whatever it does.
ControlKept == ModesApart' /\ CallsAfforded' /\ Loop!RecordedIsReturned'

\* An execution that ends, ends in a mode of its own and records what it returns.
LEMMA EndsKept ==
    ASSUME Loop!Raise \/ (\E value : Loop!Final(value)) \/ (\E value \in {"gave_up", "needs_llm"} : Loop!Unrecorded(value))
    PROVE  ControlKept /\ where' = "over"
  BY DEF Loop!Raise, Loop!Final, Loop!Unrecorded, ControlKept, ModesApart, CallsAfforded, Loop!RecordedIsReturned

\* The step that follows begins where the pattern's mode begins, or ends it.
LEMMA NextStepKept ==
    ASSUME pattern' = pattern, NEW results, Loop!NextStep(results), step \in Nat
    PROVE  /\ ControlKept /\ step' \in Nat
           /\ where' \in (IF Loop!Native THEN {"ask", "over"} ELSE {"to_reflect", "to_act", "over"})
<1>1. CASE Loop!Raise /\ UNCHANGED step
  BY <1>1, EndsKept
<1>2. CASE step' = step + 1 /\ where' = Loop!FirstWait(results) /\ UNCHANGED Loop!ends
  <2>1. where' \in (IF Loop!Native THEN {"ask"} ELSE {"to_reflect", "to_act"})
    BY <1>2 DEF Loop!FirstWait
  <2>2. Loop!Native' = Loop!Native
    BY DEF Loop!Native
  <2> QED BY <1>2, <2>1, <2>2 DEF ControlKept, ModesApart, CallsAfforded, Loop!RecordedIsReturned
<1> QED BY <1>1, <1>2 DEF Loop!NextStep

\* Every step of a loop leads where its mode allows.
LEMMA ControlStep == ASSUME Loop!LoopAssumption, LoopInv, pattern' = pattern, Loop!Next PROVE ControlKept
<1>0. ModesApart /\ CallsAfforded /\ Loop!RecordedIsReturned /\ step \in Nat
  BY DEF LoopInv, TalkInv
<1>p. Loop!Native' = Loop!Native /\ Loop!Priced' = Loop!Priced /\ Loop!Capped' = Loop!Capped
  BY DEF Loop!Native, Loop!Priced, Loop!Capped
<1>r. Loop!Raise => ControlKept
  BY EndsKept
<1>f. \A value : Loop!Final(value) => ControlKept
  BY EndsKept
<1>n. \A results : Loop!NextStep(results) => ControlKept
  BY <1>0, NextStepKept
<1>m. ASSUME where' \in {"to_plan", "to_act", "to_reflect", "acting", "follow", "ask", "call", "start"},
             where' \in {"ask", "call"} => Loop!Native,
             where' \in {"to_act", "to_reflect", "acting", "follow"} => ~Loop!Native
      PROVE ControlKept
  BY <1>m, <1>p DEF ControlKept, ModesApart, CallsAfforded, Loop!RecordedIsReturned
<1>1. CASE Loop!Start
  <2>1. CASE Loop!Resolved
    BY <2>1, <1>f DEF Loop!Resolved
  <2>2. CASE Loop!Unrecorded("needs_llm")
    BY <2>2, EndsKept
  <2>3. CASE where' = "to_plan"
    BY <2>3, <1>m
  <2>4. CASE where' = Loop!FirstWait(ctx.results)
    BY <2>4, <1>m DEF Loop!FirstWait
  <2> QED BY <1>1, <2>1, <2>2, <2>3, <2>4 DEF Loop!Start
<1>failed. ASSUME where \in {"to_plan", "to_reflect", "to_act", "reflect"}, Loop!Failed PROVE ControlKept
  <2>1. CASE Loop!Raise
    BY <2>1, <1>r
  <2>2. CASE where \in {"to_reflect", "reflect"} /\ where' = "to_act"
    BY <2>2, <1>0, <1>m DEF ModesApart
  <2> QED BY <1>failed, <2>1, <2>2 DEF Loop!Failed
<1>2. CASE Loop!Ask
  <2>1. where \in {"to_plan", "to_reflect", "to_act"}
    BY <1>2 DEF Loop!Ask, Loop!Awaited
  <2>2. CASE Loop!Failed \/ Loop!NextStep(ctx.results)
    BY <2>1, <2>2, <1>n, <1>failed
  <2>3. ASSUME NEW estimate \in {0, 1}, ~Loop!Refuses(estimate), where' = Loop!Awaited[where], ctx' = [ctx EXCEPT !.skipped = @ \/ Loop!Skips]
        PROVE  ControlKept
    <3>1. where' = IF where = "to_plan" THEN "plan" ELSE IF where = "to_reflect" THEN "reflect" ELSE "act"
      BY <2>1, <2>3 DEF Loop!Awaited
    <3>2. {"cost", "unknown"} \subseteq DOMAIN ctx /\ CostKnown
      BY DEF LoopInv, CostKnown
    <3>3. ctx'.cost = ctx.cost
      BY <2>3, <3>2
    <3>4. Loop!Capped /\ Loop!Priced /\ ~Loop!Native => ctx.cost = Loop!NoCost \/ ctx.cost <= Ceiling
      BY <2>3, <3>2 DEF Loop!Refuses, CostKnown, Loop!NoCost, Loop!LoopAssumption
    <3>5. CallsAfforded'
      BY <3>3, <3>4, <1>p DEF CallsAfforded
    <3>6. ModesApart'
      BY <3>1, <2>1, <1>0, <1>p DEF ModesApart
    <3> QED BY <3>1, <3>5, <3>6 DEF ControlKept, Loop!RecordedIsReturned
  <2> QED BY <1>2, <2>2, <2>3 DEF Loop!Ask
<1>3. CASE Loop!Selected
  <2>1. where = "act" /\ ~Loop!Native
    BY <1>3, <1>0 DEF Loop!Selected, ModesApart
  <2>2. ASSUME NEW action, Loop!Acts(action) PROVE ControlKept
    <3>1. CASE (\E value : Loop!Final(value)) \/ Loop!Raise \/ Loop!Unrecorded("gave_up")
      BY <3>1, EndsKept
    <3>2. CASE \E results : Loop!NextStep(results)
      BY <3>2, <1>n
    <3>3. CASE where' = "acting"
      BY <3>3, <2>1, <1>m
    <3>4. Loop!ReactActs(action) \/ Loop!ReflexionActs(action)
      BY <2>2 DEF Loop!Acts
    <3>5. CASE Loop!ReactActs(action)
      BY <3>5, <3>1, <3>2, <3>3, Zenon DEF Loop!ReactActs, Loop!GoesOn, Loop!Refused
    <3>6. CASE Loop!ReflexionActs(action)
      BY <3>6, <3>1, <3>2, <3>3, Zenon DEF Loop!ReflexionActs, Loop!GoesOn, Loop!Refused
    <3> QED BY <3>4, <3>5, <3>6
  <2> QED BY <1>3, <2>2, <1>r DEF Loop!Selected
<1>4. CASE Loop!Reflected
  <2>1. where = "reflect" /\ ~Loop!Native
    BY <1>4, <1>0 DEF Loop!Reflected, ModesApart
  <2>2. CASE where' = "acting"
    BY <2>1, <2>2, <1>m
  <2> QED BY <1>4, <2>1, <2>2, <1>failed, <1>f DEF Loop!Reflected
<1>5. CASE Loop!Acting
  BY <1>5, <1>n, <1>r DEF Loop!Acting
<1>6. CASE Loop!ReactReply \/ Loop!ReflexionReply \/ Loop!PlanReply
  <2>1. where = "ask" /\ Loop!Native
    BY <1>6, <1>0 DEF Loop!ReactReply, Loop!ReflexionReply, Loop!PlanReply, Loop!Replies, ModesApart
  <2>2. CASE \E names \in AskedNames : Loop!CallsTools(names)
    BY <2>1, <2>2, <1>m DEF Loop!CallsTools
  <2>3. CASE Loop!ReactCloses \/ Loop!ReflexionCloses \/ Loop!PlanCloses
    BY <2>3, <1>f DEF Loop!ReactCloses, Loop!ReflexionCloses, Loop!PlanCloses
  <2> QED BY <1>6, <2>2, <2>3, <1>r DEF Loop!ReactReply, Loop!ReflexionReply, Loop!PlanReply, Loop!Replies
<1>7. CASE Loop!ReactCall \/ Loop!ReflexionCall \/ Loop!PlanCall
  <2>1. where = "call" /\ Loop!Native
    BY <1>7, <1>0 DEF Loop!ReactCall, Loop!ReflexionCall, Loop!PlanCall, ModesApart
  <2>2. CASE Loop!Fails
    BY <2>2, <1>r DEF Loop!Fails
  <2>3. CASE \E ok \in BOOLEAN : Loop!Done(ok)
    BY <2>1, <2>3, <1>n, <1>m DEF Loop!Done
  <2> QED BY <1>7, <2>2, <2>3 DEF Loop!ReactCall, Loop!ReflexionCall, Loop!PlanCall
<1>8. CASE Loop!Planned
  <2>1. where = "plan"
    BY <1>8 DEF Loop!Planned
  <2>2. ASSUME NEW plan, Loop!Executes(plan) PROVE ControlKept
    BY <2>2, <1>m DEF Loop!Executes
  <2> QED BY <1>8, <2>2, <1>r DEF Loop!Planned
<1>9. CASE Loop!Follow
  <2>1. where = "follow" /\ ~Loop!Native
    BY <1>9, <1>0 DEF Loop!Follow, ModesApart
  <2>2. CASE UNCHANGED where
    BY <2>1, <2>2, <1>m
  <2>3. CASE (\E value : Loop!Final(value)) \/ Loop!Raise
    BY <2>3, <1>f, <1>r
  <2> QED BY <1>9, <2>2, <2>3, Zenon DEF Loop!Follow
<1>10. CASE Loop!Expire
  BY <1>10, <1>r DEF Loop!Expire
<1>11. CASE Loop!Again
  BY <1>11, <1>m DEF Loop!Again
<1> QED BY <1>1, <1>2, <1>3, <1>4, <1>5, <1>6, <1>7, <1>8, <1>9, <1>10, <1>11 DEF Loop!Next

\* A sequence with a pair put behind it.
LEMMA Lengthened ==
    ASSUME NEW S, NEW s \in Seq(S), NEW c \in Seq(S), Len(c) = 2
    PROVE  /\ s \o c \in Seq(S) /\ Len(s \o c) = Len(s) + 2
           /\ \A i \in 1..Len(s) : (s \o c)[i] = s[i]
           /\ (s \o c)[Len(s) + 1] = c[1] /\ (s \o c)[Len(s) + 2] = c[2]
<1>0. PICK m, t : m = Len(s) /\ t = s \o c
  OBVIOUS
<1>1. m \in Nat
  BY <1>0
<1>2. /\ s \o c \in Seq(S)
      /\ Len(s \o c) = Len(s) + Len(c)
      /\ \A i \in 1 .. Len(s) + Len(c) : (s \o c)[i] = IF i <= Len(s) THEN s[i] ELSE c[i - Len(s)]
  BY ConcatProperties, Zenon
<1>3. /\ t \in Seq(S) /\ Len(t) = m + 2
      /\ \A i \in 1..(m + 2) : t[i] = IF i <= m THEN s[i] ELSE c[i - m]
  BY <1>0, <1>2, Zenon
<1>4. \A i \in 1..m : t[i] = s[i]
  BY <1>1, <1>3
<1>5. t[m + 1] = c[1] /\ t[m + 2] = c[2]
  <2>1. m + 1 \in 1..(m + 2) /\ m + 2 \in 1..(m + 2) /\ (m + 1) - m = 1 /\ (m + 2) - m = 2
        /\ ~(m + 1 <= m) /\ ~(m + 2 <= m)
    BY <1>1
  <2> QED BY <2>1, <1>3
<1> QED BY <1>0, <1>3, <1>4, <1>5, Zenon

\* One more result, and the calls that are left are one less.
LEMMA AnswerPairs ==
    ASSUME said \in Seq(Nat \X Nat), conversation \in Seq({"call", "result"} \X (Nat \X Nat)),
           todo \in Seq(STRING), todo # <<>>, Len(todo) <= Len(said), Paired(Len(said) - Len(todo)),
           conversation' = Loop!Answered(said[Len(said) - Len(todo) + 1], TRUE),
           todo' = Tail(todo), said' = said
    PROVE  /\ conversation' \in Seq({"call", "result"} \X (Nat \X Nat))
           /\ todo' \in Seq(STRING) /\ Len(todo') <= Len(said) /\ Len(todo') = Len(todo) - 1
           /\ Paired(Len(said) - Len(todo))'
<1> DEFINE S == {"call", "result"} \X (Nat \X Nat)
<1>0. PICK n : n = Len(said) - Len(todo)
  OBVIOUS
<1>1. n \in Nat /\ n + 1 \in 1..Len(said) /\ Len(todo) \in Nat /\ Len(todo) > 0
  BY <1>0
<1>2. said[n + 1] \in Nat \X Nat
  BY <1>1
<1>3. PICK c : c = << <<"call", said[n + 1]>>, <<"result", said[n + 1]>> >>
  OBVIOUS
<1>4. c \in Seq(S) /\ Len(c) = 2
  BY <1>2, <1>3
<1>5. conversation' = conversation \o c
  BY <1>0, <1>3 DEF Loop!Answered
<1>6. Len(conversation) = 2 * n /\ conversation \in Seq(S)
  BY <1>0 DEF Paired
<1> HIDE DEF S
<1>a. PICK m : m = 2 * n
  OBVIOUS
<1>b. m \in Nat /\ Len(conversation) = m
  BY <1>1, <1>6, <1>a
<1>d. PICK s, t : s = conversation /\ t = conversation'
  OBVIOUS
<1>e. /\ t \in Seq(S) /\ Len(t) = m + 2
      /\ \A i \in 1..m : t[i] = s[i]
      /\ t[m + 1] = c[1] /\ t[m + 2] = c[2]
  <2>1. s \in Seq(S) /\ m = Len(s) /\ t = s \o c
    BY <1>d, <1>b, <1>5, <1>6
  <2>2. c \in Seq(S) /\ Len(c) = 2
    BY <1>4
  <2>3. /\ s \o c \in Seq(S) /\ Len(s \o c) = Len(s) + 2
        /\ \A i \in 1..Len(s) : (s \o c)[i] = s[i]
        /\ (s \o c)[Len(s) + 1] = c[1] /\ (s \o c)[Len(s) + 2] = c[2]
    BY <2>1, <2>2, Lengthened, Zenon
  <2> QED BY <2>1, <2>3, Zenon
<1>7. /\ conversation' \in Seq(S) /\ Len(conversation') = m + 2
      /\ \A i \in 1..m : conversation'[i] = conversation[i]
      /\ conversation'[m + 1] = c[1] /\ conversation'[m + 2] = c[2]
  BY <1>d, <1>e
<1>9. todo' \in Seq(STRING) /\ Len(todo') = Len(todo) - 1
  OBVIOUS
<1>10. Len(said') - Len(todo') = n + 1
  BY <1>0, <1>9
<1>11. ASSUME NEW i \in 1..(n + 1)
      PROVE  conversation'[2 * i - 1] = <<"call", said[i]>> /\ conversation'[2 * i] = <<"result", said[i]>>
  <2>1. CASE i = n + 1
    <3>1. 2 * i - 1 = m + 1 /\ 2 * i = m + 2
      BY <2>1, <1>1, <1>a
    <3>2. c[1] = <<"call", said[i]>> /\ c[2] = <<"result", said[i]>>
      BY <2>1, <1>3
    <3> QED BY <3>1, <3>2, <1>7
  <2>2. CASE i # n + 1
    <3>1. i \in 1..n
      BY <2>2, <1>1
    <3>2. 2 * i - 1 \in 1..m /\ 2 * i \in 1..m
      BY <3>1, <1>1, <1>a, <1>b
    <3> QED BY <3>1, <3>2, <1>7, <1>0 DEF Paired
  <2> QED BY <2>1, <2>2
<1>12. Len(conversation') = 2 * (n + 1)
  <2>1. 2 * (n + 1) = m + 2
    BY <1>1, <1>a
  <2> QED BY <2>1, <1>7
<1>13. \A k : k = n + 1 => Paired(k)'
  BY <1>11, <1>12 DEF Paired
<1>14. Len(todo') <= Len(said)
  BY <1>0, <1>1, <1>9
<1>15. Paired(Len(said) - Len(todo))'
  BY <1>10, <1>13
<1> QED BY <1>7, <1>9, <1>14, <1>15 DEF S

\* The calls of one more reply, of which none is done.
LEMMA CallsPair ==
    ASSUME said \in Seq(Nat \X Nat), conversation \in Seq({"call", "result"} \X (Nat \X Nat)),
           Paired(Len(said)), step \in Nat,
           NEW names \in Seq(STRING), names # <<>>,
           Loop!CallsTools(names), conversation' = conversation
    PROVE  /\ said' \in Seq(Nat \X Nat) /\ todo' \in Seq(STRING) /\ todo' # <<>> /\ Len(todo') <= Len(said')
           /\ Paired(Len(said) - Len(todo))'
<1>0. PICK asks, s, n, k, t :
         /\ asks = [i \in DOMAIN names |-> <<step, i>>] /\ s = said /\ n = Len(said) /\ k = Len(names) /\ t = said'
  OBVIOUS
<1>1. k \in Nat /\ n \in Nat /\ DOMAIN names = 1..k
  BY <1>0
<1>2. asks \in Seq(Nat \X Nat) /\ Len(asks) = k
  <2>1. asks = [i \in 1..k |-> <<step, i>>]
    BY <1>0, <1>1
  <2>2. \A i \in 1..k : <<step, i>> \in Nat \X Nat
    BY <1>1
  <2> QED BY <2>1, <2>2, <1>1
<1>3. t = s \o asks /\ todo' = names
  BY <1>0 DEF Loop!CallsTools
<1>4. /\ s \o asks \in Seq(Nat \X Nat)
      /\ Len(s \o asks) = Len(s) + Len(asks)
      /\ \A i \in 1 .. Len(s) + Len(asks) : (s \o asks)[i] = IF i <= Len(s) THEN s[i] ELSE asks[i - Len(s)]
  <2>1. s \in Seq(Nat \X Nat)
    BY <1>0
  <2> QED BY <2>1, <1>2, ConcatProperties, Zenon
<1>5. /\ t \in Seq(Nat \X Nat) /\ Len(t) = n + k
      /\ \A i \in 1..(n + k) : t[i] = IF i <= n THEN s[i] ELSE asks[i - n]
  BY <1>0, <1>2, <1>3, <1>4, Zenon
<1>6. \A i \in 1..n : t[i] = s[i]
  <2>1. \A i \in 1..n : i \in 1..(n + k) /\ i <= n
    BY <1>1
  <2> QED BY <2>1, <1>5
<1>7. Len(said') - Len(todo') = n
  BY <1>0, <1>1, <1>3, <1>5
<1>8. \A m : m = n => Paired(m)'
  BY <1>0, <1>6 DEF Paired
<1>9. Paired(Len(said) - Len(todo))'
  BY <1>7, <1>8
<1>10. Len(todo') <= Len(said')
  BY <1>0, <1>1, <1>3, <1>5
<1> QED BY <1>0, <1>3, <1>5, <1>9, <1>10

\* The conversation, step by step.
LEMMA TalkStep == ASSUME Loop!LoopAssumption, LoopInv, pattern' = pattern, Loop!Next PROVE TalkInv'
<1>0. ModesApart /\ TalkInv /\ step \in Nat
  BY DEF LoopInv, TalkInv
<1>p. Loop!Native' = Loop!Native
  BY DEF Loop!Native
<1>away. ASSUME where' \notin {"to_plan", "plan", "ask", "call"}, step' \in Nat PROVE TalkInv'
  BY <1>away DEF TalkInv
<1>r. Loop!Raise /\ UNCHANGED step => TalkInv'
  BY <1>0, EndsKept, <1>away
<1>f. \A value : Loop!Final(value) /\ UNCHANGED step => TalkInv'
  BY <1>0, EndsKept, <1>away
<1>n. ASSUME NEW results, Loop!NextStep(results), ~Loop!Native PROVE TalkInv'
  BY <1>n, <1>0, NextStepKept, <1>away
<1>1. CASE Loop!Start
  <2>1. step' = 0 /\ conversation' = <<>> /\ said' = <<>> /\ todo' = <<>>
    BY <1>1 DEF Loop!Start, Loop!Fresh
  <2>2. where' # "call"
    BY <1>1, EndsKept DEF Loop!Start, Loop!Resolved, Loop!FirstWait
  <2>3. Paired(0)'
    BY <2>1 DEF Paired
  <2>4. \A m : m = 0 => Paired(m)'
    BY <2>3
  <2>5. Paired(Len(said) - Len(todo))'
    BY <2>1, <2>4
  <2> QED BY <2>1, <2>2, <2>5 DEF TalkInv
<1>failed. ASSUME where \in {"to_plan", "to_reflect", "to_act", "reflect"}, Loop!Failed, UNCHANGED step PROVE TalkInv'
  <2>1. CASE Loop!Raise
    BY <2>1, <1>failed, <1>r
  <2>2. CASE where' = "to_act"
    BY <2>2, <1>failed, <1>0, <1>away
  <2> QED BY <1>failed, <2>1, <2>2 DEF Loop!Failed
<1>2. CASE Loop!Ask
  <2>1. where \in {"to_plan", "to_reflect", "to_act"}
    BY <1>2 DEF Loop!Ask, Loop!Awaited
  <2>2. CASE Loop!Failed /\ UNCHANGED step
    BY <2>1, <2>2, <1>failed
  <2>3. CASE Loop!NextStep(ctx.results) /\ where = "to_act"
    BY <2>3, <1>n, <1>0 DEF ModesApart
  <2>4. CASE where' = Loop!Awaited[where] /\ UNCHANGED step
    <3>1. where' = IF where = "to_plan" THEN "plan" ELSE IF where = "to_reflect" THEN "reflect" ELSE "act"
      BY <2>1, <2>4 DEF Loop!Awaited
    <3>2. UNCHANGED Loop!talk
      BY <1>2 DEF Loop!Ask
    <3> QED BY <3>1, <3>2, <2>1, <2>4, <1>0 DEF TalkInv, Loop!talk
  <2> QED BY <1>2, <2>2, <2>3, <2>4 DEF Loop!Ask
<1>3. CASE Loop!Selected
  <2>1. where = "act" /\ ~Loop!Native
    BY <1>3, <1>0 DEF Loop!Selected, ModesApart
  <2>2. ASSUME NEW action, Loop!Acts(action) PROVE TalkInv'
    <3>1. CASE ((\E value : Loop!Final(value)) \/ Loop!Raise \/ Loop!Unrecorded("gave_up")) /\ UNCHANGED step
      BY <3>1, <1>0, EndsKept, <1>away
    <3>2. CASE \E results : Loop!NextStep(results)
      BY <3>2, <2>1, <1>n
    <3>3. CASE where' = "acting" /\ UNCHANGED step
      BY <3>3, <1>0, <1>away
    <3>4. Loop!ReactActs(action) \/ Loop!ReflexionActs(action)
      BY <2>2 DEF Loop!Acts
    <3>5. CASE Loop!ReactActs(action)
      BY <3>5, <3>1, <3>2, <3>3, Zenon DEF Loop!ReactActs, Loop!GoesOn, Loop!Refused
    <3>6. CASE Loop!ReflexionActs(action)
      BY <3>6, <3>1, <3>2, <3>3, Zenon DEF Loop!ReflexionActs, Loop!GoesOn, Loop!Refused
    <3> QED BY <3>4, <3>5, <3>6
  <2> QED BY <1>3, <2>2, <1>r DEF Loop!Selected
<1>4. CASE Loop!Reflected
  <2>1. where = "reflect" /\ UNCHANGED step
    BY <1>4 DEF Loop!Reflected
  <2>2. CASE where' = "acting"
    BY <2>1, <2>2, <1>0, <1>away
  <2> QED BY <1>4, <2>1, <2>2, <1>failed, <1>f DEF Loop!Reflected
<1>5. CASE Loop!Acting
  <2>1. ~Loop!Native
    BY <1>5, <1>0 DEF Loop!Acting, ModesApart
  <2> QED BY <1>5, <2>1, <1>n, <1>r DEF Loop!Acting
<1>6. CASE Loop!ReactReply \/ Loop!ReflexionReply \/ Loop!PlanReply
  <2>1. where = "ask" /\ Loop!Native /\ UNCHANGED <<step, conversation>>
    BY <1>6, <1>0 DEF Loop!ReactReply, Loop!ReflexionReply, Loop!PlanReply, Loop!Replies, ModesApart
  <2>2. ASSUME NEW names \in AskedNames, Loop!CallsTools(names) PROVE TalkInv'
    <3>1. names \in Seq(STRING) /\ names # <<>>
      BY DEF Loop!LoopAssumption
    <3>2. /\ said \in Seq(Nat \X Nat) /\ conversation \in Seq({"call", "result"} \X (Nat \X Nat))
          /\ todo = <<>> /\ Paired(Len(said) - Len(todo))
      BY <2>1, <1>0 DEF TalkInv
    <3>3. Paired(Len(said))
      <4>1. Len(said) - Len(todo) = Len(said)
        BY <3>2
      <4> QED BY <3>2, <4>1
    <3>4. /\ said' \in Seq(Nat \X Nat) /\ todo' \in Seq(STRING) /\ todo' # <<>> /\ Len(todo') <= Len(said')
          /\ Paired(Len(said) - Len(todo))'
      BY <2>1, <2>2, <3>1, <3>2, <3>3, <1>0, CallsPair
    <3>5. where' = "call"
      BY <2>2 DEF Loop!CallsTools
    <3> QED BY <2>1, <3>2, <3>4, <3>5, <1>0 DEF TalkInv
  <2>3. CASE Loop!ReactCloses \/ Loop!ReflexionCloses \/ Loop!PlanCloses
    BY <2>1, <2>3, <1>f DEF Loop!ReactCloses, Loop!ReflexionCloses, Loop!PlanCloses
  <2> QED BY <1>6, <2>1, <2>2, <2>3, <1>r DEF Loop!ReactReply, Loop!ReflexionReply, Loop!PlanReply, Loop!Replies
<1>7. CASE Loop!ReactCall \/ Loop!ReflexionCall \/ Loop!PlanCall
  <2>1. where = "call"
    BY <1>7 DEF Loop!ReactCall, Loop!ReflexionCall, Loop!PlanCall
  <2>2. CASE Loop!Fails
    BY <2>2, <1>r DEF Loop!Fails
  <2>3. ASSUME NEW ok \in BOOLEAN, Loop!Done(ok) PROVE TalkInv'
    <3>1. /\ said \in Seq(Nat \X Nat) /\ conversation \in Seq({"call", "result"} \X (Nat \X Nat))
          /\ todo \in Seq(STRING) /\ todo # <<>> /\ Len(todo) <= Len(said) /\ Paired(Len(said) - Len(todo))
      BY <2>1, <1>0 DEF TalkInv
    <3>2. conversation' = Loop!Answered(said[Len(said) - Len(todo) + 1], TRUE) /\ todo' = Tail(todo) /\ said' = said
      BY <2>3 DEF Loop!Done, Loop!Answered
    <3>3. /\ conversation' \in Seq({"call", "result"} \X (Nat \X Nat))
          /\ todo' \in Seq(STRING) /\ Len(todo') <= Len(said) /\ Len(todo') = Len(todo) - 1
          /\ Paired(Len(said) - Len(todo))'
      BY <3>1, <3>2, AnswerPairs
    <3>4. CASE Len(todo) = 1
      <4>1. todo' = <<>>
        BY <3>3, <3>4
      <4>2. where' \in {"ask", "over", "to_reflect", "to_act"} /\ step' \in Nat
        BY <2>3, <3>4, <1>0, NextStepKept DEF Loop!Done
      <4> QED BY <3>1, <3>2, <3>3, <4>1, <4>2 DEF TalkInv
    <3>5. CASE Len(todo) # 1
      <4>1. todo' # <<>>
        BY <3>1, <3>3, <3>5
      <4>2. where' = "call" /\ step' = step
        BY <2>1, <2>3, <3>5 DEF Loop!Done
      <4> QED BY <3>1, <3>2, <3>3, <4>1, <4>2, <1>0 DEF TalkInv
    <3> QED BY <3>4, <3>5
  <2> QED BY <1>7, <2>2, <2>3 DEF Loop!ReactCall, Loop!ReflexionCall, Loop!PlanCall
<1>8. CASE Loop!Planned
  <2>1. where = "plan" /\ UNCHANGED <<step, Loop!talk>>
    BY <1>8 DEF Loop!Planned
  <2>2. ASSUME NEW plan, Loop!Executes(plan) PROVE TalkInv'
    <3>1. conversation' = <<>> /\ said' = <<>>
      BY <2>1, <1>0 DEF TalkInv, Loop!talk
    <3>2. CASE Loop!Native
      <4>1. where' = "ask" /\ todo' = <<>>
        BY <2>2, <3>2 DEF Loop!Executes
      <4>2. \A m : m = 0 => Paired(m)'
        BY <3>1 DEF Paired
      <4>3. Paired(Len(said) - Len(todo))'
        BY <3>1, <4>1, <4>2
      <4> QED BY <2>1, <3>1, <4>1, <4>3, <1>0 DEF TalkInv
    <3>3. CASE ~Loop!Native
      BY <2>1, <2>2, <3>3, <1>0, <1>away DEF Loop!Executes
    <3> QED BY <3>2, <3>3
  <2> QED BY <1>8, <2>1, <2>2, <1>r DEF Loop!Planned
<1>9. CASE Loop!Follow
  <2>1. where = "follow" /\ UNCHANGED step
    BY <1>9 DEF Loop!Follow
  <2>2. CASE UNCHANGED where
    BY <2>1, <2>2, <1>0, <1>away
  <2>3. CASE (\E value : Loop!Final(value)) \/ Loop!Raise
    BY <2>1, <2>3, <1>f, <1>r
  <2> QED BY <1>9, <2>2, <2>3, Zenon DEF Loop!Follow
<1>10. CASE Loop!Expire
  BY <1>10, <1>r DEF Loop!Expire
<1>11. CASE Loop!Again
  BY <1>11, <1>0, <1>away DEF Loop!Again
<1> QED BY <1>1, <1>2, <1>3, <1>4, <1>5, <1>6, <1>7, <1>8, <1>9, <1>10, <1>11 DEF Loop!Next

\* A pattern that has not begun is as it should be.
LEMMA LoopStart == ASSUME Loop!LoopAssumption, Loop!Init PROVE LoopInv
<1>1. RetriesCounted
  BY DEF Loop!Init, Loop!LoopAssumption, RetriesCounted
<1>2. CostKnown
  <2>1. ctx = [cost |-> Loop!NoCost, unknown |-> FALSE, skipped |-> FALSE, results |-> FALSE] /\ spent = 0
    BY DEF Loop!Init
  <2>2. DOMAIN ctx = {"cost", "unknown", "skipped", "results"} /\ ctx.cost = Loop!NoCost
    BY <2>1
  <2>3. ctx.unknown = FALSE
    BY <2>1, Zenon
  <2>4. {"cost", "unknown"} \subseteq DOMAIN ctx
    BY <2>2
  <2>5. spent \in Nat
    BY <2>1
  <2> QED BY <2>1, <2>2, <2>3, <2>4, <2>5, Zenon DEF CostKnown
<1>3. ModesApart /\ CallsAfforded /\ Loop!RecordedIsReturned /\ TalkInv
  BY DEF Loop!Init, ModesApart, CallsAfforded, Loop!RecordedIsReturned, TalkInv
<1> QED BY <1>1, <1>2, <1>3 DEF LoopInv

\* Other parts leave the loop as it is.
LEMMA LoopStutters == ASSUME LoopInv, UNCHANGED Loop!vars PROVE LoopInv'
<1> USE DEF Loop!vars, Loop!still, Loop!talk, Loop!ends, Loop!tools
<1>p. Loop!Native' = Loop!Native /\ Loop!Priced' = Loop!Priced /\ Loop!Capped' = Loop!Capped
  BY DEF Loop!Native, Loop!Priced, Loop!Capped
<1>1. RetriesCounted' /\ ModesApart' /\ CallsAfforded' /\ Loop!RecordedIsReturned'
  BY <1>p DEF LoopInv, RetriesCounted, ModesApart, CallsAfforded, Loop!RecordedIsReturned
<1>2. TalkInv'
  <2>1. \A m : Paired(m)' <=> Paired(m)
    BY DEF Paired
  <2>2. Len(said') - Len(todo') = Len(said) - Len(todo)
    OBVIOUS
  <2>3. Paired(Len(said) - Len(todo))' <=> Paired(Len(said) - Len(todo))
    BY <2>1, <2>2
  <2> QED BY <2>3, <1>p DEF LoopInv, TalkInv
<1>3. CostKnown'
  BY <1>p, Zenon DEF LoopInv, CostKnown
<1> QED BY <1>1, <1>2, <1>3 DEF LoopInv

\* The loop's invariant is kept by each of its steps.
LEMMA LoopSteps == ASSUME Loop!LoopAssumption, LoopInv, [Loop!Next]_(Loop!vars) PROVE LoopInv'
<1>1. CASE Loop!Next
  <2>1. pattern' = pattern /\ ToolMoves /\ MoneyMoves
    BY <1>1, StepMoves
  <2>2. RetriesCounted' /\ CostKnown' /\ ControlKept /\ TalkInv'
    BY <1>1, <2>1, CallKeepsCounts, MoneyKept, ControlStep, TalkStep DEF LoopInv
  <2> QED BY <2>2 DEF LoopInv, ControlKept
<1> QED BY <1>1, LoopStutters

\* What the parts of the invariant say together.
LEMMA LoopHolds == ASSUME LoopInv PROVE Loop!ConversationPaired /\ Loop!RecordedIsReturned /\ Loop!RetriesBounded
<1>1. Loop!RecordedIsReturned /\ Loop!RetriesBounded
  BY DEF LoopInv, RetriesCounted, Loop!RetriesBounded
<1>2. Loop!ConversationPaired
  BY DEF LoopInv, TalkInv, Paired, Loop!ConversationPaired
<1> QED BY <1>1, <1>2

-----------------------------------------------------------------------------
(***************************************************************************)
(* What stands in front of the tools.  What the preflight has looked at has *)
(* passed, in order; the policies that have answered have not decided; and  *)
(* what was let through is permitted until the attempt is over.            *)
(***************************************************************************)
\* What a setup is, when it is one of those of the agent.
Guarded == guard \in Guards /\ attempt \in Nat

\* What the preflight of a tool is told to have been.
Outcomes == {"cached-ok", "ok", "error", "raises"}

\* What the preflight has looked at has passed, in order; nothing else is
\* remembered, and no run is past it before everything has.
Looking ==
    /\ Len(told) \in Nat /\ Len(told) <= Len(Gated!AgentTools) /\ told \in Seq(Outcomes)
    /\ stand = "preflight" => \A i \in 1..Len(told) : Gated!AgentTools[i] \in passed
    /\ stand \in {"asking", "invoking"} => Gated!ToolSet \subseteq passed
    /\ cached \subseteq passed

\* The policies that have answered have not decided; a call that was let through
\* is permitted.
Asking ==
    /\ judged \in Nat
    /\ stand = "preflight" => judged = 0
    /\ stand = "asking" =>
          judged <= Len(Gated!Children) /\ \A i \in 1..judged : ~Gated!Decided(Gated!Judge(Gated!Children[i], Gated!request))
    /\ stand \in {"preflight", "asking", "invoking"} => outcome = "none"
    /\ stand = "invoking" => Gated!Permitted
    /\ outcome \in {"success", "retryable", "ToolError"} => Gated!Permitted

DelayInv ==
    /\ delays \in Seq(Nat \X Nat)
    /\ Gated!DelaysBounded

GateInv == Guarded /\ Looking /\ Asking /\ DelayInv

\* Who allows a call would say that it is permitted, and who cannot answer is broken.
LEMMA AllowedIsPermitted ==
    ASSUME NEW p, NEW q, p.kind \in {"files", "network", "broken"}, Gated!Judge(p, q) = "allow"
    PROVE  Gated!EffectPermitted(p, q)
<1>1. CASE p.kind = "files"
  <2>1. Gated!FilesAllow(p, q)
    BY <1>1 DEF Gated!Judge
  <2>2. q.tool \notin p.deny /\ (p.allow = {} \/ q.tool \in p.allow)
    BY <2>1 DEF Gated!FilesAllow
  <2>3. ASSUME NEW path \in q.paths
        PROVE  /\ (q.writes \/ (q.tool \in {"write_file"} /\ ~q.reads)) /\ Gated!Roots(p.write) # {} => path \in p.write
               /\ q.reads /\ Gated!Roots(p.read) # {} => path \in p.read
    BY <2>1, <2>3, Zenon DEF Gated!FilesAllow, Gated!Writes, Gated!Reads, Gated!Silent, Gated!Within, Gated!Roots
  <2> QED BY <1>1, <2>2, <2>3 DEF Gated!EffectPermitted
<1>2. CASE p.kind = "network"
  BY <1>2 DEF Gated!Judge, Gated!NetworkAllows, Gated!EffectPermitted
<1>3. CASE p.kind = "broken"
  BY <1>3 DEF Gated!Judge
<1> QED BY <1>1, <1>2, <1>3

\* A policy permits, refuses or raises; a broken one raises.
LEMMA Answers ==
    ASSUME NEW p, NEW q, p.kind \in {"files", "network", "broken"}
    PROVE  Gated!Judge(p, q) \in {"allow", "deny", "raise"} /\ (p.kind = "broken" => Gated!Judge(p, q) = "raise")
  BY DEF Gated!Judge

\* What the assumption says of the gate that is set up, by its parts.
LEMMA SetupShape ==
    ASSUME Gated!GateAssumption, Guarded
    PROVE  /\ Len(Gated!AgentTools) \in Nat /\ DOMAIN Gated!AgentTools = 1..Len(Gated!AgentTools)
           /\ Len(Gated!Children) \in Nat /\ DOMAIN Gated!Children = 1..Len(Gated!Children)
           /\ \A i \in 1..Len(Gated!Children) : Gated!Children[i].kind \in {"files", "network", "broken"}
           /\ Gated!retry.attempts \in Nat /\ Gated!retry.initial \in Nat /\ Gated!retry.cap \in Nat
           /\ \A n \in 0..Gated!retry.attempts : Gated!retry.initial * Gated!retry.factor^n \in Nat
           /\ Gated!retry.jitter \in {"none", "full", "equal"}
  BY DEF Gated!GateAssumption, Guarded, Gated!AgentTools, Gated!Children, Gated!retry

\* The cap, or the floor, holds whatever the jitter.
LEMMA DelayCapped ==
    ASSUME NEW initial \in Nat, NEW cap \in Nat, NEW raw \in Nat, NEW floor \in Nat,
           NEW d, d = Gated!Most(Gated!Least(raw, Gated!Most(initial, cap)), floor),
           NEW x, x = d \/ x \in 0..d \/ x \in (d \div 2)..(2 * (d \div 2))
    PROVE  x \in Nat /\ x <= Gated!Most(Gated!Most(initial, cap), floor)
<1>1. d \in Nat /\ d <= Gated!Most(Gated!Most(initial, cap), floor)
  BY DEF Gated!Most, Gated!Least
<1>2. 2 * (d \div 2) <= d /\ d \div 2 \in Nat
  BY <1>1
<1>3. Gated!Most(Gated!Most(initial, cap), floor) \in Nat
  BY DEF Gated!Most
<1> QED BY <1>1, <1>2, <1>3

\* Before a run begins, nothing was looked at and nothing judged.
LEMMA GateStart == ASSUME Gated!GateAssumption, Gated!Init PROVE GateInv
<1>1. Guarded
  BY DEF Gated!Init, Guarded
<1>2. Len(Gated!AgentTools) \in Nat /\ Len(Gated!Children) \in Nat
  BY <1>1, SetupShape
<1> QED BY <1>1, <1>2 DEF Gated!Init, GateInv, Looking, Asking, DelayInv, Gated!DelaysBounded

\* A step that changes neither the agent nor what it has been given keeps what
\* is said of a call.
LEMMA SameSetup ==
    ASSUME guard' = guard
    PROVE  /\ Gated!AgentTools' = Gated!AgentTools /\ Gated!Children' = Gated!Children /\ Gated!request' = Gated!request /\ Gated!retry' = Gated!retry
           /\ Gated!ToolSet' = Gated!ToolSet /\ (Gated!Permitted' <=> Gated!Permitted)
           /\ \A reply : Gated!Decided(reply)' <=> Gated!Decided(reply)
  BY DEF Gated!AgentTools, Gated!Children, Gated!request, Gated!retry, Gated!ToolSet, Gated!Permitted, Gated!Decided

\* A tool is looked at after those before it have passed, or were known to.
LEMMA PreflightKeeps == ASSUME Gated!GateAssumption, GateInv, Gated!Preflight PROVE GateInv'
<1>0. guard' = guard /\ Guarded' /\ DelayInv' /\ stand = "preflight" /\ Len(told) < Len(Gated!AgentTools)
  BY DEF Gated!Preflight, GateInv, Guarded, DelayInv, Gated!DelaysBounded, Gated!retry, Gated!Checking, Gated!Checked
<1>1. Looking /\ Asking
  BY DEF GateInv
<1>2. Asking'
  <2>1. stand' \in {"preflight", "over"} /\ judged' = judged /\ outcome' \in {outcome, "refused"}
        /\ (stand' = "preflight" => outcome' = outcome)
    BY <1>0 DEF Gated!Preflight
  <2> QED BY <1>0, <1>1, <2>1, SameSetup DEF Asking
<1>3. cached' \subseteq passed' /\ passed \subseteq passed'
  BY <1>1 DEF Gated!Preflight, Looking, Gated!Remembered
<1>4. Len(Gated!AgentTools) \in Nat
  BY SetupShape DEF GateInv
<1>5. told' \in Seq(Outcomes) /\ Len(told') <= Len(Gated!AgentTools) /\ Len(told') \in Nat
  <2>1. told' = told \/ \E how \in Outcomes : told' = Append(told, how)
    BY DEF Gated!Preflight, Outcomes
  <2> QED BY <2>1, <1>0, <1>1, <1>4 DEF Looking
<1>6. ASSUME stand' = "preflight", NEW i \in 1..Len(told') PROVE Gated!AgentTools[i] \in passed'
  <2>1. \E how : told' = Append(told, how)
    BY <1>0, <1>6 DEF Gated!Preflight
  <2>2. Gated!Looked \in passed'
    BY <1>0, <1>1, <1>6 DEF Gated!Preflight, Looking
  <2>3. Len(told') = Len(told) + 1 /\ Len(told) \in Nat
    BY <2>1, <1>1 DEF Looking
  <2>4. CASE i = Len(told) + 1
    BY <2>2, <2>4 DEF Gated!Looked, Gated!Checked
  <2>5. CASE i # Len(told) + 1
    <3>1. i \in 1..Len(told)
      BY <2>3, <2>5
    <3> QED BY <3>1, <1>0, <1>1, <1>3 DEF Looking
  <2> QED BY <2>4, <2>5
<1>7. stand' \notin {"asking", "invoking"}
  BY <1>0 DEF Gated!Preflight
<1> QED BY <1>0, <1>2, <1>3, <1>5, <1>6, <1>7, SameSetup DEF GateInv, Looking

\* A pattern starts when its tools have passed.
LEMMA ExecuteKeeps == ASSUME Gated!GateAssumption, GateInv, Gated!Execute PROVE GateInv'
<1>0. guard' = guard /\ Guarded' /\ DelayInv' /\ stand = "preflight" /\ Len(told) = Len(Gated!AgentTools) /\ stand' = "asking"
      /\ UNCHANGED <<passed, cached, told, judged, outcome>>
  BY DEF Gated!Execute, GateInv, Guarded, DelayInv, Gated!DelaysBounded, Gated!retry, Gated!Checked, Gated!gate
<1>1. Looking /\ Asking
  BY DEF GateInv
<1>2. DOMAIN Gated!AgentTools = 1..Len(Gated!AgentTools) /\ Len(Gated!Children) \in Nat
  BY SetupShape DEF GateInv
<1>3. Gated!ToolSet \subseteq passed
  BY <1>0, <1>1, <1>2 DEF Looking, Gated!ToolSet
<1>4. Looking'
  BY <1>0, <1>1, <1>3, SameSetup DEF Looking
<1>5. Asking'
  BY <1>0, <1>1, <1>2, SameSetup DEF Asking
<1> QED BY <1>0, <1>4, <1>5 DEF GateInv

\* The next policy is asked when none before it has decided.
LEMMA AskKeeps == ASSUME Gated!GateAssumption, GateInv, Gated!Ask PROVE GateInv'
<1>0. guard' = guard /\ Guarded' /\ DelayInv' /\ stand = "asking" /\ UNCHANGED <<passed, cached, told>>
  BY DEF Gated!Ask, GateInv, Guarded, DelayInv, Gated!DelaysBounded, Gated!retry, Gated!gate
<1>1. Looking /\ Asking
  BY DEF GateInv
<1>2. /\ Len(Gated!Children) \in Nat /\ DOMAIN Gated!Children = 1..Len(Gated!Children)
      /\ \A i \in 1..Len(Gated!Children) : Gated!Children[i].kind \in {"files", "network", "broken"}
  BY SetupShape DEF GateInv
<1>3. judged \in Nat /\ judged <= Len(Gated!Children) /\ outcome = "none"
      /\ \A i \in 1..judged : ~Gated!Decided(Gated!Judge(Gated!Children[i], Gated!request))
  BY <1>0, <1>1 DEF Asking
<1>n. PICK n : n = Len(Gated!Children)
  OBVIOUS
<1>m. n \in Nat /\ judged \in Nat /\ judged <= n
  BY <1>n, <1>2, <1>3
<1>4. Looking'
  <2>1. stand' \in {"asking", "invoking", "over"}
    BY <1>0 DEF Gated!Ask, Gated!Denied
  <2> QED BY <2>1, <1>0, <1>1, SameSetup DEF Looking
<1>5. ASSUME Gated!Denied, judged' \in Nat PROVE Asking'
  BY <1>5 DEF Asking, Gated!Denied
<1>6. ASSUME stand' = "invoking", UNCHANGED outcome, judged' \in Nat, Gated!Permitted PROVE Asking'
  BY <1>0, <1>3, <1>6, SameSetup DEF Asking
<1>7. Asking'
  <2>1. CASE judged < Len(Gated!Children)
    <3>1. PICK reply : reply = Gated!Judge(Gated!Children[judged + 1], Gated!request)
      OBVIOUS
    <3>a. judged # Len(Gated!Children)
      BY <2>1, <1>n, <1>m
    <3>b. /\ judged' = judged + 1
          /\ ~Gated!Decided(reply) => UNCHANGED <<stand, outcome>>
          /\ Gated!Decided(reply) /\ reply = "allow" => stand' = "invoking" /\ UNCHANGED outcome
          /\ Gated!Decided(reply) /\ reply # "allow" => Gated!Denied
      BY <3>a, <3>1, Zenon DEF Gated!Ask
    <3>2. judged' = judged + 1 /\ judged + 1 \in 1..Len(Gated!Children)
      BY <2>1, <3>b, <1>2, <1>3
    <3>3. CASE ~Gated!Decided(reply)
      <4>1. stand' = stand /\ outcome' = outcome
        BY <3>b, <3>3
      <4>2. \A i \in 1..judged' : ~Gated!Decided(Gated!Judge(Gated!Children[i], Gated!request))
        <5> SUFFICES ASSUME NEW i \in 1..judged' PROVE ~Gated!Decided(Gated!Judge(Gated!Children[i], Gated!request))
          OBVIOUS
        <5>1. i \in 1..judged \/ i = judged + 1
          BY <3>2, <1>3
        <5> QED BY <5>1, <1>3, <3>1, <3>3
      <4>3. \A i \in 1..judged' : ~Gated!Decided(Gated!Judge(Gated!Children[i], Gated!request))'
        BY <4>2, SameSetup, <1>0 DEF Gated!Judge, Gated!FilesAllow, Gated!NetworkAllows, Gated!Decided
      <4> QED BY <1>0, <1>2, <1>3, <3>2, <4>1, <4>3, SameSetup DEF Asking
    <3>4. CASE Gated!Decided(reply) /\ reply = "allow"
      <4>1. stand' = "invoking" /\ UNCHANGED outcome /\ guard.mode = "any"
        BY <3>b, <3>4 DEF Gated!Decided
      <4>2. Gated!EffectPermitted(Gated!Children[judged + 1], Gated!request)
        <5>1. PICK p, q : p = Gated!Children[judged + 1] /\ q = Gated!request
          OBVIOUS
        <5>2. p.kind \in {"files", "network", "broken"} /\ Gated!Judge(p, q) = "allow"
          BY <5>1, <3>1, <3>2, <3>4, <1>2
        <5>3. Gated!EffectPermitted(p, q)
          BY <5>2, AllowedIsPermitted
        <5> QED BY <5>1, <5>3, Zenon
      <4>3. \A j \in 1..(judged + 1) : Gated!Children[j].kind # "broken"
        <5> SUFFICES ASSUME NEW j \in 1..(judged + 1), Gated!Children[j].kind = "broken" PROVE FALSE
          OBVIOUS
        <5>1. j \in 1..Len(Gated!Children)
          BY <1>2, <1>3, <3>2
        <5>2. Gated!Judge(Gated!Children[j], Gated!request) = "raise"
          BY <5>1, <1>2, Answers
        <5>3. j # judged + 1
          BY <5>2, <3>1, <3>4
        <5>4. j \in 1..judged
          BY <5>3, <1>3
        <5> QED BY <5>2, <5>4, <1>3 DEF Gated!Decided
      <4>4. Gated!Permitted
        BY <4>1, <4>2, <4>3, <3>2, <1>2 DEF Gated!Permitted
      <4> QED BY <4>1, <4>4, <3>2, <1>3, <1>6
    <3>5. CASE Gated!Decided(reply) /\ reply # "allow"
      <4>1. Gated!Denied
        BY <3>b, <3>5
      <4> QED BY <4>1, <3>2, <1>3, <1>5
    <3> QED BY <3>3, <3>4, <3>5
  <2>2. CASE judged = Len(Gated!Children)
    <3>a. ~(judged < Len(Gated!Children))
      BY <2>2, <1>2
    <3>b. /\ UNCHANGED judged
          /\ IF Gated!AtEnd = "allow" THEN stand' = "invoking" /\ UNCHANGED outcome ELSE Gated!Denied
      BY <3>a, Zenon DEF Gated!Ask
    <3>1. judged' = judged
      BY <3>b
    <3>2. CASE Gated!AtEnd = "allow"
      <4>1. stand' = "invoking" /\ UNCHANGED outcome
        BY <3>b, <3>2
      <4>2. CASE guard.mode = "all"
        <5>1. ASSUME NEW i \in 1..Len(Gated!Children) PROVE Gated!EffectPermitted(Gated!Children[i], Gated!request)
          <6>1. ~Gated!Decided(Gated!Judge(Gated!Children[i], Gated!request))
            BY <2>2, <1>3
          <6>2. Gated!Judge(Gated!Children[i], Gated!request) = "allow"
            BY <6>1, <4>2, <1>2, Answers DEF Gated!Decided
          <6> QED BY <6>2, <1>2, AllowedIsPermitted
        <5>2. Gated!Permitted
          BY <5>1, <4>2, <1>2 DEF Gated!Permitted
        <5> QED BY <5>2, <4>1, <3>1, <1>3, <1>6
      <4>3. CASE guard.mode # "all"
        <5>1. Gated!Permitted
          BY <4>3, <3>2 DEF Gated!Permitted, Gated!AtEnd
        <5> QED BY <5>1, <4>1, <3>1, <1>3, <1>6
      <4> QED BY <4>2, <4>3
    <3>3. CASE Gated!AtEnd # "allow"
      <4>1. Gated!Denied
        BY <3>b, <3>3
      <4> QED BY <4>1, <3>1, <1>3, <1>5
    <3> QED BY <3>2, <3>3
  <2>3. judged < Len(Gated!Children) \/ judged = Len(Gated!Children)
    BY <1>n, <1>m
  <2> QED BY <2>1, <2>2, <2>3
<1> QED BY <1>0, <1>4, <1>7 DEF GateInv

\* An attempt is made of what was permitted, or what was not is answered.
LEMMA InvokeKeeps == ASSUME Gated!GateAssumption, GateInv, Gated!Invoke PROVE GateInv'
<1>0. guard' = guard /\ stand = "invoking" /\ UNCHANGED <<passed, cached, told>>
  BY DEF Gated!Invoke, Gated!gate
<1>1. Guarded /\ Looking /\ Asking /\ DelayInv
  BY DEF GateInv
<1>2. /\ Len(Gated!Children) \in Nat
      /\ Gated!retry.attempts \in Nat /\ Gated!retry.initial \in Nat /\ Gated!retry.cap \in Nat
      /\ \A n \in 0..Gated!retry.attempts : Gated!retry.initial * Gated!retry.factor^n \in Nat
      /\ Gated!retry.jitter \in {"none", "full", "equal"}
  BY <1>1, SetupShape
<1>3. Gated!Permitted /\ outcome = "none" /\ Gated!ToolSet \subseteq passed /\ judged \in Nat /\ attempt \in Nat
  BY <1>0, <1>1 DEF Asking, Looking, Guarded
<1>4. CASE stand' = "over" /\ UNCHANGED <<judged, attempt, delays>>
  <2>1. DelayInv'
    BY <1>0, <1>1, <1>4 DEF DelayInv, Gated!DelaysBounded, Gated!retry
  <2>2. Looking' /\ Guarded'
    BY <1>0, <1>1, <1>4, SameSetup DEF Looking, Guarded
  <2>3. Asking'
    BY <1>0, <1>3, <1>4, SameSetup DEF Asking
  <2> QED BY <2>1, <2>2, <2>3 DEF GateInv
<1>5. ASSUME NEW floor \in GateFloors, ~(Gated!request.streamed \/ attempt + 1 >= Gated!retry.attempts),
             \E d \in Gated!DelayFor(attempt, floor) : delays' = Append(delays, <<d, floor>>),
             attempt' = attempt + 1, judged' = 0, stand' = "asking", UNCHANGED outcome
      PROVE  GateInv'
  <2>1. PICK x \in Gated!DelayFor(attempt, floor) : delays' = Append(delays, <<x, floor>>)
    BY <1>5
  <2>2. floor \in Nat /\ attempt \in 0..Gated!retry.attempts
    BY <1>2, <1>3, <1>5 DEF Gated!GateAssumption
  <2>3. PICK raw, d : raw = Gated!retry.initial * Gated!retry.factor^attempt /\ d = Gated!Most(Gated!Backoff(attempt), floor)
    OBVIOUS
  <2>4. raw \in Nat
    BY <2>2, <2>3, <1>2
  <2>5. d = Gated!Most(Gated!Least(raw, Gated!Most(Gated!retry.initial, Gated!retry.cap)), floor)
    BY <2>3 DEF Gated!Backoff
  <2>6. x = d \/ x \in 0..d \/ x \in (d \div 2)..(2 * (d \div 2))
    BY <2>1, <2>3, <1>2 DEF Gated!DelayFor
  <2>7. x \in Nat /\ x <= Gated!Most(Gated!Most(Gated!retry.initial, Gated!retry.cap), floor)
    BY <2>2, <2>4, <2>5, <2>6, <1>2, DelayCapped
  <2>8. delays' \in Seq(Nat \X Nat) /\ Len(delays') = Len(delays) + 1 /\ Len(delays) \in Nat
    BY <2>1, <2>2, <2>7, <1>1 DEF DelayInv
  <2>9. \A i \in DOMAIN delays' : delays'[i][1] <= Gated!Most(Gated!Most(Gated!retry.initial, Gated!retry.cap), delays'[i][2])
    <3> SUFFICES ASSUME NEW i \in DOMAIN delays'
                 PROVE  delays'[i][1] <= Gated!Most(Gated!Most(Gated!retry.initial, Gated!retry.cap), delays'[i][2])
      OBVIOUS
    <3>1. i \in 1..(Len(delays) + 1)
      BY <2>8
    <3>2. CASE i = Len(delays) + 1
      <4>1. delays'[i] = <<x, floor>>
        BY <2>1, <3>2, <1>1 DEF DelayInv
      <4> QED BY <4>1, <2>7
    <3>3. CASE i # Len(delays) + 1
      <4>1. i \in DOMAIN delays /\ delays'[i] = delays[i]
        BY <2>1, <2>8, <3>1, <3>3, <1>1 DEF DelayInv
      <4> QED BY <4>1, <1>1 DEF DelayInv, Gated!DelaysBounded
    <3> QED BY <3>2, <3>3
  <2>10. DelayInv'
    BY <2>8, <2>9, <1>0, SameSetup DEF DelayInv, Gated!DelaysBounded
  <2>11. Looking' /\ Guarded'
    BY <1>0, <1>1, <1>3, <1>5, SameSetup DEF Looking, Guarded
  <2>12. Asking'
    BY <1>0, <1>2, <1>3, <1>5, SameSetup DEF Asking
  <2> QED BY <2>10, <2>11, <2>12 DEF GateInv
<1> QED BY <1>4, <1>5 DEF Gated!Invoke

\* A session's next run knows the tools that have passed.
LEMMA RunAgainKeeps == ASSUME Gated!GateAssumption, GateInv, Gated!RunAgain PROVE GateInv'
<1>0. guard' = guard /\ guard \in Guards
  BY DEF Gated!RunAgain, GateInv, Guarded
<1>1. Len(Gated!AgentTools) \in Nat
  BY SetupShape DEF GateInv
<1>2. cached' \subseteq passed'
  BY DEF Gated!RunAgain, GateInv, Looking
<1>3. told' = <<>> /\ judged' = 0 /\ attempt' = 0 /\ delays' = <<>> /\ outcome' = "none" /\ stand' = "preflight"
  BY DEF Gated!RunAgain
<1>4. Looking'
  BY <1>0, <1>1, <1>2, <1>3, SameSetup DEF Looking
<1>5. Asking' /\ DelayInv' /\ Guarded'
  BY <1>0, <1>3 DEF Asking, DelayInv, Gated!DelaysBounded, Guarded
<1> QED BY <1>4, <1>5 DEF GateInv

\* Other parts leave the gate as it is.
LEMMA GateStutters == ASSUME GateInv, UNCHANGED Gated!vars PROVE GateInv'
<1>0. guard' = guard /\ UNCHANGED <<stand, passed, cached, told, judged, attempt, delays, outcome>>
  BY DEF Gated!vars, Gated!gate
<1>1. Guarded' /\ DelayInv'
  BY <1>0 DEF GateInv, Guarded, DelayInv, Gated!DelaysBounded, Gated!retry
<1>2. Looking'
  BY <1>0, SameSetup DEF GateInv, Looking
<1>3. Asking'
  <2>1. \A i : ~Gated!Decided(Gated!Judge(Gated!Children[i], Gated!request)) => ~Gated!Decided(Gated!Judge(Gated!Children[i], Gated!request))'
    BY <1>0, SameSetup DEF Gated!Judge, Gated!FilesAllow, Gated!NetworkAllows, Gated!Decided
  <2> QED BY <1>0, <2>1, SameSetup DEF GateInv, Asking
<1> QED BY <1>1, <1>2, <1>3 DEF GateInv

\* The gate's invariant is kept by each of its steps.
LEMMA GateSteps == ASSUME Gated!GateAssumption, GateInv, [Gated!Next]_(Gated!vars) PROVE GateInv'
  BY PreflightKeeps, ExecuteKeeps, AskKeeps, InvokeKeeps, RunAgainKeeps, GateStutters DEF Gated!Next

\* The gate's invariant says that a gate is faithful.
LEMMA GateHolds == ASSUME Gated!GateAssumption, GateInv PROVE Gated!GateFaithful
<1>1. Gated!PreflightFirst
  BY DEF GateInv, Looking, Gated!PreflightFirst
<1>2. Gated!OnlyPermitted
  BY DEF GateInv, Asking, Gated!OnlyPermitted
<1>3. Gated!DelaysBounded
  BY DEF GateInv, DelayInv
<1> QED BY <1>1, <1>2, <1>3 DEF Gated!GateFaithful

-----------------------------------------------------------------------------
(***************************************************************************)
(* The tools that reach beyond the loop.  A call is warned of before it    *)
(* does anything, every attempt is a new one, and there are no more        *)
(* deletions than there was a file to delete.                              *)
(***************************************************************************)
\* Where every call is, and what has become of its attempts.
Places == {"new", "due", "waiting", "over"}
Called ==
    /\ asking = [c \in HostIds |-> asking[c]]
    /\ \A c \in HostIds : /\ {"at", "attempt", "answer"} \subseteq DOMAIN asking[c]
                        /\ asking[c].at \in Places /\ asking[c].attempt \in 0..3
    /\ job \in [HostIds -> [HostCalls!Attempts -> {"none", "running", "ended", "left"}]]
    /\ effects \subseteq HostIds \X HostCalls!Attempts /\ IsFiniteSet(effects)

\* The application was warned of the tool of a call, if that was due.
Told(c) == host.durable /\ ~HostCalls!Idempotent(HostCalls!Tool(c)) => HostCalls!Tool(c) \in warned

\* A call is warned of before it does anything, and every attempt is a new one.
Awaits(c) ==
    /\ asking[c].at \in {"due", "waiting"} => Told(c) /\ asking[c].attempt \in HostCalls!Attempts /\ asking[c].answer = "none"
    /\ asking[c].at = "due" => job[c][asking[c].attempt] = "none" /\ <<c, asking[c].attempt>> \notin effects
Works(c) ==
    /\ \A n \in HostCalls!Attempts : job[c][n] # "none" => n <= asking[c].attempt
    /\ \A n \in HostCalls!Attempts : job[c][n] \in {"running", "left"} =>
          Told(c) /\ HostCalls!Tool(c) \in {"shell_exec", "execute_command", "http_request"}
    /\ \A n \in HostCalls!Attempts : <<c, n>> \in effects => n <= asking[c].attempt /\ Told(c) /\ ~HostCalls!Idempotent(HostCalls!Tool(c))
Answered(c) ==
    HostCalls!Tool(c) \in {"shell_exec", "execute_command", "http_request"} /\ asking[c].answer \in {"ok", "timed_out"}
        => asking[c].attempt \in HostCalls!Attempts /\ job[c][asking[c].attempt] = "ended"
Each(c) == Awaits(c) /\ Works(c) /\ Answered(c)

\* There is one deletion more than there are writes only if there is no file.
Deletions ==
    Cardinality(HostCalls!Of("delete_file")) <= Cardinality(HostCalls!Of("write_file")) + (IF present THEN 0 ELSE 1)

HostInv == Called /\ (\A c \in HostIds : Each(c)) /\ Deletions

\* Reading a file and searching may be repeated.
LEMMA Repeatable == \A name \in {"read_file", "tavily_search"} : HostCalls!Idempotent(name)
  BY DEF HostCalls!Idempotent

\* Changing a file or a variable, running a command and a request may not.
LEMMA NotRepeatable ==
    \A name \in {"write_file", "delete_file", "set_env", "shell_exec", "execute_command", "http_request"} : ~HostCalls!Idempotent(name)
  BY DEF HostCalls!Idempotent

\* Before a run begins, no call has done anything.
LEMMA HostStart == ASSUME HostCalls!Init PROVE HostInv
<1>1. asking = [c \in HostIds |-> HostCalls!NoCall] /\ job = [c \in HostIds |-> [n \in HostCalls!Attempts |-> "none"]] /\ effects = {}
  BY DEF HostCalls!Init
<1>2. HostCalls!NoCall.at = "new" /\ HostCalls!NoCall.attempt = 0 /\ HostCalls!NoCall.answer = "none" /\ {"at", "attempt", "answer"} \subseteq DOMAIN HostCalls!NoCall
  BY DEF HostCalls!NoCall
<1>3. IsFiniteSet(effects)
  BY <1>1, FS_EmptySet
<1>4. Called
  BY <1>1, <1>2, <1>3 DEF Called, Places
<1>5. ASSUME NEW c \in HostIds PROVE Each(c)
  BY <1>1, <1>2 DEF Each, Awaits, Works, Answered
<1>6. HostCalls!Of("delete_file") = {} /\ HostCalls!Of("write_file") = {}
  BY <1>1 DEF HostCalls!Of
<1>7. Deletions
  BY <1>6, FS_EmptySet DEF Deletions
<1> QED BY <1>4, <1>5, <1>7 DEF HostInv

\* A call of which nothing has changed is as it should be.
LEMMA OthersKept ==
    ASSUME NEW c, Each(c), host' = host, asking'[c] = asking[c], job'[c] = job[c],
           \A n \in HostCalls!Attempts : <<c, n>> \in effects' => <<c, n>> \in effects,
           warned \subseteq warned'
    PROVE  Each(c)'
<1>1. HostCalls!Tool(c)' = HostCalls!Tool(c) /\ (Told(c) => Told(c)')
  BY DEF HostCalls!Tool, Told, HostCalls!Idempotent
<1> QED BY <1>1 DEF Each, Awaits, Works, Answered, HostCalls!Idempotent

\* Files that are neither written nor deleted.
LEMMA SameFiles ==
    ASSUME Deletions, host' = host, present' = present,
           \/ effects' = effects
           \/ \E e : effects' = effects \cup {e} /\ HostCalls!Tool(e[1]) \notin {"delete_file", "write_file"}
    PROVE  Deletions'
<1>1. HostCalls!Of("delete_file")' = HostCalls!Of("delete_file") /\ HostCalls!Of("write_file")' = HostCalls!Of("write_file")
  BY DEF HostCalls!Of, HostCalls!Tool
<1> QED BY <1>1 DEF Deletions

\* One call's step, by what becomes of its record and of its attempts.
LEMMA OneCallMoves ==
    ASSUME HostInv, NEW c \in HostIds, host' = host, warned \subseteq warned',
           NEW u, asking' = [asking EXCEPT ![c] = u],
           {"at", "attempt", "answer"} \subseteq DOMAIN u, u.at \in Places, u.attempt \in 0..3,
           job' \in [HostIds -> [HostCalls!Attempts -> {"none", "running", "ended", "left"}]],
           \A d \in HostIds \ {c} : job'[d] = job[d],
           effects' = effects \/ \E n \in HostCalls!Attempts : effects' = effects \cup {<<c, n>>},
           Each(c)', Deletions'
    PROVE  HostInv'
<1>1. asking'[c] = u /\ (\A d \in HostIds \ {c} : asking'[d] = asking[d]) /\ asking' = [d \in HostIds |-> asking'[d]]
  BY DEF HostInv, Called
<1>2. effects' \subseteq HostIds \X HostCalls!Attempts /\ IsFiniteSet(effects')
  <2>1. effects \subseteq HostIds \X HostCalls!Attempts /\ IsFiniteSet(effects)
    BY DEF HostInv, Called
  <2>2. CASE effects' = effects
    BY <2>1, <2>2
  <2>3. ASSUME NEW n \in HostCalls!Attempts, effects' = effects \cup {<<c, n>>}
        PROVE  effects' \subseteq HostIds \X HostCalls!Attempts /\ IsFiniteSet(effects')
    <3>1. <<c, n>> \in HostIds \X HostCalls!Attempts
      OBVIOUS
    <3>2. PICK e : e = <<c, n>>
      OBVIOUS
    <3>3. IsFiniteSet(effects \cup {e})
      BY <2>1, FS_AddElement
    <3> QED BY <2>1, <2>3, <3>1, <3>2, <3>3
  <2> QED BY <2>2, <2>3
<1>3. Called'
  BY <1>1, <1>2 DEF HostInv, Called, HostCalls!Attempts
<1>4. ASSUME NEW d \in HostIds \ {c} PROVE Each(d)'
  <2>1. \A n \in HostCalls!Attempts : <<d, n>> \in effects' => <<d, n>> \in effects
    OBVIOUS
  <2> QED BY <1>1, <2>1, OthersKept DEF HostInv
<1> QED BY <1>3, <1>4 DEF HostInv

\* What Over makes of a call's record.
LEMMA Overs ==
    ASSUME HostInv, NEW c \in HostIds, NEW reply, HostCalls!Over(c, reply)
    PROVE  \E u : /\ asking' = [asking EXCEPT ![c] = u] /\ asking'[c] = u
                  /\ {"at", "attempt", "answer"} \subseteq DOMAIN u
                  /\ u.at = "over" /\ u.attempt = asking[c].attempt /\ u.answer = reply
<1>1. PICK u : u = [asking[c] EXCEPT !.at = "over", !.answer = reply]
  OBVIOUS
<1>2. asking' = [asking EXCEPT ![c] = u]
  BY <1>1 DEF HostCalls!Over, HostCalls!Set
<1>3. {"at", "attempt", "answer"} \subseteq DOMAIN u /\ u.at = "over" /\ u.attempt = asking[c].attempt /\ u.answer = reply
  BY <1>1 DEF HostInv, Called
<1> QED BY <1>2, <1>3 DEF HostInv, Called

\* A call ends, its attempts staying as they are, with an answer that does not
\* tell of one that ended, or by a tool that has none.
LEMMA EndsQuietly ==
    ASSUME HostInv, NEW c \in HostIds, NEW reply, HostCalls!Over(c, reply), host' = host, warned' = warned,
           job' = job, effects' = effects, present' = present,
           reply \in {"ok", "timed_out"} => HostCalls!Tool(c) \notin {"shell_exec", "execute_command", "http_request"}
    PROVE  HostInv'
<1>1. PICK u : /\ asking' = [asking EXCEPT ![c] = u] /\ asking'[c] = u
               /\ {"at", "attempt", "answer"} \subseteq DOMAIN u
               /\ u.at = "over" /\ u.attempt = asking[c].attempt /\ u.answer = reply
  BY Overs
<1>2. Each(c)'
  <2>1. Each(c)
    BY DEF HostInv
  <2>2. HostCalls!Tool(c)' = HostCalls!Tool(c) /\ (Told(c)' <=> Told(c))
    BY DEF HostCalls!Tool, Told, HostCalls!Idempotent
  <2> QED BY <1>1, <2>1, <2>2 DEF Each, Awaits, Works, Answered, HostCalls!Idempotent
<1>3. Deletions'
  BY SameFiles DEF HostInv
<1> QED BY <1>1, <1>2, <1>3, OneCallMoves DEF HostInv, Called, Places

\* A file or a variable is changed by a tool that does not suspend.
LEMMA ChangesNow ==
    ASSUME HostInv, NEW c \in HostIds, NEW reply, HostCalls!Over(c, reply), host' = host, warned' = warned,
           job' = job, HostCalls!Changes(c), asking[c].at = "due", HostCalls!Tool(c) \in {"write_file", "delete_file", "set_env"},
           Deletions'
    PROVE  HostInv'
<1>1. PICK u : /\ asking' = [asking EXCEPT ![c] = u] /\ asking'[c] = u
               /\ {"at", "attempt", "answer"} \subseteq DOMAIN u
               /\ u.at = "over" /\ u.attempt = asking[c].attempt /\ u.answer = reply
  BY Overs
<1>2. Each(c) /\ asking[c].attempt \in HostCalls!Attempts /\ Told(c)
  BY DEF HostInv, Each, Awaits
<1>3. HostCalls!Tool(c)' = HostCalls!Tool(c) /\ (Told(c)' <=> Told(c)) /\ ~HostCalls!Idempotent(HostCalls!Tool(c))
  BY NotRepeatable DEF HostCalls!Tool, Told, HostCalls!Idempotent
<1>4. \A n \in HostCalls!Attempts : <<c, n>> \in effects' => <<c, n>> \in effects \/ n = asking[c].attempt
  BY DEF HostCalls!Changes
<1>5. asking[c].attempt \in Nat
  BY <1>2 DEF HostCalls!Attempts
<1>6. Each(c)'
  BY <1>1, <1>2, <1>3, <1>4, <1>5 DEF Each, Awaits, Works, Answered, HostCalls!Idempotent
<1>7. \E n \in HostCalls!Attempts : effects' = effects \cup {<<c, n>>}
  BY <1>2 DEF HostCalls!Changes
<1> QED BY <1>1, <1>6, <1>7, OneCallMoves DEF HostInv, Called, Places

\* What a step says of a call's record that it replaces.
LEMMA Replaced ==
    ASSUME HostInv, NEW c \in HostIds, NEW u, HostCalls!Set(c, u)
    PROVE  asking' = [asking EXCEPT ![c] = u] /\ asking'[c] = u
  BY DEF HostCalls!Set, HostInv, Called

\* What a step says of the attempt under way.
LEMMA Jobs ==
    ASSUME HostInv, NEW c \in HostIds, NEW state \in {"none", "running", "ended", "left"}, HostCalls!Job(c, state),
           asking[c].attempt \in HostCalls!Attempts
    PROVE  /\ job' \in [HostIds -> [HostCalls!Attempts -> {"none", "running", "ended", "left"}]]
           /\ \A d \in HostIds \ {c} : job'[d] = job[d]
           /\ job'[c][asking[c].attempt] = state
           /\ \A n \in HostCalls!Attempts \ {asking[c].attempt} : job'[c][n] = job[c][n]
  BY DEF HostCalls!Job, HostInv, Called

\* A call begins: it is warned of, and its attempt is a new one.
LEMMA Begins == ASSUME HostInv, NEW c \in HostIds, HostCalls!Begin(c) PROVE HostInv'
<1>1. PICK u : u = [asking[c] EXCEPT !.at = "due", !.attempt = @ + 1, !.tries = 1, !.answer = "none"]
  OBVIOUS
<1>2. /\ {"at", "attempt", "answer"} \subseteq DOMAIN u /\ u.at = "due" /\ u.attempt = asking[c].attempt + 1
      /\ u.answer = "none"
  BY <1>1 DEF HostInv, Called
<1>3. asking[c].at = "new" /\ asking[c].attempt < 3 /\ HostCalls!Set(c, u) /\ UNCHANGED <<host, job, effects, present>>
  BY <1>1 DEF HostCalls!Begin
<1>4. asking' = [asking EXCEPT ![c] = u] /\ asking'[c] = u
  BY <1>3, Replaced
<1>5. 3 \in Nat /\ asking[c].attempt \in 0..3
  BY DEF HostInv, Called
<1>6. asking[c].attempt + 1 \in HostCalls!Attempts /\ u.attempt \in 0..3
  BY <1>2, <1>3, <1>5 DEF HostCalls!Attempts
<1>7. warned \subseteq warned' /\ Told(c)'
  BY <1>3 DEF HostCalls!Begin, Told, HostCalls!Tool, HostCalls!Idempotent
<1>8. Each(c)'
  <2>1. Each(c)
    BY DEF HostInv
  <2>2. job[c] \in [HostCalls!Attempts -> {"none", "running", "ended", "left"}]
    BY DEF HostInv, Called
  <2>3. job[c][asking[c].attempt + 1] = "none" /\ <<c, asking[c].attempt + 1>> \notin effects
    BY <2>1, <1>5, <1>6 DEF Each, Works
  <2>4. Awaits(c)'
    BY <1>2, <1>3, <1>4, <1>6, <1>7, <2>3 DEF Awaits
  <2>5. \A n \in HostCalls!Attempts : n <= asking[c].attempt => n <= asking[c].attempt + 1
    BY <1>5 DEF HostCalls!Attempts
  <2>6. Works(c)'
    <3>1. HostCalls!Idempotent(HostCalls!Tool(c))' = HostCalls!Idempotent(HostCalls!Tool(c)) /\ HostCalls!Tool(c)' = HostCalls!Tool(c)
      BY <1>3 DEF HostCalls!Tool, HostCalls!Idempotent
    <3> QED BY <2>1, <2>5, <1>2, <1>3, <1>4, <1>7, <3>1 DEF Each, Works
  <2>7. Answered(c)'
    BY <1>2, <1>4 DEF Answered
  <2> QED BY <2>4, <2>6, <2>7 DEF Each
<1>9. Deletions'
  BY <1>3, SameFiles DEF HostInv
<1>10. job' \in [HostIds -> [HostCalls!Attempts -> {"none", "running", "ended", "left"}]] /\ u.at \in Places
  BY <1>2, <1>3 DEF HostInv, Called, Places
<1> QED BY <1>2, <1>3, <1>4, <1>6, <1>7, <1>8, <1>9, <1>10, OneCallMoves

\* The effects of one tool are finitely many, and are counted.
LEMMA Counted ==
    ASSUME HostInv, NEW name
    PROVE  IsFiniteSet(HostCalls!Of(name)) /\ Cardinality(HostCalls!Of(name)) \in Nat
<1>1. HostCalls!Of(name) \subseteq effects /\ IsFiniteSet(effects)
  BY DEF HostInv, Called, HostCalls!Of
<1>2. IsFiniteSet(HostCalls!Of(name))
  BY <1>1, FS_Subset
<1> QED BY <1>2, FS_CardinalityType

\* A new effect is one more of its tool and none of the others.
LEMMA OneMore ==
    ASSUME HostInv, NEW e, e \notin effects, effects' = effects \cup {e}, host' = host, NEW name
    PROVE  Cardinality(HostCalls!Of(name)') = Cardinality(HostCalls!Of(name)) + (IF HostCalls!Tool(e[1]) = name THEN 1 ELSE 0)
<1>1. IsFiniteSet(HostCalls!Of(name)) /\ Cardinality(HostCalls!Of(name)) \in Nat
  BY Counted
<1>2. CASE HostCalls!Tool(e[1]) = name
  <2>1. HostCalls!Of(name)' = HostCalls!Of(name) \cup {e} /\ e \notin HostCalls!Of(name)
    BY <1>2 DEF HostCalls!Of, HostCalls!Tool
  <2>2. Cardinality(HostCalls!Of(name) \cup {e}) = Cardinality(HostCalls!Of(name)) + 1
    BY <1>1, <2>1, FS_AddElement
  <2> QED BY <1>2, <2>1, <2>2
<1>3. CASE HostCalls!Tool(e[1]) # name
  <2>1. HostCalls!Of(name)' = HostCalls!Of(name)
    BY <1>3 DEF HostCalls!Of, HostCalls!Tool
  <2> QED BY <1>1, <1>3, <2>1
<1> QED BY <1>2, <1>3

\* The attempt a call is about to make has changed nothing yet.
LEMMA Fresh ==
    ASSUME HostInv, NEW c \in HostIds, asking[c].at = "due", HostCalls!Changes(c)
    PROVE  \E e : e \notin effects /\ effects' = effects \cup {e} /\ e[1] = c
<1>1. PICK e : e = <<c, asking[c].attempt>>
  OBVIOUS
<1>2. e \notin effects /\ effects' = effects \cup {e} /\ e[1] = c
  BY <1>1 DEF HostInv, Each, Awaits, HostCalls!Changes
<1> QED BY <1>2

\* write_file changes the file as it begins.
LEMMA WritesAFile == ASSUME HostInv, NEW c \in HostIds, HostCalls!WriteFile(c) PROVE HostInv'
<1>1. asking[c].at = "due" /\ HostCalls!Tool(c) = "write_file" /\ UNCHANGED <<host, job, warned>>
  BY DEF HostCalls!WriteFile, HostCalls!Due
<1>2. ASSUME NEW reply \in {"ok", "failed"}, present' = TRUE, HostCalls!Changes(c), HostCalls!Over(c, reply) PROVE HostInv'
  <2>1. PICK e : e \notin effects /\ effects' = effects \cup {e} /\ e[1] = c
    BY <1>1, <1>2, Fresh
  <2>2. /\ Cardinality(HostCalls!Of("delete_file")') = Cardinality(HostCalls!Of("delete_file"))
        /\ Cardinality(HostCalls!Of("write_file")') = Cardinality(HostCalls!Of("write_file")) + 1
        /\ Cardinality(HostCalls!Of("delete_file")) \in Nat /\ Cardinality(HostCalls!Of("write_file")) \in Nat
    BY <1>1, <2>1, OneMore, Counted
  <2>3. Deletions'
    BY <1>2, <2>2 DEF HostInv, Deletions
  <2> QED BY <1>1, <1>2, <2>3, ChangesNow
<1>3. CASE HostCalls!Over(c, "failed") /\ UNCHANGED <<effects, present>>
  BY <1>1, <1>3, EndsQuietly
<1> QED BY <1>2, <1>3 DEF HostCalls!WriteFile

\* delete_file changes it only if it is there.
LEMMA DeletesAFile == ASSUME HostInv, NEW c \in HostIds, HostCalls!DeleteFile(c) PROVE HostInv'
<1>1. asking[c].at = "due" /\ HostCalls!Tool(c) = "delete_file" /\ UNCHANGED <<host, job, warned>>
  BY DEF HostCalls!DeleteFile, HostCalls!Due
<1>2. ASSUME present, present' = FALSE, HostCalls!Changes(c), HostCalls!Over(c, "ok") PROVE HostInv'
  <2>1. PICK e : e \notin effects /\ effects' = effects \cup {e} /\ e[1] = c
    BY <1>1, <1>2, Fresh
  <2>2. /\ Cardinality(HostCalls!Of("delete_file")') = Cardinality(HostCalls!Of("delete_file")) + 1
        /\ Cardinality(HostCalls!Of("write_file")') = Cardinality(HostCalls!Of("write_file"))
        /\ Cardinality(HostCalls!Of("delete_file")) \in Nat /\ Cardinality(HostCalls!Of("write_file")) \in Nat
    BY <1>1, <2>1, OneMore, Counted
  <2>3. Deletions'
    BY <1>2, <2>2 DEF HostInv, Deletions
  <2> QED BY <1>1, <1>2, <2>3, ChangesNow
<1>3. CASE HostCalls!Over(c, "failed") /\ UNCHANGED <<effects, present>>
  BY <1>1, <1>3, EndsQuietly
<1> QED BY <1>2, <1>3 DEF HostCalls!DeleteFile

\* set_env changes a variable as it begins.
LEMMA SetsEnv == ASSUME HostInv, NEW c \in HostIds, HostCalls!SetEnv(c) PROVE HostInv'
<1>1. asking[c].at = "due" /\ HostCalls!Tool(c) = "set_env" /\ UNCHANGED <<host, job, warned, present>> /\ HostCalls!Changes(c) /\ HostCalls!Over(c, "ok")
  BY DEF HostCalls!SetEnv, HostCalls!Due
<1>2. PICK e : e \notin effects /\ effects' = effects \cup {e} /\ e[1] = c
  BY <1>1, Fresh
<1>3. Deletions'
  BY <1>1, <1>2, SameFiles DEF HostInv
<1> QED BY <1>1, <1>3, ChangesNow

\* A call ends without an attempt's end being told of.
LEMMA EndsWithout ==
    ASSUME HostInv, NEW c \in HostIds, HostCalls!ReadFile(c) \/ HostCalls!Found(c) \/ HostCalls!CommandTimesOut(c) \/ HostCalls!Cancel(c)
    PROVE  HostInv'
<1>1. UNCHANGED <<host, job, effects, present, warned>>
  BY DEF HostCalls!ReadFile, HostCalls!Found, HostCalls!CommandTimesOut, HostCalls!Cancel
<1>2. CASE HostCalls!ReadFile(c)
  <2>1. PICK reply : HostCalls!Over(c, reply)
    BY <1>2 DEF HostCalls!ReadFile
  <2>2. HostCalls!Tool(c) = "read_file"
    BY <1>2 DEF HostCalls!ReadFile, HostCalls!Due
  <2> QED BY <1>1, <2>1, <2>2, EndsQuietly
<1>3. CASE HostCalls!Found(c)
  <2>1. PICK reply : HostCalls!Over(c, reply)
    BY <1>3 DEF HostCalls!Found
  <2>2. HostCalls!Tool(c) = "tavily_search"
    BY <1>3 DEF HostCalls!Found
  <2> QED BY <1>1, <2>1, <2>2, EndsQuietly
<1>4. CASE HostCalls!CommandTimesOut(c)
  BY <1>1, <1>4, EndsQuietly DEF HostCalls!CommandTimesOut
<1>5. CASE HostCalls!Cancel(c)
  BY <1>1, <1>5, EndsQuietly DEF HostCalls!Cancel
<1> QED BY <1>2, <1>3, <1>4, <1>5

\* An attempt is launched, or ends with what it started.
LEMMA Working ==
    ASSUME HostInv, NEW c \in HostIds, NEW u, NEW state \in {"running", "ended", "left"},
           asking[c].at \in {"due", "waiting"}, HostCalls!Tool(c) \in {"shell_exec", "execute_command", "http_request"},
           HostCalls!Set(c, u), HostCalls!Job(c, state), UNCHANGED <<host, effects, present, warned>>,
           {"at", "attempt", "answer"} \subseteq DOMAIN u, u.attempt = asking[c].attempt,
           \/ u.at = "waiting" /\ u.answer = "none"
           \/ u.at = "over" /\ (state # "ended" => u.answer \notin {"ok", "timed_out"})
    PROVE  HostInv'
<1>1. Each(c) /\ asking[c].attempt \in HostCalls!Attempts /\ Told(c) /\ 3 \in Nat
  BY DEF HostInv, Each, Awaits
<1>2. asking' = [asking EXCEPT ![c] = u] /\ asking'[c] = u
  BY Replaced
<1>3. /\ job' \in [HostIds -> [HostCalls!Attempts -> {"none", "running", "ended", "left"}]]
      /\ \A d \in HostIds \ {c} : job'[d] = job[d]
      /\ job'[c][asking[c].attempt] = state
      /\ \A n \in HostCalls!Attempts \ {asking[c].attempt} : job'[c][n] = job[c][n]
  BY <1>1, Jobs
<1>4. HostCalls!Tool(c)' = HostCalls!Tool(c) /\ (Told(c)' <=> Told(c)) /\ ~HostCalls!Idempotent(HostCalls!Tool(c)) /\ ~HostCalls!Idempotent(HostCalls!Tool(c))'
  BY NotRepeatable DEF HostCalls!Tool, Told, HostCalls!Idempotent
<1>5. asking[c].attempt \in Nat
  BY <1>1 DEF HostCalls!Attempts
<1>6. Awaits(c)'
  BY <1>1, <1>2, <1>4 DEF Awaits
<1>7. Works(c)'
  BY <1>1, <1>2, <1>3, <1>4, <1>5 DEF Each, Works
<1>8. Answered(c)'
  BY <1>1, <1>2, <1>3 DEF Answered
<1>9. Deletions'
  BY SameFiles DEF HostInv
<1>10. u.at \in Places /\ u.attempt \in 0..3
  BY <1>1 DEF Places, HostCalls!Attempts
<1> QED BY <1>2, <1>3, <1>6, <1>7, <1>8, <1>9, <1>10, OneCallMoves DEF Each

\* A process or a request is started.
LEMMA Launches == ASSUME HostInv, NEW c \in HostIds, HostCalls!Launch(c) PROVE HostInv'
<1>1. /\ asking[c].at = "due" /\ HostCalls!Tool(c) \in {"shell_exec", "execute_command", "http_request"}
      /\ UNCHANGED <<host, effects, present, warned>>
  BY DEF HostCalls!Launch, HostCalls!Due
<1>2. ASSUME NEW own, HostCalls!Set(c, [asking[c] EXCEPT !.at = "waiting", !.env = HostCalls!ChildEnv(HostCalls!Tool(c), own)]), HostCalls!Job(c, "running")
      PROVE  HostInv'
  <2>1. PICK u : u = [asking[c] EXCEPT !.at = "waiting", !.env = HostCalls!ChildEnv(HostCalls!Tool(c), own)]
    OBVIOUS
  <2>2. /\ {"at", "attempt", "answer"} \subseteq DOMAIN u /\ u.at = "waiting" /\ u.attempt = asking[c].attempt
        /\ u.answer = asking[c].answer
    BY <2>1 DEF HostInv, Called
  <2>3. asking[c].answer = "none"
    BY <1>1 DEF HostInv, Each, Awaits
  <2>4. HostCalls!Set(c, u)
    BY <1>2, <2>1
  <2> QED BY <1>1, <1>2, <2>2, <2>3, <2>4, Working
<1>3. CASE HostCalls!Over(c, "failed") /\ UNCHANGED job
  BY <1>1, <1>3, EndsQuietly
<1> QED BY <1>2, <1>3 DEF HostCalls!Launch

\* The tool's own timeout, or a request that is given up.
LEMMA GivesUp == ASSUME HostInv, NEW c \in HostIds, HostCalls!ShellTimesOut(c) \/ HostCalls!RequestFails(c) PROVE HostInv'
<1>1. PICK state, reply : /\ state \in {"ended", "left"} /\ HostCalls!Job(c, state) /\ HostCalls!Over(c, reply)
                          /\ state # "ended" => reply \notin {"ok", "timed_out"}
  BY DEF HostCalls!ShellTimesOut, HostCalls!RequestFails
<1>2. /\ asking[c].at = "waiting" /\ HostCalls!Tool(c) \in {"shell_exec", "execute_command", "http_request"}
      /\ UNCHANGED <<host, effects, present, warned>>
  BY DEF HostCalls!ShellTimesOut, HostCalls!RequestFails
<1>3. PICK u : u = [asking[c] EXCEPT !.at = "over", !.answer = reply]
  OBVIOUS
<1>4. {"at", "attempt", "answer"} \subseteq DOMAIN u /\ u.at = "over" /\ u.attempt = asking[c].attempt /\ u.answer = reply
  BY <1>3 DEF HostInv, Called
<1>5. HostCalls!Set(c, [asking[c] EXCEPT !.at = "over", !.answer = reply])
  BY <1>1 DEF HostCalls!Over
<1>6. HostCalls!Set(c, u)
  BY <1>3, <1>5
<1> QED BY <1>1, <1>2, <1>4, <1>6, Working

\* The output of a process that has ended is collected.
LEMMA Collects == ASSUME HostInv, NEW c \in HostIds, HostCalls!Collect(c) PROVE HostInv'
<1>1. asking[c].at = "waiting" /\ job[c][asking[c].attempt] = "ended" /\ UNCHANGED <<host, job, effects, present, warned>>
  BY DEF HostCalls!Collect
<1>2. PICK u : /\ asking' = [asking EXCEPT ![c] = u] /\ asking'[c] = u
               /\ {"at", "attempt", "answer"} \subseteq DOMAIN u
               /\ u.at = "over" /\ u.attempt = asking[c].attempt /\ u.answer = "ok"
  BY Overs DEF HostCalls!Collect
<1>3. Each(c) /\ asking[c].attempt \in HostCalls!Attempts
  BY <1>1 DEF HostInv, Each, Awaits
<1>4. Each(c)'
  <2>1. HostCalls!Tool(c)' = HostCalls!Tool(c) /\ (Told(c)' <=> Told(c)) /\ HostCalls!Idempotent(HostCalls!Tool(c))' = HostCalls!Idempotent(HostCalls!Tool(c))
    BY <1>1 DEF HostCalls!Tool, Told, HostCalls!Idempotent
  <2> QED BY <1>1, <1>2, <1>3, <2>1 DEF Each, Awaits, Works, Answered
<1>5. Deletions'
  BY <1>1, SameFiles DEF HostInv
<1> QED BY <1>1, <1>2, <1>4, <1>5, OneCallMoves DEF HostInv, Called, Places

\* A search waits for its request, or fails for want of a key.
LEMMA Searches == ASSUME HostInv, NEW c \in HostIds, HostCalls!Search(c) PROVE HostInv'
<1>1. asking[c].at = "due" /\ UNCHANGED <<host, job, effects, present, warned>>
  BY DEF HostCalls!Search, HostCalls!Due
<1>2. PICK u : u = [asking[c] EXCEPT !.at = "waiting"]
  OBVIOUS
<1>3. /\ {"at", "attempt", "answer"} \subseteq DOMAIN u /\ u.at = "waiting" /\ u.attempt = asking[c].attempt
      /\ u.answer = asking[c].answer
  BY <1>2 DEF HostInv, Called
<1>4. asking' = [asking EXCEPT ![c] = u] /\ asking'[c] = u
  BY <1>2, Replaced DEF HostCalls!Search
<1>5. Each(c)'
  <2>1. Each(c)
    BY DEF HostInv
  <2>2. HostCalls!Tool(c)' = HostCalls!Tool(c) /\ (Told(c)' <=> Told(c)) /\ HostCalls!Idempotent(HostCalls!Tool(c))' = HostCalls!Idempotent(HostCalls!Tool(c))
    BY <1>1 DEF HostCalls!Tool, Told, HostCalls!Idempotent
  <2> QED BY <1>1, <1>3, <1>4, <2>1, <2>2 DEF Each, Awaits, Works, Answered
<1>6. Deletions'
  BY <1>1, SameFiles DEF HostInv
<1> QED BY <1>1, <1>3, <1>4, <1>5, <1>6, OneCallMoves DEF HostInv, Called, Places

\* The executor's timeout tries the call again, or ends it.
LEMMA Expires == ASSUME HostInv, NEW c \in HostIds, HostCalls!Expire(c) PROVE HostInv'
<1>1. asking[c].at = "waiting" /\ UNCHANGED <<host, job, effects, present, warned>>
  BY DEF HostCalls!Expire
<1>2. CASE HostCalls!Over(c, "expired")
  BY <1>1, <1>2, EndsQuietly
<1>3. CASE asking[c].attempt < 3
           /\ HostCalls!Set(c, [asking[c] EXCEPT !.at = "due", !.attempt = @ + 1, !.tries = @ + 1])
  <2>1. PICK u : u = [asking[c] EXCEPT !.at = "due", !.attempt = @ + 1, !.tries = @ + 1]
    OBVIOUS
  <2>2. /\ {"at", "attempt", "answer"} \subseteq DOMAIN u /\ u.at = "due" /\ u.attempt = asking[c].attempt + 1
        /\ u.answer = asking[c].answer
    BY <2>1 DEF HostInv, Called
  <2>3. asking' = [asking EXCEPT ![c] = u] /\ asking'[c] = u
    BY <1>3, <2>1, Replaced
  <2>4. Each(c) /\ Told(c) /\ asking[c].attempt \in HostCalls!Attempts /\ asking[c].answer = "none" /\ 3 \in Nat
    BY <1>1 DEF HostInv, Each, Awaits
  <2>5. asking[c].attempt + 1 \in HostCalls!Attempts /\ u.attempt \in 0..3
    BY <1>3, <2>2, <2>4 DEF HostCalls!Attempts
  <2>6. HostCalls!Tool(c)' = HostCalls!Tool(c) /\ (Told(c)' <=> Told(c)) /\ HostCalls!Idempotent(HostCalls!Tool(c))' = HostCalls!Idempotent(HostCalls!Tool(c))
    BY <1>1 DEF HostCalls!Tool, Told, HostCalls!Idempotent
  <2>7. job[c] \in [HostCalls!Attempts -> {"none", "running", "ended", "left"}] /\ ~(asking[c].attempt + 1 <= asking[c].attempt)
    BY <2>4 DEF HostInv, Called, HostCalls!Attempts
  <2>8. job[c][asking[c].attempt + 1] = "none" /\ <<c, asking[c].attempt + 1>> \notin effects
    BY <2>4, <2>5, <2>7 DEF Each, Works
  <2>9. \A n \in HostCalls!Attempts : n <= asking[c].attempt => n <= asking[c].attempt + 1
    BY <2>4 DEF HostCalls!Attempts
  <2>10. Awaits(c)'
    BY <1>1, <2>2, <2>3, <2>4, <2>5, <2>6, <2>8 DEF Awaits
  <2>11. Works(c)'
    BY <1>1, <2>2, <2>3, <2>4, <2>6, <2>9 DEF Each, Works
  <2>12. Answered(c)'
    BY <2>2, <2>3, <2>4 DEF Answered
  <2>13. Deletions'
    BY <1>1, SameFiles DEF HostInv
  <2> QED BY <1>1, <2>2, <2>3, <2>5, <2>10, <2>11, <2>12, <2>13, OneCallMoves DEF Each, HostInv, Called, Places
<1> QED BY <1>2, <1>3 DEF HostCalls!Expire

\* A process or a request changes something, once.
LEMMA ItHappens == ASSUME HostInv, NEW c \in HostIds, NEW n \in HostCalls!Attempts, HostCalls!Happens(c, n) PROVE HostInv'
<1>1. UNCHANGED <<host, asking, job, present, warned>> /\ effects' = effects \cup {<<c, n>>}
      /\ job[c][n] \in {"running", "left"}
  BY DEF HostCalls!Happens
<1>2. PICK e : e = <<c, n>>
  OBVIOUS
<1>3. /\ Each(c) /\ Told(c) /\ n <= asking[c].attempt
      /\ HostCalls!Tool(c) \in {"shell_exec", "execute_command", "http_request"}
  BY <1>1 DEF HostInv, Each, Works
<1>4. e[1] = c /\ HostCalls!Tool(e[1]) \notin {"write_file", "delete_file"}
  BY <1>2, <1>3
<1>5. Deletions'
  BY <1>1, <1>2, <1>4, SameFiles DEF HostInv
<1>6. Called'
  <2>1. IsFiniteSet(effects \cup {e})
    BY FS_AddElement DEF HostInv, Called
  <2>2. effects' \subseteq HostIds \X HostCalls!Attempts /\ IsFiniteSet(effects')
    BY <1>1, <1>2, <2>1 DEF HostInv, Called
  <2> QED BY <1>1, <2>2 DEF HostInv, Called
<1>7. HostCalls!Tool(c)' = HostCalls!Tool(c) /\ (Told(c)' <=> Told(c)) /\ ~HostCalls!Idempotent(HostCalls!Tool(c))'
  BY <1>1, <1>3, NotRepeatable DEF HostCalls!Tool, Told, HostCalls!Idempotent
<1>8. \A m \in HostCalls!Attempts : <<c, m>> \in effects' => <<c, m>> \in effects \/ m = n
  BY <1>1
<1>9. Each(c)'
  <2>1. Awaits(c)'
    <3>1. asking[c].at = "due" => n # asking[c].attempt
      BY <1>1, <1>3 DEF Each, Awaits
    <3> QED BY <1>1, <1>3, <1>7, <1>8, <3>1 DEF Each, Awaits
  <2>2. Works(c)'
    BY <1>1, <1>3, <1>7, <1>8 DEF Each, Works
  <2>3. Answered(c)'
    BY <1>1, <1>3, <1>7 DEF Each, Answered
  <2> QED BY <2>1, <2>2, <2>3 DEF Each
<1>10. ASSUME NEW d \in HostIds \ {c} PROVE Each(d)'
  <2>1. \A m \in HostCalls!Attempts : <<d, m>> \in effects' => <<d, m>> \in effects
    BY <1>1
  <2> QED BY <1>1, <2>1, OthersKept DEF HostInv
<1> QED BY <1>5, <1>6, <1>9, <1>10 DEF HostInv

\* A process or a request ends.
LEMMA ItEnds == ASSUME HostInv, NEW c \in HostIds, NEW n \in HostCalls!Attempts, HostCalls!Ends(c, n) PROVE HostInv'
<1>1. UNCHANGED <<host, asking, effects, present, warned>> /\ job' = [job EXCEPT ![c][n] = "ended"]
      /\ job[c][n] = "running"
  BY DEF HostCalls!Ends
<1>2. /\ job' \in [HostIds -> [HostCalls!Attempts -> {"none", "running", "ended", "left"}]]
      /\ \A d \in HostIds \ {c} : job'[d] = job[d]
      /\ job'[c][n] = "ended" /\ \A m \in HostCalls!Attempts \ {n} : job'[c][m] = job[c][m]
  BY <1>1 DEF HostInv, Called
<1>3. Each(c) /\ n <= asking[c].attempt
  BY <1>1 DEF HostInv, Each, Works
<1>4. HostCalls!Tool(c)' = HostCalls!Tool(c) /\ (Told(c)' <=> Told(c)) /\ HostCalls!Idempotent(HostCalls!Tool(c))' = HostCalls!Idempotent(HostCalls!Tool(c))
  BY <1>1 DEF HostCalls!Tool, Told, HostCalls!Idempotent
<1>5. Called'
  BY <1>1, <1>2 DEF HostInv, Called
<1>6. Each(c)'
  <2>1. Awaits(c)'
    BY <1>1, <1>2, <1>3, <1>4 DEF Each, Awaits
  <2>2. Works(c)'
    BY <1>1, <1>2, <1>3, <1>4 DEF Each, Works
  <2>3. Answered(c)'
    BY <1>1, <1>2, <1>3, <1>4 DEF Each, Answered
  <2> QED BY <2>1, <2>2, <2>3 DEF Each
<1>7. \A d \in HostIds \ {c} : Each(d)'
  BY <1>1, <1>2, OthersKept DEF HostInv
<1>8. Deletions'
  BY <1>1, SameFiles DEF HostInv
<1> QED BY <1>5, <1>6, <1>7, <1>8 DEF HostInv

\* The run crashes: its processes are left, and its calls may begin again.
LEMMA Crashes == ASSUME HostInv, HostCalls!Crash PROVE HostInv'
<1>1. UNCHANGED <<host, effects, present, warned>>
  BY DEF HostCalls!Crash
<1>2. PICK again \in SUBSET {c \in HostIds : asking[c].at = "over"} :
          asking' = [c \in HostIds |-> IF c \in again \/ asking[c].at \in {"due", "waiting"}
                                   THEN [asking[c] EXCEPT !.at = "new", !.answer = "none"] ELSE asking[c]]
  BY DEF HostCalls!Crash
<1>3. job' = [c \in HostIds |-> [n \in HostCalls!Attempts |->
                   IF HostCalls!Tool(c) = "http_request" /\ job[c][n] = "running" THEN "left" ELSE job[c][n]]]
  BY DEF HostCalls!Crash
<1>4. ASSUME NEW c \in HostIds
      PROVE  /\ {"at", "attempt", "answer"} \subseteq DOMAIN asking'[c] /\ asking'[c].attempt = asking[c].attempt
             /\ \/ asking'[c].at = "new" /\ asking'[c].answer = "none"
                \/ asking'[c] = asking[c] /\ asking[c].at \notin {"due", "waiting"}
  <2>1. {"at", "attempt", "answer"} \subseteq DOMAIN asking[c]
    BY DEF HostInv, Called
  <2>2. CASE c \in again \/ asking[c].at \in {"due", "waiting"}
    <3>1. PICK u : u = [asking[c] EXCEPT !.at = "new", !.answer = "none"]
      OBVIOUS
    <3>2. asking'[c] = u
      BY <1>2, <2>2, <3>1
    <3>3. {"at", "attempt", "answer"} \subseteq DOMAIN u /\ u.attempt = asking[c].attempt /\ u.at = "new" /\ u.answer = "none"
      BY <2>1, <3>1
    <3> QED BY <3>2, <3>3
  <2>3. CASE ~(c \in again \/ asking[c].at \in {"due", "waiting"})
    BY <1>2, <2>1, <2>3
  <2> QED BY <2>2, <2>3
<1>5. ASSUME NEW c \in HostIds, NEW n \in HostCalls!Attempts
      PROVE  /\ job'[c][n] \in {"none", "running", "ended", "left"}
             /\ job'[c][n] = "none" <=> job[c][n] = "none"
             /\ job'[c][n] = "ended" <=> job[c][n] = "ended"
             /\ job'[c][n] \in {"running", "left"} <=> job[c][n] \in {"running", "left"}
  BY <1>3 DEF HostInv, Called
<1>6. job' \in [HostIds -> [HostCalls!Attempts -> {"none", "running", "ended", "left"}]]
  BY <1>3 DEF HostInv, Called
<1>7. asking' = [c \in HostIds |-> asking'[c]]
  BY <1>2
<1>8. Called'
  BY <1>1, <1>4, <1>6, <1>7 DEF HostInv, Called, Places
<1>9. ASSUME NEW c \in HostIds PROVE Each(c)'
  <2>1. Each(c)
    BY DEF HostInv
  <2>2. HostCalls!Tool(c)' = HostCalls!Tool(c) /\ (Told(c)' <=> Told(c)) /\ HostCalls!Idempotent(HostCalls!Tool(c))' = HostCalls!Idempotent(HostCalls!Tool(c))
    BY <1>1 DEF HostCalls!Tool, Told, HostCalls!Idempotent
  <2>3. Awaits(c)'
    BY <1>4 DEF Awaits
  <2>4. Works(c)'
    BY <1>1, <1>4, <1>5, <2>1, <2>2 DEF Each, Works
  <2>5. Answered(c)'
    BY <1>4, <1>5, <2>1, <2>2 DEF Each, Answered
  <2> QED BY <2>3, <2>4, <2>5 DEF Each
<1>10. Deletions'
  BY <1>1, SameFiles DEF HostInv
<1> QED BY <1>8, <1>9, <1>10 DEF HostInv

\* Other parts leave the host's calls as they are.
LEMMA HostStutters == ASSUME HostInv, UNCHANGED HostCalls!vars PROVE HostInv'
<1>1. UNCHANGED <<host, asking, job, effects, present, warned>>
  BY DEF HostCalls!vars
<1>2. \A c \in HostIds : Each(c)'
  BY <1>1, OthersKept DEF HostInv
<1>3. Called' /\ Deletions'
  BY <1>1, SameFiles DEF HostInv, Called
<1> QED BY <1>2, <1>3 DEF HostInv

\* The invariant of the host's calls is kept by each of their steps.
LEMMA HostSteps == ASSUME HostInv, [HostCalls!Next]_(HostCalls!vars) PROVE HostInv'
<1>1. ASSUME NEW c \in HostIds,
             \/ HostCalls!Begin(c) \/ HostCalls!WriteFile(c) \/ HostCalls!DeleteFile(c) \/ HostCalls!ReadFile(c) \/ HostCalls!SetEnv(c)
             \/ HostCalls!Launch(c) \/ HostCalls!Search(c) \/ HostCalls!Found(c) \/ HostCalls!Collect(c)
             \/ HostCalls!ShellTimesOut(c) \/ HostCalls!CommandTimesOut(c) \/ HostCalls!RequestFails(c) \/ HostCalls!Expire(c) \/ HostCalls!Cancel(c)
      PROVE  HostInv'
  BY <1>1, Begins, WritesAFile, DeletesAFile, SetsEnv, EndsWithout, Launches, GivesUp, Collects, Searches, Expires
<1>2. ASSUME NEW c \in HostIds, NEW n \in HostCalls!Attempts, HostCalls!Happens(c, n) \/ HostCalls!Ends(c, n) PROVE HostInv'
  BY <1>2, ItHappens, ItEnds
<1> QED BY <1>1, <1>2, Crashes, HostStutters DEF HostCalls!Next

\* Cardinality is the same operator in HostTools.
LEMMA SameCardinality == ASSUME NEW S PROVE HostCalls!Cardinality(S) = Cardinality(S)
  BY DEF HostCalls!Cardinality, Cardinality

\* It says that the host's tools are faithful.
LEMMA HostHolds == ASSUME HostInv PROVE HostCalls!HostFaithful
<1>1. HostCalls!RepeatedIsWarned
  <2> SUFFICES ASSUME host.durable, NEW c \in HostIds, Cardinality({e \in effects : e[1] = c}) > 1
               PROVE  HostCalls!Tool(c) \in warned
    BY SameCardinality DEF HostCalls!RepeatedIsWarned
  <2>1. {e \in effects : e[1] = c} # {}
    BY FS_EmptySet
  <2>2. PICK n \in HostCalls!Attempts : <<c, n>> \in effects
    <3>1. PICK e \in effects : e[1] = c
      BY <2>1
    <3>2. PICK d \in HostIds, n \in HostCalls!Attempts : e = <<d, n>>
      BY <3>1 DEF HostInv, Called
    <3> QED BY <3>1, <3>2
  <2> QED BY <2>2 DEF HostInv, Each, Works, Told
<1>2. HostCalls!AnsweredIsOver
  BY DEF HostInv, Each, Answered, HostCalls!AnsweredIsOver
<1>3. HostCalls!DeletedOnce
  <2>1. Cardinality(HostCalls!Of("delete_file")) \in Nat /\ Cardinality(HostCalls!Of("write_file")) \in Nat
    BY Counted
  <2>2. /\ HostCalls!Cardinality(HostCalls!Of("delete_file")) = Cardinality(HostCalls!Of("delete_file"))
        /\ HostCalls!Cardinality(HostCalls!Of("write_file")) = Cardinality(HostCalls!Of("write_file"))
    BY SameCardinality
  <2> QED BY <2>1, <2>2 DEF HostInv, Deletions, HostCalls!DeletedOnce
<1> QED BY <1>1, <1>2, <1>3 DEF HostCalls!HostFaithful
-----------------------------------------------------------------------------
(***************************************************************************)
(* The memories.  A preference is somewhere, and in one place unless a     *)
(* write of it failed half-way; a buffer holds the newest of the runs that *)
(* were written back to it.                                                *)
(***************************************************************************)
\* A sequence has p, or has it once at most.
Has(s, p) == \E i \in DOMAIN s : s[i] = p
Once(s, p) == \A i, j \in DOMAIN s : s[i] = p /\ s[j] = p => i = j

\* What was queued is somewhere, nothing else is anywhere, and what no failed
\* write has torn is in one place.
Somewhere(p) == Has(pending, p) \/ Has(file, p) \/ Has(remote, p) \/ Has(fallback, p)
OnePlace(p) ==
    /\ Once(pending, p) /\ Once(file, p) /\ Once(remote, p) /\ Once(fallback, p)
    /\ ~(Has(pending, p) /\ Has(file, p)) /\ ~(Has(pending, p) /\ Has(remote, p))
    /\ ~(Has(pending, p) /\ Has(fallback, p)) /\ ~(Has(file, p) /\ Has(remote, p))
    /\ ~(Has(file, p) /\ Has(fallback, p)) /\ ~(Has(remote, p) /\ Has(fallback, p))
StoreInv ==
    /\ pending \in Seq(Preferences) /\ file \in Seq(Preferences) /\ remote \in Seq(Preferences) /\ fallback \in Seq(Preferences)
    /\ \A p : p \in queued => Somewhere(p) \/ p \in lost
    /\ \A p : Somewhere(p) => p \in queued
    /\ \A p : p \notin torn => OnePlace(p)
    /\ torn = {} => index = Len(file)

\* Where a run is, and how far down it was written back.
RunInv ==
    /\ chain \in Chains /\ reached \in Seq(Nat) /\ buffers \in [StateKeys -> Seq(Nat)]
    /\ {"n", "at", "i"} \subseteq DOMAIN turn /\ turn.n = Len(reached) /\ turn.i \in Nat
    /\ turn.at \in {"injecting", "executing", "writing"} => turn.n >= 1
    /\ turn.at \in {"injecting", "executing"} => reached[turn.n] = Len(chain) + 1
    /\ turn.at = "writing" => turn.i <= Len(chain) /\ reached[turn.n] = turn.i + 1
    /\ Memories!BuffersWhole

MemoryInv == StoreInv /\ RunInv

\* What a sequence made of two has, and what it has once.
LEMMA ConcatHas ==
    ASSUME NEW S, NEW s \in Seq(S), NEW t \in Seq(S), NEW p
    PROVE  /\ s \o t \in Seq(S) /\ Len(s \o t) = Len(s) + Len(t)
           /\ Has(s \o t, p) <=> Has(s, p) \/ Has(t, p)
           /\ Once(s \o t, p) <=> Once(s, p) /\ Once(t, p) /\ ~(Has(s, p) /\ Has(t, p))
<1>n. PICK u, m, n : u = s \o t /\ m = Len(s) /\ n = Len(t)
  OBVIOUS
<1>1. /\ u \in Seq(S) /\ Len(u) = m + n /\ m \in Nat /\ n \in Nat
      /\ DOMAIN u = 1..(m + n) /\ DOMAIN s = 1..m /\ DOMAIN t = 1..n
  BY <1>n, ConcatProperties
<1>2. /\ \A i \in 1..m : u[i] = s[i]
      /\ \A i \in 1..n : u[m + i] = t[i]
  <2>1. \A i \in 1..Len(u) : u[i] = IF i <= m THEN s[i] ELSE t[i - m]
    BY <1>n, ConcatProperties
  <2>2. ASSUME NEW i \in 1..n PROVE u[m + i] = t[i]
    <3>1. m + i \in 1..Len(u) /\ ~(m + i <= m) /\ (m + i) - m = i
      BY <1>1
    <3> QED BY <2>1, <3>1
  <2> QED BY <1>1, <2>1, <2>2
<1>3. \A k \in DOMAIN u : k \in 1..m \/ \E i \in 1..n : k = m + i
  <2> SUFFICES ASSUME NEW k \in 1..(m + n), ~(k \in 1..m) PROVE \E i \in 1..n : k = m + i
    BY <1>1
  <2>1. k - m \in 1..n /\ k = m + (k - m)
    BY <1>1
  <2> QED BY <2>1
<1>4. Has(u, p) <=> Has(s, p) \/ Has(t, p)
  <2>1. ASSUME Has(u, p) PROVE Has(s, p) \/ Has(t, p)
    <3>1. PICK k \in DOMAIN u : u[k] = p
      BY <2>1 DEF Has
    <3> QED BY <3>1, <1>1, <1>2, <1>3 DEF Has
  <2>2. ASSUME Has(s, p) PROVE Has(u, p)
    <3>1. PICK k \in 1..m : s[k] = p
      BY <2>2, <1>1 DEF Has
    <3>2. k \in DOMAIN u
      BY <1>1
    <3> QED BY <3>1, <3>2, <1>2 DEF Has
  <2>3. ASSUME Has(t, p) PROVE Has(u, p)
    <3>1. PICK k \in 1..n : t[k] = p
      BY <2>3, <1>1 DEF Has
    <3>2. m + k \in DOMAIN u
      BY <1>1
    <3> QED BY <3>1, <3>2, <1>2 DEF Has
  <2> QED BY <2>1, <2>2, <2>3
<1>5. ASSUME Once(u, p) PROVE Once(s, p) /\ Once(t, p) /\ ~(Has(s, p) /\ Has(t, p))
  <2>1. ASSUME NEW i \in 1..m, NEW j \in 1..m, s[i] = p, s[j] = p PROVE i = j
    <3>1. i \in DOMAIN u /\ j \in DOMAIN u
      BY <1>1
    <3> QED BY <2>1, <3>1, <1>2, <1>5 DEF Once
  <2>2. ASSUME NEW i \in 1..n, NEW j \in 1..n, t[i] = p, t[j] = p PROVE i = j
    <3>1. m + i \in DOMAIN u /\ m + j \in DOMAIN u
      BY <1>1
    <3>2. m + i = m + j
      BY <2>2, <3>1, <1>2, <1>5 DEF Once
    <3> QED BY <3>2, <1>1
  <2>3. ASSUME NEW i \in 1..m, NEW j \in 1..n, s[i] = p, t[j] = p PROVE FALSE
    <3>1. i \in DOMAIN u /\ m + j \in DOMAIN u /\ i # m + j
      BY <1>1
    <3> QED BY <2>3, <3>1, <1>2, <1>5 DEF Once
  <2> QED BY <2>1, <2>2, <2>3, <1>1 DEF Once, Has
<1>6. ASSUME Once(s, p), Once(t, p), ~(Has(s, p) /\ Has(t, p)) PROVE Once(u, p)
  <2> SUFFICES ASSUME NEW i \in DOMAIN u, NEW j \in DOMAIN u, u[i] = p, u[j] = p PROVE i = j
    BY DEF Once
  <2>1. CASE i \in 1..m /\ j \in 1..m
    BY <2>1, <1>1, <1>2, <1>6 DEF Once
  <2>2. CASE i \in 1..m /\ j \notin 1..m
    <3>1. PICK b \in 1..n : j = m + b
      BY <2>2, <1>3
    <3> QED BY <2>2, <3>1, <1>1, <1>2, <1>6 DEF Has
  <2>3. CASE i \notin 1..m /\ j \in 1..m
    <3>1. PICK b \in 1..n : i = m + b
      BY <2>3, <1>3
    <3> QED BY <2>3, <3>1, <1>1, <1>2, <1>6 DEF Has
  <2>4. CASE i \notin 1..m /\ j \notin 1..m
    <3>1. PICK a \in 1..n, b \in 1..n : i = m + a /\ j = m + b
      BY <2>4, <1>3
    <3> QED BY <3>1, <1>1, <1>2, <1>6 DEF Once
  <2> QED BY <2>1, <2>2, <2>3, <2>4
<1> QED BY <1>n, <1>1, <1>4, <1>5, <1>6

\* The empty sequence has nothing.
LEMMA EmptyHas == \A p : ~Has(<<>>, p) /\ Once(<<>>, p)
  BY DEF Has, Once

\* A part of a sequence has nothing that the whole has not, or oftener.
LEMMA PartHas ==
    ASSUME NEW S, NEW s \in Seq(S), NEW m \in 1..(Len(s) + 1), NEW n \in 0..Len(s), NEW p
    PROVE  /\ SubSeq(s, m, n) \in Seq(S)
           /\ Len(SubSeq(s, m, n)) = IF m <= n THEN n - m + 1 ELSE 0
           /\ Has(SubSeq(s, m, n), p) <=> \E i \in m..n : s[i] = p
           /\ Once(s, p) => Once(SubSeq(s, m, n), p)
<1>1. PICK u : u = SubSeq(s, m, n)
  OBVIOUS
<1>2. Len(s) \in Nat /\ DOMAIN s = 1..Len(s)
  OBVIOUS
<1>3. u \in Seq(S) /\ Len(u) = (IF m <= n THEN n - m + 1 ELSE 0) /\ \A i \in 1..n - m + 1 : u[i] = s[m + i - 1]
  <2>1. \A i \in m..n : s[i] \in S
    BY <1>2
  <2> QED BY <1>1, <1>2, <2>1, SubSeqProperties
<1>4. DOMAIN u = 1..(n - m + 1)
  BY <1>2, <1>3
<1>5. Has(u, p) <=> \E i \in m..n : s[i] = p
  <2>1. ASSUME Has(u, p) PROVE \E i \in m..n : s[i] = p
    <3>1. PICK k \in 1..(n - m + 1) : u[k] = p
      BY <2>1, <1>4 DEF Has
    <3>2. m + k - 1 \in m..n
      OBVIOUS
    <3> QED BY <3>1, <3>2, <1>3
  <2>2. ASSUME NEW i \in m..n, s[i] = p PROVE Has(u, p)
    <3>1. PICK k : k = i - m + 1
      OBVIOUS
    <3>2. k \in 1..(n - m + 1) /\ m + k - 1 = i
      BY <3>1
    <3> QED BY <2>2, <3>2, <1>3, <1>4 DEF Has
  <2> QED BY <2>1, <2>2
<1>6. ASSUME Once(s, p) PROVE Once(u, p)
  <2> SUFFICES ASSUME NEW i \in 1..(n - m + 1), NEW j \in 1..(n - m + 1), u[i] = p, u[j] = p PROVE i = j
    BY <1>4 DEF Once
  <2>1. m + i - 1 \in DOMAIN s /\ m + j - 1 \in DOMAIN s
    BY <1>2
  <2>2. m + i - 1 = m + j - 1
    BY <2>1, <1>3, <1>6 DEF Once
  <2> QED BY <2>2
<1> QED BY <1>1, <1>3, <1>5, <1>6

\* One entry less.
LEMMA RemovedHas ==
    ASSUME NEW S, NEW s \in Seq(S), NEW i \in DOMAIN s, NEW p
    PROVE  /\ Memories!RemoveAt(s, i) \in Seq(S) /\ Len(Memories!RemoveAt(s, i)) = Len(s) - 1
           /\ Has(Memories!RemoveAt(s, i), p) => Has(s, p)
           /\ Has(s, p) /\ p # s[i] => Has(Memories!RemoveAt(s, i), p)
           /\ Once(s, p) => Once(Memories!RemoveAt(s, i), p)
<1>1. Len(s) \in Nat /\ i \in 1..Len(s) /\ DOMAIN s = 1..Len(s)
  OBVIOUS
<1>2. PICK b, a : b = SubSeq(s, 1, i - 1) /\ a = SubSeq(s, i + 1, Len(s))
  OBVIOUS
<1>3. /\ b \in Seq(S) /\ Len(b) = i - 1
      /\ Has(b, p) <=> \E k \in 1..(i - 1) : s[k] = p
      /\ Once(s, p) => Once(b, p)
  <2>1. 1 \in 1..(Len(s) + 1) /\ i - 1 \in 0..Len(s) /\ (IF 1 <= i - 1 THEN (i - 1) - 1 + 1 ELSE 0) = i - 1
    BY <1>1
  <2> QED BY <1>2, <2>1, PartHas
<1>4. /\ a \in Seq(S) /\ Len(a) = Len(s) - i
      /\ Has(a, p) <=> \E k \in (i + 1)..Len(s) : s[k] = p
      /\ Once(s, p) => Once(a, p)
  <2>1. i + 1 \in 1..(Len(s) + 1) /\ Len(s) \in 0..Len(s)
        /\ (IF i + 1 <= Len(s) THEN Len(s) - (i + 1) + 1 ELSE 0) = Len(s) - i
    BY <1>1
  <2>2. PICK m, n : m = i + 1 /\ n = Len(s)
    OBVIOUS
  <2>3. m \in 1..(Len(s) + 1) /\ n \in 0..Len(s)
    BY <2>1, <2>2
  <2>4. /\ SubSeq(s, m, n) \in Seq(S) /\ Len(SubSeq(s, m, n)) = (IF m <= n THEN n - m + 1 ELSE 0)
        /\ Has(SubSeq(s, m, n), p) <=> \E k \in m..n : s[k] = p
        /\ Once(s, p) => Once(SubSeq(s, m, n), p)
    BY <2>3, PartHas
  <2>5. a = SubSeq(s, m, n)
    BY <1>2, <2>2
  <2> QED BY <2>1, <2>2, <2>4, <2>5
<1>5. Memories!RemoveAt(s, i) = b \o a
  BY <1>2 DEF Memories!RemoveAt
<1>6. /\ b \o a \in Seq(S) /\ Len(b \o a) = Len(b) + Len(a)
      /\ Has(b \o a, p) <=> Has(b, p) \/ Has(a, p)
      /\ Once(b \o a, p) <=> Once(b, p) /\ Once(a, p) /\ ~(Has(b, p) /\ Has(a, p))
  BY <1>3, <1>4, ConcatHas
<1>7. Has(b, p) \/ Has(a, p) => Has(s, p)
  <2>1. \A k : k \in 1..(i - 1) \/ k \in (i + 1)..Len(s) => k \in DOMAIN s
    BY <1>1
  <2>2. \A k \in DOMAIN s : s[k] = p => Has(s, p)
    BY DEF Has
  <2> QED BY <1>3, <1>4, <2>1, <2>2
<1>8. Has(s, p) /\ p # s[i] => Has(b, p) \/ Has(a, p)
  <2> SUFFICES ASSUME NEW k \in 1..Len(s), s[k] = p, k # i PROVE Has(b, p) \/ Has(a, p)
    BY <1>1 DEF Has
  <2>1. k \in 1..(i - 1) \/ k \in (i + 1)..Len(s)
    BY <1>1
  <2> QED BY <2>1, <1>3, <1>4
<1>9. Once(s, p) => ~(Has(b, p) /\ Has(a, p))
  <2> SUFFICES ASSUME Once(s, p), NEW j \in 1..(i - 1), NEW k \in (i + 1)..Len(s), s[j] = p, s[k] = p PROVE FALSE
    BY <1>3, <1>4
  <2>1. j \in DOMAIN s /\ k \in DOMAIN s /\ j # k
    BY <1>1
  <2> QED BY <2>1 DEF Once
<1>10. Len(b) + Len(a) = Len(s) - 1
  BY <1>1, <1>3, <1>4
<1> QED BY <1>3, <1>4, <1>5, <1>6, <1>7, <1>8, <1>9, <1>10

\* What these say of the next state.
LEMMA NextPlaces ==
    ASSUME NEW p
    PROVE  Somewhere(p)' <=> Has(pending', p) \/ Has(file', p) \/ Has(remote', p) \/ Has(fallback', p)
  BY DEF Somewhere, Has

\* At first nothing was to be remembered.
LEMMA StoresStart == ASSUME Memories!Init PROVE StoreInv
<1>1. pending = <<>> /\ file = <<>> /\ remote = <<>> /\ fallback = <<>> /\ queued = {} /\ index = 0
  BY DEF Memories!Init
<1>2. <<>> \in Seq(Preferences) /\ Len(<<>>) = 0
  OBVIOUS
<1> QED BY <1>1, <1>2, EmptyHas DEF StoreInv, Somewhere, OnePlace

\* What was to be remembered is not touched.
LEMMA StoresStay ==
    ASSUME StoreInv, UNCHANGED <<pending, file, remote, fallback, queued, index, lost, torn>>
    PROVE  StoreInv'
  BY DEF StoreInv, Somewhere, OnePlace

\* A preference is queued.
LEMMA Remembers == ASSUME StoreInv, NEW p \in Preferences, Memories!Remember(p) PROVE StoreInv'
<1>1. /\ p \notin queued /\ pending' = Append(pending, p) /\ queued' = queued \cup {p}
      /\ UNCHANGED <<file, remote, fallback, index, lost, torn>>
  BY DEF Memories!Remember, Memories!stores, Memories!fates
<1>2. pending \in Seq(Preferences) /\ <<p>> \in Seq(Preferences) /\ pending' = pending \o <<p>>
  BY <1>1 DEF StoreInv
<1>3. ~Somewhere(p)
  BY <1>1 DEF StoreInv
<1>4. \A q : (Has(<<p>>, q) <=> q = p) /\ Once(<<p>>, q)
  BY DEF Has, Once
<1>5. /\ pending' \in Seq(Preferences)
      /\ \A q : /\ Has(pending', q) <=> Has(pending, q) \/ q = p
                /\ Once(pending', q) <=> Once(pending, q) /\ ~(Has(pending, q) /\ q = p)
  BY <1>2, <1>4, ConcatHas
<1>6. \A q : q \in queued' => Somewhere(q)' \/ q \in lost'
  <2> SUFFICES ASSUME NEW q, q \in queued' PROVE Somewhere(q)' \/ q \in lost'
    OBVIOUS
  <2>1. q \in queued => Has(pending, q) \/ Has(file, q) \/ Has(remote, q) \/ Has(fallback, q) \/ q \in lost
    BY DEF StoreInv, Somewhere
  <2> QED BY <1>1, <1>5, <2>1, NextPlaces
<1>7. \A q : Somewhere(q)' => q \in queued'
  <2> SUFFICES ASSUME NEW q, Somewhere(q)' PROVE q \in queued'
    OBVIOUS
  <2>1. Has(pending, q) \/ Has(file, q) \/ Has(remote, q) \/ Has(fallback, q) => q \in queued
    BY DEF StoreInv, Somewhere
  <2> QED BY <1>1, <1>5, <2>1, NextPlaces
<1>8. \A q : q \notin torn' => OnePlace(q)'
  <2> SUFFICES ASSUME NEW q, q \notin torn' PROVE OnePlace(q)'
    OBVIOUS
  <2>1. OnePlace(q)
    BY <1>1 DEF StoreInv
  <2>2. q = p => ~Has(pending, q) /\ ~Has(file, q) /\ ~Has(remote, q) /\ ~Has(fallback, q)
    BY <1>3 DEF Somewhere
  <2> QED BY <1>1, <1>5, <2>1, <2>2 DEF OnePlace
<1> QED BY <1>1, <1>5, <1>6, <1>7, <1>8 DEF StoreInv

\* Markdown writes what is pending, whole or torn.
LEMMA WritesMarkdown == ASSUME StoreInv, NEW n, NEW at_index \in BOOLEAN, Memories!WriteMarkdown(n, at_index), queued' = queued
                        PROVE StoreInv'
<1>1. /\ pending \in Seq(Preferences) /\ file \in Seq(Preferences) /\ Len(pending) \in Nat /\ Len(file) \in Nat
      /\ UNCHANGED <<remote, fallback, lost, queued>>
  BY DEF StoreInv, Memories!WriteMarkdown
<1>2. n \in 0..Len(pending) /\ (at_index => n # Len(pending))
  BY DEF Memories!WriteMarkdown
<1>3. PICK w : w = IF at_index THEN n + 1 ELSE n
  OBVIOUS
<1>4. w \in 0..Len(pending) /\ (w = 0 => n = 0)
  BY <1>1, <1>2, <1>3
<1>5. PICK u : u = SubSeq(pending, 1, w)
  OBVIOUS
<1>6. file' = file \o u /\ index' = (IF n = 0 THEN index ELSE Len(file) + n)
  BY <1>3, <1>5 DEF Memories!WriteMarkdown
<1>7. 1 \in 1..(Len(pending) + 1)
  BY <1>1
<1>8. /\ u \in Seq(Preferences) /\ Len(u) = w
      /\ \A p : (Has(u, p) => Has(pending, p)) /\ (Once(pending, p) => Once(u, p))
  <2>1. /\ SubSeq(pending, 1, w) \in Seq(Preferences)
        /\ Len(SubSeq(pending, 1, w)) = IF 1 <= w THEN w - 1 + 1 ELSE 0
    BY <1>1, <1>4, <1>7, PartHas
  <2>2. ASSUME NEW p PROVE (Has(u, p) => Has(pending, p)) /\ (Once(pending, p) => Once(u, p))
    <3>1. /\ Has(u, p) <=> \E i \in 1..w : pending[i] = p
          /\ Once(pending, p) => Once(u, p)
      BY <1>1, <1>4, <1>5, <1>7, PartHas
    <3>2. \A i \in 1..w : i \in DOMAIN pending
      BY <1>1, <1>4
    <3> QED BY <3>1, <3>2 DEF Has
  <2>3. (IF 1 <= w THEN w - 1 + 1 ELSE 0) = w
    BY <1>4
  <2> QED BY <1>5, <2>1, <2>2, <2>3
<1>9. /\ file' \in Seq(Preferences) /\ Len(file') = Len(file) + w
      /\ \A p : /\ Has(file', p) <=> Has(file, p) \/ Has(u, p)
                /\ Once(file', p) <=> Once(file, p) /\ Once(u, p) /\ ~(Has(file, p) /\ Has(u, p))
  <2>1. file \o u \in Seq(Preferences) /\ Len(file \o u) = Len(file) + Len(u)
    BY <1>1, <1>8, ConcatHas
  <2>2. ASSUME NEW p
        PROVE  /\ Has(file \o u, p) <=> Has(file, p) \/ Has(u, p)
               /\ Once(file \o u, p) <=> Once(file, p) /\ Once(u, p) /\ ~(Has(file, p) /\ Has(u, p))
    BY <1>1, <1>8, ConcatHas
  <2>3. PICK g : g = file \o u
    OBVIOUS
  <2>4. file' = g
    BY <1>6, <2>3
  <2> QED BY <1>8, <2>1, <2>2, <2>3, <2>4
<1>10. CASE n = Len(pending)
  <2>1. pending' = <<>> /\ torn' = torn /\ w = n
    BY <1>2, <1>3, <1>10 DEF Memories!WriteMarkdown, Memories!Drained
  <2>2. u = pending
    <3>1. pending = SubSeq(pending, 1, Len(pending))
      BY <1>1, SubSeqFull
    <3> QED BY <1>5, <1>10, <2>1, <3>1
  <2>3. torn' = {} => index' = Len(file')
    <3> SUFFICES ASSUME torn' = {} PROVE index' = Len(file')
      OBVIOUS
    <3>1. index = Len(file) /\ Len(file) \in Nat
      BY <1>1, <2>1 DEF StoreInv
    <3>2. Len(file') = Len(file) + n
      BY <1>9, <2>1
    <3>3. index' = IF n = 0 THEN index ELSE Len(file) + n
      BY <1>6
    <3> QED BY <3>1, <3>2, <3>3
  <2>4. \A p : p \in queued' => Somewhere(p)' \/ p \in lost'
    <3> SUFFICES ASSUME NEW p, p \in queued' PROVE Somewhere(p)' \/ p \in lost'
      OBVIOUS
    <3>1. p \in queued => Has(pending, p) \/ Has(file, p) \/ Has(remote, p) \/ Has(fallback, p) \/ p \in lost
      BY DEF StoreInv, Somewhere
    <3> QED BY <1>1, <1>9, <2>1, <2>2, <3>1, NextPlaces
  <2>5. \A p : Somewhere(p)' => p \in queued'
    <3> SUFFICES ASSUME NEW p, Somewhere(p)' PROVE p \in queued'
      OBVIOUS
    <3>1. Has(pending, p) \/ Has(file, p) \/ Has(remote, p) \/ Has(fallback, p) => p \in queued
      BY DEF StoreInv, Somewhere
    <3> QED BY <1>1, <1>9, <2>1, <2>2, EmptyHas, <3>1, NextPlaces
  <2>6. \A p : p \notin torn' => OnePlace(p)'
    <3> SUFFICES ASSUME NEW p, p \notin torn' PROVE OnePlace(p)'
      OBVIOUS
    <3>1. OnePlace(p)
      BY <2>1 DEF StoreInv
    <3>2. ~Has(pending', p) /\ Once(pending', p)
      BY <2>1, EmptyHas
    <3> QED BY <1>1, <1>9, <2>2, <3>1, <3>2 DEF OnePlace
  <2>7. pending' \in Seq(Preferences)
    BY <2>1
  <2> QED BY <1>1, <1>9, <2>3, <2>4, <2>5, <2>6, <2>7 DEF StoreInv
<1>11. CASE n # Len(pending)
  <2>1. pending' = pending /\ torn' = torn \cup Memories!ToSet(u)
    BY <1>3, <1>5, <1>11 DEF Memories!WriteMarkdown, Memories!Drained
  <2>2. torn' = {} => index' = Len(file')
    <3> SUFFICES ASSUME torn' = {} PROVE index' = Len(file')
      OBVIOUS
    <3>1. torn = {} /\ Memories!ToSet(u) = {}
      BY <2>1
    <3>2. w = 0
      <4>1. w # 0 => 1 \in DOMAIN u
        BY <1>4, <1>8
      <4> QED BY <3>1, <4>1 DEF Memories!ToSet
    <3> QED BY <1>1, <1>4, <1>6, <1>9, <3>1, <3>2 DEF StoreInv
  <2>3. \A p : p \notin torn' => p \notin torn /\ ~Has(u, p)
    BY <2>1 DEF Memories!ToSet, Has
  <2>4. \A p : p \in queued' => Somewhere(p)' \/ p \in lost'
    <3> SUFFICES ASSUME NEW p, p \in queued' PROVE Somewhere(p)' \/ p \in lost'
      OBVIOUS
    <3>1. p \in queued => Has(pending, p) \/ Has(file, p) \/ Has(remote, p) \/ Has(fallback, p) \/ p \in lost
      BY DEF StoreInv, Somewhere
    <3> QED BY <1>1, <1>9, <2>1, <3>1, NextPlaces
  <2>5. \A p : Somewhere(p)' => p \in queued'
    <3> SUFFICES ASSUME NEW p, Somewhere(p)' PROVE p \in queued'
      OBVIOUS
    <3>1. Has(pending, p) \/ Has(file, p) \/ Has(remote, p) \/ Has(fallback, p) => p \in queued
      BY DEF StoreInv, Somewhere
    <3> QED BY <1>1, <1>8, <1>9, <2>1, <3>1, NextPlaces
  <2>6. \A p : p \notin torn' => OnePlace(p)'
    <3> SUFFICES ASSUME NEW p, p \notin torn' PROVE OnePlace(p)'
      OBVIOUS
    <3>1. OnePlace(p) /\ ~Has(u, p)
      BY <2>3 DEF StoreInv
    <3> QED BY <1>1, <1>8, <1>9, <2>1, <3>1 DEF OnePlace
  <2> QED BY <1>1, <1>9, <2>1, <2>2, <2>4, <2>5, <2>6 DEF StoreInv
<1> QED BY <1>10, <1>11

\* Zep writes what is pending, or its fallback does.
LEMMA WritesZep ==
    ASSUME StoreInv, NEW up \in BOOLEAN, NEW late \in BOOLEAN, Memories!WriteZep(up, late), queued' = queued
    PROVE  StoreInv'
<1>1. /\ pending \in Seq(Preferences) /\ remote \in Seq(Preferences) /\ fallback \in Seq(Preferences)
      /\ pending' = <<>> /\ UNCHANGED <<file, index, lost, queued>>
  BY DEF StoreInv, Memories!WriteZep
<1>2. /\ remote' = IF up THEN remote \o pending ELSE remote
      /\ fallback' = IF ~up \/ late THEN fallback \o pending ELSE fallback
      /\ torn' = IF late THEN torn \cup Memories!ToSet(pending) ELSE torn
  BY DEF Memories!WriteZep
<1>3. PICK r, f : r = remote \o pending /\ f = fallback \o pending
  OBVIOUS
<1>4. /\ r \in Seq(Preferences) /\ f \in Seq(Preferences)
      /\ \A p : Has(r, p) <=> Has(remote, p) \/ Has(pending, p)
      /\ \A p : Has(f, p) <=> Has(fallback, p) \/ Has(pending, p)
      /\ \A p : Once(r, p) <=> Once(remote, p) /\ Once(pending, p) /\ ~(Has(remote, p) /\ Has(pending, p))
      /\ \A p : Once(f, p) <=> Once(fallback, p) /\ Once(pending, p) /\ ~(Has(fallback, p) /\ Has(pending, p))
  <2>1. r \in Seq(Preferences) /\ f \in Seq(Preferences)
    BY <1>1, <1>3, ConcatHas
  <2>2. ASSUME NEW p
        PROVE  /\ Has(r, p) <=> Has(remote, p) \/ Has(pending, p)
               /\ Once(r, p) <=> Once(remote, p) /\ Once(pending, p) /\ ~(Has(remote, p) /\ Has(pending, p))
    BY <1>1, <1>3, ConcatHas
  <2>3. ASSUME NEW p
        PROVE  /\ Has(f, p) <=> Has(fallback, p) \/ Has(pending, p)
               /\ Once(f, p) <=> Once(fallback, p) /\ Once(pending, p) /\ ~(Has(fallback, p) /\ Has(pending, p))
    BY <1>1, <1>3, ConcatHas
  <2> QED BY <2>1, <2>2, <2>3
<1>5. /\ remote' = (IF up THEN r ELSE remote) /\ fallback' = (IF ~up \/ late THEN f ELSE fallback)
      /\ ~up \/ ~(~up \/ late) \/ late
  BY <1>2, <1>3
<1>6. remote' \in Seq(Preferences) /\ fallback' \in Seq(Preferences) /\ pending' \in Seq(Preferences)
  BY <1>1, <1>4, <1>5
<1>7. \A p : ~Has(pending', p) /\ Once(pending', p)
  BY <1>1, EmptyHas
<1>8. \A p : p \in queued' => Somewhere(p)' \/ p \in lost'
  <2> SUFFICES ASSUME NEW p, p \in queued' PROVE Somewhere(p)' \/ p \in lost'
    OBVIOUS
  <2>1. Has(pending, p) \/ Has(file, p) \/ Has(remote, p) \/ Has(fallback, p) \/ p \in lost
    BY <1>1 DEF StoreInv, Somewhere
  <2> QED BY <1>1, <1>4, <1>5, <2>1, NextPlaces
<1>9. \A p : Somewhere(p)' => p \in queued'
  <2> SUFFICES ASSUME NEW p, Somewhere(p)' PROVE p \in queued'
    OBVIOUS
  <2>1. Has(pending, p) \/ Has(file, p) \/ Has(remote, p) \/ Has(fallback, p) => p \in queued
    BY DEF StoreInv, Somewhere
  <2> QED BY <1>1, <1>4, <1>5, <1>7, <2>1, NextPlaces
<1>10. \A p : p \notin torn' => OnePlace(p)'
  <2> SUFFICES ASSUME NEW p, p \notin torn' PROVE OnePlace(p)'
    OBVIOUS
  <2>1. p \notin torn /\ (late => ~Has(pending, p))
    BY <1>2 DEF Memories!ToSet, Has
  <2>2. OnePlace(p)
    BY <2>1 DEF StoreInv
  <2>3. CASE up /\ ~late
    BY <1>1, <1>4, <1>5, <1>7, <2>2, <2>3 DEF OnePlace
  <2>4. CASE ~up /\ ~late
    BY <1>1, <1>4, <1>5, <1>7, <2>2, <2>4 DEF OnePlace
  <2>5. CASE late
    BY <1>1, <1>4, <1>5, <1>7, <2>1, <2>2, <2>5 DEF OnePlace
  <2> QED BY <2>3, <2>4, <2>5
<1>11. torn' = {} => index' = Len(file')
  BY <1>1, <1>2 DEF StoreInv
<1> QED BY <1>1, <1>6, <1>8, <1>9, <1>10, <1>11 DEF StoreInv

\* An entry of the file is removed.
LEMMA Forgets == ASSUME StoreInv, NEW i \in DOMAIN file, Memories!Forget(i) PROVE StoreInv'
<1>1. /\ file \in Seq(Preferences) /\ UNCHANGED <<pending, remote, fallback, queued, torn>>
      /\ index' = Len(file) - 1 /\ lost' = lost \cup {file[i]}
  BY DEF Memories!Forget, StoreInv, Memories!session
<1>2. PICK u : u = Memories!RemoveAt(file, i)
  OBVIOUS
<1>3. file' = u
  BY <1>2 DEF Memories!Forget
<1>4. u \in Seq(Preferences) /\ Len(u) = Len(file) - 1
  BY <1>1, <1>2, RemovedHas
<1>5. ASSUME NEW p
      PROVE  /\ Has(u, p) => Has(file, p)
             /\ Has(file, p) /\ p # file[i] => Has(u, p)
             /\ Once(file, p) => Once(u, p)
  BY <1>1, <1>2, RemovedHas
<1>8. \A p : p \in queued' => Somewhere(p)' \/ p \in lost'
  <2> SUFFICES ASSUME NEW p, p \in queued' PROVE Somewhere(p)' \/ p \in lost'
    OBVIOUS
  <2>1. Has(pending, p) \/ Has(file, p) \/ Has(remote, p) \/ Has(fallback, p) \/ p \in lost
    BY <1>1 DEF StoreInv, Somewhere
  <2> QED BY <1>1, <1>3, <1>5, <2>1, NextPlaces
<1>9. \A p : Somewhere(p)' => p \in queued'
  <2> SUFFICES ASSUME NEW p, Somewhere(p)' PROVE p \in queued'
    OBVIOUS
  <2>1. Has(pending, p) \/ Has(file, p) \/ Has(remote, p) \/ Has(fallback, p) => p \in queued
    BY DEF StoreInv, Somewhere
  <2> QED BY <1>1, <1>3, <1>5, <2>1, NextPlaces
<1>10. \A p : p \notin torn' => OnePlace(p)'
  <2> SUFFICES ASSUME NEW p, p \notin torn' PROVE OnePlace(p)'
    OBVIOUS
  <2>1. OnePlace(p)
    BY <1>1 DEF StoreInv
  <2> QED BY <1>1, <1>3, <1>5, <2>1 DEF OnePlace
<1> QED BY <1>1, <1>3, <1>4, <1>8, <1>9, <1>10 DEF StoreInv

\* The fallback is dropped, and what was pending as well if the process ends.
LEMMA Drops ==
    ASSUME StoreInv, UNCHANGED <<file, index, remote, queued, torn>>, fallback' = <<>>,
           \/ pending' = pending /\ lost' = lost \cup Memories!ToSet(fallback)
           \/ pending' = <<>> /\ lost' = lost \cup Memories!ToSet(pending) \cup Memories!ToSet(fallback)
    PROVE  StoreInv'
<1>1. \A p : ~Has(fallback', p) /\ Once(fallback', p)
  BY EmptyHas
<1>2. ASSUME NEW p
      PROVE  /\ Has(pending', p) => Has(pending, p)
             /\ Once(pending, p) => Once(pending', p)
             /\ Has(pending, p) => Has(pending', p) \/ p \in lost'
             /\ Has(fallback, p) => p \in lost'
             /\ p \in lost => p \in lost'
  <2>1. Has(fallback, p) => p \in Memories!ToSet(fallback)
    BY DEF Has, Memories!ToSet
  <2>2. Has(pending, p) => p \in Memories!ToSet(pending)
    BY DEF Has, Memories!ToSet
  <2>3. CASE pending' = pending /\ lost' = lost \cup Memories!ToSet(fallback)
    BY <2>1, <2>3
  <2>4. CASE pending' = <<>> /\ lost' = lost \cup Memories!ToSet(pending) \cup Memories!ToSet(fallback)
    BY <2>1, <2>2, <2>4, EmptyHas
  <2> QED BY <2>3, <2>4
<1>8. \A p : p \in queued' => Somewhere(p)' \/ p \in lost'
  <2> SUFFICES ASSUME NEW p, p \in queued' PROVE Somewhere(p)' \/ p \in lost'
    OBVIOUS
  <2>1. Has(pending, p) \/ Has(file, p) \/ Has(remote, p) \/ Has(fallback, p) \/ p \in lost
    BY DEF StoreInv, Somewhere
  <2> QED BY <1>2, <2>1, NextPlaces
<1>9. \A p : Somewhere(p)' => p \in queued'
  <2> SUFFICES ASSUME NEW p, Somewhere(p)' PROVE p \in queued'
    OBVIOUS
  <2>1. Has(pending, p) \/ Has(file, p) \/ Has(remote, p) \/ Has(fallback, p) => p \in queued
    BY DEF StoreInv, Somewhere
  <2> QED BY <1>1, <1>2, <2>1, NextPlaces
<1>10. \A p : p \notin torn' => OnePlace(p)'
  <2> SUFFICES ASSUME NEW p, p \notin torn' PROVE OnePlace(p)'
    OBVIOUS
  <2>1. OnePlace(p)
    BY DEF StoreInv
  <2> QED BY <1>1, <1>2, <2>1 DEF OnePlace
<1>11. pending' \in Seq(Preferences) /\ fallback' \in Seq(Preferences)
  <2>1. pending \in Seq(Preferences) /\ (pending' = pending \/ pending' = <<>>)
    BY DEF StoreInv
  <2>2. <<>> \in Seq(Preferences)
    BY EmptySeq
  <2> QED BY <2>1, <2>2
<1> QED BY <1>8, <1>9, <1>10, <1>11 DEF StoreInv

\* What is known of the preferences is kept by every step.
LEMMA StoresStep == ASSUME StoreInv, [Memories!Next]_(Memories!vars) PROVE StoreInv'
<1>1. CASE UNCHANGED Memories!vars \/ Memories!Begin \/ Memories!Injected \/ Memories!InjectFails \/ Memories!End \/ (\E up \in BOOLEAN : Memories!Inject(up))
           \/ (\E ok \in BOOLEAN : Memories!Executed(ok))
  <2>1. UNCHANGED <<pending, file, remote, fallback, queued, index, lost, torn>>
    BY <1>1 DEF Memories!vars, Memories!Begin, Memories!Injected, Memories!InjectFails, Memories!End, Memories!Inject, Memories!Executed, Memories!stores, Memories!fates
  <2> QED BY <2>1, StoresStay
<1>2. CASE Memories!WriteBack
  <2>1. queued' = queued
    BY <1>2 DEF Memories!WriteBack
  <2>2. CASE Memories!WriteBuffer \/ \E up \in BOOLEAN : Memories!WriteMem0(up)
    <3>1. UNCHANGED <<pending, file, remote, fallback, index, lost, torn>>
      BY <2>2 DEF Memories!WriteBuffer, Memories!WriteMem0, Memories!stores
    <3> QED BY <2>1, <3>1, StoresStay
  <2>3. CASE Memories!WriteMarkdown(Len(pending), FALSE)
    BY <2>1, <2>3, WritesMarkdown
  <2>4. CASE \E up, late \in BOOLEAN : Memories!WriteZep(up, late)
    BY <2>1, <2>4, WritesZep
  <2> QED BY <1>2, <2>2, <2>3, <2>4 DEF Memories!WriteBack
<1>3. CASE Memories!WriteBackFails
  <2>1. queued' = queued
    BY <1>3 DEF Memories!WriteBackFails
  <2>2. PICK n \in 0..Len(pending), at_index \in BOOLEAN : Memories!WriteMarkdown(n, at_index)
    BY <1>3 DEF Memories!WriteBackFails
  <2> QED BY <2>1, <2>2, WritesMarkdown
<1>4. CASE Memories!Close
  BY <1>4, Drops DEF Memories!Close, Memories!session
<1>5. CASE Memories!Restart
  BY <1>5, Drops DEF Memories!Restart
<1> QED BY <1>1, <1>2, <1>3, <1>4, <1>5, Remembers, Forgets DEF Memories!Next

\* It says that preferences are kept, and written once.
LEMMA StoresHold == ASSUME StoreInv PROVE Memories!PreferencesKept /\ Memories!WrittenOnce
<1>1. pending \in Seq(Preferences) /\ file \in Seq(Preferences) /\ remote \in Seq(Preferences) /\ fallback \in Seq(Preferences)
  BY DEF StoreInv
<1>2. PICK a, b, c : a = pending \o file /\ b = a \o remote /\ c = b \o fallback
  OBVIOUS
<1>3. c = Memories!Everywhere
  BY <1>2 DEF Memories!Everywhere
<1>4. a \in Seq(Preferences) /\ b \in Seq(Preferences) /\ c \in Seq(Preferences)
  BY <1>1, <1>2, ConcatHas
<1>5. ASSUME NEW p
      PROVE  /\ Has(c, p) <=> Somewhere(p)
             /\ OnePlace(p) => Once(c, p)
  <2>1. /\ Has(a, p) <=> Has(pending, p) \/ Has(file, p)
        /\ Once(a, p) <=> Once(pending, p) /\ Once(file, p) /\ ~(Has(pending, p) /\ Has(file, p))
    BY <1>1, <1>2, ConcatHas
  <2>2. /\ Has(b, p) <=> Has(a, p) \/ Has(remote, p)
        /\ Once(b, p) <=> Once(a, p) /\ Once(remote, p) /\ ~(Has(a, p) /\ Has(remote, p))
    <3>1. /\ Has(a \o remote, p) <=> Has(a, p) \/ Has(remote, p)
          /\ Once(a \o remote, p) <=> Once(a, p) /\ Once(remote, p) /\ ~(Has(a, p) /\ Has(remote, p))
      BY <1>1, <1>4, ConcatHas
    <3> QED BY <1>2, <3>1
  <2>3. /\ Has(c, p) <=> Has(b, p) \/ Has(fallback, p)
        /\ Once(c, p) <=> Once(b, p) /\ Once(fallback, p) /\ ~(Has(b, p) /\ Has(fallback, p))
    <3>1. /\ Has(b \o fallback, p) <=> Has(b, p) \/ Has(fallback, p)
          /\ Once(b \o fallback, p) <=> Once(b, p) /\ Once(fallback, p) /\ ~(Has(b, p) /\ Has(fallback, p))
      BY <1>1, <1>4, ConcatHas
    <3> QED BY <1>2, <3>1
  <2> QED BY <2>1, <2>2, <2>3 DEF Somewhere, OnePlace
<1>6. Memories!PreferencesKept
  <2> SUFFICES ASSUME NEW p \in queued PROVE p \in Memories!ToSet(c) \/ p \in lost
    BY <1>3 DEF Memories!PreferencesKept
  <2>1. Somewhere(p) \/ p \in lost
    BY DEF StoreInv
  <2> QED BY <2>1, <1>5 DEF Has, Memories!ToSet
<1>7. Memories!WrittenOnce
  <2>1. ASSUME NEW i \in DOMAIN c, NEW j \in DOMAIN c, c[i] = c[j], c[i] \notin torn PROVE i = j
    <3>1. OnePlace(c[i])
      BY <2>1 DEF StoreInv
    <3>2. Once(c, c[i])
      BY <3>1, <1>5
    <3> QED BY <2>1, <3>2 DEF Once
  <2> QED BY <2>1, <1>3 DEF Memories!WrittenOnce, StoreInv
<1> QED BY <1>6, <1>7

\* A buffer keeps the newest when one more is written and it is trimmed.
LEMMA NewestKept ==
    ASSUME NEW s \in Seq(Nat), NEW D \in SUBSET Nat, NEW max \in Nat, NEW n \in Nat,
           Memories!Newest(s, D, max), \A d \in D : d < n
    PROVE  Memories!Trimmed(Append(s, n), max) \in Seq(Nat) /\ Memories!Newest(Memories!Trimmed(Append(s, n), max), D \cup {n}, max)
<1>1. PICK u, m : u = Append(s, n) /\ m = Len(s) + 1
  OBVIOUS
<1>2. /\ u \in Seq(Nat) /\ Len(u) = m /\ m \in Nat /\ m >= 1 /\ DOMAIN u = 1..m /\ DOMAIN s = 1..(m - 1) /\ Len(s) = m - 1
      /\ u[m] = n /\ \A a \in 1..(m - 1) : u[a] = s[a] /\ s[a] \in Nat
  BY <1>1
<1>3. /\ \A a, b \in 1..(m - 1) : a < b => s[a] < s[b]
      /\ \A a \in 1..(m - 1) : s[a] \in D
      /\ \A d \in D : (\A a \in 1..(m - 1) : s[a] # d) => max > 0 /\ m - 1 = max /\ \A a \in 1..(m - 1) : d < s[a]
      /\ max > 0 => m - 1 <= max
  BY <1>2 DEF Memories!Newest, Memories!ToSet
<1>4. \A a, b \in 1..m : a < b => u[a] < u[b]
  <2> SUFFICES ASSUME NEW a \in 1..m, NEW b \in 1..m, a < b PROVE u[a] < u[b]
    OBVIOUS
  <2>1. a \in 1..(m - 1)
    BY <1>2
  <2>2. CASE b = m
    BY <2>1, <2>2, <1>2, <1>3
  <2>3. CASE b # m
    <3>1. b \in 1..(m - 1)
      BY <2>3, <1>2
    <3> QED BY <2>1, <3>1, <1>2, <1>3
  <2> QED BY <2>2, <2>3
<1>5. \A a \in 1..m : u[a] \in D \cup {n}
  <2> SUFFICES ASSUME NEW a \in 1..m PROVE u[a] \in D \cup {n}
    OBVIOUS
  <2>1. a = m \/ a \in 1..(m - 1)
    BY <1>2
  <2> QED BY <2>1, <1>2, <1>3
<1>6. CASE max = 0 \/ max >= m
  <2>1. Memories!Trimmed(u, max) = u
    BY <1>2, <1>6 DEF Memories!Trimmed, Memories!Last_
  <2>2. ASSUME NEW d \in (D \cup {n}) \ Memories!ToSet(u) PROVE FALSE
    <3>1. \A a \in 1..m : u[a] # d
      BY <1>2 DEF Memories!ToSet
    <3>2. d # n
      BY <3>1, <1>2
    <3>3. \A a \in 1..(m - 1) : s[a] # d
      BY <3>1, <1>2
    <3>4. max > 0 /\ m - 1 = max
      BY <3>2, <3>3, <1>3
    <3> QED BY <3>4, <1>2, <1>6
  <2>3. Memories!ToSet(u) \subseteq D \cup {n}
    BY <1>2, <1>5 DEF Memories!ToSet
  <2>4. max > 0 => Len(u) <= max
    BY <1>2, <1>6
  <2>5. Memories!Newest(u, D \cup {n}, max)
    BY <1>2, <1>4, <2>2, <2>3, <2>4 DEF Memories!Newest
  <2> QED BY <1>1, <1>2, <2>1, <2>5
<1>7. CASE ~(max = 0 \/ max >= m)
  <2>1. max > 0 /\ m = max + 1
    BY <1>2, <1>3, <1>7
  <2>2. PICK v : v = SubSeq(u, 2, m)
    OBVIOUS
  <2>3. Memories!Trimmed(u, max) = v
    <3>1. Len(u) - max + 1 = 2 /\ ~(max = 0 \/ max >= Len(u))
      BY <1>2, <1>7, <2>1
    <3> QED BY <3>1, <1>2, <2>2 DEF Memories!Trimmed, Memories!Last_
  <2>4. v \in Seq(Nat) /\ Len(v) = max /\ DOMAIN v = 1..max /\ \A a \in 1..max : v[a] = u[a + 1] /\ a + 1 \in 1..m
    <3>1. \A a \in 2..m : u[a] \in Nat
      BY <1>2
    <3>2. /\ v \in Seq(Nat) /\ Len(v) = (IF 2 <= m THEN m - 2 + 1 ELSE 0)
          /\ \A a \in 1..(m - 2 + 1) : v[a] = u[2 + a - 1]
      BY <1>2, <2>2, <3>1, SubSeqProperties
    <3>3. m - 2 + 1 = max /\ 2 <= m
      BY <2>1
    <3>4. Len(v) = max /\ DOMAIN v = 1..max
      BY <3>2, <3>3
    <3>5. ASSUME NEW a \in 1..max PROVE v[a] = u[a + 1] /\ a + 1 \in 1..m
      <4>1. 2 + a - 1 = a + 1 /\ a \in 1..(m - 2 + 1)
        BY <3>3
      <4>2. a + 1 \in 1..m
        BY <2>1
      <4> QED BY <3>2, <4>1, <4>2
    <3> QED BY <3>2, <3>4, <3>5
  <2>5. ASSUME NEW a \in 1..max, NEW b \in 1..max, a < b PROVE v[a] < v[b]
    <3>1. a + 1 < b + 1
      BY <2>5
    <3> QED BY <3>1, <2>4, <1>4
  <2>6. Memories!ToSet(v) \subseteq D \cup {n}
    BY <2>4, <1>5 DEF Memories!ToSet
  <2>7. ASSUME NEW d \in (D \cup {n}) \ Memories!ToSet(v) PROVE \A a \in 1..max : d < v[a]
    <3>1. \A a \in 1..max : v[a] # d
      BY <2>4 DEF Memories!ToSet
    <3>2. max \in 1..max /\ max + 1 = m
      BY <2>1
    <3>3. d # n /\ d \in D
      BY <3>1, <3>2, <2>4, <1>2
    <3>4. \A a \in 2..m : u[a] # d
      <4> SUFFICES ASSUME NEW a \in 2..m PROVE u[a] # d
        OBVIOUS
      <4>1. a - 1 \in 1..max /\ (a - 1) + 1 = a
        BY <2>1
      <4> QED BY <3>1, <2>4, <4>1
    <3>5. CASE u[1] = d
      <4>1. 1 \in 1..m /\ \A a \in 1..max : 1 < a + 1
        BY <1>2
      <4> QED BY <3>5, <4>1, <2>4, <1>4
    <3>6. CASE u[1] # d
      <4>1. \A a \in 1..(m - 1) : s[a] # d
        <5> SUFFICES ASSUME NEW a \in 1..(m - 1) PROVE s[a] # d
          OBVIOUS
        <5>1. a = 1 \/ a \in 2..m
          BY <1>2
        <5> QED BY <5>1, <3>4, <3>6, <1>2
      <4>2. \A a \in 1..(m - 1) : d < s[a]
        BY <4>1, <3>3, <1>3
      <4> SUFFICES ASSUME NEW a \in 1..max PROVE d < v[a]
        OBVIOUS
      <4>3. v[a] = u[a + 1] /\ (a + 1 = m \/ a + 1 \in 1..(m - 1))
        BY <2>4, <1>2
      <4> QED BY <4>2, <4>3, <3>3, <1>2
    <3> QED BY <3>5, <3>6
  <2>8. Memories!Newest(v, D \cup {n}, max)
    BY <2>1, <2>4, <2>5, <2>6, <2>7 DEF Memories!Newest
  <2> QED BY <1>1, <2>3, <2>4, <2>8
<1> QED BY <1>6, <1>7

\* A trimmed buffer is a buffer.
LEMMA TrimmedIsSeq ==
    ASSUME NEW s \in Seq(Nat), NEW n \in Nat, NEW max \in Nat
    PROVE  Memories!Trimmed(Append(s, n), max) \in Seq(Nat)
<1>1. PICK u : u = Append(s, n)
  OBVIOUS
<1>2. u \in Seq(Nat) /\ Len(u) \in Nat
  BY <1>1
<1>3. CASE max = 0 \/ max >= Len(u)
  BY <1>1, <1>2, <1>3 DEF Memories!Trimmed, Memories!Last_
<1>4. CASE ~(max = 0 \/ max >= Len(u))
  <2>1. Len(u) - max + 1 \in 1..(Len(u) + 1) /\ Len(u) \in 0..Len(u)
    BY <1>2, <1>4
  <2>2. SubSeq(u, Len(u) - max + 1, Len(u)) \in Seq(Nat)
    BY <1>2, <2>1, PartHas
  <2> QED BY <1>1, <1>4, <2>2 DEF Memories!Trimmed, Memories!Last_
<1> QED BY <1>3, <1>4

\* The shape of the chain.
LEMMA ChainShape ==
    ASSUME Memories!MemoryAssumption, chain \in Chains
    PROVE  /\ Len(chain) \in Nat /\ DOMAIN chain = 1..Len(chain)
           /\ \A i \in DOMAIN chain : chain[i].max \in Nat /\ (chain[i].kind = "buffer" => chain[i].key \in StateKeys)
  BY DEF Memories!MemoryAssumption

\* The runs that were written back down to member i.
Down(i) == {n \in DOMAIN reached : reached[n] <= i}

\* What is said of the buffers rests on these only.
LEMMA BuffersStay ==
    ASSUME Memories!BuffersWhole, chain' = chain, buffers' = buffers, \A i \in DOMAIN chain : Down(i)' = Down(i)
    PROVE  Memories!BuffersWhole'
  BY DEF Memories!BuffersWhole, Memories!Own, Down, Memories!Newest

\* At first no run was written back.
LEMMA RunsStart == ASSUME Memories!MemoryAssumption, Memories!Init PROVE RunInv
<1>1. /\ chain \in Chains /\ reached = <<>> /\ buffers = [k \in StateKeys |-> <<>>] /\ turn = [n |-> 0, at |-> "idle", i |-> 0]
  BY DEF Memories!Init
<1>2. /\ {"n", "at", "i"} \subseteq DOMAIN turn /\ turn.n = Len(reached) /\ turn.i \in Nat /\ turn.at = "idle"
      /\ reached \in Seq(Nat) /\ DOMAIN reached = {}
  BY <1>1
<1>3. \A k \in StateKeys : buffers[k] = <<>>
  BY <1>1
<1>4. buffers \in [StateKeys -> Seq(Nat)]
  BY <1>1, EmptySeq
<1>5. Memories!BuffersWhole
  <2>1. ASSUME NEW i \in DOMAIN chain, Memories!Own(i)
        PROVE  Memories!Newest(buffers[chain[i].key], {n \in DOMAIN reached : reached[n] <= i}, chain[i].max)
    <3>1. buffers[chain[i].key] = <<>> /\ {n \in DOMAIN reached : reached[n] <= i} = {} /\ chain[i].max \in Nat
      BY <2>1, <1>1, <1>2, <1>3, ChainShape DEF Memories!Own
    <3>2. DOMAIN <<>> = {} /\ Len(<<>>) = 0
      OBVIOUS
    <3>3. Memories!Newest(<<>>, {}, chain[i].max)
      BY <3>1, <3>2 DEF Memories!Newest, Memories!ToSet
    <3> QED BY <3>1, <3>3
  <2> QED BY <2>1 DEF Memories!BuffersWhole
<1> QED BY <1>1, <1>2, <1>4, <1>5 DEF RunInv

\* What Goto makes of the run.
LEMMA Gone ==
    ASSUME RunInv, NEW place, NEW i, Memories!Goto(place, i)
    PROVE  {"n", "at", "i"} \subseteq DOMAIN turn' /\ turn'.n = turn.n /\ turn'.at = place /\ turn'.i = i
  BY DEF RunInv, Memories!Goto

\* A run goes on and writes nothing.
LEMMA RunsGo ==
    ASSUME RunInv, UNCHANGED <<chain, reached, buffers>>, NEW place, NEW i \in Nat, Memories!Goto(place, i),
           place \in {"idle", "injecting", "executing", "writing"},
           place \in {"injecting", "executing"} => turn.at \in {"injecting", "executing"},
           place = "writing" => turn.at = "executing" /\ i = Len(chain)
    PROVE  RunInv'
<1>1. {"n", "at", "i"} \subseteq DOMAIN turn' /\ turn'.n = turn.n /\ turn'.at = place /\ turn'.i = i
  BY Gone
<1>2. Memories!BuffersWhole'
  BY BuffersStay DEF RunInv, Down
<1>3. /\ chain' \in Chains /\ reached' \in Seq(Nat) /\ buffers' \in [StateKeys -> Seq(Nat)] /\ turn'.n = Len(reached')
  BY <1>1 DEF RunInv
<1>4. CASE place = "idle"
  BY <1>1, <1>2, <1>3, <1>4 DEF RunInv
<1>5. CASE place \in {"injecting", "executing"}
  BY <1>1, <1>2, <1>3, <1>5 DEF RunInv
<1>6. CASE place = "writing"
  BY <1>1, <1>2, <1>3, <1>6 DEF RunInv
<1> QED BY <1>4, <1>5, <1>6

\* A run begins: every buffer it reads is whole.
LEMMA RunsBegin == ASSUME Memories!MemoryAssumption, RunInv, Memories!Begin PROVE RunInv'
<1>1. /\ turn' = [n |-> turn.n + 1, at |-> "injecting", i |-> 1] /\ reached' = Append(reached, Len(chain) + 1)
      /\ UNCHANGED <<chain, buffers>>
  BY DEF Memories!Begin
<1>2. /\ reached \in Seq(Nat) /\ turn.n = Len(reached) /\ chain \in Chains /\ Len(chain) \in Nat /\ DOMAIN chain = 1..Len(chain)
  BY ChainShape DEF RunInv
<1>3. /\ {"n", "at", "i"} \subseteq DOMAIN turn' /\ turn'.n = Len(reached) + 1 /\ turn'.at = "injecting" /\ turn'.i = 1
  BY <1>1, <1>2
<1>4. /\ reached' \in Seq(Nat) /\ Len(reached') = Len(reached) + 1 /\ DOMAIN reached' = 1..(Len(reached) + 1)
      /\ DOMAIN reached = 1..Len(reached) /\ Len(reached) \in Nat
      /\ reached'[Len(reached) + 1] = Len(chain) + 1
      /\ \A n \in 1..Len(reached) : reached'[n] = reached[n]
  BY <1>1, <1>2
<1>5. ASSUME NEW i \in DOMAIN chain PROVE Down(i)' = Down(i)
  <2>1. {n \in 1..(Len(reached) + 1) : reached'[n] <= i} = {n \in 1..Len(reached) : reached[n] <= i}
    <3>1. ~(Len(chain) + 1 <= i)
      BY <1>2
    <3>2. \A n \in 1..(Len(reached) + 1) : n = Len(reached) + 1 \/ n \in 1..Len(reached)
      BY <1>4
    <3>3. \A n \in 1..Len(reached) : n \in 1..(Len(reached) + 1)
      BY <1>4
    <3> QED BY <1>4, <3>1, <3>2, <3>3
  <2> QED BY <1>4, <2>1 DEF Down
<1>6. Memories!BuffersWhole'
  BY <1>1, <1>5, BuffersStay DEF RunInv
<1>7. chain' \in Chains /\ buffers' \in [StateKeys -> Seq(Nat)]
  BY <1>1 DEF RunInv
<1>8. turn'.n = Len(reached') /\ turn'.n >= 1 /\ reached'[turn'.n] = Len(chain') + 1
  BY <1>1, <1>3, <1>4
<1> QED BY <1>3, <1>4, <1>6, <1>7, <1>8 DEF RunInv

\* A run is written back to the next member down the chain.
LEMMA RunsWriteBack == ASSUME Memories!MemoryAssumption, RunInv, Memories!WriteBack PROVE RunInv'
<1>1. /\ turn.at = "writing" /\ turn.i >= 1 /\ Memories!Wrote /\ Memories!Goto("writing", turn.i - 1) /\ chain' = chain
  BY DEF Memories!WriteBack
<1>2. /\ reached \in Seq(Nat) /\ turn.n = Len(reached) /\ turn.n >= 1 /\ turn.i \in Nat /\ turn.i <= Len(chain)
      /\ reached[turn.n] = turn.i + 1 /\ buffers \in [StateKeys -> Seq(Nat)] /\ chain \in Chains /\ Memories!BuffersWhole
  BY <1>1 DEF RunInv
<1>3. /\ Len(chain) \in Nat /\ DOMAIN chain = 1..Len(chain)
      /\ \A i \in DOMAIN chain : chain[i].max \in Nat /\ (chain[i].kind = "buffer" => chain[i].key \in StateKeys)
  BY <1>2, ChainShape
<1>4. PICK r, k, L : r = turn.n /\ k = turn.i /\ L = Len(reached)
  OBVIOUS
<1>5. r = L /\ L \in Nat /\ r \in 1..L /\ k \in 1..Len(chain) /\ DOMAIN reached = 1..L /\ reached[r] = k + 1
  BY <1>1, <1>2, <1>3, <1>4
<1>6. reached' = [reached EXCEPT ![r] = k]
  BY <1>1, <1>4 DEF Memories!Wrote
<1>7. /\ reached' \in Seq(Nat) /\ Len(reached') = L /\ DOMAIN reached' = 1..L /\ reached'[r] = k
      /\ \A n \in 1..L : n # r => reached'[n] = reached[n]
  BY <1>2, <1>4, <1>5, <1>6
<1>8. {"n", "at", "i"} \subseteq DOMAIN turn' /\ turn'.n = r /\ turn'.at = "writing" /\ turn'.i = k - 1
  BY <1>1, <1>4, Gone
<1>9. PICK member : member = chain[k]
  OBVIOUS
<1>10. Memories!Member = member
  BY <1>4, <1>9 DEF Memories!Member
<1>11. \/ member.kind = "buffer" /\ buffers' = [buffers EXCEPT ![member.key] = Memories!Trimmed(Append(buffers[member.key], r), member.max)]
       \/ member.kind # "buffer" /\ buffers' = buffers
  BY <1>4, <1>10, Zenon DEF Memories!WriteBack, Memories!WriteBuffer, Memories!WriteMarkdown, Memories!WriteZep, Memories!WriteMem0
<1>12. \A d \in Down(k) : d \in 1..L /\ d < r
  <2> SUFFICES ASSUME NEW d \in 1..L, reached[d] <= k PROVE d < r
    BY <1>5 DEF Down
  <2>1. d # r
    BY <1>5
  <2> QED BY <2>1, <1>5
<1>13. ASSUME NEW i \in DOMAIN chain, Memories!Own(i)
       PROVE  /\ buffers'[chain[i].key] \in Seq(Nat)
              /\ Memories!Newest(buffers'[chain[i].key], {n \in DOMAIN reached' : reached'[n] <= i}, chain[i].max)
  <2>1. chain[i].kind = "buffer" /\ chain[i].key \in StateKeys /\ chain[i].max \in Nat /\ buffers[chain[i].key] \in Seq(Nat)
    BY <1>2, <1>3, <1>13 DEF Memories!Own
  <2>2. Memories!Newest(buffers[chain[i].key], Down(i), chain[i].max)
    BY <1>2, <1>13 DEF Memories!BuffersWhole, Down
  <2>3. CASE i = k
    <3>1. buffers'[member.key] = Memories!Trimmed(Append(buffers[member.key], r), member.max)
      BY <1>2, <1>9, <1>11, <2>1, <2>3
    <3>2. Down(k) \in SUBSET Nat /\ r \in Nat
      BY <1>5, <1>12
    <3>3. /\ Memories!Trimmed(Append(buffers[member.key], r), member.max) \in Seq(Nat)
          /\ Memories!Newest(Memories!Trimmed(Append(buffers[member.key], r), member.max), Down(k) \cup {r}, member.max)
      BY <1>9, <1>12, <2>1, <2>2, <2>3, <3>2, NewestKept
    <3>4. {n \in DOMAIN reached' : reached'[n] <= i} = Down(k) \cup {r}
      BY <1>5, <1>7, <2>3 DEF Down
    <3> QED BY <1>9, <2>3, <3>1, <3>3, <3>4
  <2>4. CASE i # k
    <3>1. member.key # chain[i].key
      BY <1>3, <1>5, <1>9, <1>13, <2>4 DEF Memories!Own
    <3>2. buffers'[chain[i].key] = buffers[chain[i].key]
      BY <1>2, <1>11, <2>1, <3>1
    <3>3. k + 1 <= i <=> k <= i
      BY <1>3, <1>5, <2>4
    <3>4. \A n \in 1..L : reached'[n] <= i <=> reached[n] <= i
      BY <1>5, <1>7, <3>3
    <3>5. {n \in DOMAIN reached' : reached'[n] <= i} = Down(i)
      BY <1>5, <1>7, <3>4 DEF Down
    <3> QED BY <2>1, <2>2, <3>2, <3>5
  <2> QED BY <2>3, <2>4
<1>14. Memories!BuffersWhole'
  BY <1>1, <1>13 DEF Memories!BuffersWhole, Memories!Own
<1>15. buffers' \in [StateKeys -> Seq(Nat)]
  <2>1. CASE member.kind # "buffer" /\ buffers' = buffers
    BY <1>2, <2>1
  <2>2. CASE member.kind = "buffer" /\ buffers' = [buffers EXCEPT ![member.key] = Memories!Trimmed(Append(buffers[member.key], r), member.max)]
    <3>1. member.key \in StateKeys /\ member.max \in Nat /\ buffers[member.key] \in Seq(Nat)
      BY <1>2, <1>3, <1>5, <1>9, <2>2
    <3>2. Memories!Trimmed(Append(buffers[member.key], r), member.max) \in Seq(Nat)
      BY <1>5, <3>1, TrimmedIsSeq
    <3> QED BY <1>2, <2>2, <3>2
  <2> QED BY <1>11, <2>1, <2>2
<1>16. k - 1 \in Nat /\ k - 1 <= Len(chain) /\ k = (k - 1) + 1 /\ r >= 1
  BY <1>3, <1>5
<1> QED BY <1>1, <1>2, <1>5, <1>7, <1>8, <1>14, <1>15, <1>16 DEF RunInv

\* A restart leaves buffers empty.
LEMMA RunsRestart == ASSUME Memories!MemoryAssumption, RunInv, Memories!Restart PROVE RunInv'
<1>1. /\ turn' = [turn EXCEPT !.at = "idle", !.i = 0] /\ chain' = chain
      /\ buffers' = [k \in StateKeys |-> <<>>] /\ reached' = [n \in DOMAIN reached |-> Len(chain) + 1]
  BY DEF Memories!Restart
<1>2. /\ chain \in Chains /\ reached \in Seq(Nat) /\ turn.n = Len(reached)
      /\ Len(chain) \in Nat /\ DOMAIN chain = 1..Len(chain)
      /\ \A i \in DOMAIN chain : chain[i].max \in Nat /\ (chain[i].kind = "buffer" => chain[i].key \in StateKeys)
  BY ChainShape DEF RunInv
<1>3. {"n", "at", "i"} \subseteq DOMAIN turn' /\ turn'.n = turn.n /\ turn'.at = "idle" /\ turn'.i = 0
  BY <1>1 DEF RunInv
<1>4. reached' \in Seq(Nat) /\ Len(reached') = Len(reached) /\ \A n \in DOMAIN reached' : reached'[n] = Len(chain) + 1
  BY <1>1, <1>2
<1>5. buffers' \in [StateKeys -> Seq(Nat)] /\ \A k \in StateKeys : buffers'[k] = <<>>
  BY <1>1, EmptySeq
<1>6. ASSUME NEW i \in DOMAIN chain, Memories!Own(i)
      PROVE  Memories!Newest(buffers'[chain[i].key], {n \in DOMAIN reached' : reached'[n] <= i}, chain[i].max)
  <2>1. buffers'[chain[i].key] = <<>> /\ chain[i].max \in Nat
    BY <1>2, <1>5, <1>6 DEF Memories!Own
  <2>2. {n \in DOMAIN reached' : reached'[n] <= i} = {}
    BY <1>2, <1>4
  <2>3. DOMAIN <<>> = {} /\ Len(<<>>) = 0
    OBVIOUS
  <2>4. Memories!Newest(<<>>, {}, chain[i].max)
    BY <2>1, <2>3 DEF Memories!Newest, Memories!ToSet
  <2> QED BY <2>1, <2>2, <2>4
<1>7. Memories!BuffersWhole'
  BY <1>1, <1>6 DEF Memories!BuffersWhole, Memories!Own
<1> QED BY <1>1, <1>2, <1>3, <1>4, <1>5, <1>7 DEF RunInv

\* What is known of the buffers is kept by every step.
LEMMA RunsStep == ASSUME Memories!MemoryAssumption, RunInv, [Memories!Next]_(Memories!vars) PROVE RunInv'
<1>0. turn.i \in Nat /\ Len(chain) \in Nat /\ 0 \in Nat /\ turn.i + 1 \in Nat
  BY ChainShape DEF RunInv
<1>1. ASSUME NEW up, Memories!Inject(up) PROVE RunInv'
  BY <1>0, <1>1, RunsGo DEF Memories!Inject
<1>2. CASE Memories!InjectFails
  <2>1. UNCHANGED <<chain, reached, buffers>> /\ turn.at = "injecting" /\ (Memories!Goto("idle", 0) \/ Memories!Goto("executing", 0))
    BY <1>2 DEF Memories!InjectFails
  <2> QED BY <1>0, <2>1, RunsGo
<1>3. CASE Memories!Injected
  BY <1>0, <1>3, RunsGo DEF Memories!Injected
<1>4. ASSUME NEW ok, Memories!Executed(ok) PROVE RunInv'
  <2>1. UNCHANGED <<chain, reached, buffers>> /\ turn.at = "executing" /\ (Memories!Goto("idle", 0) \/ Memories!Goto("writing", Len(chain)))
    BY <1>4 DEF Memories!Executed
  <2> QED BY <1>0, <2>1, RunsGo
<1>5. CASE Memories!WriteBackFails
  <2>1. UNCHANGED <<chain, reached, buffers>> /\ Memories!Goto("idle", 0)
    BY <1>5 DEF Memories!WriteBackFails, Memories!WriteMarkdown
  <2> QED BY <1>0, <2>1, RunsGo
<1>6. CASE Memories!End
  BY <1>0, <1>6, RunsGo DEF Memories!End
<1>7. ASSUME UNCHANGED <<chain, turn, reached, buffers>> PROVE RunInv'
  <2>1. Memories!BuffersWhole'
    BY <1>7, BuffersStay DEF RunInv, Down
  <2> QED BY <1>7, <2>1 DEF RunInv
<1>8. CASE UNCHANGED Memories!vars \/ Memories!Close \/ (\E p \in Preferences : Memories!Remember(p)) \/ (\E i \in DOMAIN file : Memories!Forget(i))
  <2>1. UNCHANGED <<chain, turn, reached, buffers>>
    BY <1>8 DEF Memories!vars, Memories!Close, Memories!Remember, Memories!Forget, Memories!session
  <2> QED BY <2>1, <1>7
<1> QED BY <1>1, <1>2, <1>3, <1>4, <1>5, <1>6, <1>8, RunsBegin, RunsWriteBack, RunsRestart DEF Memories!Next

\* Both hold at first.
LEMMA MemoryStart == ASSUME Memories!MemoryAssumption, Memories!Init PROVE MemoryInv
  BY StoresStart, RunsStart DEF MemoryInv

\* Both are kept by every step.
LEMMA MemorySteps == ASSUME Memories!MemoryAssumption, MemoryInv, [Memories!Next]_(Memories!vars) PROVE MemoryInv'
  BY StoresStep, RunsStep DEF MemoryInv

\* Both say that the memories are faithful.
LEMMA MemoryHolds == ASSUME MemoryInv PROVE Memories!MemoriesFaithful
  BY StoresHold DEF MemoryInv, RunInv, Memories!MemoriesFaithful
-----------------------------------------------------------------------------
(***************************************************************************)
(* The servers behind the tools, and what the patterns put before the      *)
(* model.                                                                  *)
(***************************************************************************)
\* A child's variables are those passed through or given, the given ones as
\* they were given (McpServerConfig.resolved_stdio_env).
LEMMA ServerIsGiven ==
    ASSUME NEW s, s.passthrough # {}
    PROVE  LET given == Behind!Environment(s)
           IN /\ DOMAIN given \subseteq s.passthrough \cup (IF s.env = None THEN {} ELSE DOMAIN s.env)
              /\ s.env # None => \A n \in DOMAIN s.env : given[n] = s.env[n]
  BY DEF Behind!Environment

\* A preflight foretells whether a server can be reached, however it is
\* configured and whatever is installed (McpTool.preflight, McpConnection).
LEMMA ServersAreForetold == \A s : Behind!ServerFaithful(s)
<1> SUFFICES ASSUME NEW s, Behind!Constructs(s) PROVE Behind!ServerFaithful(s)
  BY DEF Behind!ServerFaithful
<1>1. Behind!Opens(s) /\ s.answer # "unlisted" => Behind!Preflight(s)
  BY DEF Behind!Opens, Behind!Preflight, Behind!Transport, Behind!Found, Behind!Probed
<1>2. Behind!Preflight(s) /\ s.probe => Behind!Opens(s)
  BY DEF Behind!Preflight, Behind!Probed
<1>3. Behind!Warmed(s) => s.mode = "pooled"
  BY DEF Behind!Warmed, Behind!Constructs
<1> QED BY <1>1, <1>2, <1>3, ServerIsGiven DEF Behind!ServerFaithful

\* What is latest is among what is shown (_build_messages and the prompts of the
\* three patterns).
LEMMA LatestIsShown ==
    ASSUME NEW entries, Len(entries) \in Nat, NEW results \in Nat
    PROVE  Loop!LatestShown(entries, results)
<1>1. \A n \in Nat, k \in 1..5 : n > 0 => n \in Loop!Last(n, k)
  BY DEF Loop!Last
<1>2. results > 0 => results \in Loop!Last(results, 2)
  BY <1>1
<1>3. Len(entries) > 0 /\ entries[Len(entries)] # "empty" => Len(entries) \in Loop!ShownHistory(entries)
  BY <1>1 DEF Loop!ShownHistory
<1>4. results > 0 => results \in Loop!Requests("reflexion", FALSE, entries, results)[1].results
  BY <1>2 DEF Loop!Requests, Loop!Request, Loop!Reflecting, Loop!Selecting
<1>5. ASSUME Len(entries) > 0, entries[Len(entries)] # "empty", NEW kind \in {"plan", "reflexion"},
             NEW i \in DOMAIN Loop!Requests(kind, FALSE, entries, results)
      PROVE  Len(entries) \in Loop!Requests(kind, FALSE, entries, results)[i].history
  <2>1. CASE kind = "plan"
    BY <2>1, <1>3, <1>5 DEF Loop!Requests, Loop!Request, Loop!Planning
  <2>2. CASE kind = "reflexion" /\ results > 0
    BY <2>2, <1>3, <1>5 DEF Loop!Requests, Loop!Request, Loop!Reflecting, Loop!Selecting
  <2>3. CASE kind = "reflexion" /\ ~(results > 0)
    BY <2>3, <1>3, <1>5 DEF Loop!Requests, Loop!Request, Loop!Reflecting, Loop!Selecting
  <2> QED BY <2>1, <2>2, <2>3
<1> QED BY <1>4, <1>5 DEF Loop!LatestShown, Loop!Kinds

\* A tool is reached by the name it is offered by.
LEMMA OfferedAreReached == ASSUME NEW names PROVE Loop!OfferedIsReached(names)
  BY DEF Loop!OfferedIsReached, Loop!OfferedName, Loop!Reached

\* Replies are taken for what they are (response_repair).
LEMMA RepliesAreTaken == Loop!RepliesTaken
  BY DEF Loop!RepliesTaken, Loop!ReplyTexts, Loop!Parsed

\* What is put before the model stays what it was.
PromptShape == part = "prompts" => shown \in Shown

\* What is put before the model is one of the histories, initially.
LEMMA PromptsStart == ASSUME MCInit PROVE PromptShape
  BY DEF MCInit, PromptShape

\* It does not change.
LEMMA PromptsStay == ASSUME PromptShape, [MCNext]_<<part, shown, loops, others>> PROVE PromptShape'
  BY DEF PromptShape, Shown, MCNext

\* Prompts are faithful to whatever history there is.
LEMMA PromptsHold ==
    ASSUME part = "prompts", PromptShape
    PROVE  Loop!PromptsFaithful(shown.entries, shown.results, shown.names)
<1>1. PICK n \in 0..6 : shown.entries \in [1..n -> {"full", "empty"}]
  BY DEF PromptShape, Shown
<1>2. Len(shown.entries) \in Nat
  BY <1>1
<1>3. shown.results \in Nat
  BY DEF PromptShape, Shown
<1> QED BY <1>2, <1>3, LatestIsShown, OfferedAreReached, RepliesAreTaken DEF Loop!PromptsFaithful

-----------------------------------------------------------------------------
(***************************************************************************)
(* The parts together.                                                     *)
(***************************************************************************)
\* Loops, bound tools, gates, calls and memories move by their own steps, or not at all.
LEMMA PartsMove ==
    ASSUME [MCNext]_<<part, shown, loops, others>>
    PROVE  /\ [Loop!Next]_(Loop!vars) /\ [Bound!Next]_(Bound!vars) /\ [Gated!Next]_(Gated!vars)
           /\ [HostCalls!Next]_(HostCalls!vars) /\ [Memories!Next]_(Memories!vars)
<1>1. CASE UNCHANGED <<part, shown, loops, others>>
  <2>1. /\ UNCHANGED loopVars /\ UNCHANGED toolVars /\ UNCHANGED gateVars
        /\ UNCHANGED hostVars /\ UNCHANGED memoryVars
    BY <1>1 DEF loops, others
  <2>2. UNCHANGED Loop!vars /\ UNCHANGED Bound!vars /\ UNCHANGED Gated!vars
    BY <2>1 DEF loopVars, toolVars, gateVars, Loop!vars, Loop!still, Loop!talk, Loop!ends, Loop!tools,
                Bound!vars, Bound!usage, Bound!request, Bound!hooks, Gated!vars, Gated!gate
  <2>3. UNCHANGED HostCalls!vars /\ UNCHANGED Memories!vars
    BY <2>1 DEF hostVars, memoryVars, HostCalls!vars, Memories!vars
  <2> QED BY <2>2, <2>3
<1>2. CASE MCNext
  <2>1. /\ (Loop!Next \/ UNCHANGED loopVars) /\ (Bound!Next \/ UNCHANGED toolVars)
        /\ (Gated!Next \/ UNCHANGED gateVars) /\ (HostCalls!Next \/ UNCHANGED hostVars)
        /\ (Memories!Next \/ UNCHANGED memoryVars)
    BY <1>2 DEF MCNext, loops, others
  <2>2. UNCHANGED loopVars => UNCHANGED Loop!vars
    BY DEF loopVars, Loop!vars, Loop!still, Loop!talk, Loop!ends, Loop!tools
  <2>3. UNCHANGED toolVars => UNCHANGED Bound!vars
    BY DEF toolVars, Bound!vars, Bound!usage, Bound!request, Bound!hooks
  <2>4. UNCHANGED gateVars => UNCHANGED Gated!vars
    BY DEF gateVars, Gated!vars, Gated!gate
  <2>5. (UNCHANGED hostVars => UNCHANGED HostCalls!vars) /\ (UNCHANGED memoryVars => UNCHANGED Memories!vars)
    BY DEF hostVars, HostCalls!vars, memoryVars, Memories!vars
  <2> QED BY <2>1, <2>2, <2>3, <2>4, <2>5
<1> QED BY <1>1, <1>2

\* Whatever part is exercised, the others are as they begin.
LEMMA PartsStart == ASSUME MCInit 
    PROVE  Loop!Init /\ Bound!Init /\ Gated!Init /\ HostCalls!Init /\ Memories!Init
  BY DEF MCInit, IdleLoop, IdleTool, IdleGuard, IdleHost, IdleMemory

\* The loop of a pattern is as it should be in every reachable state.
LEMMA LoopInvariance == MCSpec => []LoopInv
<1>1. MCInit => LoopInv
  BY PartsStart, LoopStart, PartsAssumption
<1>2. LoopInv /\ [MCNext]_<<part, shown, loops, others>> => LoopInv'
  BY PartsMove, LoopSteps, PartsAssumption
<1> QED BY <1>1, <1>2, PTL DEF MCSpec

\* Native conversations are the calls the model made, each with its one result;
\* what an execution returned is what is kept of it; and a tool asks for another
\* attempt no oftener than it may (ReActPattern, PlanExecutePattern,
\* ReflexionPattern, PatternPlugin.call_tool).
THEOREM LoopsAreFaithful == MCSpec => []LoopFaithful
<1>1. LoopInv => LoopFaithful
  BY LoopHolds DEF LoopFaithful
<1> QED BY <1>1, LoopInvariance, PTL

\* In legacy mode no reply is paid for once what was spent is beyond the ceiling
\* (PatternPlugin.call_llm), for every price of a reply.
THEOREM LegacyCostsAreCapped == MCSpec => LegacyCostCeiling
<1>1. ASSUME LoopInv, [MCNext]_<<part, shown, loops, others>>
      PROVE  [~Loop!Native /\ Loop!Capped /\ spent' > spent => spent <= Ceiling]_(Loop!vars)
  <2>1. CASE Loop!Next
    <3>1. pattern' = pattern /\ MoneyMoves
      BY <2>1, <1>1, StepMoves, PartsAssumption
    <3> QED BY <3>1, <1>1, PaidWithinCeiling, PartsAssumption
  <2>2. CASE UNCHANGED Loop!vars
    BY <2>2
  <2> QED BY <1>1, <2>1, <2>2, PartsMove
<1> QED BY <1>1, LoopInvariance, PTL DEF MCSpec, LegacyCostCeiling, Loop!LegacyCostCeiling

\* A bound tool's usage is right and its hooks are paired, for any gate, any
\* decisions of the application and any number of calls, jobs and repetitions
\* (_BoundTool of default_runtime.py).
THEOREM CallsAreAccounted == MCSpec => []CallsAccounted
<1>1. MCInit => CallInv
  BY PartsStart, CallsStart
<1>2. CallInv /\ [MCNext]_<<part, shown, loops, others>> => CallInv'
  BY PartsMove, CallsStep, PartsAssumption
<1>3. CallInv => CallsAccounted
  BY DEF CallInv, CallsAccounted, Bound!CountedOnce, Bound!HooksBracket
<1> QED BY <1>1, <1>2, <1>3, PTL DEF MCSpec

\* Around a call, in every reachable state.
Surroundings == GateInv /\ HostInv /\ MemoryInv /\ PromptShape

\* The invariants of the parts around a call hold in every reachable state.
LEMMA SurroundingsInvariance == MCSpec => []Surroundings
<1>1. MCInit => Surroundings
  <2>1. MCInit => GateInv /\ HostInv
    BY PartsStart, GateStart, HostStart, PartsAssumption
  <2>2. MCInit => MemoryInv /\ PromptShape
    BY PartsStart, MemoryStart, PromptsStart, PartsAssumption
  <2> QED BY <2>1, <2>2 DEF Surroundings
<1>2. Surroundings /\ [MCNext]_<<part, shown, loops, others>> => Surroundings'
  <2>1. Surroundings /\ [MCNext]_<<part, shown, loops, others>> => GateInv' /\ HostInv'
    BY PartsMove, GateSteps, HostSteps, PartsAssumption DEF Surroundings
  <2>2. Surroundings /\ [MCNext]_<<part, shown, loops, others>> => MemoryInv' /\ PromptShape'
    BY PartsMove, MemorySteps, PromptsStay, PartsAssumption DEF Surroundings
  <2> QED BY <2>1, <2>2 DEF Surroundings
<1> QED BY <1>1, <1>2, PTL DEF MCSpec

\* What is around a call is as it should be.  No pattern starts before every
\* tool of its agent has passed its preflight, no attempt of a call is made that
\* its policies do not permit, however they are composed and however often it is
\* tried, and no delay is beyond its cap.  A call that answered is over, and a
\* change that may be made twice was warned of.  What was to be remembered is,
\* once.  A preflight foretells whether a server can be reached.  Prompts show
\* what is latest (_run_tool_preflight, the policies, RetryToolExecutor, the host
\* tools, the memory plugins, McpTool.preflight and the patterns' prompts).
THEOREM SurroundingsAreFaithful == MCSpec => []SurroundingsFaithful
<1>1. Surroundings => SurroundingsFaithful
  <2> SUFFICES ASSUME Surroundings PROVE SurroundingsFaithful
    OBVIOUS
  <2>1. Gated!GateFaithful /\ HostCalls!HostFaithful /\ Memories!MemoriesFaithful
    BY GateHolds, HostHolds, MemoryHolds, PartsAssumption DEF Surroundings
  <2>2. Behind!ServerFaithful(shown)
    BY ServersAreForetold
  <2>3. part = "prompts" => Loop!PromptsFaithful(shown.entries, shown.results, shown.names)
    BY PromptsHold DEF Surroundings
  <2> QED BY <2>1, <2>2, <2>3 DEF SurroundingsFaithful
<1> QED BY <1>1, SurroundingsInvariance, PTL
=============================================================================
