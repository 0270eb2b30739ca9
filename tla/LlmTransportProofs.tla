------------------------- MODULE LlmTransportProofs -------------------------
(***************************************************************************)
(* What the HTTP transport of the LLM providers keeps, for any number of   *)
(* runs, calls and clients, any retry policy and any server: a call stays  *)
(* within its budget and does not come back sooner than it was told, the   *)
(* responses of a call are closed before the next is asked for (CallsInv), *)
(* and no transport outlives its client (ClientsInv).                      *)
(***************************************************************************)
EXTENDS LlmTransport, FiniteSetTheorems, TLAPS

Places == {"idle", "ready", "sent", "nap", "tail", "reading", "gone"}
Results == {"connection", "rate_limit", "response", "unknown", "untyped", "returned", "cancelled"}
CallRecs ==
    [n : Nat, stream : BOOLEAN, attempt : Nat, elapsed : Nat, begun : Nat, nap : Nat, notBefore : Nat,
     exc : BOOLEAN, status : Outcomes \cup {None}, last : Outcomes \cup {None}, dead : BOOLEAN,
     open : SUBSET (Nat \X Nat), result : Results \cup {None}]

\* The time of a call: an attempt begins within the budget and not before the
\* server allowed it; a nap ends within the budget, and if it ends too soon for
\* the server, with nothing of the budget left.
Timely(p, at, c) ==
    /\ at = "sent" =>
          /\ c.attempt \in 1..p.attempts /\ c.begun = c.elapsed /\ c.notBefore <= c.begun
          /\ p.budget # None => c.begun < p.budget
    /\ at = "nap" =>
          /\ c.attempt \in 1..p.attempts /\ c.attempt < p.attempts
          /\ \/ c.notBefore <= c.elapsed + c.nap
             \/ p.budget # None /\ p.budget <= c.elapsed + c.nap
    /\ p.budget # None =>
          \A d \in Durations : (\A e \in Durations : e <= d)
              => /\ c.elapsed <= p.budget + d
                 /\ at = "nap" => c.elapsed + c.nap <= p.budget + d

\* The responses of a call: those of earlier ones aside, only that of its last
\* attempt, and none before it is answered.
Tidy(at, c) ==
    \A o \in c.open :
        /\ o[1] <= c.n
        /\ o[1] = c.n =>
              /\ o = <<c.n, c.attempt>>
              /\ at \in {"tail", "reading", "gone"} \/ (at = "ready" /\ c.exc)

Right(p, at, c) == Timely(p, at, c) /\ Tidy(at, c)

CallSorts == policy \in Policies /\ pc \in [Runs -> Places] /\ call \in [Runs -> CallRecs]
CallsInv == CallSorts /\ \A r \in Runs : Right(policy, pc[r], call[r])

\* The invariant holds before any call.
LEMMA CallsInvInit == Init => CallsInv
<1> SUFFICES ASSUME Init PROVE CallsInv
  OBVIOUS
<1>0. NoCall \in CallRecs
  BY DEF NoCall, CallRecs
<1>1. CallSorts
  BY <1>0 DEF Init, CallSorts, Places
<1>2. policy.budget # None => policy.budget \in Nat
  BY <1>1, PolicyAssumption DEF CallSorts
<1>3. \A r \in Runs : Timely(policy, pc[r], call[r])
  BY <1>1, <1>2, CallAssumption DEF Init, Timely, NoCall
<1>4. \A r \in Runs : Tidy(pc[r], call[r])
  BY DEF Init, Tidy, NoCall
<1> QED
  BY <1>1, <1>3, <1>4 DEF CallsInv, Right

\* A run that is put in its right place leaves the others in theirs.
LEMMA PlacedRight ==
  ASSUME CallsInv, policy' = policy, NEW r \in Runs, NEW at \in Places, NEW c \in CallRecs,
         Right(policy, at, c), Goto(r, at), With(r, c)
  PROVE  CallsInv'
<1>1. CallSorts'
  BY DEF CallsInv, CallSorts, Goto, With
<1>2. ASSUME NEW q \in Runs PROVE Right(policy', pc'[q], call'[q])
  BY DEF CallsInv, CallSorts, Goto, With
<1> QED
  BY <1>1, <1>2 DEF CallsInv

\* A call that has ended or is being read has nothing more to be in time for.
Finished(p, c) ==
    p.budget # None => \A d \in Durations : (\A e \in Durations : e <= d) => c.elapsed <= p.budget + d
\* What is open of the call is the response to its last attempt.
OwnLast(c) == \A o \in c.open : o[1] <= c.n /\ (o[1] = c.n => o = <<c.n, c.attempt>>)
NoneOwn(c) == \A o \in c.open : o[1] < c.n

\* A call ends in time with nothing open, unless an exception hides it.
LEMMA EndsRight ==
  ASSUME CallsInv, policy' = policy, NEW r \in Runs, NEW c \in CallRecs, NEW result \in Results,
         Finished(policy, c), OwnLast(c), c.exc \/ NoneOwn(c), Ends(r, c, result)
  PROVE  CallsInv'
<1> DEFINE d == [c EXCEPT !.result = result]
<1>1. d \in CallRecs /\ d.n = c.n /\ d.attempt = c.attempt /\ d.elapsed = c.elapsed /\ d.open = c.open /\ d.exc = c.exc
  BY DEF CallRecs
<1>2. Goto(r, "ready") /\ With(r, d) /\ "ready" \in Places
  BY DEF Ends, Places
<1> HIDE DEF d
<1>3. Timely(policy, "ready", d)
  BY <1>1 DEF Timely, Finished
<1>4. \A o \in c.open : o[1] \in Nat /\ c.n \in Nat
  BY DEF CallRecs
<1>5. Tidy("ready", d)
  BY <1>1, <1>4 DEF Tidy, OwnLast, NoneOwn
<1> QED
  BY <1>1, <1>2, <1>3, <1>5, PlacedRight DEF Right

\* A loop that is over without a response ends its call, or leaves the last
\* answer to be read.
LEMMA GiveUpRight ==
  ASSUME CallsInv, policy' = policy, NEW r \in Runs, NEW c \in CallRecs,
         Finished(policy, c), OwnLast(c), c.exc \/ (c.stream /\ c.status # None) \/ NoneOwn(c), GiveUp(r, c)
  PROVE  CallsInv'
<1>1. CASE c.exc
  <2>1. Ends(r, c, "connection")
    BY <1>1 DEF GiveUp
  <2>2. "connection" \in Results
    BY DEF Results
  <2> QED
    BY <1>1, <2>1, <2>2, EndsRight
<1>2. CASE ~c.exc /\ c.status # None /\ c.stream
  <2>1. Goto(r, "tail") /\ With(r, c) /\ "tail" \in Places
    BY <1>2 DEF GiveUp, Places
  <2>2. Right(policy, "tail", c)
    BY DEF Right, Timely, Finished, Tidy, OwnLast
  <2> QED
    BY <2>1, <2>2, PlacedRight
<1>3. CASE ~c.exc /\ c.status # None /\ ~c.stream
  <2>1. Ends(r, c, Classified(c.status))
    BY <1>3 DEF GiveUp
  <2>2. Classified(c.status) \in Results
    BY DEF Classified, Results
  <2> QED
    BY <1>3, <2>1, <2>2, EndsRight
<1>4. CASE ~c.exc /\ c.status = None
  <2>1. Ends(r, c, "connection")
    BY <1>4 DEF GiveUp
  <2>2. "connection" \in Results
    BY DEF Results
  <2> QED
    BY <1>4, <2>1, <2>2, EndsRight
<1> QED
  BY <1>1, <1>2, <1>3, <1>4

\* The head of the loop: an attempt is issued only in time.
LEMMA NextAttemptRight ==
  ASSUME CallsInv, policy' = policy, NEW r \in Runs, NEW c \in CallRecs,
         Finished(policy, c), NoneOwn(c), c.attempt < policy.attempts,
         c.notBefore <= c.elapsed \/ (policy.budget # None /\ policy.budget <= c.elapsed),
         NextAttempt(r, c)
  PROVE  CallsInv'
<1> DEFINE sent == [c EXCEPT !.attempt = @ + 1, !.begun = c.elapsed]
<1>0. policy.attempts \in Nat \ {0} /\ (policy.budget # None => policy.budget \in Nat)
  BY PolicyAssumption DEF CallsInv, CallSorts
<1>2. c.n \in Nat /\ c.elapsed \in Nat /\ c.attempt \in Nat /\ c.notBefore \in Nat /\ \A o \in c.open : o[1] \in Nat
  BY DEF CallRecs
<1>1. /\ sent \in CallRecs /\ sent.n = c.n /\ sent.attempt = c.attempt + 1 /\ sent.elapsed = c.elapsed
      /\ sent.begun = c.elapsed /\ sent.notBefore = c.notBefore /\ sent.open = c.open
  <2>1. c.attempt + 1 \in Nat
    BY <1>2
  <2> QED
    BY <1>2, <2>1 DEF CallRecs
<1>3. OwnLast(c) /\ OwnLast(sent) /\ NoneOwn(sent) /\ Finished(policy, sent)
  BY <1>1, <1>2 DEF OwnLast, NoneOwn, Finished
<1>4. CASE Spent(c)
  <2>1. GiveUp(r, c)
    BY <1>4 DEF NextAttempt
  <2> QED
    BY <1>3, <2>1, GiveUpRight
<1>5. CASE ~Spent(c) /\ c.dead
  <2>1. Ends(r, sent, "untyped")
    BY <1>5 DEF NextAttempt
  <2>2. "untyped" \in Results
    BY DEF Results
  <2> HIDE DEF sent
  <2> QED
    BY <1>1, <1>3, <2>1, <2>2, EndsRight
<1>6. CASE ~Spent(c) /\ ~c.dead
  <2>1. Goto(r, "sent") /\ With(r, sent) /\ "sent" \in Places
    BY <1>6 DEF NextAttempt, Places
  <2> HIDE DEF sent
  <2>2. c.notBefore <= c.elapsed /\ (policy.budget # None => c.elapsed < policy.budget)
    BY <1>0, <1>2, <1>6 DEF Spent
  <2>3. Timely(policy, "sent", sent)
    BY <1>0, <1>1, <1>2, <1>3, <2>2 DEF Timely, Finished
  <2>4. Tidy("sent", sent)
    BY <1>1, <1>2, <1>3 DEF Tidy, NoneOwn
  <2> QED
    BY <1>1, <2>1, <2>3, <2>4, PlacedRight DEF Right
<1> QED
  BY <1>4, <1>5, <1>6

\* The last attempt took no longer than an attempt may.
Recent(c) == c.begun <= c.elapsed /\ \A d \in Durations : (\A e \in Durations : e <= d) => c.elapsed <= c.begun + d

\* The nap fits in what is left of the budget when the attempt began, and is as
\* long as the server asks for unless the budget cuts it.
LEMMA DelayFits ==
  ASSUME policy \in Policies, NEW c \in CallRecs, NEW after \in Afters \cup {None},
         c.attempt \in 1..policy.attempts, policy.budget # None => c.begun < policy.budget
  PROVE  /\ Delay(c, after) \in Nat
         /\ policy.budget # None => c.begun + Delay(c, after) <= policy.budget
         /\ after # None => \/ after <= Delay(c, after)
                            \/ policy.budget # None /\ c.begun + Delay(c, after) = policy.budget
<1>1. /\ policy.cap \in Nat /\ policy.budget \in Nat \cup {None} /\ c.begun \in Nat
      /\ policy.initial * 2 ^ (c.attempt - 1) \in Nat
  BY PolicyAssumption DEF CallRecs
<1> DEFINE doubled == policy.initial * 2 ^ (c.attempt - 1)
           own == Backoff(c.attempt)
           asked == IF after = None THEN own ELSE Max2(own, after)
<1> HIDE DEF doubled
<1>2. own \in Nat
  <2>1. doubled \in Nat
    BY <1>1 DEF doubled
  <2>2. own = Min2(doubled, policy.cap)
    BY DEF Backoff, doubled
  <2> QED
    BY <1>1, <2>1, <2>2 DEF Min2
<1> HIDE DEF own
<1>3. after # None => after \in Nat
  BY CallAssumption
<1>4. asked \in Nat /\ (after # None => after <= asked)
  BY <1>2, <1>3 DEF Max2
<1>5. Delay(c, after) = IF policy.budget = None THEN asked ELSE Min2(asked, policy.budget - c.begun)
  BY DEF Delay, own
<1> HIDE DEF asked
<1>6. CASE policy.budget = None
  BY <1>3, <1>4, <1>5, <1>6
<1>7. CASE policy.budget # None
  <2>1. policy.budget \in Nat /\ c.begun < policy.budget
    BY <1>1, <1>7
  <2>2. Delay(c, after) = IF asked < policy.budget - c.begun THEN asked ELSE policy.budget - c.begun
    BY <1>5, <1>7 DEF Min2
  <2> QED
    BY <1>1, <1>3, <1>4, <1>7, <2>1, <2>2
<1> QED
  BY <1>6, <1>7

\* A run that naps will wake in time.
LEMMA SleepRight ==
  ASSUME CallsInv, policy' = policy, NEW r \in Runs, NEW c \in CallRecs, NEW after \in Afters \cup {None},
         Recent(c), Finished(policy, c), NoneOwn(c), c.attempt \in 1..policy.attempts, c.attempt < policy.attempts,
         policy.budget # None => c.begun < policy.budget, Sleep(r, c, after)
  PROVE  CallsInv'
<1> DEFINE nap == Delay(c, after)
           due == IF after = None THEN 0 ELSE c.elapsed + after
           s == [c EXCEPT !.nap = nap, !.notBefore = due]
<1>0. policy \in Policies
  BY DEF CallsInv, CallSorts
<1>1. /\ nap \in Nat /\ (policy.budget # None => c.begun + nap <= policy.budget)
      /\ after # None => \/ after <= nap
                         \/ policy.budget # None /\ c.begun + nap = policy.budget
  BY <1>0, DelayFits
<1>2. Goto(r, "nap") /\ With(r, s) /\ "nap" \in Places
  BY DEF Sleep, Places
<1>3. c.n \in Nat /\ c.elapsed \in Nat /\ c.begun \in Nat /\ \A o \in c.open : o[1] \in Nat
  BY DEF CallRecs
<1>4. after \in Nat \/ after = None
  BY CallAssumption
<1> HIDE DEF nap
<1>5. due \in Nat
  BY <1>3, <1>4
<1>6. policy.budget # None => policy.budget \in Nat
  BY <1>0, PolicyAssumption
<1>7. /\ due <= c.elapsed + nap \/ (policy.budget # None /\ policy.budget <= c.elapsed + nap)
  BY <1>1, <1>3, <1>4, <1>6 DEF Recent
<1>8. policy.budget # None => \A d \in Durations : (\A e \in Durations : e <= d) => c.elapsed + nap <= policy.budget + d
  BY <1>1, <1>3, <1>6, CallAssumption DEF Recent
<1> HIDE DEF due
<1>9. /\ s \in CallRecs /\ s.n = c.n /\ s.attempt = c.attempt /\ s.elapsed = c.elapsed /\ s.open = c.open
      /\ s.nap = nap /\ s.notBefore = due
  BY <1>1, <1>5 DEF CallRecs
<1> HIDE DEF s
<1>10. Timely(policy, "nap", s)
  BY <1>7, <1>8, <1>9 DEF Timely, Finished
<1>11. Tidy("nap", s)
  BY <1>3, <1>9 DEF Tidy, NoneOwn
<1> QED
  BY <1>2, <1>9, <1>10, <1>11, PlacedRight DEF Right

\* An attempt that is answered, or fails, leads where the policy says.
LEMMA AnsweredRight ==
  ASSUME CallsInv, policy' = policy, NEW r \in Runs, NEW c \in CallRecs, NEW a \in Answers,
         Recent(c), Finished(policy, c), NoneOwn(c), c.attempt \in 1..policy.attempts,
         policy.budget # None => c.begun < policy.budget, Answered(r, c, a)
  PROVE  CallsInv'
<1> DEFINE kept == [c EXCEPT !.open = Entered(c), !.status = a.status]
           again == [c EXCEPT !.status = a.status]
<1>1. a.status \in Outcomes /\ a.after \in Afters \cup {None} /\ a.status # None
  BY CallAssumption DEF Answers
<1>2. c.n \in Nat /\ c.attempt \in Nat /\ c.open \subseteq Nat \X Nat /\ policy.attempts \in Nat
  BY PolicyAssumption DEF CallRecs, CallsInv, CallSorts
<1>3. Entered(c) \in SUBSET (Nat \X Nat) /\ (~c.stream => Entered(c) = c.open)
      /\ Entered(c) \subseteq c.open \cup {<<c.n, c.attempt>>}
  BY <1>2 DEF Entered
<1>4. /\ kept \in CallRecs /\ kept.n = c.n /\ kept.attempt = c.attempt /\ kept.elapsed = c.elapsed /\ kept.begun = c.begun
      /\ kept.exc = c.exc /\ kept.stream = c.stream /\ kept.status = a.status /\ kept.open = Entered(c)
  BY <1>1, <1>3 DEF CallRecs
<1>5. /\ again \in CallRecs /\ again.n = c.n /\ again.attempt = c.attempt /\ again.elapsed = c.elapsed
      /\ again.begun = c.begun /\ again.open = c.open
  BY <1>1 DEF CallRecs
<1>6. /\ a.status \notin Retryable /\ c.stream => Goto(r, "reading") /\ With(r, kept)
      /\ a.status \notin Retryable /\ ~c.stream =>
            Ends(r, kept, IF a.status = "ok" THEN "returned" ELSE Classified(a.status))
      /\ a.status \in Retryable /\ c.attempt >= policy.attempts => GiveUp(r, kept)
      /\ a.status \in Retryable /\ ~(c.attempt >= policy.attempts) => Sleep(r, again, a.after)
  BY DEF Answered
<1>7. (IF a.status = "ok" THEN "returned" ELSE Classified(a.status)) \in Results
  BY DEF Classified, Results
<1> HIDE DEF kept, again
<1>8. OwnLast(kept) /\ Finished(policy, kept) /\ (~c.stream => NoneOwn(kept))
  BY <1>2, <1>3, <1>4 DEF OwnLast, NoneOwn, Finished
<1>9. CASE a.status \notin Retryable /\ c.stream
  <2>1. Right(policy, "reading", kept)
    BY <1>8 DEF Right, Timely, Tidy, Finished, OwnLast
  <2>2. "reading" \in Places
    BY DEF Places
  <2> QED
    BY <1>4, <1>6, <1>9, <2>1, <2>2, PlacedRight
<1>10. CASE a.status \notin Retryable /\ ~c.stream
  BY <1>4, <1>6, <1>7, <1>8, <1>10, EndsRight
<1>11. CASE a.status \in Retryable /\ c.attempt >= policy.attempts
  BY <1>1, <1>4, <1>6, <1>8, <1>11, GiveUpRight DEF CallRecs
<1>12. CASE a.status \in Retryable /\ ~(c.attempt >= policy.attempts)
  <2>1. again.attempt < policy.attempts /\ again.attempt \in 1..policy.attempts
    BY <1>2, <1>5, <1>12
  <2>2. Recent(again) /\ Finished(policy, again) /\ NoneOwn(again)
    BY <1>5 DEF Recent, Finished, NoneOwn
  <2> QED
    BY <1>1, <1>5, <1>6, <1>12, <2>1, <2>2, SleepRight
<1> QED
  BY <1>9, <1>10, <1>11, <1>12

\* _request, a transport error: the call naps, gives up or raises as it should.
LEMMA FailsRight ==
  ASSUME CallsInv, policy' = policy, NEW r \in Runs, NEW c \in CallRecs, NEW kind,
         Recent(c), Finished(policy, c), NoneOwn(c), c.attempt \in 1..policy.attempts,
         policy.budget # None => c.begun < policy.budget, Fails(r, c, kind)
  PROVE  CallsInv'
<1> DEFINE f == [c EXCEPT !.exc = TRUE]
<1>1. /\ f \in CallRecs /\ f.n = c.n /\ f.attempt = c.attempt /\ f.elapsed = c.elapsed /\ f.begun = c.begun /\ f.open = c.open
      /\ f.exc
  BY DEF CallRecs
<1>2. /\ kind = "aborted" => Ends(r, c, "untyped")
      /\ kind # "aborted" /\ (~policy.retry \/ c.attempt >= policy.attempts) => GiveUp(r, f)
      /\ kind # "aborted" /\ ~(~policy.retry \/ c.attempt >= policy.attempts) => Sleep(r, f, None)
  BY DEF Fails
<1> HIDE DEF f
<1>3. c.n \in Nat /\ c.attempt \in Nat /\ policy.attempts \in Nat /\ \A o \in c.open : o[1] \in Nat
  BY PolicyAssumption DEF CallRecs, CallsInv, CallSorts
<1>4. OwnLast(c) /\ OwnLast(f) /\ NoneOwn(f) /\ Finished(policy, f) /\ Recent(f)
  BY <1>1, <1>3 DEF OwnLast, NoneOwn, Finished, Recent
<1>5. CASE kind = "aborted"
  <2>1. "untyped" \in Results
    BY DEF Results
  <2> QED
    BY <1>2, <1>4, <1>5, <2>1, EndsRight
<1>6. CASE kind # "aborted" /\ (~policy.retry \/ c.attempt >= policy.attempts)
  BY <1>1, <1>2, <1>4, <1>6, GiveUpRight
<1>7. CASE kind # "aborted" /\ ~(~policy.retry \/ c.attempt >= policy.attempts)
  <2>1. f.attempt < policy.attempts /\ f.attempt \in 1..policy.attempts
    BY <1>1, <1>3, <1>7
  <2> QED
    BY <1>1, <1>2, <1>4, <1>7, <2>1, SleepRight
<1> QED
  BY <1>5, <1>6, <1>7

\* A call begins with nothing open of its own and all of its time.
LEMMA CallRight ==
  ASSUME CallsInv, NEW r \in Runs, Call(r)
  PROVE  CallsInv'
<1>0. /\ call[r] \in CallRecs /\ Tidy(pc[r], call[r]) /\ policy \in Policies /\ policy' = policy
  BY DEF CallsInv, CallSorts, Right, Call
<1>1. PICK s \in BOOLEAN :
         NextAttempt(r, [NoCall EXCEPT !.n = call[r].n + 1, !.stream = s, !.open = call[r].open,
                                       !.dead = transport[held[r]] = "closing"])
  BY DEF Call
<1> DEFINE c == [NoCall EXCEPT !.n = call[r].n + 1, !.stream = s, !.open = call[r].open,
                               !.dead = transport[held[r]] = "closing"]
<1>2. call[r].n \in Nat /\ call[r].open \in SUBSET (Nat \X Nat)
  BY <1>0 DEF CallRecs
<1>3. /\ c \in CallRecs /\ c.n = call[r].n + 1 /\ c.open = call[r].open /\ c.attempt = 0 /\ c.elapsed = 0
      /\ c.notBefore = 0
  <2>1. call[r].n + 1 \in Nat
    BY <1>2
  <2> QED
    BY <1>2, <2>1 DEF NoCall, CallRecs
<1>4. NextAttempt(r, c)
  BY <1>1
<1> HIDE DEF c
<1>5. policy.attempts \in Nat \ {0} /\ (policy.budget # None => policy.budget \in Nat)
  BY <1>0, PolicyAssumption
<1>6. Finished(policy, c)
  BY <1>3, <1>5, CallAssumption DEF Finished
<1>7. NoneOwn(c)
  BY <1>0, <1>2, <1>3 DEF NoneOwn, Tidy
<1>8. c.attempt < policy.attempts /\ c.notBefore <= c.elapsed
  BY <1>3, <1>5
<1> QED
  BY <1>0, <1>3, <1>4, <1>6, <1>7, <1>8, NextAttemptRight

\* _request, an attempt with any answer in any time keeps the calls right.
LEMMA AttemptRight ==
  ASSUME CallsInv, NEW r \in Runs, Attempt(r)
  PROVE  CallsInv'
<1>0. /\ call[r] \in CallRecs /\ pc[r] = "sent" /\ Timely(policy, "sent", call[r]) /\ Tidy("sent", call[r])
      /\ policy \in Policies /\ policy' = policy
  BY DEF CallsInv, CallSorts, Right, Attempt
<1>1. PICK a \in Answers, d \in Durations :
         IF a.status \in Statuses THEN Answered(r, [call[r] EXCEPT !.elapsed = @ + d, !.last = a.status], a)
                                  ELSE Fails(r, [call[r] EXCEPT !.elapsed = @ + d, !.last = a.status], a.status)
  BY DEF Attempt
<1> DEFINE c == [call[r] EXCEPT !.elapsed = @ + d, !.last = a.status]
<1>2. /\ call[r].elapsed \in Nat /\ call[r].begun \in Nat /\ call[r].n \in Nat /\ d \in Nat
      /\ call[r].open \in SUBSET (Nat \X Nat) /\ a.status \in Outcomes
  BY <1>0, CallAssumption DEF CallRecs, Answers
<1>3. /\ c \in CallRecs /\ c.n = call[r].n /\ c.open = call[r].open /\ c.attempt = call[r].attempt
      /\ c.elapsed = call[r].elapsed + d /\ c.begun = call[r].begun
  <2>1. call[r].elapsed + d \in Nat
    BY <1>2
  <2> QED
    BY <1>0, <1>2, <2>1 DEF CallRecs
<1>4. IF a.status \in Statuses THEN Answered(r, c, a) ELSE Fails(r, c, a.status)
  BY <1>1
<1> HIDE DEF c
<1>5. policy.budget # None => policy.budget \in Nat
  BY <1>0, PolicyAssumption
<1>6. /\ c.attempt \in 1..policy.attempts /\ (policy.budget # None => c.begun < policy.budget)
      /\ c.begun <= c.elapsed /\ c.elapsed = c.begun + d
  <2>1. call[r].attempt \in 1..policy.attempts /\ call[r].begun = call[r].elapsed
        /\ (policy.budget # None => call[r].begun < policy.budget)
    BY <1>0 DEF Timely
  <2>2. c.attempt \in 1..policy.attempts /\ (policy.budget # None => c.begun < policy.budget)
    BY <1>3, <2>1
  <2>3. c.elapsed = c.begun + d /\ c.begun <= c.elapsed
    BY <1>2, <1>3, <2>1
  <2> QED
    BY <2>2, <2>3
<1>7. Recent(c)
  <2>1. c.begun \in Nat /\ d \in Nat /\ c.elapsed = c.begun + d /\ c.begun <= c.elapsed
    BY <1>2, <1>3, <1>6
  <2>2. ASSUME NEW m \in Durations, \A e \in Durations : e <= m PROVE c.elapsed <= c.begun + m
    <3>1. m \in Nat /\ d <= m
      BY <2>2, CallAssumption
    <3> QED
      BY <2>1, <3>1
  <2> QED
    BY <2>1, <2>2 DEF Recent
<1>8. Finished(policy, c)
  BY <1>2, <1>3, <1>5, <1>6, CallAssumption DEF Finished
<1>9. NoneOwn(c)
  BY <1>0, <1>2, <1>3 DEF NoneOwn, Tidy
<1> QED
  BY <1>0, <1>3, <1>4, <1>6, <1>7, <1>8, <1>9, AnsweredRight, FailsRight

\* _sleep is over: the next attempt begins within the budget, or the call gives up.
LEMMA WakeRight ==
  ASSUME CallsInv, NEW r \in Runs, Wake(r)
  PROVE  CallsInv'
<1>0. /\ call[r] \in CallRecs /\ pc[r] = "nap" /\ Timely(policy, "nap", call[r]) /\ Tidy("nap", call[r])
      /\ policy \in Policies /\ policy' = policy
  BY DEF CallsInv, CallSorts, Right, Wake
<1> DEFINE c == [call[r] EXCEPT !.elapsed = @ + call[r].nap, !.nap = 0]
<1>1. NextAttempt(r, c)
  BY DEF Wake
<1>2. /\ call[r].elapsed \in Nat /\ call[r].nap \in Nat /\ call[r].n \in Nat /\ call[r].open \in SUBSET (Nat \X Nat)
  BY <1>0 DEF CallRecs
<1>3. /\ c \in CallRecs /\ c.n = call[r].n /\ c.open = call[r].open /\ c.attempt = call[r].attempt
      /\ c.elapsed = call[r].elapsed + call[r].nap /\ c.notBefore = call[r].notBefore
  <2>1. call[r].elapsed + call[r].nap \in Nat
    BY <1>2
  <2> QED
    BY <1>0, <1>2, <2>1 DEF CallRecs
<1> HIDE DEF c
<1>4. Finished(policy, c) /\ c.attempt < policy.attempts
      /\ (c.notBefore <= c.elapsed \/ (policy.budget # None /\ policy.budget <= c.elapsed))
  BY <1>0, <1>3 DEF Finished, Timely
<1>5. NoneOwn(c)
  BY <1>0, <1>2, <1>3 DEF NoneOwn, Tidy
<1> QED
  BY <1>0, <1>1, <1>3, <1>4, <1>5, NextAttemptRight

\* The response that is closed was the only one of its call.
LEMMA ClosedTidy ==
  ASSUME NEW c \in CallRecs, NEW p, NEW at \in Places, Right(p, at, c)
  PROVE  LET d == Closed(c) IN
         /\ d \in CallRecs /\ NoneOwn(d) /\ OwnLast(d) /\ Finished(p, d)
         /\ d.n = c.n /\ d.status = c.status
<1> DEFINE d == Closed(c)
<1>1. c.n \in Nat /\ c.open \in SUBSET (Nat \X Nat)
  BY DEF CallRecs
<1>2. /\ d \in CallRecs /\ d.n = c.n /\ d.attempt = c.attempt /\ d.elapsed = c.elapsed /\ d.status = c.status
      /\ d.open = c.open \ {<<c.n, c.attempt>>}
  BY <1>1 DEF Closed, CallRecs
<1> HIDE DEF d
<1>3. NoneOwn(d) /\ OwnLast(d)
  BY <1>1, <1>2 DEF NoneOwn, OwnLast, Right, Tidy
<1>4. Finished(p, d)
  BY <1>2 DEF Finished, Right, Timely
<1> QED
  BY <1>2, <1>3, <1>4 DEF d

\* A body that is read, or a record of it, keeps the calls right.
LEMMA ReadRight ==
  ASSUME CallsInv, NEW r \in Runs, Tail(r) \/ Read(r)
  PROVE  CallsInv'
<1>0. call[r] \in CallRecs /\ pc[r] \in Places /\ Right(policy, pc[r], call[r])
  BY DEF CallsInv, CallSorts
<1>1. policy' = policy
  BY DEF Tail, Read
<1>2. /\ Closed(call[r]) \in CallRecs /\ NoneOwn(Closed(call[r])) /\ OwnLast(Closed(call[r]))
      /\ Finished(policy, Closed(call[r]))
  BY <1>0, ClosedTidy
<1>3. CASE Tail(r)
  <2>1. Ends(r, Closed(call[r]), Classified(call[r].status))
    BY <1>3 DEF Tail
  <2>2. Classified(call[r].status) \in Results
    BY DEF Classified, Results
  <2> QED
    BY <1>1, <1>2, <2>1, <2>2, EndsRight
<1>4. CASE Read(r)
  <2>1. Ends(r, Closed(call[r]), IF call[r].status = "ok" THEN "returned" ELSE Streamed(call[r].status))
    BY <1>4 DEF Read
  <2>2. (IF call[r].status = "ok" THEN "returned" ELSE Streamed(call[r].status)) \in Results
    BY DEF Streamed, Classified, Results
  <2> QED
    BY <1>1, <1>2, <2>1, <2>2, EndsRight
<1> QED
  BY <1>3, <1>4

\* A call cancelled at any await closes what it reads.
LEMMA CancelRight ==
  ASSUME CallsInv, NEW r \in Runs, Cancel(r)
  PROVE  CallsInv'
<1>0. call[r] \in CallRecs /\ pc[r] \in Places /\ Right(policy, pc[r], call[r]) /\ policy' = policy
  BY DEF CallsInv, CallSorts, Cancel
<1> DEFINE c == IF pc[r] = "reading" THEN Closed(call[r]) ELSE call[r]
           d == [c EXCEPT !.result = "cancelled"]
<1>1. c \in CallRecs /\ Finished(policy, c) /\ OwnLast(c)
  <2>1. CASE pc[r] = "reading"
    BY <1>0, <2>1, ClosedTidy
  <2>2. CASE pc[r] # "reading"
    BY <1>0, <2>2 DEF Right, Timely, Tidy, Finished, OwnLast
  <2> QED
    BY <2>1, <2>2
<1>2. Goto(r, "gone") /\ With(r, d) /\ "gone" \in Places
  BY DEF Cancel, Places
<1> HIDE DEF c
<1>3. d \in CallRecs /\ d.n = c.n /\ d.attempt = c.attempt /\ d.elapsed = c.elapsed /\ d.open = c.open
  <2>1. "cancelled" \in Results
    BY DEF Results
  <2> QED
    BY <1>1, <2>1 DEF CallRecs
<1> HIDE DEF d
<1>4. Right(policy, "gone", d)
  BY <1>1, <1>3 DEF Right, Timely, Tidy, Finished, OwnLast
<1> QED
  BY <1>0, <1>2, <1>3, <1>4, PlacedRight

\* A run comes and goes outside its calls.
LEMMA OutsideRight ==
  ASSUME CallsInv, NEW r \in Runs, Take(r) \/ Leave(r)
  PROVE  CallsInv'
<1>0. call[r] \in CallRecs /\ Right(policy, pc[r], call[r]) /\ policy' = policy /\ call' = call
  BY DEF CallsInv, CallSorts, Take, Leave
<1>1. \/ pc[r] = "idle" /\ Goto(r, "ready")
      \/ pc[r] = "ready" /\ Goto(r, "gone")
  BY DEF Take, Leave
<1>2. CallSorts'
  BY <1>0, <1>1 DEF CallsInv, CallSorts, Goto, Places
<1>3. ASSUME NEW q \in Runs PROVE Right(policy', pc'[q], call'[q])
  <2>1. CASE q # r
    BY <1>0, <1>1, <2>1 DEF CallsInv, CallSorts, Goto
  <2>2. CASE q = r
    <3>1. Right(policy, "ready", call[r]) \/ pc[r] = "ready"
      BY <1>0, <1>1 DEF Right, Timely, Tidy
    <3>2. Right(policy, "gone", call[r])
      BY <1>0, <1>1 DEF Right, Timely, Tidy
    <3> QED
      BY <1>0, <1>1, <2>2, <3>1, <3>2 DEF CallsInv, CallSorts, Goto
  <2> QED
    BY <2>1, <2>2
<1> QED
  BY <1>2, <1>3 DEF CallsInv

\* What happens to the client tells a call only that its transport is gone.
LEMMA DropRight ==
  ASSUME CallsInv, Drop
  PROVE  CallsInv'
<1>1. policy' = policy /\ pc' = pc
      /\ call' = [r \in Runs |-> IF held[r] = cached /\ Closes(cached)
                                 THEN [call[r] EXCEPT !.dead = TRUE] ELSE call[r]]
  BY DEF Drop
<1>2. ASSUME NEW r \in Runs PROVE call'[r] \in CallRecs /\ Right(policy', pc'[r], call'[r])
  <2>1. call[r] \in CallRecs /\ Right(policy, pc[r], call[r])
    BY DEF CallsInv, CallSorts
  <2>2. CASE call'[r] = call[r]
    BY <1>1, <2>1, <2>2
  <2>3. CASE call'[r] = [call[r] EXCEPT !.dead = TRUE]
    <3> DEFINE c == call[r]
               d == [c EXCEPT !.dead = TRUE]
    <3>1. /\ d \in CallRecs /\ d.n = c.n /\ d.attempt = c.attempt /\ d.elapsed = c.elapsed /\ d.open = c.open
          /\ d.begun = c.begun /\ d.nap = c.nap /\ d.notBefore = c.notBefore /\ d.exc = c.exc
      BY <2>1 DEF CallRecs
    <3> HIDE DEF d
    <3>2. Right(policy, pc[r], d)
      BY <2>1, <3>1 DEF Right, Timely, Tidy
    <3> QED
      BY <1>1, <2>3, <3>1, <3>2 DEF d
  <2> QED
    BY <1>1, <2>2, <2>3
<1>3. CallSorts'
  BY <1>1, <1>2 DEF CallsInv, CallSorts
<1> QED
  BY <1>2, <1>3 DEF CallsInv

\* Every step keeps the invariant.
LEMMA CallsInvNext == CallsInv /\ [Next]_vars => CallsInv'
<1> SUFFICES ASSUME CallsInv, [Next]_vars PROVE CallsInv'
  OBVIOUS
<1>1. CASE \E r \in Runs : Take(r) \/ Leave(r)
  BY <1>1, OutsideRight
<1>2. CASE \E r \in Runs : Step(r)
  BY <1>2, CallRight, AttemptRight, WakeRight, ReadRight DEF Step
<1>3. CASE \E r \in Runs : Cancel(r)
  BY <1>3, CancelRight
<1>4. CASE Drop
  BY <1>4, DropRight
<1>5. CASE Forget \/ UNCHANGED vars
  BY <1>5 DEF Forget, vars, CallsInv, CallSorts, Right, Timely, Tidy
<1> QED
  BY <1>1, <1>2, <1>3, <1>4, <1>5 DEF Next

\* What holds of the calls is what the properties say.
LEMMA CallsInvTimes == CallsInv => CallTimes
<1> SUFFICES ASSUME CallsInv PROVE CallTimes
  OBVIOUS
<1>1. ASSUME NEW r \in Runs PROVE Timely(policy, pc[r], call[r])
  BY DEF CallsInv, Right
<1>2. WithinBudget
  BY <1>1 DEF WithinBudget, Timely
<1>3. RetryAfterHonoured
  <2>1. ASSUME NEW r \in Runs, pc[r] = "sent" PROVE call[r].begun >= call[r].notBefore
    <3>1. call[r].notBefore <= call[r].begun
      BY <1>1, <2>1 DEF Timely
    <3>2. call[r].begun \in Nat /\ call[r].notBefore \in Nat
      BY DEF CallsInv, CallSorts, CallRecs
    <3> QED
      BY <3>1, <3>2
  <2> QED
    BY <2>1 DEF RetryAfterHonoured
<1> QED
  BY <1>2, <1>3 DEF CallTimes

\* Calls that are right have one response open at most, and none between attempts.
LEMMA CallsInvStreams == CallsInv => StreamsClosed
<1> SUFFICES ASSUME CallsInv, NEW r \in Runs
             PROVE  LET c == call[r]  own == {o \in c.open : o[1] = c.n} IN
                    /\ Cardinality(own) <= 1
                    /\ pc[r] = "sent" => own = {}
                    /\ pc[r] = "ready" /\ c.exc = FALSE => own = {}
  BY DEF StreamsClosed
<1> DEFINE c == call[r]
           own == {o \in c.open : o[1] = c.n}
<1>1. Tidy(pc[r], c)
  BY DEF CallsInv, Right
<1> HIDE DEF c
<1>2. pc[r] = "sent" => own = {}
  BY <1>1 DEF Tidy
<1>3. pc[r] = "ready" /\ c.exc = FALSE => own = {}
  BY <1>1 DEF Tidy
<1>4. own = {} \/ own = {<<c.n, c.attempt>>}
  BY <1>1 DEF Tidy
<1>5. Cardinality(own) <= 1
  <2> HIDE DEF own
  <2>1. CASE own = {}
    <3>1. Cardinality({}) = 0
      BY FS_EmptySet
    <3> QED
      BY <2>1, <3>1
  <2>2. CASE own = {<<c.n, c.attempt>>}
    <3>1. Cardinality({<<c.n, c.attempt>>}) = 1
      BY FS_Singleton
    <3> QED
      BY <2>2, <3>1
  <2> QED
    BY <1>4, <2>1, <2>2
<1> QED
  BY <1>2, <1>3, <1>5 DEF c

-----------------------------------------------------------------------------
\* The clients: a run that is not gone holds the client that is cached or one
\* that was dropped under it; a transport is closing only in the hands of Drop.
ClientSorts ==
    /\ cached \in Clients \cup {None} /\ created \subseteq Clients
    /\ transport \in [Clients -> {"none", "open", "closing"}]
    /\ drops \in [state : {"idle", "closing"}, client : Clients \cup {None}, left : Nat, stranded : SUBSET Clients]
    /\ held \in [Runs -> Clients \cup {None}] /\ pc \in [Runs -> Places]
HeldRight(r) ==
    /\ held[r] # None => held[r] \in created
    /\ pc[r] # "idle" => held[r] # None
    /\ pc[r] # "gone" /\ held[r] # None => held[r] = cached \/ held[r] \in drops.stranded
TransportsRight ==
    /\ cached # None => cached \in created
    /\ drops.state = "closing" => drops.client \in created /\ drops.client # cached
    /\ \A o \in Clients : transport[o] = "closing" => drops.state = "closing" /\ drops.client = o
    /\ \A o \in created :
          o # cached /\ o \notin drops.stranded
             => transport[o] = "none" \/ (drops.state = "closing" /\ drops.client = o)
ClientsInv == ClientSorts /\ TransportsRight /\ \A r \in Runs : HeldRight(r)

\* At first nobody holds a client and none is there.
LEMMA ClientsInvInit == Init => ClientsInv
<1> SUFFICES ASSUME Init PROVE ClientsInv
  OBVIOUS
<1>1. ClientSorts
  BY CallAssumption DEF Init, ClientSorts, Places
<1>2. TransportsRight
  BY DEF Init, TransportsRight
<1>3. \A r \in Runs : HeldRight(r)
  BY DEF Init, HeldRight
<1> QED
  BY <1>1, <1>2, <1>3 DEF ClientsInv

\* A run in a call moves on without a change to the clients.
LEMMA InCallMoves ==
  ASSUME ClientsInv, NEW r \in Runs, pc[r] \notin {"idle", "gone"},
         pc' \in [Runs -> Places], \A q \in Runs \ {r} : pc'[q] = pc[q],
         UNCHANGED <<cached, created, transport, drops, held>>
  PROVE  ClientsInv'
<1>1. ClientSorts'
  BY DEF ClientsInv, ClientSorts
<1>2. TransportsRight'
  BY DEF ClientsInv, TransportsRight
<1>3. ASSUME NEW q \in Runs PROVE HeldRight(q)'
  BY DEF ClientsInv, HeldRight
<1> QED
  BY <1>1, <1>2, <1>3 DEF ClientsInv

\* Nothing a call does moves another run.
LEMMA GiveUpMoves ==
  ASSUME pc \in [Runs -> Places], NEW r \in Runs, NEW c, GiveUp(r, c)
  PROVE  \A q \in Runs \ {r} : pc'[q] = pc[q]
<1>1. Goto(r, "ready") \/ Goto(r, "tail")
  BY DEF GiveUp, Ends
<1> QED
  BY <1>1 DEF Goto

\* The beginning of an attempt concerns its run alone.
LEMMA NextAttemptMoves ==
  ASSUME pc \in [Runs -> Places], NEW r \in Runs, NEW c, NextAttempt(r, c)
  PROVE  \A q \in Runs \ {r} : pc'[q] = pc[q]
<1>1. GiveUp(r, c) \/ Goto(r, "ready") \/ Goto(r, "sent")
  BY DEF NextAttempt, Ends
<1> QED
  BY <1>1, GiveUpMoves DEF Goto

\* So does what an attempt ends in.
LEMMA AnswerMoves ==
  ASSUME pc \in [Runs -> Places], NEW r \in Runs, NEW c, NEW a, Answered(r, c, a) \/ Fails(r, c, a)
  PROVE  \A q \in Runs \ {r} : pc'[q] = pc[q]
<1>1. CASE Answered(r, c, a)
  <2>1. \/ Goto(r, "reading") \/ Goto(r, "ready") \/ Goto(r, "nap")
        \/ GiveUp(r, [[c EXCEPT !.open = Entered(c)] EXCEPT !.status = a.status])
    BY <1>1 DEF Answered, Ends, Sleep
  <2> QED
    BY <2>1, GiveUpMoves DEF Goto
<1>2. CASE Fails(r, c, a)
  <2>1. Goto(r, "ready") \/ Goto(r, "nap") \/ GiveUp(r, [c EXCEPT !.exc = TRUE])
    BY <1>2 DEF Fails, Ends, Sleep
  <2> QED
    BY <2>1, GiveUpMoves DEF Goto
<1> QED
  BY <1>1, <1>2

\* Taking the client: the cached one, or a new one that is cached for the next.
LEMMA TakeClient ==
  ASSUME ClientsInv, NEW r \in Runs, Take(r)
  PROVE  ClientsInv'
<1>1. pc[r] = "idle" /\ pc' = [pc EXCEPT ![r] = "ready"] /\ UNCHANGED <<policy, transport, drops, call>>
  BY DEF Take, Goto
<1>2. CASE cached # None
  <2>1. held' = [held EXCEPT ![r] = cached] /\ UNCHANGED <<cached, created>>
    BY <1>2 DEF Take
  <2>2. ClientSorts'
    BY <1>1, <1>2, <2>1 DEF ClientsInv, ClientSorts, Places
  <2>3. TransportsRight'
    BY <1>1, <2>1 DEF ClientsInv, TransportsRight
  <2>4. ASSUME NEW q \in Runs PROVE HeldRight(q)'
    BY <1>1, <1>2, <2>1 DEF ClientsInv, ClientSorts, TransportsRight, HeldRight
  <2> QED
    BY <2>2, <2>3, <2>4 DEF ClientsInv
<1>3. CASE cached = None
  <2>1. PICK o \in Clients \ created : /\ cached' = o /\ created' = created \cup {o}
                                       /\ held' = [held EXCEPT ![r] = o]
    BY <1>3 DEF Take
  <2>2. o # None
    BY CallAssumption
  <2>3. ClientSorts'
    BY <1>1, <2>1 DEF ClientsInv, ClientSorts, Places
  <2>4. TransportsRight'
    BY <1>1, <1>3, <2>1, <2>2, CallAssumption DEF ClientsInv, ClientSorts, TransportsRight
  <2>5. ASSUME NEW q \in Runs PROVE HeldRight(q)'
    <3>1. CASE q = r
      BY <1>1, <2>1, <2>2, <3>1 DEF ClientsInv, ClientSorts, HeldRight
    <3>2. CASE q # r
      BY <1>1, <1>3, <2>1, <3>2 DEF ClientsInv, ClientSorts, HeldRight
    <3> QED
      BY <3>1, <3>2
  <2> QED
    BY <2>3, <2>4, <2>5 DEF ClientsInv
<1> QED
  BY <1>2, <1>3

\* A run that is gone needs no client.
LEMMA LeaveClient ==
  ASSUME ClientsInv, NEW r \in Runs, Leave(r)
  PROVE  ClientsInv'
<1>1. pc[r] = "ready" /\ pc' = [pc EXCEPT ![r] = "gone"] /\ UNCHANGED <<cached, created, transport, drops, held>>
  BY DEF Leave, Goto
<1>2. pc' \in [Runs -> Places] /\ \A q \in Runs \ {r} : pc'[q] = pc[q]
  BY <1>1 DEF ClientsInv, ClientSorts, Places
<1> QED
  BY <1>1, <1>2, InCallMoves

\* A call opens the transport of its client: the cached one, or one that was
\* dropped while the run held it.
LEMMA CallClient ==
  ASSUME ClientsInv, pc' \in [Runs -> Places], NEW r \in Runs, Call(r)
  PROVE  ClientsInv'
<1>1. /\ pc[r] = "ready" /\ UNCHANGED <<cached, created, drops, held>>
      /\ transport' = [transport EXCEPT ![held[r]] = IF @ = "none" THEN "open" ELSE @]
  BY DEF Call
<1>2. \A q \in Runs \ {r} : pc'[q] = pc[q]
  BY NextAttemptMoves DEF Call, ClientsInv, ClientSorts
<1>3. /\ held[r] \in Clients /\ held[r] \in created
      /\ held[r] = cached \/ held[r] \in drops.stranded
  BY <1>1 DEF ClientsInv, ClientSorts, HeldRight
<1>4. ClientSorts'
  BY <1>1 DEF ClientsInv, ClientSorts
<1>5. TransportsRight'
  BY <1>1, <1>3 DEF ClientsInv, ClientSorts, TransportsRight
<1>6. ASSUME NEW q \in Runs PROVE HeldRight(q)'
  BY <1>1, <1>2 DEF ClientsInv, HeldRight
<1> QED
  BY <1>4, <1>5, <1>6 DEF ClientsInv

\* What happens within a call leaves the clients as they are.
LEMMA InCallClient ==
  ASSUME ClientsInv, pc' \in [Runs -> Places], NEW r \in Runs,
         Attempt(r) \/ Wake(r) \/ Tail(r) \/ Read(r) \/ Cancel(r)
  PROVE  ClientsInv'
<1>0. pc \in [Runs -> Places]
  BY DEF ClientsInv, ClientSorts
<1>1. pc[r] \notin {"idle", "gone"} /\ UNCHANGED <<cached, created, transport, drops, held>>
  BY DEF Attempt, Wake, Tail, Read, Cancel
<1>2. \A q \in Runs \ {r} : pc'[q] = pc[q]
  <2>1. CASE Attempt(r)
    <3>1. PICK a \in Answers, d \in Durations :
             \/ Answered(r, [call[r] EXCEPT !.elapsed = @ + d, !.last = a.status], a)
             \/ Fails(r, [call[r] EXCEPT !.elapsed = @ + d, !.last = a.status], a.status)
      BY <2>1 DEF Attempt
    <3> QED
      BY <1>0, <3>1, AnswerMoves
  <2>2. CASE Wake(r)
    BY <1>0, <2>2, NextAttemptMoves DEF Wake
  <2>3. CASE Tail(r) \/ Read(r) \/ Cancel(r)
    BY <1>0, <2>3 DEF Tail, Read, Cancel, Ends, Goto
  <2> QED
    BY <2>1, <2>2, <2>3
<1> QED
  BY <1>1, <1>2, InCallMoves

\* The client leaves the cache: whoever uses it is stranded with it, and what
\* was open of it is closing.
LEMMA DropClient ==
  ASSUME ClientsInv, Drop
  PROVE  ClientsInv'
<1> DEFINE o == cached
<1>1. /\ drops.state = "idle" /\ drops.left > 0 /\ cached # None /\ cached' = None
      /\ drops' = [drops EXCEPT !.left = @ - 1, !.client = o,
                                !.state = IF Closes(o) THEN "closing" ELSE "idle",
                                !.stranded = IF Using(o) # {} THEN @ \cup {o} ELSE @]
      /\ transport' = [transport EXCEPT ![o] = IF Closes(o) THEN "closing" ELSE @]
      /\ UNCHANGED <<policy, created, pc, held>>
  BY DEF Drop
<1>2. o \in Clients /\ o \in created /\ drops.left \in Nat
  BY <1>1 DEF ClientsInv, ClientSorts, TransportsRight
<1>3. /\ drops'.state = (IF Closes(o) THEN "closing" ELSE "idle") /\ drops'.client = o
      /\ drops'.stranded = (IF Using(o) # {} THEN drops.stranded \cup {o} ELSE drops.stranded)
      /\ drops' \in [state : {"idle", "closing"}, client : Clients \cup {None}, left : Nat, stranded : SUBSET Clients]
  <2>1. drops.left - 1 \in Nat
    BY <1>1, <1>2
  <2> QED
    BY <1>1, <1>2, <2>1 DEF ClientsInv, ClientSorts
<1> HIDE DEF o
<1>4. /\ transport'[o] = (IF transport[o] = "open" THEN "closing" ELSE transport[o])
      /\ \A p \in Clients \ {o} : transport'[p] = transport[p]
      /\ transport' \in [Clients -> {"none", "open", "closing"}]
  BY <1>1, <1>2 DEF ClientsInv, ClientSorts, Closes
<1>5. \A p \in Clients : transport[p] # "closing"
  BY <1>1 DEF ClientsInv, TransportsRight
<1>6. ClientSorts'
  BY <1>1, <1>3, <1>4 DEF ClientsInv, ClientSorts
<1>7. TransportsRight'
  <2>1. cached' = None /\ o # None /\ created' = created /\ created \subseteq Clients
    BY <1>1 DEF o, ClientsInv, ClientSorts
  <2>2. drops'.state = "closing" => drops'.client \in created' /\ drops'.client # cached'
    BY <1>2, <1>3, <2>1
  <2>3. ASSUME NEW p \in Clients, transport'[p] = "closing" PROVE drops'.state = "closing" /\ drops'.client = p
    BY <1>3, <1>4, <1>5, <2>3 DEF Closes
  <2>4. ASSUME NEW p \in created, p \notin drops'.stranded
        PROVE  transport'[p] = "none" \/ (drops'.state = "closing" /\ drops'.client = p)
    <3>1. CASE p = o
      BY <1>2, <1>3, <1>4, <1>5, <3>1 DEF Closes, ClientsInv, ClientSorts
    <3>2. CASE p # o
      <4>1. p # cached /\ p \notin drops.stranded
        BY <1>3, <2>4, <3>2 DEF o
      <4>2. transport[p] = "none"
        BY <1>1, <4>1 DEF ClientsInv, TransportsRight
      <4> QED
        BY <1>4, <2>1, <3>2, <4>2
    <3> QED
      BY <3>1, <3>2
  <2> QED
    BY <2>1, <2>2, <2>3, <2>4 DEF TransportsRight
<1>8. ASSUME NEW q \in Runs PROVE HeldRight(q)'
  <2>1. /\ held[q] # None => held[q] \in created
        /\ pc[q] # "idle" => held[q] # None
        /\ pc[q] # "gone" /\ held[q] # None => held[q] = o \/ held[q] \in drops.stranded
    BY DEF ClientsInv, HeldRight, o
  <2>2. pc[q] # "gone" /\ held[q] = o => o \in drops'.stranded
    BY <1>3 DEF Using
  <2>3. drops.stranded \subseteq drops'.stranded
    BY <1>3
  <2> QED
    BY <1>1, <2>1, <2>2, <2>3 DEF HeldRight
<1> QED
  BY <1>6, <1>7, <1>8 DEF ClientsInv

\* The client whose transport is closed is forgotten.
LEMMA ForgetClient ==
  ASSUME ClientsInv, Forget
  PROVE  ClientsInv'
<1>1. /\ drops.state = "closing" /\ transport' = [transport EXCEPT ![drops.client] = "none"]
      /\ drops' = [drops EXCEPT !.state = "idle"] /\ UNCHANGED <<cached, created, pc, held>>
  BY DEF Forget
<1>2. drops.client \in Clients
  BY <1>1 DEF ClientsInv, ClientSorts, TransportsRight
<1>3. ClientSorts'
  BY <1>1 DEF ClientsInv, ClientSorts
<1>4. TransportsRight'
  BY <1>1, <1>2 DEF ClientsInv, ClientSorts, TransportsRight
<1>5. ASSUME NEW q \in Runs PROVE HeldRight(q)'
  BY <1>1 DEF ClientsInv, ClientSorts, HeldRight
<1> QED
  BY <1>3, <1>4, <1>5 DEF ClientsInv

\* Every step keeps the clients.
LEMMA ClientsInvNext == CallsInv' /\ ClientsInv /\ [Next]_vars => ClientsInv'
<1> SUFFICES ASSUME CallsInv', ClientsInv, [Next]_vars PROVE ClientsInv'
  OBVIOUS
<1>0. pc' \in [Runs -> Places]
  BY DEF CallsInv, CallSorts
<1>1. CASE \E r \in Runs : Take(r)
  BY <1>1, TakeClient
<1>2. CASE \E r \in Runs : Leave(r)
  BY <1>2, LeaveClient
<1>3. CASE \E r \in Runs : Call(r)
  BY <1>0, <1>3, CallClient
<1>4. CASE \E r \in Runs : Attempt(r) \/ Wake(r) \/ Tail(r) \/ Read(r) \/ Cancel(r)
  BY <1>0, <1>4, InCallClient
<1>5. CASE Drop
  BY <1>5, DropClient
<1>6. CASE Forget
  BY <1>6, ForgetClient
<1>7. CASE UNCHANGED vars
  BY <1>7 DEF vars, ClientsInv, ClientSorts, TransportsRight, HeldRight
<1> QED
  BY <1>1, <1>2, <1>3, <1>4, <1>5, <1>6, <1>7 DEF Next, Step

\* What holds of the clients: a transport outlives its client only in a run
\* that used the client when it was dropped.
LEMMA ClientsInvTransports == ClientsInv => TransportsClosed
  BY DEF ClientsInv, TransportsRight, TransportsClosed
-----------------------------------------------------------------------------
\* HTTPProviderClient._request, _open_stream: no attempt begins after the
\* budget, a call takes at most its budget and one attempt, and a server's
\* Retry-After is never cut short, whatever it asks for and whatever else fails.
THEOREM CallsKeepTime == Spec => []CallTimes
<1>1. Init => CallsInv
  BY CallsInvInit
<1>2. CallsInv /\ [Next]_vars => CallsInv'
  BY CallsInvNext
<1>3. CallsInv => CallTimes
  BY CallsInvTimes
<1> QED
  BY <1>1, <1>2, <1>3, PTL DEF Spec

\* _open_stream, complete_stream, aclose: one response of a call is open at a
\* time and none when it ends in the regular way, and a client that is neither
\* cached nor used has no open transport, however often it is dropped.
THEOREM NothingStaysOpen == Spec => []NothingLeftOpen
<1>1. Init => CallsInv /\ ClientsInv
  BY CallsInvInit, ClientsInvInit
<1>2. CallsInv /\ ClientsInv /\ [Next]_vars => CallsInv' /\ ClientsInv'
  BY CallsInvNext, ClientsInvNext
<1>3. CallsInv /\ ClientsInv => NothingLeftOpen
  BY CallsInvStreams, ClientsInvTransports DEF NothingLeftOpen
<1> QED
  BY <1>1, <1>2, <1>3, PTL DEF Spec
=============================================================================
