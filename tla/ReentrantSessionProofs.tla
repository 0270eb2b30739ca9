----------------------- MODULE ReentrantSessionProofs -----------------------
(***************************************************************************)
(* Proofs about ReentrantSession, for every number of tasks and sessions   *)
(* and with detached tasks allowed: type correctness, the agreement of the *)
(* lock with the frame that acquired it, the restoration of the context,   *)
(* the mutual exclusion of independent tasks and the absence of a lost     *)
(* wake-up.  They follow from one inductive invariant, LockInv.  Without   *)
(* detached tasks the lock implements SessionRoom: that needs the tree of  *)
(* the tasks that await each other, TreeInv.                               *)
(***************************************************************************)
EXTENDS ReentrantSession, SequenceTheorems, TLAPS

\* The context inside the first n frames of a task created with context inh.
CtxIn(inh, fs, n) ==
    inh \cup {s \in Sessions : \E j \in 1..n : fs[j].sid = s /\ fs[j].kind = "session"}

\* Every frame keeps the context it found, the context h is that of the
\* innermost frame, and a frame reenters only a session its context names.
Nested(inh, fs, h) ==
    /\ h = CtxIn(inh, fs, Len(fs))
    /\ \A i \in 1..Len(fs) :
          /\ fs[i].prev = CtxIn(inh, fs, i - 1)
          /\ fs[i].kind = "reentered" => fs[i].sid \in fs[i].prev

FramesOk ==
    \A t \in Tasks :
       /\ pc[t] = "absent" => frames[t] = <<>>
       /\ Nested(inherited[t], frames[t], held[t])

\* The lock of a session is locked for one frame of one task.
OwnersOk ==
    /\ \A t \in Tasks : \A i \in DOMAIN frames[t] :
          OwnFrame(frames[t][i]) => frames[t][i].sid \in locked
    /\ \A s \in locked : \E t \in Tasks : Owns(t, s)
    /\ \A t, u \in Tasks : \A i \in DOMAIN frames[t], j \in DOMAIN frames[u] :
          /\ OwnFrame(frames[t][i])
          /\ OwnFrame(frames[u][j])
          /\ frames[t][i].sid = frames[u][j].sid
          => t = u /\ i = j

\* A task waits in one queue, once, and only for the session it asked for; a
\* woken task is first in its queue and nobody has the lock.
QueuesOk ==
    /\ \A t \in Tasks : pc[t] = "wait" =>
          /\ want[t] \in Request
          /\ \E i \in DOMAIN waiters[want[t].sid] : waiters[want[t].sid][i] = t
    /\ \A s \in Sessions : \A i \in DOMAIN waiters[s] :
          /\ pc[waiters[s][i]] = "wait"
          /\ want[waiters[s][i]].sid = s
          /\ \A j \in DOMAIN waiters[s] : waiters[s][i] = waiters[s][j] => i = j
    /\ \A t \in woken :
          /\ pc[t] = "wait"
          /\ want[t].sid \notin locked
          /\ waiters[want[t].sid][1] = t

LockInv == TypeOK /\ FramesOk /\ OwnersOk /\ QueuesOk /\ NoLostWakeup

-----------------------------------------------------------------------------
(* Facts about the two ways sequences shrink here.                          *)

\* Removing an element that occurs once shifts what follows it by one place:
\* what deque.remove does to a queue that holds each waiter once.
LEMMA RemoveFirstOnce ==
    ASSUME NEW S, NEW q \in Seq(S), NEW k \in 1..Len(q),
           \A j \in 1..Len(q) : q[j] = q[k] => j = k
    PROVE  /\ RemoveFirst(q, q[k]) \in Seq(S)
           /\ Len(RemoveFirst(q, q[k])) = Len(q) - 1
           /\ \A j \in 1..(Len(q) - 1) :
                 RemoveFirst(q, q[k])[j] = IF j < k THEN q[j] ELSE q[j + 1]
<1> DEFINE I == {i \in 1..Len(q) : q[i] = q[k]}
<1>1. I = {k}
  OBVIOUS
<1>2. (CHOOSE x \in I : \A y \in I : x <= y) = k
  BY <1>1
<1>3. SelectInSeq(q, LAMBDA v : v = q[k]) = k
  BY <1>1, <1>2 DEF SelectInSeq, Min
<1>4. RemoveFirst(q, q[k]) = SubSeq(q, 1, k - 1) \o SubSeq(q, k + 1, Len(q))
  BY <1>3 DEF RemoveFirst, RemoveAt
<1> DEFINE A == SubSeq(q, 1, k - 1)
           B == SubSeq(q, k + 1, Len(q))
<1>5. A \in Seq(S) /\ Len(A) = k - 1 /\ \A i \in 1..(k - 1) : A[i] = q[i]
  BY SubSeqProperties
<1>6. B \in Seq(S) /\ Len(B) = Len(q) - k /\ \A i \in 1..(Len(q) - k) : B[i] = q[k + i]
  BY SubSeqProperties
<1> HIDE DEF A, B
<1>7. /\ A \o B \in Seq(S)
      /\ Len(A \o B) = Len(A) + Len(B)
      /\ \A i \in 1..(Len(A) + Len(B)) :
            (A \o B)[i] = IF i <= Len(A) THEN A[i] ELSE B[i - Len(A)]
  BY <1>5, <1>6, ConcatProperties
<1>8. RemoveFirst(q, q[k]) = A \o B
  BY <1>4 DEF A, B
<1> DEFINE C == A \o B
<1> HIDE DEF C
<1>9. C \in Seq(S) /\ Len(C) = Len(q) - 1
  BY <1>5, <1>6, <1>7 DEF C
<1>10. ASSUME NEW j \in 1..(Len(q) - 1)
       PROVE  C[j] = IF j < k THEN q[j] ELSE q[j + 1]
  <2>1. j \in 1..(Len(A) + Len(B)) /\ Len(A) = k - 1
    BY <1>5, <1>6
  <2>2. C[j] = IF j < k THEN A[j] ELSE B[j - (k - 1)]
    BY <2>1, <1>7 DEF C
  <2>3. CASE j < k
    BY <2>2, <2>3, <1>5
  <2>4. CASE j >= k
    <3>1. j - (k - 1) \in 1..(Len(q) - k) /\ k + (j - (k - 1)) = j + 1
      BY <2>4
    <3> QED
      BY <3>1, <2>2, <2>4, <1>6
  <2> QED
    BY <2>3, <2>4
<1> QED
  BY <1>8, <1>9, <1>10 DEF C


-----------------------------------------------------------------------------
(* Frames entered and left.                                                 *)

\* What is left of a stack of frames when the last is popped.
LEMMA FrontProperties ==
    ASSUME NEW S, NEW q \in Seq(S), q # <<>>
    PROVE  /\ Front(q) \in Seq(S)
           /\ Len(q) \in Nat \ {0}
           /\ Len(Front(q)) = Len(q) - 1
           /\ \A i \in 1..(Len(q) - 1) : Front(q)[i] = q[i]
<1>1. Len(q) \in Nat \ {0} /\ \A i \in 1..(Len(q) - 1) : q[i] \in S
  OBVIOUS
<1> DEFINE m == Len(q) - 1
<1>2. m \in Int /\ \A i \in 1..m : q[i] \in S
  BY <1>1
<1>3. /\ SubSeq(q, 1, m) \in Seq(S)
      /\ Len(SubSeq(q, 1, m)) = IF 1 <= m THEN m - 1 + 1 ELSE 0
      /\ \A i \in 1..(m - 1 + 1) : SubSeq(q, 1, m)[i] = q[1 + i - 1]
  BY <1>2, SubSeqProperties
<1>4. Front(q) = SubSeq(q, 1, m)
  BY DEF Front
<1> DEFINE r == SubSeq(q, 1, m)
<1> HIDE DEF m, r
<1>5. m \in Nat /\ Len(q) = m + 1
  BY <1>1 DEF m
<1>6. Len(r) = m /\ \A i \in 1..m : r[i] = q[i]
  BY <1>3, <1>5 DEF r
<1>7. r \in Seq(S) /\ Front(q) = r
  BY <1>3, <1>4 DEF r
<1> QED
  BY <1>1, <1>5, <1>6, <1>7

\* A context depends on the frames up to its depth alone.
LEMMA CtxLocal ==
    ASSUME NEW inh, NEW q, NEW r, NEW n, \A i \in 1..n : q[i] = r[i]
    PROVE  CtxIn(inh, q, n) = CtxIn(inh, r, n)
BY DEF CtxIn

\* Entering a frame that keeps the context it finds preserves the nesting.
LEMMA PushNested ==
    ASSUME NEW inh, NEW h, NEW q \in Seq(Frame), NEW f \in Frame,
           Nested(inh, q, h),
           f.prev = h,
           f.kind = "reentered" => f.sid \in h
    PROVE  Nested(inh, Append(q, f), IF f.kind = "session" THEN h \cup {f.sid} ELSE h)
<1> DEFINE r == Append(q, f)
           n == Len(q)
<1>1. /\ n \in Nat
      /\ Len(r) = n + 1
      /\ \A i \in 1..n : r[i] = q[i]
      /\ r[n + 1] = f
  BY AppendProperties
<1> HIDE DEF r
<1>2. \A m \in 0..n : CtxIn(inh, r, m) = CtxIn(inh, q, m)
  BY <1>1 DEF CtxIn
<1>3. CtxIn(inh, r, n) = h
  BY <1>1, <1>2 DEF Nested
<1>4. CtxIn(inh, r, n + 1) = IF f.kind = "session" THEN h \cup {f.sid} ELSE h
  <2>1. \A j \in 1..(n + 1) : j = n + 1 \/ j \in 1..n
    BY <1>1
  <2>2. 1..n \subseteq 1..(n + 1) /\ n + 1 \in 1..(n + 1) /\ f.sid \in Sessions
    BY <1>1 DEF Frame
  <2> QED
    BY <2>1, <2>2, <1>1, <1>3 DEF CtxIn
<1>5. ASSUME NEW i \in 1..(n + 1)
      PROVE  /\ r[i].prev = CtxIn(inh, r, i - 1)
             /\ r[i].kind = "reentered" => r[i].sid \in r[i].prev
  <2>1. CASE i \in 1..n
    <3>1. r[i] = q[i] /\ i - 1 \in 0..n
      BY <1>1, <2>1
    <3>2. /\ q[i].prev = CtxIn(inh, q, i - 1)
          /\ q[i].kind = "reentered" => q[i].sid \in q[i].prev
      BY <2>1 DEF Nested
    <3> QED
      BY <3>1, <3>2, <1>2
  <2>2. CASE i = n + 1
    <3>1. r[i] = f /\ i - 1 = n
      BY <1>1, <2>2
    <3> QED
      BY <3>1, <1>3
  <2> QED
    BY <1>1, <2>1, <2>2
<1> QED
  BY <1>1, <1>4, <1>5 DEF Nested, r

\* Leaving the innermost frame, and taking back the context it found, too.
LEMMA PopNested ==
    ASSUME NEW inh, NEW h, NEW q \in Seq(Frame), Nested(inh, q, h), q # <<>>
    PROVE  Nested(inh, Front(q), Last(q).prev)
<1> DEFINE r == Front(q)
           n == Len(q)
<1>1. /\ n \in Nat \ {0}
      /\ Len(r) = n - 1
      /\ \A i \in 1..(n - 1) : r[i] = q[i]
  BY FrontProperties
<1> HIDE DEF r
<1>2. \A m \in 0..(n - 1) : CtxIn(inh, r, m) = CtxIn(inh, q, m)
  BY <1>1 DEF CtxIn
<1>3. Last(q).prev = CtxIn(inh, r, n - 1)
  <2>1. n \in 1..n /\ n - 1 \in 0..(n - 1)
    BY <1>1
  <2> QED
    BY <2>1, <1>2 DEF Nested, Last
<1>4. ASSUME NEW i \in 1..(n - 1)
      PROVE  /\ r[i].prev = CtxIn(inh, r, i - 1)
             /\ r[i].kind = "reentered" => r[i].sid \in r[i].prev
  <2>1. r[i] = q[i] /\ i - 1 \in 0..(n - 1) /\ i \in 1..n
    BY <1>1
  <2>2. /\ q[i].prev = CtxIn(inh, q, i - 1)
        /\ q[i].kind = "reentered" => q[i].sid \in q[i].prev
    BY <2>1 DEF Nested
  <2> QED
    BY <2>1, <2>2, <1>2
<1> QED
  BY <1>1, <1>3, <1>4 DEF Nested, r

-----------------------------------------------------------------------------
(* The lock and its owner.                                                  *)

\* A frame pushed keeps the owners: it takes a lock that was free, or none.
LEMMA PushOwners ==
    ASSUME TypeOK, OwnersOk, NEW t \in Tasks, NEW f \in Frame,
           frames' = [frames EXCEPT ![t] = Append(@, f)],
           OwnFrame(f) => f.sid \notin locked,
           locked' = IF OwnFrame(f) THEN locked \cup {f.sid} ELSE locked
    PROVE  OwnersOk'
<1> DEFINE q == frames[t]
           n == Len(frames[t])
<1>1. /\ frames'[t] = Append(q, f)
      /\ n \in Nat
      /\ Len(Append(q, f)) = n + 1
      /\ \A i \in 1..n : Append(q, f)[i] = q[i]
      /\ Append(q, f)[n + 1] = f
      /\ DOMAIN Append(q, f) = 1..(n + 1)
      /\ DOMAIN q = 1..n
  BY AppendProperties DEF TypeOK
<1>2. \A u \in Tasks \ {t} : frames'[u] = frames[u]
  BY DEF TypeOK
<1>3. ASSUME NEW u \in Tasks, NEW i \in DOMAIN frames'[u]
      PROVE  \/ u = t /\ i = n + 1 /\ frames'[u][i] = f
             \/ i \in DOMAIN frames[u] /\ frames'[u][i] = frames[u][i] /\ (u = t => i # n + 1)
  BY <1>1, <1>2
<1>4. /\ \A u \in Tasks : \A i \in DOMAIN frames[u] :
            i \in DOMAIN frames'[u] /\ frames'[u][i] = frames[u][i]
      /\ n + 1 \in DOMAIN frames'[t] /\ frames'[t][n + 1] = f
  BY <1>1, <1>2
<1>5. \A u \in Tasks : \A i \in DOMAIN frames'[u] :
         OwnFrame(frames'[u][i]) => frames'[u][i].sid \in locked'
  BY <1>3 DEF OwnersOk, OwnFrame
<1>6. \A s \in locked' : \E u \in Tasks : \E i \in DOMAIN frames'[u] :
         frames'[u][i].sid = s /\ OwnFrame(frames'[u][i])
  <2> TAKE s \in locked'
  <2>1. CASE s \in locked
    BY <2>1, <1>4 DEF OwnersOk, Owns
  <2>2. CASE s \notin locked
    BY <2>2, <1>4
  <2> QED
    BY <2>1, <2>2
<1>7. ASSUME NEW u \in Tasks, NEW v \in Tasks,
             NEW i \in DOMAIN frames'[u], NEW j \in DOMAIN frames'[v],
             OwnFrame(frames'[u][i]), OwnFrame(frames'[v][j]),
             frames'[u][i].sid = frames'[v][j].sid
      PROVE  u = v /\ i = j
  <2>1. CASE i \in DOMAIN frames[u] /\ frames'[u][i] = frames[u][i]
    <3>1. frames'[u][i].sid \in locked
      BY <2>1, <1>7 DEF OwnersOk
    <3>2. frames'[v][j] # f
      BY <3>1, <1>7
    <3> QED
      BY <2>1, <3>2, <1>3, <1>7 DEF OwnersOk
  <2>2. CASE u = t /\ i = n + 1 /\ frames'[u][i] = f
    <3>1. ~(j \in DOMAIN frames[v] /\ frames'[v][j] = frames[v][j])
      BY <2>2, <1>7 DEF OwnersOk
    <3> QED
      BY <3>1, <2>2, <1>3
  <2> QED
    BY <2>1, <2>2, <1>3
<1> QED
  BY <1>5, <1>6, <1>7 DEF OwnersOk, Owns, OwnFrame

\* A frame popped keeps the owners: its lock is free if it was its own.
LEMMA PopOwners ==
    ASSUME TypeOK, OwnersOk, NEW t \in Tasks, frames[t] # <<>>,
           frames' = [frames EXCEPT ![t] = Front(@)],
           locked' = IF OwnFrame(Last(frames[t])) THEN locked \ {Last(frames[t]).sid} ELSE locked
    PROVE  OwnersOk'
<1> DEFINE q == frames[t]
           n == Len(frames[t])
<1>1. /\ frames'[t] = Front(q)
      /\ n \in Nat \ {0}
      /\ \A i \in 1..(n - 1) : Front(q)[i] = q[i]
      /\ DOMAIN Front(q) = 1..(n - 1)
      /\ DOMAIN q = 1..n
      /\ Last(q) = frames[t][n]
  BY FrontProperties DEF TypeOK, Last
<1>2. \A u \in Tasks \ {t} : frames'[u] = frames[u]
  BY DEF TypeOK
<1>3. \A u \in Tasks : \A i \in DOMAIN frames'[u] :
         i \in DOMAIN frames[u] /\ frames'[u][i] = frames[u][i] /\ ~(u = t /\ i = n)
  BY <1>1, <1>2
<1>4. \A u \in Tasks : \A i \in DOMAIN frames[u] :
         (u = t /\ i = n) \/ (i \in DOMAIN frames'[u] /\ frames'[u][i] = frames[u][i])
  BY <1>1, <1>2
<1>5. n \in DOMAIN frames[t]
  BY <1>1
<1>6. \A u \in Tasks : \A i \in DOMAIN frames'[u] :
         OwnFrame(frames'[u][i]) => frames'[u][i].sid \in locked'
  BY <1>1, <1>3, <1>5 DEF OwnersOk
<1>7. \A s \in locked' : \E u \in Tasks : \E i \in DOMAIN frames'[u] :
         frames'[u][i].sid = s /\ OwnFrame(frames'[u][i])
  <2> TAKE s \in locked'
  <2>1. s \in locked
    OBVIOUS
  <2>a. PICK u \in Tasks : Owns(u, s)
    BY <2>1 DEF OwnersOk
  <2>2. PICK i \in DOMAIN frames[u] : frames[u][i].sid = s /\ OwnFrame(frames[u][i])
    BY <2>a DEF Owns
  <2>3. ~(u = t /\ i = n)
    BY <2>2, <1>1
  <2> QED
    BY <2>2, <2>3, <1>4
<1>8. \A u, v \in Tasks : \A i \in DOMAIN frames'[u], j \in DOMAIN frames'[v] :
         /\ OwnFrame(frames'[u][i])
         /\ OwnFrame(frames'[v][j])
         /\ frames'[u][i].sid = frames'[v][j].sid
         => u = v /\ i = j
  BY <1>3 DEF OwnersOk
<1> QED
  BY <1>6, <1>7, <1>8 DEF OwnersOk, Owns, OwnFrame

\* Owners are a matter of the frames and the locks alone.
LEMMA SameOwners ==
    ASSUME OwnersOk, UNCHANGED <<frames, locked>>
    PROVE  OwnersOk'
BY DEF OwnersOk, Owns, OwnFrame

-----------------------------------------------------------------------------
(* The queues.                                                              *)

\* A step that leaves queues and requests alone keeps them in order when no
\* task starts or stops waiting and no lock is taken that a woken task awaits.
LEMMA SameQueues ==
    ASSUME QueuesOk, UNCHANGED <<waiters, want>>,
           woken' = woken,
           \A t \in Tasks : pc'[t] = "wait" <=> pc[t] = "wait",
           \A s \in Sessions : \A i \in DOMAIN waiters[s] : waiters[s][i] \in Tasks,
           woken \subseteq Tasks,
           \A s \in locked' \ locked : s \in Sessions /\ waiters[s] = <<>>
    PROVE  QueuesOk'
<1>1. \A t \in Tasks : pc'[t] = "wait" =>
         /\ want'[t] \in Request
         /\ \E i \in DOMAIN waiters'[want'[t].sid] : waiters'[want'[t].sid][i] = t
  BY DEF QueuesOk
<1>2. \A s \in Sessions : \A i \in DOMAIN waiters'[s] :
         /\ pc'[waiters'[s][i]] = "wait"
         /\ want'[waiters'[s][i]].sid = s
         /\ \A j \in DOMAIN waiters'[s] : waiters'[s][i] = waiters'[s][j] => i = j
  BY DEF QueuesOk
<1>3. ASSUME NEW t \in woken'
      PROVE  /\ pc'[t] = "wait"
             /\ want'[t].sid \notin locked'
             /\ waiters'[want'[t].sid][1] = t
  <2>1. t \in Tasks /\ pc[t] = "wait" /\ want[t].sid \notin locked
        /\ waiters[want[t].sid][1] = t
    BY DEF QueuesOk
  <2>2. waiters[want[t].sid] # <<>>
    BY <2>1 DEF QueuesOk
  <2> QED
    BY <2>1, <2>2
<1> QED
  BY <1>1, <1>2, <1>3 DEF QueuesOk

\* A waiter leaves its queue: the others keep their places in it.
LEMMA LeaveQueue ==
    ASSUME TypeOK, QueuesOk, NEW t \in Tasks, pc[t] = "wait", NEW s, s = want[t].sid,
           waiters' = [waiters EXCEPT ![s] = RemoveFirst(@, t)],
           want' = [want EXCEPT ![t] = <<>>],
           pc' = [pc EXCEPT ![t] = "run"]
    PROVE  /\ s \in Sessions
           /\ waiters' \in [Sessions -> Seq(Tasks)]
           /\ waiters[s] # <<>>
           /\ waiters[s][1] # t => waiters'[s] # <<>> /\ waiters'[s][1] = waiters[s][1]
           /\ \A u \in Tasks : pc'[u] = "wait" =>
                 /\ want'[u] \in Request
                 /\ \E i \in DOMAIN waiters'[want'[u].sid] : waiters'[want'[u].sid][i] = u
           /\ \A r \in Sessions : \A i \in DOMAIN waiters'[r] :
                 /\ pc'[waiters'[r][i]] = "wait"
                 /\ want'[waiters'[r][i]].sid = r
                 /\ \A j \in DOMAIN waiters'[r] : waiters'[r][i] = waiters'[r][j] => i = j
<1> DEFINE q == waiters[s]
           n == Len(waiters[s])
<1>1. s \in Sessions
  BY DEF QueuesOk, Request
<1>2. PICK k \in DOMAIN q : q[k] = t
  BY DEF QueuesOk
<1>3. q \in Seq(Tasks) /\ n \in Nat /\ k \in 1..n /\ DOMAIN q = 1..n
  BY <1>1, <1>2 DEF TypeOK
<1>4. \A j \in 1..n : q[j] = t => j = k
  BY <1>1, <1>2, <1>3 DEF QueuesOk
<1> DEFINE r0 == RemoveFirst(q, t)
<1>5. /\ r0 \in Seq(Tasks)
      /\ Len(r0) = n - 1
      /\ \A j \in 1..(n - 1) : r0[j] = IF j < k THEN q[j] ELSE q[j + 1]
  <2>1. \A j \in 1..Len(q) : q[j] = q[k] => j = k
    BY <1>2, <1>3, <1>4
  <2>2. k \in 1..Len(q)
    BY <1>3
  <2>3. /\ RemoveFirst(q, q[k]) \in Seq(Tasks)
        /\ Len(RemoveFirst(q, q[k])) = Len(q) - 1
        /\ \A j \in 1..(Len(q) - 1) :
              RemoveFirst(q, q[k])[j] = IF j < k THEN q[j] ELSE q[j + 1]
    BY <2>1, <2>2, <1>3, RemoveFirstOnce
  <2> QED
    BY <2>3, <1>2
<1>6. waiters'[s] = r0 /\ \A r \in Sessions \ {s} : waiters'[r] = waiters[r]
  BY <1>1 DEF TypeOK
<1> HIDE DEF r0
<1>7. DOMAIN r0 = 1..(n - 1) /\ n - 1 \in Nat
  BY <1>3, <1>5
<1>8. \A j \in 1..(n - 1) : \E i \in 1..n : i # k /\ r0[j] = q[i] /\ i = (IF j < k THEN j ELSE j + 1)
  BY <1>3, <1>5
<1>9. \A i \in 1..n : i # k => \E j \in 1..(n - 1) : r0[j] = q[i]
  <2> TAKE i \in 1..n
  <2> HAVE i # k
  <2>1. CASE i < k
    BY <2>1, <1>3, <1>5
  <2>2. CASE i > k
    <3>1. i - 1 \in 1..(n - 1) /\ ~(i - 1 < k) /\ (i - 1) + 1 = i
      BY <2>2, <1>3
    <3> QED
      BY <3>1, <1>5
  <2> QED
    BY <2>1, <2>2, <1>3
<1>10. q[1] # t => r0 # <<>> /\ r0[1] = q[1]
  <2> HAVE q[1] # t
  <2>1. k # 1 /\ 1 \in 1..(n - 1) /\ 1 < k
    BY <1>2, <1>3
  <2> QED
    BY <2>1, <1>5, <1>7
<1>11. \A u \in Tasks \ {t} : want'[u] = want[u] /\ pc'[u] = pc[u]
  BY DEF TypeOK
<1>12. pc'[t] = "run"
  BY DEF TypeOK
<1>13. ASSUME NEW u \in Tasks, pc'[u] = "wait"
       PROVE  /\ want'[u] \in Request
              /\ \E i \in DOMAIN waiters'[want'[u].sid] : waiters'[want'[u].sid][i] = u
  <2>1. u # t /\ want'[u] = want[u] /\ pc[u] = "wait" /\ want[u] \in Request /\ want[u].sid \in Sessions
    BY <1>11, <1>12, <1>13 DEF QueuesOk, Request
  <2>2. PICK i \in DOMAIN waiters[want[u].sid] : waiters[want[u].sid][i] = u
    BY <2>1 DEF QueuesOk
  <2>3. CASE want[u].sid # s
    BY <2>1, <2>2, <2>3, <1>6
  <2>4. CASE want[u].sid = s
    <3>1. i \in 1..n /\ i # k
      BY <2>1, <2>2, <2>4, <1>2, <1>3
    <3>2. PICK j \in 1..(n - 1) : r0[j] = q[i]
      BY <3>1, <1>9
    <3> QED
      BY <3>2, <2>1, <2>2, <2>4, <1>6, <1>7
  <2> QED
    BY <2>3, <2>4
<1>14. ASSUME NEW r \in Sessions, NEW i \in DOMAIN waiters'[r]
       PROVE  /\ pc'[waiters'[r][i]] = "wait"
              /\ want'[waiters'[r][i]].sid = r
              /\ \A j \in DOMAIN waiters'[r] : waiters'[r][i] = waiters'[r][j] => i = j
  <2>1. CASE r # s
    <3>1. waiters'[r] = waiters[r] /\ waiters[r][i] \in Tasks /\ want[waiters[r][i]].sid = r
      BY <2>1, <1>6, <1>14 DEF TypeOK, QueuesOk
    <3>2. waiters[r][i] # t
      BY <3>1, <2>1
    <3> QED
      BY <3>1, <3>2, <1>11, <1>14 DEF QueuesOk
  <2>2. CASE r = s
    <3>1. i \in 1..(n - 1) /\ waiters'[r] = r0
      BY <2>2, <1>6, <1>7
    <3>2. PICK m \in 1..n : m # k /\ r0[i] = q[m] /\ m = (IF i < k THEN i ELSE i + 1)
      BY <3>1, <1>8
    <3>3. q[m] # t /\ q[m] \in Tasks /\ pc[q[m]] = "wait" /\ want[q[m]].sid = s
      BY <3>2, <1>1, <1>3, <1>4 DEF QueuesOk
    <3>4. ASSUME NEW j \in 1..(n - 1), r0[i] = r0[j] PROVE i = j
      <4>1. PICK l \in 1..n : l # k /\ r0[j] = q[l] /\ l = (IF j < k THEN j ELSE j + 1)
        BY <1>8
      <4>2. l = m
        BY <4>1, <3>2, <3>4, <1>1, <1>3 DEF QueuesOk
      <4> QED
        BY <4>1, <4>2, <3>1, <3>2, <1>3
    <3>5. pc'[waiters'[r][i]] = "wait" /\ want'[waiters'[r][i]].sid = r
      BY <3>1, <3>2, <3>3, <2>2, <1>11
    <3>6. DOMAIN waiters'[r] = 1..(n - 1)
      BY <3>1, <1>7
    <3> QED
      BY <3>1, <3>4, <3>5, <3>6
  <2> QED
    BY <2>1, <2>2
<1>15. waiters' \in [Sessions -> Seq(Tasks)]
  BY <1>1, <1>5 DEF TypeOK, r0
<1>16. waiters[s] # <<>>
  BY <1>3
<1>17. waiters[s][1] # t => waiters'[s] # <<>> /\ waiters'[s][1] = waiters[s][1]
  BY <1>6, <1>10
<1> QED
  BY <1>1, <1>13, <1>14, <1>15, <1>16, <1>17

-----------------------------------------------------------------------------
(* Every step preserves the invariant, one lemma per kind of step.          *)

\* The invariant holds at first.
LEMMA InitLockInv == Init => LockInv
<1> SUFFICES ASSUME Init PROVE LockInv
  OBVIOUS
<1>1. TypeOK
  BY DEF Init, TypeOK
<1>2. FramesOk
  BY DEF Init, FramesOk, Nested, CtxIn
<1>3. OwnersOk
  BY DEF Init, OwnersOk
<1>4. QueuesOk /\ NoLostWakeup
  BY DEF Init, QueuesOk, NoLostWakeup
<1> QED
  BY <1>1, <1>2, <1>3, <1>4 DEF LockInv

\* Steps that only start, end or join tasks.
LEMMA TaskStep ==
    ASSUME LockInv,
           UNCHANGED <<locked, waiters, woken, frames, want, opens>>,
           TypeOK',
           \A t \in Tasks : pc'[t] = "wait" <=> pc[t] = "wait",
           \A t \in Tasks : pc'[t] = "absent" => pc[t] = "absent",
           \A t \in Tasks : \/ held'[t] = held[t] /\ inherited'[t] = inherited[t]
                            \/ pc[t] = "absent" /\ held'[t] = inherited'[t]
    PROVE  LockInv'
<1>1. FramesOk'
  <2> SUFFICES ASSUME NEW t \in Tasks
               PROVE  /\ pc'[t] = "absent" => frames'[t] = <<>>
                      /\ Nested(inherited'[t], frames'[t], held'[t])
    BY DEF FramesOk
  <2>1. pc'[t] = "absent" => frames'[t] = <<>>
    BY DEF LockInv, FramesOk
  <2>2. CASE held'[t] = held[t] /\ inherited'[t] = inherited[t]
    BY <2>1, <2>2 DEF LockInv, FramesOk
  <2>3. CASE pc[t] = "absent" /\ held'[t] = inherited'[t]
    <3>1. frames'[t] = <<>>
      BY <2>3 DEF LockInv, FramesOk
    <3>2. Nested(held'[t], <<>>, held'[t])
      BY DEF Nested, CtxIn
    <3> QED
      BY <2>1, <2>3, <3>1, <3>2
  <2> QED
    BY <2>2, <2>3
<1>2. OwnersOk'
  BY SameOwners DEF LockInv
<1>3. QueuesOk'
  BY SameQueues DEF LockInv, TypeOK
<1>4. NoLostWakeup'
  BY DEF LockInv, NoLostWakeup
<1> QED
  BY <1>1, <1>2, <1>3, <1>4 DEF LockInv

\* A frame is entered; no task starts or stops waiting and, when the lock is
\* taken, nobody was queued for it.
LEMMA EnterStep ==
    ASSUME LockInv, NEW t \in Tasks, NEW f \in Frame, pc[t] = "run",
           f.prev = held[t],
           f.kind = "reentered" => f.sid \in held[t],
           OwnFrame(f) => Free(f.sid),
           frames' = [frames EXCEPT ![t] = Append(@, f)],
           held' = [held EXCEPT ![t] = IF f.kind = "session" THEN @ \cup {f.sid} ELSE @],
           locked' = IF OwnFrame(f) THEN locked \cup {f.sid} ELSE locked,
           opens' = [opens EXCEPT ![t] = @ + 1],
           UNCHANGED <<waiters, woken, pc, want, child, inherited>>
    PROVE  LockInv'
<1> USE DEF LockInv
<1>1. TypeOK'
  <2>1. Append(frames[t], f) \in Seq(Frame)
    BY AppendProperties DEF TypeOK
  <2>2. frames' \in [Tasks -> Seq(Frame)]
    BY <2>1 DEF TypeOK
  <2>3. f.sid \in Sessions
    BY DEF Frame
  <2> QED
    BY <2>2, <2>3 DEF TypeOK
<1>2. FramesOk'
  <2> SUFFICES ASSUME NEW u \in Tasks
               PROVE  /\ pc'[u] = "absent" => frames'[u] = <<>>
                      /\ Nested(inherited'[u], frames'[u], held'[u])
    BY DEF FramesOk
  <2>1. CASE u = t
    <3>1. Nested(inherited[t], frames[t], held[t]) /\ frames[t] \in Seq(Frame)
      BY DEF FramesOk, TypeOK
    <3>2. Nested(inherited[t], Append(frames[t], f),
                 IF f.kind = "session" THEN held[t] \cup {f.sid} ELSE held[t])
      BY <3>1, PushNested
    <3>3. /\ frames'[t] = Append(frames[t], f)
          /\ held'[t] = IF f.kind = "session" THEN held[t] \cup {f.sid} ELSE held[t]
          /\ inherited'[t] = inherited[t] /\ pc'[t] = "run"
      BY DEF TypeOK
    <3> QED
      BY <2>1, <3>2, <3>3
  <2>2. CASE u # t
    BY <2>2 DEF FramesOk, TypeOK
  <2> QED
    BY <2>1, <2>2
<1>3. OwnersOk'
  BY PushOwners DEF Free
<1>4. QueuesOk'
  BY SameQueues DEF Free, TypeOK, Frame
<1>5. NoLostWakeup'
  BY DEF NoLostWakeup
<1> QED
  BY <1>1, <1>2, <1>3, <1>4, <1>5

\* A task that has to wait is the last of the queue.
LEMMA EnqueueStep ==
    ASSUME LockInv, NEW t \in Tasks, NEW s \in Sessions, NEW kind \in Kinds,
           Enqueue(t, s, kind)
    PROVE  LockInv'
<1> USE DEF LockInv
<1> DEFINE q == waiters[s]
           n == Len(waiters[s])
<1>1. pc[t] = "run" /\ UNCHANGED <<locked, woken, held, frames, child, inherited>>
  BY DEF Enqueue, MayOpen, Acting
<1>2. /\ pc' = [pc EXCEPT ![t] = "wait"]
      /\ want' = [want EXCEPT ![t] = [sid |-> s, kind |-> kind]]
      /\ waiters' = [waiters EXCEPT ![s] = Append(@, t)]
  BY DEF Enqueue
<1>3. /\ q \in Seq(Tasks) /\ n \in Nat /\ DOMAIN q = 1..n
      /\ waiters'[s] = Append(q, t)
      /\ Append(q, t) \in Seq(Tasks)
      /\ DOMAIN Append(q, t) = 1..(n + 1)
      /\ \A i \in 1..n : Append(q, t)[i] = q[i]
      /\ Append(q, t)[n + 1] = t
  BY <1>2, AppendProperties DEF TypeOK
<1>4. \A r \in Sessions \ {s} : waiters'[r] = waiters[r]
  BY <1>2 DEF TypeOK
<1>5. [sid |-> s, kind |-> kind] \in Request
  BY DEF Request
<1>6. TypeOK'
  <2>1. opens' \in [Tasks -> Nat]
    BY DEF Enqueue, MayOpen, TypeOK
  <2>2. waiters' \in [Sessions -> Seq(Tasks)]
    BY <1>2, <1>3 DEF TypeOK
  <2>3. pc' \in [Tasks -> {"absent", "run", "wait", "join", "done"}]
    BY <1>2 DEF TypeOK
  <2>4. want' \in [Tasks -> Request \cup {<<>>}]
    BY <1>2, <1>5 DEF TypeOK
  <2>5. \A u \in Tasks : pc'[u] = "join" <=> child'[u] # NoTask
    BY <1>1, <1>2 DEF TypeOK
  <2> QED
    BY <1>1, <2>1, <2>2, <2>3, <2>4, <2>5 DEF TypeOK
<1>7. FramesOk'
  BY <1>1, <1>2 DEF FramesOk, TypeOK
<1>8. OwnersOk'
  BY <1>1, SameOwners
<1>9. \A u \in Tasks \ {t} : pc'[u] = pc[u] /\ want'[u] = want[u]
  BY <1>2 DEF TypeOK
<1>10. pc'[t] = "wait" /\ want'[t] = [sid |-> s, kind |-> kind]
  BY <1>2 DEF TypeOK
<1>11. \A r \in Sessions : \A i \in DOMAIN waiters[r] :
          /\ i \in DOMAIN waiters'[r]
          /\ waiters'[r][i] = waiters[r][i]
          /\ waiters[r][i] \in Tasks \ {t}
  <2> TAKE r \in Sessions
  <2> TAKE i \in DOMAIN waiters[r]
  <2>1. waiters[r][i] \in Tasks
    BY DEF TypeOK
  <2>2. waiters[r][i] # t
    BY <1>1 DEF QueuesOk
  <2>3. CASE r = s
    BY <2>1, <2>2, <2>3, <1>3
  <2>4. CASE r # s
    BY <2>1, <2>2, <2>4, <1>4
  <2> QED
    BY <2>3, <2>4
<1>12. QueuesOk'
  <2>1. ASSUME NEW u \in Tasks, pc'[u] = "wait"
        PROVE  /\ want'[u] \in Request
               /\ \E i \in DOMAIN waiters'[want'[u].sid] : waiters'[want'[u].sid][i] = u
    <3>1. CASE u = t
      <4>1. n + 1 \in DOMAIN waiters'[s] /\ waiters'[s][n + 1] = t
        BY <1>3
      <4> QED
        BY <3>1, <4>1, <1>5, <1>10
    <3>2. CASE u # t
      <4>1. pc[u] = "wait" /\ want'[u] = want[u]
        BY <2>1, <3>2, <1>9
      <4>2. want[u] \in Request /\ want[u].sid \in Sessions
        BY <4>1 DEF QueuesOk, Request
      <4> QED
        BY <4>1, <4>2, <1>11 DEF QueuesOk
    <3> QED
      BY <3>1, <3>2
  <2>2. ASSUME NEW r \in Sessions, NEW i \in DOMAIN waiters'[r]
        PROVE  /\ pc'[waiters'[r][i]] = "wait"
               /\ want'[waiters'[r][i]].sid = r
               /\ \A j \in DOMAIN waiters'[r] : waiters'[r][i] = waiters'[r][j] => i = j
    <3>1. CASE i \in DOMAIN waiters[r]
      <4>1. \A j \in DOMAIN waiters'[r] :
               j \in DOMAIN waiters[r] \/ waiters'[r][j] = t
        BY <1>3, <1>4
      <4> QED
        BY <3>1, <4>1, <1>9, <1>11 DEF QueuesOk
    <3>2. CASE i \notin DOMAIN waiters[r]
      <4>1. r = s /\ i = n + 1 /\ waiters'[r][i] = t
        BY <2>2, <3>2, <1>3, <1>4
      <4>2. \A j \in DOMAIN waiters'[r] : j \in DOMAIN waiters[r] \/ j = n + 1
        BY <4>1, <1>3
      <4> QED
        BY <4>1, <4>2, <1>10, <1>11
    <3> QED
      BY <3>1, <3>2
  <2>3. ASSUME NEW u \in woken'
        PROVE  /\ pc'[u] = "wait"
               /\ want'[u].sid \notin locked'
               /\ waiters'[want'[u].sid][1] = u
    <3>1. u \in Tasks \ {t} /\ pc[u] = "wait" /\ want[u].sid \notin locked
          /\ waiters[want[u].sid][1] = u
      BY <1>1 DEF QueuesOk, TypeOK
    <3>2. want[u].sid \in Sessions /\ waiters[want[u].sid] # <<>>
          /\ waiters[want[u].sid] \in Seq(Tasks)
      BY <3>1 DEF QueuesOk, Request, TypeOK
    <3>3. 1 \in DOMAIN waiters[want[u].sid]
      BY <3>2
    <3> QED
      BY <3>1, <3>2, <3>3, <1>1, <1>9, <1>11
  <2> QED
    BY <2>1, <2>2, <2>3 DEF QueuesOk
<1>13. NoLostWakeup'
  <2> SUFFICES ASSUME NEW r \in Sessions, r \notin locked, waiters'[r] # <<>>
               PROVE  Head(waiters'[r]) \in woken
    BY <1>1 DEF NoLostWakeup
  <2>1. waiters[r] # <<>>
    BY <1>4 DEF Enqueue, Free
  <2>2. Head(waiters[r]) \in woken /\ waiters[r] \in Seq(Tasks)
    BY <2>1 DEF NoLostWakeup, TypeOK
  <2>3. Head(waiters'[r]) = Head(waiters[r])
    <3>1. 1 \in DOMAIN waiters[r]
      BY <2>1, <2>2
    <3>2. waiters'[r][1] = waiters[r][1]
      BY <3>1, <1>11
    <3>3. waiters'[r] \in Seq(Tasks)
      BY <1>6 DEF TypeOK
    <3> QED
      BY <3>2, <3>3, <2>1, <2>2
  <2> QED
    BY <2>2, <2>3
<1> QED
  BY <1>6, <1>7, <1>8, <1>12, <1>13

\* A woken task takes the lock that was left free for it.
LEMMA AcquireWokenStep ==
    ASSUME LockInv, NEW t \in Tasks, AcquireWoken(t)
    PROVE  LockInv'
<1> USE DEF LockInv
<1> DEFINE s == want[t].sid
           f == [sid |-> want[t].sid, kind |-> want[t].kind, prev |-> held[t]]
<1>1. /\ pc[t] = "wait" /\ t \in woken
      /\ woken' = woken \ {t}
      /\ pc' = [pc EXCEPT ![t] = "run"]
      /\ want' = [want EXCEPT ![t] = <<>>]
      /\ UNCHANGED <<child, inherited, opens>>
  BY DEF AcquireWoken
<1>2. waiters' = [waiters EXCEPT ![s] = RemoveFirst(@, t)]
  BY DEF AcquireWoken
<1>3. want[t] \in Request /\ s \in Sessions /\ s \notin locked /\ waiters[s][1] = t
  BY <1>1 DEF QueuesOk, Request
<1>4. f \in Frame /\ OwnFrame(f) /\ f.kind # "reentered"
  BY <1>3 DEF Frame, Request, Kinds, OwnFrame, TypeOK
<1>5. /\ locked' = locked \cup {s}
      /\ frames' = [frames EXCEPT ![t] = Append(@, f)]
      /\ held' = [held EXCEPT ![t] = IF f.kind = "session" THEN @ \cup {f.sid} ELSE @]
  BY DEF AcquireWoken, EnterBody
<1> HIDE DEF s
<1>6. /\ waiters' \in [Sessions -> Seq(Tasks)]
      /\ \A u \in Tasks : pc'[u] = "wait" =>
            /\ want'[u] \in Request
            /\ \E i \in DOMAIN waiters'[want'[u].sid] : waiters'[want'[u].sid][i] = u
      /\ \A r \in Sessions : \A i \in DOMAIN waiters'[r] :
            /\ pc'[waiters'[r][i]] = "wait"
            /\ want'[waiters'[r][i]].sid = r
            /\ \A j \in DOMAIN waiters'[r] : waiters'[r][i] = waiters'[r][j] => i = j
  BY <1>1, <1>2, LeaveQueue DEF s
<1>7. f.sid = s /\ f.prev = held[t]
  BY DEF s
<1> HIDE DEF f
<1>8. TypeOK'
  <2>1. Append(frames[t], f) \in Seq(Frame)
    BY <1>4, AppendProperties DEF TypeOK
  <2>2. frames' \in [Tasks -> Seq(Frame)]
    BY <2>1, <1>5 DEF TypeOK
  <2>3. held' \in [Tasks -> SUBSET Sessions]
    BY <1>3, <1>5, <1>7 DEF TypeOK
  <2>4. want' \in [Tasks -> Request \cup {<<>>}]
    BY <1>1 DEF TypeOK
  <2>5. pc' \in [Tasks -> {"absent", "run", "wait", "join", "done"}]
    BY <1>1 DEF TypeOK
  <2> QED
    BY <1>1, <1>3, <1>5, <1>6, <2>2, <2>3, <2>4, <2>5 DEF TypeOK
<1>9. FramesOk'
  <2> SUFFICES ASSUME NEW u \in Tasks
               PROVE  /\ pc'[u] = "absent" => frames'[u] = <<>>
                      /\ Nested(inherited'[u], frames'[u], held'[u])
    BY DEF FramesOk
  <2>1. CASE u = t
    <3>1. Nested(inherited[t], frames[t], held[t]) /\ frames[t] \in Seq(Frame)
      BY DEF FramesOk, TypeOK
    <3>2. Nested(inherited[t], Append(frames[t], f),
                 IF f.kind = "session" THEN held[t] \cup {f.sid} ELSE held[t])
      BY <3>1, <1>4, <1>7, PushNested
    <3>3. /\ frames'[t] = Append(frames[t], f)
          /\ held'[t] = IF f.kind = "session" THEN held[t] \cup {f.sid} ELSE held[t]
          /\ inherited'[t] = inherited[t] /\ pc'[t] = "run"
      BY <1>1, <1>5 DEF TypeOK
    <3> QED
      BY <2>1, <3>2, <3>3
  <2>2. CASE u # t
    BY <2>2, <1>1, <1>5 DEF FramesOk, TypeOK
  <2> QED
    BY <2>1, <2>2
<1>10. OwnersOk'
  BY <1>3, <1>4, <1>5, <1>7, PushOwners
<1>11. QueuesOk'
  <2>1. ASSUME NEW u \in woken'
        PROVE  /\ pc'[u] = "wait"
               /\ want'[u].sid \notin locked'
               /\ waiters'[want'[u].sid][1] = u
    <3>1. u \in Tasks \ {t} /\ u \in woken
      BY <1>1 DEF TypeOK
    <3>2. /\ pc[u] = "wait" /\ want[u] \in Request /\ want[u].sid \notin locked
          /\ waiters[want[u].sid][1] = u
      BY <3>1 DEF QueuesOk
    <3>3. want[u].sid # s /\ want[u].sid \in Sessions
      BY <3>1, <3>2, <1>3 DEF Request
    <3>4. pc'[u] = pc[u] /\ want'[u] = want[u] /\ waiters'[want[u].sid] = waiters[want[u].sid]
      BY <3>1, <3>3, <1>1, <1>2, <1>3 DEF TypeOK
    <3> QED
      BY <3>2, <3>3, <3>4, <1>5
  <2> QED
    BY <1>6, <2>1 DEF QueuesOk
<1>12. NoLostWakeup'
  <2> SUFFICES ASSUME NEW r \in Sessions, r \notin locked', waiters'[r] # <<>>
               PROVE  Head(waiters'[r]) \in woken'
    BY DEF NoLostWakeup
  <2>1. r # s /\ r \notin locked /\ waiters'[r] = waiters[r]
    BY <1>2, <1>3, <1>5 DEF TypeOK
  <2>2. Head(waiters[r]) \in woken
    BY <2>1 DEF NoLostWakeup
  <2>3. Head(waiters[r]) # t
    <3>1. 1 \in DOMAIN waiters[r] /\ Head(waiters[r]) = waiters[r][1]
      BY <2>1 DEF TypeOK
    <3> QED
      BY <3>1, <2>1 DEF QueuesOk, s
  <2> QED
    BY <2>1, <2>2, <2>3, <1>1
<1> QED
  BY <1>8, <1>9, <1>10, <1>11, <1>12

\* A waiter that is cancelled leaves the queue and wakes the next if it was woken.
LEMMA CancelWaitStep ==
    ASSUME LockInv, NEW t \in Tasks, CancelWait(t)
    PROVE  LockInv'
<1> USE DEF LockInv
<1> DEFINE s == want[t].sid
           rest == RemoveFirst(waiters[s], t)
<1>1. /\ pc[t] = "wait"
      /\ pc' = [pc EXCEPT ![t] = "run"]
      /\ want' = [want EXCEPT ![t] = <<>>]
      /\ UNCHANGED <<locked, held, frames, child, inherited, opens>>
  BY DEF CancelWait
<1>2. waiters' = [waiters EXCEPT ![s] = rest]
  BY DEF CancelWait
<1>3. woken' = (IF s \in locked THEN woken ELSE WakeFirst(rest)) \ {t}
  BY DEF CancelWait, WokenAfterCancel
<1>4. /\ s \in Sessions
      /\ waiters' \in [Sessions -> Seq(Tasks)]
      /\ waiters[s] # <<>>
      /\ waiters[s][1] # t => waiters'[s] # <<>> /\ waiters'[s][1] = waiters[s][1]
      /\ \A u \in Tasks : pc'[u] = "wait" =>
            /\ want'[u] \in Request
            /\ \E i \in DOMAIN waiters'[want'[u].sid] : waiters'[want'[u].sid][i] = u
      /\ \A r \in Sessions : \A i \in DOMAIN waiters'[r] :
            /\ pc'[waiters'[r][i]] = "wait"
            /\ want'[waiters'[r][i]].sid = r
            /\ \A j \in DOMAIN waiters'[r] : waiters'[r][i] = waiters'[r][j] => i = j
  BY <1>1, <1>2, LeaveQueue
<1>5. waiters'[s] = rest /\ \A r \in Sessions \ {s} : waiters'[r] = waiters[r]
  BY <1>2, <1>4 DEF TypeOK
<1> HIDE DEF s, rest
<1>6. rest \in Seq(Tasks) /\ (rest # <<>> => 1 \in DOMAIN rest /\ Head(rest) = rest[1])
  BY <1>4, <1>5
<1>7. WakeFirst(rest) \subseteq Tasks
  BY <1>6 DEF WakeFirst, TypeOK
<1>8. TypeOK'
  <2>1. want' \in [Tasks -> Request \cup {<<>>}]
    BY <1>1 DEF TypeOK
  <2>2. pc' \in [Tasks -> {"absent", "run", "wait", "join", "done"}]
    BY <1>1 DEF TypeOK
  <2>3. woken' \subseteq Tasks
    BY <1>3, <1>7 DEF TypeOK
  <2> QED
    BY <1>1, <1>4, <2>1, <2>2, <2>3 DEF TypeOK
<1>9. FramesOk'
  BY <1>1 DEF FramesOk, TypeOK
<1>10. OwnersOk'
  BY <1>1, SameOwners
<1>11. QueuesOk'
  <2>1. ASSUME NEW u \in woken'
        PROVE  /\ pc'[u] = "wait"
               /\ want'[u].sid \notin locked'
               /\ waiters'[want'[u].sid][1] = u
    <3>1. u \in Tasks \ {t}
      BY <1>3, <1>8 DEF TypeOK
    <3>2. pc'[u] = pc[u] /\ want'[u] = want[u]
      BY <3>1, <1>1 DEF TypeOK
    <3>3. CASE u \in woken
      <4>1. /\ pc[u] = "wait" /\ want[u] \in Request /\ want[u].sid \notin locked
            /\ waiters[want[u].sid][1] = u /\ want[u].sid \in Sessions
        BY <3>1, <3>3 DEF QueuesOk, Request
      <4>2. waiters'[want[u].sid][1] = u
        BY <4>1, <3>1, <1>4, <1>5
      <4> QED
        BY <4>1, <4>2, <3>2, <1>1
    <3>4. CASE u \notin woken
      <4>1. s \notin locked /\ rest # <<>> /\ u = rest[1]
        BY <2>1, <3>4, <1>3, <1>6 DEF WakeFirst
      <4>2. 1 \in DOMAIN waiters'[s] /\ waiters'[s][1] = u
        BY <4>1, <1>5, <1>6
      <4>3. pc'[u] = "wait" /\ want'[u].sid = s
        BY <4>2, <1>4
      <4> QED
        BY <4>1, <4>2, <4>3, <1>1
    <3> QED
      BY <3>3, <3>4
  <2> QED
    BY <1>4, <2>1 DEF QueuesOk
<1>12. NoLostWakeup'
  <2> SUFFICES ASSUME NEW r \in Sessions, r \notin locked', waiters'[r] # <<>>
               PROVE  Head(waiters'[r]) \in woken'
    BY DEF NoLostWakeup
  <2>1. r \notin locked /\ waiters'[r] \in Seq(Tasks)
    BY <1>1, <1>4
  <2>2. 1 \in DOMAIN waiters'[r] /\ Head(waiters'[r]) = waiters'[r][1]
    BY <2>1
  <2>3. Head(waiters'[r]) # t
    BY <2>2, <1>1, <1>4 DEF TypeOK
  <2>4. CASE r = s
    <3>1. Head(waiters'[r]) \in WakeFirst(rest)
      BY <2>4, <1>5 DEF WakeFirst
    <3> QED
      BY <3>1, <2>1, <2>3, <2>4, <1>3
  <2>5. CASE r # s
    <3>1. Head(waiters[r]) \in woken /\ waiters'[r] = waiters[r]
      BY <2>1, <2>5, <1>5 DEF NoLostWakeup
    <3>2. woken \ {t} \subseteq woken'
      BY <1>3 DEF WakeFirst
    <3> QED
      BY <3>1, <3>2, <2>3
  <2> QED
    BY <2>4, <2>5
<1> QED
  BY <1>8, <1>9, <1>10, <1>11, <1>12

\* A frame is left; its lock, if it took it, is released and the first waiter woken.
LEMMA LeaveStep ==
    ASSUME LockInv, NEW t \in Tasks, Leave(t)
    PROVE  LockInv'
<1> USE DEF LockInv
<1> DEFINE f == Last(frames[t])
<1>1. /\ pc[t] = "run" /\ frames[t] # <<>>
      /\ frames' = [frames EXCEPT ![t] = Front(@)]
      /\ held' = [held EXCEPT ![t] = f.prev]
      /\ UNCHANGED <<waiters, pc, want, child, inherited, opens>>
  BY DEF Leave, Restored
<1>2. /\ locked' = IF OwnFrame(f) THEN locked \ {f.sid} ELSE locked
      /\ woken' = IF OwnFrame(f) THEN WakeFirst(waiters[f.sid]) ELSE woken
  BY DEF Leave, Releases, OwnFrame
<1>3. /\ frames[t] \in Seq(Frame)
      /\ Front(frames[t]) \in Seq(Frame)
      /\ Len(frames[t]) \in DOMAIN frames[t]
      /\ f = frames[t][Len(frames[t])]
      /\ f \in Frame
  BY <1>1, FrontProperties DEF TypeOK, Last
<1> HIDE DEF f
<1>4. f.sid \in Sessions /\ f.prev \in SUBSET Sessions
  BY <1>3 DEF Frame
<1>5. \A r \in Sessions : waiters[r] # <<>> => 1 \in DOMAIN waiters[r] /\ Head(waiters[r]) = waiters[r][1]
                                                /\ waiters[r][1] \in Tasks
  BY DEF TypeOK
<1>6. TypeOK'
  <2>1. frames' \in [Tasks -> Seq(Frame)]
    BY <1>1, <1>3 DEF TypeOK
  <2>2. held' \in [Tasks -> SUBSET Sessions]
    BY <1>1, <1>4 DEF TypeOK
  <2>3. woken' \subseteq Tasks
    BY <1>2, <1>4, <1>5 DEF WakeFirst, TypeOK
  <2>4. locked' \subseteq Sessions
    BY <1>2 DEF TypeOK
  <2> QED
    BY <1>1, <2>1, <2>2, <2>3, <2>4 DEF TypeOK
<1>7. FramesOk'
  <2> SUFFICES ASSUME NEW u \in Tasks
               PROVE  /\ pc'[u] = "absent" => frames'[u] = <<>>
                      /\ Nested(inherited'[u], frames'[u], held'[u])
    BY DEF FramesOk
  <2>1. CASE u = t
    <3>1. Nested(inherited[t], frames[t], held[t])
      BY DEF FramesOk
    <3>2. Nested(inherited[t], Front(frames[t]), f.prev)
      BY <3>1, <1>1, <1>3, PopNested DEF f
    <3>3. frames'[t] = Front(frames[t]) /\ held'[t] = f.prev /\ inherited'[t] = inherited[t]
          /\ pc'[t] = "run"
      BY <1>1 DEF TypeOK
    <3> QED
      BY <2>1, <3>2, <3>3
  <2>2. CASE u # t
    BY <2>2, <1>1 DEF FramesOk, TypeOK
  <2> QED
    BY <2>1, <2>2
<1>8. OwnersOk'
  BY <1>1, <1>2, PopOwners DEF f
<1>9. OwnFrame(f) => f.sid \in locked
  BY <1>3 DEF OwnersOk
<1>10. QueuesOk'
  <2>1. ASSUME NEW u \in woken'
        PROVE  pc[u] = "wait" /\ want[u].sid \notin locked' /\ waiters[want[u].sid][1] = u
    <3>1. CASE u \in woken
      BY <3>1, <1>2 DEF QueuesOk
    <3>2. CASE u \notin woken
      <4>1. OwnFrame(f) /\ waiters[f.sid] # <<>> /\ u = Head(waiters[f.sid])
        BY <2>1, <3>2, <1>2 DEF WakeFirst
      <4>2. 1 \in DOMAIN waiters[f.sid] /\ u = waiters[f.sid][1]
        BY <4>1, <1>4, <1>5
      <4>3. pc[u] = "wait" /\ want[u].sid = f.sid
        BY <4>2, <1>4 DEF QueuesOk
      <4> QED
        BY <4>1, <4>2, <4>3, <1>2
    <3> QED
      BY <3>1, <3>2
  <2> QED
    BY <2>1, <1>1 DEF QueuesOk
<1>11. NoLostWakeup'
  <2> SUFFICES ASSUME NEW r \in Sessions, r \notin locked', waiters[r] # <<>>
               PROVE  Head(waiters[r]) \in woken'
    BY <1>1 DEF NoLostWakeup
  <2>1. CASE r \in locked
    BY <2>1, <1>2 DEF WakeFirst
  <2>2. CASE r \notin locked
    BY <2>2, <1>2 DEF NoLostWakeup, WakeFirst
  <2> QED
    BY <2>1, <2>2
<1> QED
  BY <1>6, <1>7, <1>8, <1>10, <1>11

-----------------------------------------------------------------------------
\* The invariant is inductive.
LEMMA NextLockInv == LockInv /\ [Next]_vars => LockInv'
<1> SUFFICES ASSUME LockInv, [Next]_vars PROVE LockInv'
  OBVIOUS
<1>0. TypeOK
  BY DEF LockInv
<1>1. CASE UNCHANGED vars
  BY <1>1 DEF vars, LockInv, TypeOK, FramesOk, OwnersOk, QueuesOk, NoLostWakeup, Owns, OwnFrame
<1>2. ASSUME NEW t \in Tasks, Start(t) PROVE LockInv'
  <2>1. pc' = [pc EXCEPT ![t] = "run"] /\ pc[t] = "absent"
        /\ UNCHANGED <<locked, waiters, woken, held, frames, want, child, inherited, opens>>
    BY <1>2 DEF Start
  <2>2. TypeOK'
    BY <2>1, <1>0 DEF TypeOK
  <2> QED
    BY <1>0, <2>1, <2>2, TaskStep DEF TypeOK
<1>3. ASSUME NEW p \in Tasks, NEW c \in Tasks, SpawnBackground(p, c) PROVE LockInv'
  <2>1. /\ pc[p] = "run" /\ pc[c] = "absent"
        /\ held' = [held EXCEPT ![c] = held[p]]
        /\ inherited' = [inherited EXCEPT ![c] = held[p]]
        /\ pc' = [pc EXCEPT ![c] = "run"]
        /\ UNCHANGED <<locked, waiters, woken, frames, want, child, opens>>
    BY <1>3 DEF SpawnBackground, CreateTask, Acting
  <2>2. TypeOK'
    BY <2>1, <1>0 DEF TypeOK
  <2> QED
    BY <1>0, <2>1, <2>2, TaskStep DEF TypeOK
<1>4. ASSUME NEW p \in Tasks, NEW c \in Tasks, SpawnAwait(p, c) PROVE LockInv'
  <2>1. /\ pc[p] = "run" /\ pc[c] = "absent"
        /\ held' = [held EXCEPT ![c] = held[p]]
        /\ inherited' = [inherited EXCEPT ![c] = held[p]]
        /\ pc' = [pc EXCEPT ![p] = "join", ![c] = "run"]
        /\ child' = [child EXCEPT ![p] = c]
        /\ UNCHANGED <<locked, waiters, woken, frames, want, opens>>
    BY <1>4 DEF SpawnAwait, Await, CreateTask, Acting
  <2>2. \A t \in Tasks \ {p, c} : /\ pc'[t] = pc[t] /\ child'[t] = child[t]
                                   /\ held'[t] = held[t] /\ inherited'[t] = inherited[t]
    BY <2>1, <1>0 DEF TypeOK
  <2>3. /\ pc'[p] = "join" /\ child'[p] = c
        /\ pc'[c] = "run" /\ child'[c] = child[c] /\ p # c
        /\ held'[c] = inherited'[c]
        /\ held'[p] = held[p] /\ inherited'[p] = inherited[p]
    BY <2>1, <1>0 DEF TypeOK
  <2>4. /\ pc' \in [Tasks -> {"absent", "run", "wait", "join", "done"}]
        /\ child' \in [Tasks -> Tasks \cup {NoTask}]
        /\ held' \in [Tasks -> SUBSET Sessions]
        /\ inherited' \in [Tasks -> SUBSET Sessions]
    BY <2>1, <1>0 DEF TypeOK
  <2>5. \A t \in Tasks : pc'[t] = "join" <=> child'[t] # NoTask
    BY <2>1, <2>2, <2>3, <1>0, SessionAssumption DEF TypeOK
  <2>6. TypeOK'
    BY <2>1, <2>4, <2>5, <1>0 DEF TypeOK
  <2>7. \A t \in Tasks : (pc'[t] = "wait" <=> pc[t] = "wait")
                         /\ (pc'[t] = "absent" => pc[t] = "absent")
    BY <2>1, <2>2, <2>3
  <2>8. \A t \in Tasks : \/ held'[t] = held[t] /\ inherited'[t] = inherited[t]
                         \/ pc[t] = "absent" /\ held'[t] = inherited'[t]
    BY <2>1, <2>2, <2>3
  <2> QED
    BY <2>1, <2>6, <2>7, <2>8, TaskStep
<1>5. ASSUME NEW p \in Tasks, Joined(p) \/ CancelJoin(p) PROVE LockInv'
  <2>1. /\ pc[p] = "join"
        /\ pc' = [pc EXCEPT ![p] = "run"]
        /\ child' = [child EXCEPT ![p] = NoTask]
        /\ UNCHANGED <<locked, waiters, woken, held, frames, want, inherited, opens>>
    BY <1>5 DEF Joined, CancelJoin, Resume
  <2>2. TypeOK'
    BY <2>1, <1>0 DEF TypeOK
  <2> QED
    BY <1>0, <2>1, <2>2, TaskStep DEF TypeOK
<1>6. ASSUME NEW t \in Tasks, Finish(t) PROVE LockInv'
  <2>1. pc[t] = "run" /\ pc' = [pc EXCEPT ![t] = "done"]
        /\ UNCHANGED <<locked, waiters, woken, held, frames, want, child, inherited, opens>>
    BY <1>6 DEF Finish
  <2>2. TypeOK'
    BY <2>1, <1>0 DEF TypeOK
  <2> QED
    BY <1>0, <2>1, <2>2, TaskStep DEF TypeOK
<1>7. ASSUME NEW t \in Tasks, NEW s \in Sessions, NEW kind \in Kinds, Acquire(t, s, kind)
      PROVE  LockInv'
  <2> DEFINE f == [sid |-> s, kind |-> kind, prev |-> held[t]]
  <2>1. f \in Frame /\ OwnFrame(f) /\ f.kind # "reentered" /\ f.prev = held[t] /\ f.sid = s
        /\ f.kind = kind
    BY <1>0 DEF Frame, Kinds, OwnFrame, TypeOK
  <2>2. /\ pc[t] = "run" /\ Free(s)
        /\ frames' = [frames EXCEPT ![t] = Append(@, f)]
        /\ held' = [held EXCEPT ![t] = IF kind = "session" THEN @ \cup {s} ELSE @]
        /\ locked' = locked \cup {s}
        /\ opens' = [opens EXCEPT ![t] = @ + 1]
        /\ UNCHANGED <<waiters, woken, pc, want, child, inherited>>
    BY <1>7 DEF Acquire, MayOpen, Acting, EnterBody
  <2> HIDE DEF f
  <2> QED
    BY <2>1, <2>2, EnterStep
<1>8. ASSUME NEW t \in Tasks, NEW s \in Sessions, Reenter(t, s) PROVE LockInv'
  <2> DEFINE f == [sid |-> s, kind |-> "reentered", prev |-> held[t]]
  <2>1. f \in Frame /\ ~OwnFrame(f) /\ f.kind = "reentered" /\ f.prev = held[t] /\ f.sid = s
    BY <1>0 DEF Frame, Kinds, OwnFrame, TypeOK
  <2>2. /\ pc[t] = "run" /\ s \in held[t]
        /\ frames' = [frames EXCEPT ![t] = Append(@, f)]
        /\ opens' = [opens EXCEPT ![t] = @ + 1]
        /\ UNCHANGED <<locked, waiters, woken, held, pc, want, child, inherited>>
    BY <1>8 DEF Reenter, Acting
  <2>3. held' = [held EXCEPT ![t] = IF f.kind = "session" THEN @ \cup {f.sid} ELSE @]
    BY <2>1, <2>2, <1>0 DEF TypeOK
  <2> HIDE DEF f
  <2> QED
    BY <2>1, <2>2, <2>3, EnterStep
<1> QED
  BY <1>1, <1>2, <1>3, <1>4, <1>5, <1>6, <1>7, <1>8,
     EnqueueStep, AcquireWokenStep, CancelWaitStep, LeaveStep DEF Next

\* asyncio.Lock under reentrant_session: the invariant holds in every execution.
THEOREM LockInvariant == Spec => []LockInv
<1>1. Init => LockInv
  BY InitLockInv
<1>2. LockInv /\ [Next]_vars => LockInv'
  BY NextLockInv
<1> QED
  BY <1>1, <1>2, PTL DEF Spec

\* Every variable of the lock keeps its type in every reachable state.
THEOREM TypeCorrect == Spec => []TypeOK
<1>1. LockInv => TypeOK
  BY DEF LockInv
<1> QED
  BY <1>1, LockInvariant, PTL

\* A lock is locked exactly while the one frame that acquired it is open, for
\* any tree of tasks, nesting, cancellation and detached tasks included.
THEOREM LockOwned == Spec => []LockMatchesOwner
<1>1. LockInv => LockMatchesOwner
  <2> SUFFICES ASSUME LockInv, NEW s \in Sessions
               PROVE  /\ s \in locked <=> \E t \in Tasks : Owns(t, s)
                      /\ \A t1, t2 \in Tasks : Owns(t1, s) /\ Owns(t2, s) => t1 = t2
    BY DEF LockMatchesOwner
  <2>1. s \in locked <=> \E t \in Tasks : Owns(t, s)
    BY DEF LockInv, OwnersOk, Owns
  <2>2. ASSUME NEW t1 \in Tasks, NEW t2 \in Tasks, Owns(t1, s), Owns(t2, s)
        PROVE  t1 = t2
    BY <2>2 DEF LockInv, OwnersOk, Owns
  <2> QED
    BY <2>1, <2>2
<1> QED
  BY <1>1, LockInvariant, PTL

\* The reset token restores the context: it names what the task inherited and
\* the sessions it acquired and has not left.
THEOREM ContextRestored == Spec => []ContextMatchesFrames
<1>1. LockInv => ContextMatchesFrames
  <2> SUFFICES ASSUME LockInv, NEW t \in Tasks
               PROVE  held[t] = inherited[t] \cup
                                {s \in Sessions : \E i \in DOMAIN frames[t] :
                                    frames[t][i].sid = s /\ frames[t][i].kind = "session"}
    BY DEF ContextMatchesFrames
  <2>1. held[t] = CtxIn(inherited[t], frames[t], Len(frames[t]))
    BY DEF LockInv, FramesOk, Nested
  <2>2. DOMAIN frames[t] = 1..Len(frames[t])
    BY DEF LockInv, TypeOK
  <2> QED
    BY <2>1, <2>2 DEF CtxIn
<1> QED
  BY <1>1, LockInvariant, PTL

\* Who is inside a session acquired it or inherited it.
LEMMA InsideOwnsOrInherits ==
    ASSUME LockInv, NEW t \in Tasks, NEW s \in Sessions, Inside(t, s), s \notin inherited[t]
    PROVE  Owns(t, s)
<1> DEFINE q == frames[t]
<1>1. q \in Seq(Frame) /\ Nested(inherited[t], q, held[t])
  BY DEF LockInv, TypeOK, FramesOk
<1>2. PICK i \in 1..Len(q) : q[i].sid = s
  BY <1>1 DEF Inside
<1>3. CASE q[i].kind # "reentered"
  BY <1>1, <1>2, <1>3 DEF Owns, OwnFrame
<1>4. CASE q[i].kind = "reentered"
  <2>1. s \in CtxIn(inherited[t], q, i - 1)
    BY <1>1, <1>2, <1>4 DEF Nested
  <2>2. PICK j \in 1..(i - 1) : q[j].sid = s /\ q[j].kind = "session"
    BY <2>1 DEF CtxIn
  <2>3. j \in DOMAIN q
    BY <1>1, <1>2, <2>2
  <2> QED
    BY <2>2, <2>3 DEF Owns, OwnFrame
<1> QED
  BY <1>3, <1>4

\* InsideOwnsOrInherits after a step.
LEMMA InsideOwnsOrInheritsNext ==
    ASSUME LockInv', NEW t \in Tasks, NEW s \in Sessions, Inside(t, s)', s \notin inherited'[t]
    PROVE  Owns(t, s)'
<1> DEFINE q == frames'[t]
<1>1. q \in Seq(Frame) /\ Nested(inherited'[t], q, held'[t])
  BY DEF LockInv, TypeOK, FramesOk
<1>2. PICK i \in 1..Len(q) : q[i].sid = s
  BY <1>1 DEF Inside
<1>3. CASE q[i].kind # "reentered"
  BY <1>1, <1>2, <1>3 DEF Owns, OwnFrame
<1>4. CASE q[i].kind = "reentered"
  <2>1. s \in CtxIn(inherited'[t], q, i - 1)
    BY <1>1, <1>2, <1>4 DEF Nested
  <2>2. PICK j \in 1..(i - 1) : q[j].sid = s /\ q[j].kind = "session"
    BY <2>1 DEF CtxIn
  <2>3. j \in DOMAIN q
    BY <1>1, <1>2, <2>2
  <2> QED
    BY <2>2, <2>3 DEF Owns, OwnFrame
<1> QED
  BY <1>3, <1>4

\* Tasks that did not inherit a session from their creator exclude each other
\* from it, however many tasks there are and whatever the others do.
THEOREM IndependentTasksExclude == Spec => []IndependentExclusion
<1>1. LockInv => IndependentExclusion
  BY InsideOwnsOrInherits DEF IndependentExclusion, LockInv, OwnersOk, Owns
<1> QED
  BY <1>1, LockInvariant, PTL

\* A free lock with tasks queued on it has woken the first of them.
THEOREM WakeupsKept == Spec => []NoLostWakeup
<1>1. LockInv => NoLostWakeup
  BY DEF LockInv
<1> QED
  BY <1>1, LockInvariant, PTL

-----------------------------------------------------------------------------
(* The room.  Without detached tasks a task that inherited a context is      *)
(* awaited, through any number of tool tasks, by the one that acquired it.   *)

Live(t) == pc[t] \in {"run", "wait", "join"}
Awaits(p, c) == pc[p] = "join" /\ child[p] = c

\* A live task has its context from a task that awaits it and has it still;
\* nobody awaits itself, through any number of others.
TreeInv ==
    /\ \A t \in Tasks : pc[t] = "absent" => inherited[t] = {}
    /\ \A t \in Tasks : pc[t] = "done" => frames[t] = <<>>
    /\ \A p \in Tasks : pc[p] = "join" => child[p] \in Tasks /\ pc[child[p]] # "absent"
    /\ \A c \in Tasks : Live(c) /\ inherited[c] # {} =>
          \E p \in Tasks : Awaits(p, c) /\ held[p] = inherited[c]
    /\ \A G \in SUBSET Tasks : G # {} => \E g \in G : \A p \in G : ~Awaits(p, g)

\* No task has been created yet.
LEMMA InitTreeInv == Init => TreeInv
BY DEF Init, TreeInv, Live, Awaits

\* A step of a task that awaits nobody, and is awaited as before.
LEMMA TreeKept ==
    ASSUME LockInv, TreeInv, NEW t \in Tasks, pc[t] \in {"run", "wait"},
           pc' = pc \/ pc' = [pc EXCEPT ![t] = "run"] \/ pc' = [pc EXCEPT ![t] = "wait"],
           UNCHANGED <<child, inherited>>,
           \A u \in Tasks \ {t} : held'[u] = held[u] /\ frames'[u] = frames[u]
    PROVE  TreeInv'
<1> USE DEF LockInv, TypeOK
<1>1. \A u \in Tasks : /\ pc'[u] = "absent" <=> pc[u] = "absent"
                       /\ pc'[u] = "done" <=> pc[u] = "done"
                       /\ pc'[u] = "join" <=> pc[u] = "join"
                       /\ Live(u)' <=> Live(u)
  BY DEF Live
<1>2. \A p, c \in Tasks : Awaits(p, c)' <=> Awaits(p, c)
  BY <1>1 DEF Awaits
<1>3. \A u \in Tasks : pc[u] = "join" \/ pc[u] = "done" => u # t
  OBVIOUS
<1>4. /\ \A u \in Tasks : pc'[u] = "absent" => inherited'[u] = {}
      /\ \A u \in Tasks : pc'[u] = "done" => frames'[u] = <<>>
      /\ \A p \in Tasks : pc'[p] = "join" => child'[p] \in Tasks /\ pc'[child'[p]] # "absent"
  BY <1>1, <1>3 DEF TreeInv
<1>5. ASSUME NEW c \in Tasks, Live(c)', inherited'[c] # {}
      PROVE  \E p \in Tasks : Awaits(p, c)' /\ held'[p] = inherited'[c]
  <2>1. PICK p \in Tasks : Awaits(p, c) /\ held[p] = inherited[c]
    BY <1>1, <1>5 DEF TreeInv
  <2>2. p # t
    BY <2>1 DEF Awaits
  <2> QED
    BY <1>2, <2>1, <2>2
<1>6. \A G \in SUBSET Tasks : G # {} => \E g \in G : \A p \in G : ~Awaits(p, g)'
  BY <1>2 DEF TreeInv
<1> QED
  BY <1>4, <1>5, <1>6 DEF TreeInv

\* A task that is created awaits nobody: the new edge closes no circle.
LEMMA TreeGrows ==
    ASSUME LockInv, TreeInv, NEW p \in Tasks, NEW c \in Tasks, SpawnAwait(p, c)
    PROVE  TreeInv'
<1> USE DEF LockInv, TypeOK
<1>1. /\ pc[p] = "run" /\ pc[c] = "absent" /\ p # c
      /\ pc' = [pc EXCEPT ![p] = "join", ![c] = "run"]
      /\ child' = [child EXCEPT ![p] = c]
      /\ held' = [held EXCEPT ![c] = held[p]]
      /\ inherited' = [inherited EXCEPT ![c] = held[p]]
      /\ frames' = frames
  BY DEF SpawnAwait, CreateTask, Await, Acting
<1>2. \A u \in Tasks : pc[u] = "join" => u # p /\ u # c /\ child[u] # c
  BY <1>1 DEF TreeInv
<1>3. \A u, v \in Tasks : Awaits(u, v)' <=> Awaits(u, v) \/ (u = p /\ v = c)
  BY <1>1, <1>2 DEF Awaits
<1>4. /\ \A u \in Tasks : pc'[u] = "absent" => inherited'[u] = {}
      /\ \A u \in Tasks : pc'[u] = "done" => frames'[u] = <<>>
  BY <1>1 DEF TreeInv
<1>5. \A u \in Tasks : pc'[u] = "join" => child'[u] \in Tasks /\ pc'[child'[u]] # "absent"
  BY <1>1, <1>2 DEF TreeInv
<1>6. ASSUME NEW v \in Tasks, Live(v)', inherited'[v] # {}
      PROVE  \E u \in Tasks : Awaits(u, v)' /\ held'[u] = inherited'[v]
  <2>1. CASE v = c
    <3>1. Awaits(p, c)' /\ held'[p] = inherited'[c]
      BY <1>1, <1>3
    <3> QED
      BY <2>1, <3>1
  <2>2. CASE v # c
    <3>1. Live(v) /\ inherited[v] # {} /\ inherited'[v] = inherited[v]
      BY <1>1, <1>6, <2>2 DEF Live
    <3>2. PICK u \in Tasks : Awaits(u, v) /\ held[u] = inherited[v]
      BY <3>1 DEF TreeInv
    <3>3. u # c
      BY <1>2, <3>2 DEF Awaits
    <3> QED
      BY <1>1, <1>3, <3>1, <3>2, <3>3
  <2> QED
    BY <2>1, <2>2
<1>7. ASSUME NEW G \in SUBSET Tasks, G # {} PROVE \E g \in G : \A u \in G : ~Awaits(u, g)'
  <2>1. CASE G \ {c} = {}
    <3>1. c \in G /\ G = {c}
      BY <1>7, <2>1
    <3>2. ~Awaits(c, c)'
      BY <1>1, <1>2, <1>3 DEF Awaits
    <3> QED
      BY <3>1, <3>2
  <2>2. CASE G \ {c} # {}
    <3>1. PICK g \in G \ {c} : \A u \in G \ {c} : ~Awaits(u, g)
      BY <2>2 DEF TreeInv
    <3>2. ~Awaits(c, g)
      BY <1>1 DEF Awaits
    <3> QED
      BY <1>3, <3>1, <3>2
  <2> QED
    BY <2>1, <2>2
<1> QED
  BY <1>4, <1>5, <1>6, <1>7 DEF TreeInv

\* A task goes on when the one it awaits is done; then nobody else is live that
\* has its context from it.
LEMMA TreeShrinks ==
    ASSUME LockInv, TreeInv, NEW t \in Tasks, Joined(t) \/ Finish(t) \/ Start(t)
    PROVE  TreeInv'
<1> USE DEF LockInv, TypeOK
<1>1. /\ UNCHANGED <<held, inherited, frames>>
      /\ \/ /\ pc[t] = "join" /\ pc[child[t]] = "done"
            /\ pc' = [pc EXCEPT ![t] = "run"] /\ child' = [child EXCEPT ![t] = NoTask]
         \/ pc[t] = "run" /\ frames[t] = <<>> /\ pc' = [pc EXCEPT ![t] = "done"] /\ child' = child
         \/ pc[t] = "absent" /\ pc' = [pc EXCEPT ![t] = "run"] /\ child' = child
  BY DEF Joined, Resume, Finish, Start
<1>2. \A u, v \in Tasks : Awaits(u, v)' <=> Awaits(u, v) /\ u # t
  BY <1>1 DEF Awaits
<1>3. /\ \A u \in Tasks : pc'[u] = "absent" => inherited'[u] = {}
      /\ \A u \in Tasks : pc'[u] = "done" => frames'[u] = <<>>
      /\ \A u \in Tasks : pc'[u] = "join" => child'[u] \in Tasks /\ pc'[child'[u]] # "absent"
  <2>1. \A u \in Tasks : pc'[u] = "absent" => pc[u] = "absent"
    BY <1>1
  <2>2. \A u \in Tasks : pc'[u] = "done" => frames[u] = <<>>
    BY <1>1 DEF TreeInv
  <2>3. \A u \in Tasks : pc'[u] = "join" => pc[u] = "join" /\ child'[u] = child[u]
    BY <1>1
  <2> QED
    BY <1>1, <2>1, <2>2, <2>3 DEF TreeInv
<1>4. ASSUME NEW v \in Tasks, Live(v)', inherited'[v] # {}
      PROVE  \E u \in Tasks : Awaits(u, v)' /\ held'[u] = inherited'[v]
  <2>1. Live(v) /\ inherited[v] # {}
    BY <1>1, <1>4 DEF Live, TreeInv
  <2>2. PICK u \in Tasks : Awaits(u, v) /\ held[u] = inherited[v]
    BY <2>1 DEF TreeInv
  <2>3. u # t
    BY <1>1, <2>1, <2>2 DEF Awaits, Live
  <2> QED
    BY <1>1, <1>2, <2>2, <2>3
<1>5. \A G \in SUBSET Tasks : G # {} => \E g \in G : \A p \in G : ~Awaits(p, g)'
  BY <1>2 DEF TreeInv
<1> QED
  BY <1>3, <1>4, <1>5 DEF TreeInv

\* Every step keeps the tree, when no task is left running.
LEMMA NextTreeInv ==
    ASSUME Detached = FALSE, LockInv, TreeInv, [Next]_vars PROVE TreeInv'
<1>1. CASE UNCHANGED vars
  BY <1>1 DEF vars, TreeInv, Live, Awaits
<1>2. ASSUME NEW t \in Tasks, NEW c \in Tasks, SpawnBackground(t, c) \/ SpawnAwait(t, c) PROVE TreeInv'
  BY <1>2, TreeGrows DEF SpawnBackground
<1>3. ASSUME NEW t \in Tasks, Joined(t) \/ Finish(t) \/ Start(t) \/ CancelJoin(t) PROVE TreeInv'
  BY <1>3, TreeShrinks DEF CancelJoin
<1>4. ASSUME NEW t \in Tasks, NEW s \in Sessions, NEW kind \in Kinds, Acquire(t, s, kind) \/ Enqueue(t, s, kind)
      PROVE  TreeInv'
  BY <1>4, TreeKept DEF Acquire, Enqueue, MayOpen, Acting, EnterBody, LockInv, TypeOK
<1>5. ASSUME NEW t \in Tasks, AcquireWoken(t) \/ CancelWait(t) \/ Leave(t) PROVE TreeInv'
  BY <1>5, TreeKept DEF AcquireWoken, CancelWait, Leave, EnterBody, LockInv, TypeOK
<1>6. ASSUME NEW t \in Tasks, NEW s \in Sessions, Reenter(t, s) PROVE TreeInv'
  BY <1>6, TreeKept DEF Reenter, Acting, LockInv, TypeOK
<1> QED
  BY <1>1, <1>2, <1>3, <1>4, <1>5, <1>6 DEF Next

\* Who has a session from its creator is awaited, through others, by the task
\* that acquired it.
LEMMA OwnerWaits ==
    ASSUME LockInv, TreeInv, NEW s \in Sessions, NEW t \in Tasks, Live(t), s \in inherited[t]
    PROVE  \E o \in Tasks : Owns(o, s) /\ pc[o] = "join"
<1> DEFINE G == {u \in Tasks : Live(u) /\ s \in inherited[u]}
<1>1. PICK g \in G : \A p \in G : ~Awaits(p, g)
  <2>1. G # {} /\ G \in SUBSET Tasks
    OBVIOUS
  <2> HIDE DEF G
  <2> QED
    BY <2>1 DEF TreeInv
<1>2. PICK p \in Tasks : Awaits(p, g) /\ held[p] = inherited[g]
  BY <1>1 DEF TreeInv
<1>3. pc[p] = "join" /\ s \notin inherited[p] /\ s \in held[p]
  BY <1>1, <1>2 DEF Awaits, Live
<1>4. frames[p] \in Seq(Frame) /\ held[p] = CtxIn(inherited[p], frames[p], Len(frames[p]))
  BY DEF LockInv, TypeOK, FramesOk, Nested
<1>5. PICK j \in 1..Len(frames[p]) : frames[p][j].sid = s /\ frames[p][j].kind = "session"
  BY <1>3, <1>4 DEF CtxIn
<1>6. Owns(p, s)
  BY <1>4, <1>5 DEF Owns, OwnFrame
<1> QED
  BY <1>3, <1>6

\* A guest's host is in.
LEMMA GuestHasHost ==
    ASSUME LockInv, TreeInv, NEW s \in Sessions, NEW t \in Tasks, Inside(t, s), ~Owns(t, s)
    PROVE  \E o \in Tasks : Owns(o, s) /\ pc[o] = "join"
<1>1. s \in inherited[t]
  BY InsideOwnsOrInherits
<1>2. frames[t] # <<>> /\ frames[t] \in Seq(Frame)
  BY DEF Inside, LockInv, TypeOK
<1>3. Live(t)
  BY <1>2 DEF Live, TreeInv, LockInv, TypeOK, FramesOk
<1> QED
  BY <1>1, <1>3, OwnerWaits

\* What the room's variables are, before a step and after it.
LEMMA HostOf ==
    ASSUME LockInv, NEW s \in Sessions
    PROVE  /\ \A t \in Tasks : Owns(t, s) => Host(s) = t
           /\ (\A t \in Tasks : ~Owns(t, s)) => Host(s) = NoTask
<1>1. \A t, u \in Tasks : Owns(t, s) /\ Owns(u, s) => t = u
  BY DEF LockInv, OwnersOk, Owns
<1> QED
  BY <1>1 DEF Host

\* HostOf after a step.
LEMMA HostOfNext ==
    ASSUME LockInv', NEW s \in Sessions
    PROVE  /\ \A t \in Tasks : Owns(t, s)' => Host(s)' = t
           /\ (\A t \in Tasks : ~Owns(t, s)') => Host(s)' = NoTask
<1>1. \A t, u \in Tasks : Owns(t, s)' /\ Owns(u, s)' => t = u
  BY DEF LockInv, OwnersOk, Owns
<1> QED
  BY <1>1 DEF Host

\* A step after which everybody is inside as before is none of the room's.
LEMMA RoomStutters ==
    ASSUME LockInv, LockInv',
           \A t \in Tasks, s \in Sessions : (Owns(t, s)' <=> Owns(t, s)) /\ (Inside(t, s)' <=> Inside(t, s))
    PROVE  UNCHANGED Room!roomVars
<1>1. \A s \in Sessions : Host(s)' = Host(s)
  BY HostOf, HostOfNext
<1>2. \A s \in Sessions : Guests(s)' = Guests(s)
  BY DEF Guests
<1> QED
  BY <1>1, <1>2 DEF Room!roomVars

\* A frame is entered: as the host's, as a guest's, or once more.
LEMMA RoomEntered ==
    ASSUME LockInv, TreeInv, LockInv', NEW t \in Tasks, NEW f \in Frame,
           frames' = [frames EXCEPT ![t] = Append(@, f)],
           pc[t] \in {"run", "wait"},
           OwnFrame(f) => f.sid \notin locked,
           ~OwnFrame(f) => f.sid \in held[t]
    PROVE  [Room!Next]_(Room!roomVars)
<1> DEFINE s == f.sid
<1>1. s \in Sessions /\ frames[t] \in Seq(Frame) /\ DOMAIN frames = Tasks
  BY DEF Frame, LockInv, TypeOK
<1>2. \A u \in Tasks, r \in Sessions :
          /\ Inside(u, r)' <=> Inside(u, r) \/ (u = t /\ r = s)
          /\ Owns(u, r)' <=> Owns(u, r) \/ (u = t /\ r = s /\ OwnFrame(f))
  <2> SUFFICES ASSUME NEW u \in Tasks, NEW r \in Sessions
               PROVE  /\ Inside(u, r)' <=> Inside(u, r) \/ (u = t /\ r = s)
                      /\ Owns(u, r)' <=> Owns(u, r) \/ (u = t /\ r = s /\ OwnFrame(f))
    OBVIOUS
  <2>1. CASE u # t
    <3>1. frames'[u] = frames[u]
      BY <1>1, <2>1
    <3> QED
      BY <2>1, <3>1 DEF Inside, Owns
  <2>2. CASE u = t
    <3>1. /\ frames'[t] = Append(frames[t], f)
          /\ DOMAIN frames[t] = 1..Len(frames[t]) /\ Len(frames[t]) \in Nat
          /\ DOMAIN frames'[t] = 1..(Len(frames[t]) + 1)
          /\ \A i \in 1..Len(frames[t]) : frames'[t][i] = frames[t][i]
          /\ frames'[t][Len(frames[t]) + 1] = f
      BY <1>1
    <3>2. Inside(t, r)' <=> Inside(t, r) \/ r = s
      BY <3>1 DEF Inside
    <3>3. Owns(t, r)' <=> Owns(t, r) \/ (r = s /\ OwnFrame(f))
      BY <3>1 DEF Owns
    <3> QED
      BY <2>2, <3>2, <3>3
  <2> QED
    BY <2>1, <2>2
<1>3. CASE OwnFrame(f)
  <2>1. \A u \in Tasks : ~Owns(u, s)
    BY <1>3 DEF LockInv, OwnersOk, Owns
  <2>2. \A u \in Tasks : ~Inside(u, s)
    BY <1>1, <2>1, GuestHasHost
  <2>3. Host(s) = NoTask /\ Host(s)' = t
    BY <1>1, <1>2, <1>3, <2>1, HostOf, HostOfNext
  <2>4. \A r \in Sessions \ {s} : Host(r)' = Host(r)
    BY <1>2, HostOf, HostOfNext
  <2>5. \A r \in Sessions : Guests(r)' = Guests(r)
    BY <1>2, <1>3, <2>2 DEF Guests
  <2>6. Room!Occupy(t, s)
    BY <1>1, <2>3, <2>4, <2>5 DEF Room!Occupy
  <2> QED
    BY <1>1, <2>6 DEF Room!Next
<1>4. CASE ~OwnFrame(f) /\ Inside(t, s)
  BY <1>2, <1>4, RoomStutters
<1>5. CASE ~OwnFrame(f) /\ ~Inside(t, s)
  <2>1. ~Owns(t, s)
    BY <1>5 DEF Owns, Inside
  <2>2. s \in inherited[t]
    <3>1. held[t] = CtxIn(inherited[t], frames[t], Len(frames[t]))
      BY DEF LockInv, FramesOk, Nested
    <3>2. \A j \in 1..Len(frames[t]) : frames[t][j].sid # s
      BY <1>1, <1>5 DEF Inside
    <3> QED
      BY <1>5, <3>1, <3>2 DEF CtxIn
  <2>3. PICK o \in Tasks : Owns(o, s) /\ pc[o] = "join"
    BY <1>1, <2>2, OwnerWaits DEF Live
  <2>4. Host(s) = o /\ o # t /\ o # NoTask
    BY <1>1, <2>3, HostOf, SessionAssumption
  <2>5. \A r \in Sessions : Host(r)' = Host(r)
    BY <1>2, <1>5, HostOf, HostOfNext
  <2>6. /\ Guests(s)' = Guests(s) \cup {t}
        /\ \A r \in Sessions \ {s} : Guests(r)' = Guests(r)
    BY <1>1, <1>2, <1>5, <2>1 DEF Guests
  <2>7. Room!Invite(t, s)
    BY <1>1, <2>4, <2>5, <2>6 DEF Room!Invite
  <2> QED
    BY <1>1, <2>7 DEF Room!Next
<1> QED
  BY <1>3, <1>4, <1>5

\* A frame is left: the host goes when nobody is its guest, a guest when it
\* was its last frame there.
LEMMA RoomLeft ==
    ASSUME LockInv, TreeInv, LockInv', TreeInv', NEW t \in Tasks, Leave(t)
    PROVE  [Room!Next]_(Room!roomVars)
<1> DEFINE n == Len(frames[t])
<1>1. /\ pc[t] = "run" /\ pc' = pc /\ frames[t] # <<>> /\ inherited' = inherited
      /\ frames' = [frames EXCEPT ![t] = Front(@)]
      /\ DOMAIN frames = Tasks /\ frames[t] \in Seq(Frame)
  BY DEF Leave, LockInv, TypeOK
<1>2. /\ n \in Nat \ {0} /\ frames'[t] = Front(frames[t])
      /\ DOMAIN frames[t] = 1..n /\ DOMAIN frames'[t] = 1..(n - 1)
      /\ \A i \in 1..(n - 1) : frames'[t][i] = frames[t][i]
      /\ frames[t][n] \in Frame
  <2>1. /\ Front(frames[t]) \in Seq(Frame) /\ n \in Nat \ {0} /\ Len(Front(frames[t])) = n - 1
        /\ \A i \in 1..(n - 1) : Front(frames[t])[i] = frames[t][i]
    BY <1>1, FrontProperties
  <2>2. frames'[t] = Front(frames[t])
    BY <1>1
  <2> QED
    BY <1>1, <2>1, <2>2
<1>3. PICK f \in Frame : f = frames[t][n]
  <2>1. frames[t][n] \in Frame
    BY <1>2
  <2> QED
    BY <2>1, Zenon
<1> DEFINE s == f.sid
<1>4. /\ n \in Nat \ {0} /\ frames'[t] = Front(frames[t])
      /\ DOMAIN frames[t] = 1..n /\ DOMAIN frames'[t] = 1..(n - 1)
      /\ \A i \in 1..(n - 1) : frames'[t][i] = frames[t][i]
      /\ f = frames[t][n]
  BY <1>2, <1>3
<1>5. s \in Sessions
  BY DEF Frame
<1>6. \A i : i \in 1..n <=> i \in 1..(n - 1) \/ i = n
  BY <1>4
<1>7. \A r : Inside(t, r)' <=> \E i \in 1..(n - 1) : frames[t][i].sid = r
  BY <1>4 DEF Inside
<1>8. \A r : Owns(t, r)' <=> \E i \in 1..(n - 1) : frames[t][i].sid = r /\ OwnFrame(frames[t][i])
  BY <1>4 DEF Owns
<1>9. \A r : Inside(t, r) <=> Inside(t, r)' \/ r = s
  <2>1. \A r : Inside(t, r) <=> \E i \in 1..n : frames[t][i].sid = r
    BY <1>4 DEF Inside
  <2> QED
    BY <1>4, <1>6, <1>7, <2>1
<1>10. \A r : Owns(t, r) <=> Owns(t, r)' \/ (r = s /\ OwnFrame(f))
  <2>1. \A r : Owns(t, r) <=> \E i \in 1..n : frames[t][i].sid = r /\ OwnFrame(frames[t][i])
    BY <1>4 DEF Owns
  <2> QED
    BY <1>4, <1>6, <1>8, <2>1
<1>11. \A u \in Tasks, r \in Sessions : u # t \/ r # s =>
          (Inside(u, r)' <=> Inside(u, r)) /\ (Owns(u, r)' <=> Owns(u, r))
  <2> SUFFICES ASSUME NEW u \in Tasks, NEW r \in Sessions, u # t \/ r # s
               PROVE  (Inside(u, r)' <=> Inside(u, r)) /\ (Owns(u, r)' <=> Owns(u, r))
    OBVIOUS
  <2>1. CASE u # t
    <3>1. frames'[u] = frames[u]
      BY <1>1, <2>1
    <3> QED
      BY <3>1 DEF Inside, Owns
  <2>2. CASE u = t /\ r # s
    BY <1>9, <1>10, <2>2
  <2> QED
    BY <2>1, <2>2
<1>12. Inside(t, s)
  BY <1>9
<1>13. CASE OwnFrame(f)
  <2>1. Owns(t, s)
    BY <1>13, <1>10
  <2>2. \A u \in Tasks : ~Owns(u, s)'
    <3>1. \A u \in Tasks \ {t} : ~Owns(u, s)
      BY <2>1 DEF LockInv, OwnersOk, Owns
    <3>2. ASSUME NEW i \in 1..(n - 1), frames[t][i].sid = s, OwnFrame(frames[t][i]) PROVE FALSE
      <4>1. i \in DOMAIN frames[t] /\ n \in DOMAIN frames[t] /\ i # n
        BY <1>4
      <4> QED
        BY <1>4, <1>13, <3>2, <4>1 DEF LockInv, OwnersOk
    <3>3. ~Owns(t, s)'
      BY <1>8, <3>2
    <3> QED
      BY <1>5, <1>11, <3>1, <3>3
  <2>3. \A u \in Tasks : Inside(u, s) => Owns(u, s)
    BY <1>1, <1>5, <2>1, GuestHasHost DEF LockInv, OwnersOk, Owns
  <2>4. \A u \in Tasks : ~Inside(u, s)'
    <3>1. \A u \in Tasks \ {t} : ~Inside(u, s)'
      BY <1>5, <1>11, <2>1, <2>3 DEF LockInv, OwnersOk, Owns
    <3>2. ASSUME Inside(t, s)' PROVE FALSE
      <4>1. s \in inherited[t]
        BY <1>1, <1>5, <2>2, <3>2, InsideOwnsOrInheritsNext
      <4>2. PICK o \in Tasks : Owns(o, s) /\ pc[o] = "join"
        BY <1>1, <1>5, <4>1, OwnerWaits DEF Live
      <4> QED
        BY <1>1, <2>1, <4>2 DEF LockInv, OwnersOk, Owns
    <3> QED
      BY <3>1, <3>2
  <2>5. Host(s) = t /\ Host(s)' = NoTask /\ t # NoTask
    BY <1>5, <2>1, <2>2, HostOf, HostOfNext, SessionAssumption
  <2>6. \A r \in Sessions \ {s} : Host(r)' = Host(r)
    BY <1>11, HostOf, HostOfNext
  <2>7. Guests(s) = {} /\ \A r \in Sessions : Guests(r)' = Guests(r)
    BY <1>5, <1>11, <2>3, <2>4 DEF Guests
  <2>8. Room!Vacate(s)
    BY <1>5, <2>5, <2>6, <2>7 DEF Room!Vacate
  <2> QED
    BY <1>5, <2>8 DEF Room!Next
<1>14. CASE ~OwnFrame(f)
  <2>1. \A u \in Tasks, r \in Sessions : Owns(u, r)' <=> Owns(u, r)
    <3>1. Owns(t, s)' <=> Owns(t, s)
      BY <1>14, <1>10
    <3> QED
      BY <1>11, <3>1
  <2>2. \A r \in Sessions : Host(r)' = Host(r)
    BY <2>1, HostOf, HostOfNext
  <2>3. CASE Inside(t, s)'
    BY <1>11, <1>12, <2>1, <2>3, RoomStutters
  <2>4. CASE ~Inside(t, s)'
    <3>1. ~Owns(t, s)
      BY <1>5, <2>1, <2>4 DEF Owns, Inside
    <3>2. /\ t \in Guests(s) /\ Guests(s)' = Guests(s) \ {t}
          /\ \A r \in Sessions \ {s} : Guests(r)' = Guests(r)
      BY <1>5, <1>11, <1>12, <2>1, <2>4, <3>1 DEF Guests
    <3>3. Room!SeeOff(t, s)
      BY <1>5, <2>2, <3>2 DEF Room!SeeOff
    <3> QED
      BY <1>5, <3>3 DEF Room!Next
  <2> QED
    BY <2>3, <2>4
<1> QED
  BY <1>13, <1>14

\* Every step of the lock is one of the room, or none.
LEMMA RoomStep ==
    ASSUME LockInv, TreeInv, LockInv', TreeInv', [Next]_vars PROVE [Room!Next]_(Room!roomVars)
<1>1. CASE UNCHANGED frames
  BY <1>1, RoomStutters DEF Inside, Owns
<1>2. ASSUME NEW t \in Tasks, NEW s \in Sessions, NEW kind \in Kinds, Acquire(t, s, kind)
      PROVE  [Room!Next]_(Room!roomVars)
  <2> DEFINE f == [sid |-> s, kind |-> kind, prev |-> held[t]]
  <2>1. f \in Frame /\ OwnFrame(f) /\ f.sid = s
    BY DEF Frame, Kinds, OwnFrame, LockInv, TypeOK
  <2>2. /\ pc[t] = "run" /\ s \notin locked
        /\ frames' = [frames EXCEPT ![t] = Append(@, f)]
    BY <1>2 DEF Acquire, MayOpen, Acting, Free, EnterBody
  <2> HIDE DEF f
  <2> QED
    BY <2>1, <2>2, RoomEntered
<1>3. ASSUME NEW t \in Tasks, AcquireWoken(t) PROVE [Room!Next]_(Room!roomVars)
  <2> DEFINE f == [sid |-> want[t].sid, kind |-> want[t].kind, prev |-> held[t]]
  <2>1. /\ pc[t] = "wait" /\ t \in woken
        /\ frames' = [frames EXCEPT ![t] = Append(@, f)]
    BY <1>3 DEF AcquireWoken, EnterBody
  <2>2. want[t] \in Request /\ want[t].sid \notin locked
    BY <2>1 DEF LockInv, QueuesOk
  <2>3. f \in Frame /\ OwnFrame(f) /\ f.sid \notin locked
    BY <2>2 DEF Frame, Request, Kinds, OwnFrame, LockInv, TypeOK
  <2> HIDE DEF f
  <2> QED
    BY <2>1, <2>3, RoomEntered
<1>4. ASSUME NEW t \in Tasks, NEW s \in Sessions, Reenter(t, s) PROVE [Room!Next]_(Room!roomVars)
  <2> DEFINE f == [sid |-> s, kind |-> "reentered", prev |-> held[t]]
  <2>1. f \in Frame /\ ~OwnFrame(f) /\ f.sid = s
    BY DEF Frame, OwnFrame, LockInv, TypeOK
  <2>2. /\ pc[t] = "run" /\ s \in held[t]
        /\ frames' = [frames EXCEPT ![t] = Append(@, f)]
    BY <1>4 DEF Reenter, Acting
  <2> HIDE DEF f
  <2> QED
    BY <2>1, <2>2, RoomEntered
<1>5. ASSUME NEW t \in Tasks, Leave(t) PROVE [Room!Next]_(Room!roomVars)
  BY <1>5, RoomLeft
<1>6. CASE Next /\ frames' # frames
  BY <1>2, <1>3, <1>4, <1>5, <1>6
     DEF Next, Start, SpawnBackground, SpawnAwait, Joined, CancelJoin, Finish, Enqueue, CancelWait
<1> QED
  BY <1>1, <1>6 DEF vars

\* reentrant_session, when the creator of a task awaits it (tool tasks of the
\* executor): the lock is a room that its host keeps until its guests have
\* left it, for any number of tasks, sessions and levels of nesting.
THEOREM LockIsRoom == ASSUME Detached = FALSE PROVE Spec => RoomSpec
<1>1. Init => Room!Init
  BY DEF Init, Room!Init, Host, Guests, Owns, Inside
<1>2. Init => TreeInv
  BY InitTreeInv
<1>3. LockInv /\ TreeInv /\ [Next]_vars => TreeInv'
  BY NextTreeInv
<1>4. LockInv /\ TreeInv /\ LockInv' /\ TreeInv' /\ [Next]_vars => [Room!Next]_(Room!roomVars)
  BY RoomStep
<1> QED
  BY <1>1, <1>2, <1>3, <1>4, LockInvariant, PTL DEF Spec, RoomSpec, Room!Spec

=============================================================================
