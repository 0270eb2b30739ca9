-------------------------- MODULE DurableRunProofs --------------------------
(***************************************************************************)
(* Proofs about DurableRun, for every set of runs, every budget and every  *)
(* bound: the types, the bound on pattern.execute() invocations, that      *)
(* announced checkpoints are kept, that no write of the pattern is lost or *)
(* made twice unaccounted, that a resume restores the newest checkpoint,   *)
(* and that what a rewind undoes counts once.                              *)
(*                                                                         *)
(* What makes them inductive: a checkpoint carries the id of a run that    *)
(* has started, with a step its handler has already counted (Counted); the *)
(* backend's copy of a checkpoint has the blob of the one in memory        *)
(* (Mirrored); executions are the first, the resumes and the retries       *)
(* (Executions).                                                           *)
(***************************************************************************)
EXTENDS DurableRun, TLAPS

Counted ==
    \A id \in DOMAIN ckpts :
       /\ status[id[1]] # "new"
       /\ id[1] = active => id[2] <= counter

Mirrored == \A id \in DOMAIN ckpts : disk[id].blob = ckpts[id].blob

Executions ==
    /\ active = NoRun => execs = 0 /\ resumes = 0 /\ attempts = 0 /\ view.ref = NoId
    /\ active # NoRun => execs = 1 + resumes + attempts
    /\ resumes <= MaxResume
    /\ attempts <= MaxRetries

DurableInv == TypeOK /\ Counted /\ Mirrored /\ Executions

(***************************************************************************)
(* Lists, cells and checkpoints.                                           *)
(***************************************************************************)
\* A stock of checkpoints that differs from the present one by longer lists.
Grown(stock) ==
    /\ DOMAIN stock = DOMAIN ckpts
    /\ \A id \in DOMAIN ckpts :
          /\ stock[id] \in Snapshot
          /\ stock[id].blob = ckpts[id].blob
          /\ ckpts[id].pending # Absent => stock[id].pending # Absent

\* The context's cell is a cell, and refers to a list if it refers at all.
LEMMA CtxCellType ==
    ASSUME TypeOK
    PROVE  CtxCell \in Cell /\ Refers(CtxCell)
<1>1. CASE detached
  BY <1>1 DEF TypeOK, CtxCell
<1>2. CASE ~detached
  BY <1>2 DEF TypeOK, CtxCell
<1> QED BY <1>1, <1>2

\* What a cell lists is a list of writes, or nothing.
LEMMA ListType ==
    ASSUME NEW cell \in Cell, NEW stock,
           cell.ref # NoId => stock[cell.ref] \in Snapshot
    PROVE  List(cell, stock) \in Seq(Things) \cup {Absent}
  BY DEF List, Cell, Snapshot

\* Appending a write to a list gives a list, never the absent key.
LEMMA ExtendedType ==
    ASSUME NEW list \in Seq(Things) \cup {Absent}, NEW w \in Things
    PROVE  Extended(list, w) \in Seq(Things)
<1>1. CASE list = Absent
  BY <1>1 DEF Extended
<1>2. CASE list # Absent
  <2>1. list \in Seq(Things)
    BY <1>2
  <2> QED BY <2>1, <1>2 DEF Extended
<1> QED BY <1>1, <1>2

\* Appending through a cell keeps it a cell with the same reference.
LEMMA NotedType ==
    ASSUME NEW cell \in Cell, NEW w \in Things
    PROVE  Noted(cell, w) \in Cell /\ Noted(cell, w).ref = cell.ref
<1>1. CASE cell.ref = NoId
  <2>1. Extended(cell.val, w) \in Seq(Things)
    BY ExtendedType DEF Cell
  <2> QED BY <2>1, <1>1 DEF Noted, Cell
<1>2. CASE cell.ref # NoId
  BY <1>2 DEF Noted
<1> QED BY <1>1, <1>2

\* Appending through a cell leaves every checkpoint a snapshot with its blob.
LEMMA NotedInGrows ==
    ASSUME DurableAssumption, TypeOK, NEW cell \in Cell, Refers(cell), NEW w \in Things
    PROVE  Grown(NotedIn(cell, w))
<1>1. CASE cell.ref = NoId
  BY <1>1 DEF NotedIn, Grown, TypeOK
<1>2. CASE cell.ref # NoId
  <2> DEFINE list == ckpts[cell.ref].pending
  <2>1. cell.ref \in DOMAIN ckpts /\ list # Absent /\ ckpts[cell.ref] \in Snapshot
    BY <1>2 DEF Refers, TypeOK
  <2>2. Append(list, w) \in Seq(Things)
    BY <2>1 DEF Snapshot
  <2>3. Append(list, w) # Absent
    BY <2>2 DEF DurableAssumption, Things
  <2>4. NotedIn(cell, w) = [ckpts EXCEPT ![cell.ref].pending = Append(list, w)]
    BY <1>2 DEF NotedIn
  <2> HIDE DEF list
  <2>5. ASSUME NEW id \in DOMAIN ckpts
        PROVE  /\ NotedIn(cell, w)[id] \in Snapshot
               /\ NotedIn(cell, w)[id].blob = ckpts[id].blob
               /\ ckpts[id].pending # Absent => NotedIn(cell, w)[id].pending # Absent
    <3>1. ckpts[id] \in Snapshot
      BY DEF TypeOK
    <3>2. CASE id = cell.ref
      <4>1. NotedIn(cell, w)[id] = [ckpts[id] EXCEPT !.pending = Append(list, w)]
        BY <2>4, <3>2
      <4> QED BY <4>1, <2>2, <2>3, <3>1 DEF Snapshot
    <3>3. CASE id # cell.ref
      <4>1. NotedIn(cell, w)[id] = ckpts[id]
        BY <2>4, <3>3
      <4> QED BY <4>1, <3>1
    <3> QED BY <3>2, <3>3
  <2>6. DOMAIN NotedIn(cell, w) = DOMAIN ckpts
    BY <2>4
  <2> QED BY <2>5, <2>6 DEF Grown
<1> QED BY <1>1, <1>2

\* What the tool of a call leaves in the checkpoints and the artifacts.
LEMMA LeftType ==
    ASSUME DurableAssumption, TypeOK, active \in Runs, NEW kind \in Kinds
    PROVE  Left(kind) \in Seq(Things) /\ Grown(LeftStock(kind))
<1> DEFINE w == <<active, calls + 1>>
<1>1. w \in Things
  BY DEF TypeOK, Things
<1>2. Grown(ckpts)
  BY DEF Grown, TypeOK
<1>3. Grown(NotedIn(CtxCell, w))
  BY <1>1, NotedInGrows, CtxCellType
<1>4. artifacts \in Seq(Things) /\ Append(artifacts, w) \in Seq(Things)
  BY <1>1 DEF TypeOK
<1> QED BY <1>2, <1>3, <1>4 DEF Left, LeftStock

\* The cells of the session and of the context after a call.
LEMMA QueueType ==
    ASSUME TypeOK, active \in Runs, NEW kind \in Kinds, Queue(kind)
    PROVE  /\ sess' \in Cell /\ sess'.ref = sess.ref
           /\ view' \in Cell /\ view'.ref = view.ref
           /\ queued' \subseteq Things
<1> DEFINE w == <<active, calls + 1>>
<1>1. w \in Things
  BY DEF TypeOK, Things
<1>2. CASE kind = "write"
  <2>1. queued' = queued \cup {w}
    BY <1>2 DEF Queue
  <2>2. \/ view' = Noted(view, w) /\ sess' = sess
        \/ sess' = Noted(sess, w) /\ view' = view
    BY <1>2 DEF Queue
  <2>3. sess \in Cell /\ view \in Cell /\ queued \subseteq Things
    BY DEF TypeOK
  <2>4. /\ Noted(view, w) \in Cell /\ Noted(view, w).ref = view.ref
        /\ Noted(sess, w) \in Cell /\ Noted(sess, w).ref = sess.ref
    BY <1>1, <2>3, NotedType
  <2> QED BY <1>1, <2>1, <2>2, <2>3, <2>4
<1>3. CASE kind # "write"
  BY <1>3 DEF Queue, TypeOK
<1> QED BY <1>2, <1>3
(***************************************************************************)
(* The checkpoint handler.                                                 *)
(***************************************************************************)
Keeps ==
    /\ DOMAIN ckpts \subseteq DOMAIN ckpts'
    /\ \A id \in DOMAIN ckpts : ckpts'[id].blob = ckpts[id].blob

\* What the handler does to the blob, the checkpoints and their copies: it adds
\* at most one, with a step no checkpoint of the run has yet.
LEMMA OnStepKeeps ==
    ASSUME DurableAssumption, DurableInv, active \in Runs, status' = status, active' = active,
           NEW stock, Grown(stock), NEW u \in Nat, NEW arts \in Seq(Things), NEW ok \in BOOLEAN,
           sess' \in Cell, sess'.ref = sess.ref, view'.ref = view.ref,
           OnStep(stock, u, arts, ok)
    PROVE  /\ blob' \in Blob \cup {NoBlob} /\ counter' \in Nat
           /\ DOMAIN ckpts' \subseteq Ids /\ \A id \in DOMAIN ckpts' : ckpts'[id] \in Snapshot
           /\ DOMAIN disk' = DOMAIN ckpts' /\ \A id \in DOMAIN disk' : disk'[id] \in Snapshot
           /\ Refers(sess)' /\ Refers(view)'
           /\ Counted' /\ Mirrored' /\ Keeps
<1> DEFINE n == counter + 1
           id1 == <<active, n>>
           shot == [blob |-> BlobFor(n, u, arts), pending |-> List(sess', stock)]
<1>1. counter \in Nat /\ n \in Nat \ {0} /\ id1 \in Ids /\ id1[1] = active /\ id1[2] = n
  BY DEF DurableInv, TypeOK, Ids
<1>2. shot \in Snapshot /\ shot.blob \in Blob
  <2>1. sess'.ref # NoId => stock[sess'.ref] \in Snapshot
    BY DEF DurableInv, TypeOK, Refers, Grown
  <2>2. List(sess', stock) \in Seq(Things) \cup {Absent}
    BY <2>1, ListType
  <2>3. BlobFor(n, u, arts) \in Blob
    BY <1>1 DEF BlobFor, Blob
  <2> QED BY <2>2, <2>3 DEF Snapshot
<1>3. id1 \notin DOMAIN ckpts
  BY <1>1 DEF DurableInv, Counted
<1>4. /\ DOMAIN stock = DOMAIN ckpts /\ DOMAIN disk = DOMAIN ckpts /\ DOMAIN ckpts \subseteq Ids
      /\ \A id \in DOMAIN ckpts :
            /\ stock[id] \in Snapshot /\ disk[id] \in Snapshot
            /\ stock[id].blob = ckpts[id].blob /\ disk[id].blob = ckpts[id].blob
            /\ ckpts[id].pending # Absent => stock[id].pending # Absent
            /\ status[id[1]] # "new"
            /\ id[1] = active => id[2] <= counter
  BY DEF DurableInv, TypeOK, Grown, Mirrored, Counted
<1>5. status[active] # "new"
  BY DEF DurableInv, TypeOK
<1>6. Refers(sess) /\ Refers(view) /\ blob \in Blob \cup {NoBlob}
  BY DEF DurableInv, TypeOK
<1>7. CASE active \in DurableRuns /\ ok
  <2>1. /\ counter' = n /\ blob' = shot.blob
        /\ ckpts' = Put(stock, id1, shot) /\ disk' = Put(disk, id1, shot)
    BY <1>7 DEF OnStep, Written
  <2> HIDE DEF n, id1, shot
  <2>2. /\ DOMAIN ckpts' = DOMAIN ckpts \cup {id1} /\ DOMAIN disk' = DOMAIN ckpts'
        /\ ckpts'[id1] = shot /\ disk'[id1] = shot
        /\ \A id \in DOMAIN ckpts : ckpts'[id] = stock[id] /\ disk'[id] = disk[id]
    BY <2>1, <1>3, <1>4 DEF Put
  <2>3. \A id \in DOMAIN ckpts' : /\ id \in Ids /\ ckpts'[id] \in Snapshot /\ disk'[id] \in Snapshot
                                 /\ disk'[id].blob = ckpts'[id].blob
    BY <2>2, <1>1, <1>2, <1>4
  <2>4. Refers(sess)' /\ Refers(view)'
    BY <2>2, <1>4, <1>6 DEF Refers
  <2>5. Counted'
    BY <2>1, <2>2, <1>1, <1>4, <1>5 DEF Counted, n, Ids
  <2>6. Keeps
    BY <2>2, <1>4 DEF Keeps
  <2> QED BY <2>1, <2>2, <2>3, <2>4, <2>5, <2>6, <1>1, <1>2 DEF Mirrored
<1>8. CASE ~(active \in DurableRuns /\ ok)
  <2>1. ckpts' = stock /\ disk' = disk /\ counter' \in {counter, n} /\ blob' \in {blob, shot.blob}
    BY <1>8 DEF OnStep
  <2> HIDE DEF shot
  <2>2. Refers(sess)' /\ Refers(view)'
    BY <2>1, <1>4, <1>6 DEF Refers
  <2>3. Counted'
    BY <2>1, <1>1, <1>4 DEF Counted, Ids
  <2>4. Mirrored' /\ Keeps
    BY <2>1, <1>4 DEF Mirrored, Keeps
  <2> QED BY <2>1, <2>2, <2>3, <2>4, <1>1, <1>2, <1>4, <1>6
<1> QED BY <1>7, <1>8

\* A call, a child's step or a batch keeps the invariant and the checkpoints.
LEMMA CallKeeps ==
    ASSUME DurableAssumption, DurableInv,
           \/ \E kind \in Kinds, ok \in BOOLEAN : Call(kind, ok)
           \/ \E ok \in BOOLEAN : ChildStep(ok)
           \/ \E kind \in Kinds : Batch(kind)
    PROVE  DurableInv' /\ Keeps
<1>1. /\ Executing /\ active \in Runs /\ calls' = calls + 1
      /\ UNCHANGED <<detached, stored, memory, loopVars, status, active, base, crashes>>
  BY DEF DurableInv, TypeOK, Call, ChildStep, Batch, Calling, Executing
<1> DEFINE Rest == /\ blob' \in Blob \cup {NoBlob} /\ counter' \in Nat /\ usage' \in Nat
                   /\ artifacts' \in Seq(Things) /\ queued' \subseteq Things
                   /\ sess' \in Cell /\ view' \in Cell /\ view'.ref = view.ref
                   /\ DOMAIN ckpts' \subseteq Ids /\ \A id \in DOMAIN ckpts' : ckpts'[id] \in Snapshot
                   /\ DOMAIN disk' = DOMAIN ckpts' /\ \A id \in DOMAIN disk' : disk'[id] \in Snapshot
                   /\ Refers(sess)' /\ Refers(view)'
                   /\ Counted' /\ Mirrored' /\ Keeps
<1>2. Rest => DurableInv' /\ Keeps
  BY <1>1 DEF DurableInv, TypeOK, Executions, loopVars, Executing
<1>3. ASSUME NEW kind \in Kinds, NEW ok \in BOOLEAN, Call(kind, ok)
      PROVE  Rest
  <2>1. /\ usage' = usage + 1 /\ artifacts' = Left(kind) /\ Queue(kind)
        /\ OnStep(LeftStock(kind), usage + 1, Left(kind), ok)
    BY <1>3 DEF Call
  <2>2. usage \in Nat /\ TypeOK
    BY DEF DurableInv, TypeOK
  <2>3. Left(kind) \in Seq(Things) /\ Grown(LeftStock(kind))
    BY <2>2, <1>1, LeftType
  <2>4. sess' \in Cell /\ sess'.ref = sess.ref /\ view' \in Cell /\ view'.ref = view.ref
        /\ queued' \subseteq Things
    BY <2>1, <2>2, <1>1, QueueType
  <2> QED BY <2>1, <2>2, <2>3, <2>4, <1>1, OnStepKeeps
<1>4. ASSUME NEW ok \in BOOLEAN, ChildStep(ok)
      PROVE  Rest
  <2>1. /\ UNCHANGED <<usage, artifacts, sess, view, queued>>
        /\ OnStep(ckpts, usage, artifacts, ok)
    BY <1>4 DEF ChildStep
  <2>2. /\ usage \in Nat /\ artifacts \in Seq(Things) /\ Grown(ckpts)
        /\ sess \in Cell /\ view \in Cell /\ queued \subseteq Things
    BY DEF DurableInv, TypeOK, Grown
  <2>3. sess' \in Cell /\ sess'.ref = sess.ref /\ view'.ref = view.ref
    BY <2>1, <2>2
  <2> QED BY <2>1, <2>2, <2>3, <1>1, OnStepKeeps
<1>5. ASSUME NEW kind \in Kinds, Batch(kind)
      PROVE  Rest
  <2>1. /\ artifacts' = Left(kind) /\ Queue(kind) /\ ckpts' = LeftStock(kind)
        /\ UNCHANGED <<usage, counter, blob, disk>>
    BY <1>5 DEF Batch
  <2>2. TypeOK /\ Refers(sess) /\ Refers(view)
    BY DEF DurableInv, TypeOK
  <2>3. Left(kind) \in Seq(Things) /\ Grown(LeftStock(kind))
    BY <2>2, <1>1, LeftType
  <2>4. sess' \in Cell /\ sess'.ref = sess.ref /\ view' \in Cell /\ view'.ref = view.ref
        /\ queued' \subseteq Things
    BY <2>1, <2>2, <1>1, QueueType
  <2>5. DOMAIN ckpts' = DOMAIN ckpts /\
        \A id \in DOMAIN ckpts : /\ ckpts'[id] \in Snapshot
                                 /\ ckpts'[id].blob = ckpts[id].blob
                                 /\ ckpts[id].pending # Absent => ckpts'[id].pending # Absent
    BY <2>1, <2>3 DEF Grown
  <2>6. Refers(sess)' /\ Refers(view)'
    BY <2>2, <2>4, <2>5 DEF Refers
  <2>7. Counted' /\ Mirrored' /\ Keeps
    BY <2>1, <2>5, <1>1 DEF DurableInv, Counted, Mirrored, Keeps
  <2>8. blob' \in Blob \cup {NoBlob} /\ counter' \in Nat /\ usage' \in Nat
    BY <2>1, <2>2 DEF TypeOK
  <2>9. DOMAIN ckpts' \subseteq Ids /\ DOMAIN disk' = DOMAIN ckpts' /\ \A id \in DOMAIN disk' : disk'[id] \in Snapshot
    BY <2>1, <2>2, <2>5 DEF TypeOK
  <2> QED BY <2>1, <2>3, <2>4, <2>5, <2>6, <2>7, <2>8, <2>9
<1> QED BY <1>2, <1>3, <1>4, <1>5

(***************************************************************************)
(* The other steps.                                                        *)
(***************************************************************************)
\* The start of a run, plain or from a checkpoint.
LEMMA StartKeeps ==
    ASSUME DurableAssumption, DurableInv, NEW r \in Runs,
           Begin(r) \/ \E id \in DOMAIN ckpts : BeginFrom(r, id)
    PROVE  DurableInv' /\ Keeps
<1>1. /\ Started(r) /\ ckpts' = ckpts /\ disk' = disk /\ stored' = stored /\ memory' = memory
  BY DEF Begin, BeginFrom, sessionVars
<1> DEFINE Taken ==
         /\ blob' \in Blob \cup {NoBlob} /\ sess' \in Cell /\ Refers(sess)'
         /\ usage' \in Nat /\ artifacts' \in Seq(Things) /\ base' \in Ids \cup {NoId}
<1>2. Taken
  <2>1. CASE Begin(r)
    BY <2>1 DEF Begin, sessionVars, DurableInv, TypeOK, Refers
  <2>2. ASSUME NEW id \in DOMAIN ckpts, BeginFrom(r, id)
        PROVE  Taken
    <3>1. ckpts[id] \in Snapshot /\ id \in Ids
      BY DEF DurableInv, TypeOK
    <3>2. /\ blob' = ckpts[id].blob /\ usage' = ckpts[id].blob.usage
          /\ artifacts' = ckpts[id].blob.artifacts /\ base' = id
          /\ sess' = IF ckpts[id].pending = Absent THEN sess ELSE [ref |-> id, val |-> Absent]
      BY <2>2 DEF BeginFrom
    <3>3. sess' \in Cell /\ Refers(sess)'
      <4>1. CASE ckpts[id].pending = Absent
        BY <4>1, <3>2, <1>1 DEF DurableInv, TypeOK, Refers
      <4>2. CASE ckpts[id].pending # Absent
        BY <4>2, <3>1, <3>2, <1>1 DEF Cell, Refers
      <4> QED BY <4>1, <4>2
    <3> QED BY <3>1, <3>2, <3>3 DEF Snapshot, Blob
  <2> QED BY <2>1, <2>2
<1>3. /\ active = NoRun /\ status[r] = "new" /\ status' = [status EXCEPT ![r] = "running"]
      /\ active' = r /\ execs' = 1
      /\ UNCHANGED <<raised, counter, resumes, attempts, detached, view, calls, queued, crashes>>
  BY <1>1 DEF Started
<1>4. TypeOK'
  BY <1>1, <1>2, <1>3 DEF DurableInv, TypeOK, Refers, DurableAssumption
<1>5. Counted'
  BY <1>1, <1>3 DEF DurableInv, TypeOK, Counted, Ids
<1>6. Mirrored' /\ Keeps
  BY <1>1 DEF DurableInv, Mirrored, Keeps
<1>7. Executions'
  BY <1>3 DEF DurableInv, TypeOK, Executions, DurableAssumption
<1> QED BY <1>4, <1>5, <1>6, <1>7 DEF DurableInv

\* The locals of run() are gone and the rest of the session is as it was.
LEMMA GoneKeeps ==
    ASSUME DurableAssumption, DurableInv, LocalsGone,
           blob' \in Blob \cup {NoBlob}, sess' \in Cell, sess'.ref \in {sess.ref, NoId},
           ckpts' = ckpts, disk' = disk, stored' \in Seq(Things), memory' \in Seq(Things),
           crashes' = crashes, NEW how \in {"completed", "failed", "aborted"},
           active \in Runs, status' = [status EXCEPT ![active] = how]
    PROVE  DurableInv' /\ Keeps
<1> USE DEF LocalsGone
<1>1. Own(Absent) \in Cell /\ Own(Absent).ref = NoId
  BY DEF Own, Cell
<1>2. artifacts' \in Seq(Things)
  OBVIOUS
<1>3. Refers(sess)' /\ Refers(view)'
  BY <1>1 DEF DurableInv, TypeOK, Refers
<1>4. \A r \in Runs : status'[r] # "running" /\ (status[r] # "new" => status'[r] # "new")
  BY DEF DurableInv, TypeOK
<1>5. NoRun \notin Runs
  BY DEF DurableAssumption
<1>6. TypeOK'
  <2>1. /\ status' \in [Runs -> {"new", "running", "completed", "failed", "aborted"}]
        /\ \A r \in Runs : status'[r] = "running" <=> active' = r
    BY <1>4, <1>5 DEF DurableInv, TypeOK
  <2>2. view' \in Cell /\ queued' \subseteq Things
    BY <1>1 DEF DurableInv, TypeOK
  <2>3. {usage', counter', resumes', attempts', calls', execs', crashes'} \subseteq Nat
    BY DEF DurableInv, TypeOK
  <2>4. /\ DOMAIN ckpts' \subseteq Ids /\ \A id \in DOMAIN ckpts' : ckpts'[id] \in Snapshot
        /\ DOMAIN disk' = DOMAIN ckpts' /\ \A id \in DOMAIN disk' : disk'[id] \in Snapshot
    BY DEF DurableInv, TypeOK
  <2> QED BY <2>1, <2>2, <2>3, <2>4, <1>2, <1>3 DEF TypeOK
<1>7. Counted'
  BY <1>4, <1>5 DEF DurableInv, TypeOK, Counted, Ids
<1>8. Mirrored' /\ Keeps
  BY DEF DurableInv, Mirrored, Keeps
<1>9. Executions'
  BY <1>1 DEF Executions, DurableAssumption
<1> QED BY <1>6, <1>7, <1>8, <1>9 DEF DurableInv

\* The end of a run, early or late, with what it persisted.
LEMMA EndKeeps ==
    ASSUME DurableAssumption, DurableInv, GiveUp \/ Abort \/ Accept \/ FailLate \/ Reject
    PROVE  DurableInv' /\ Keeps
<1>1. active \in Runs
  BY DEF DurableInv, TypeOK, DurableAssumption, GiveUp, Abort, Accept, FailLate, Accepted,
         Reject, Executing
<1>2. /\ blob \in Blob \cup {NoBlob} /\ sess \in Cell /\ view \in Cell
      /\ stored \in Seq(Things) /\ memory \in Seq(Things) /\ artifacts \in Seq(Things) /\ TypeOK
  BY DEF DurableInv, TypeOK
<1>3. ASSUME NEW n \in 0..Len(artifacts)
      PROVE  stored \o SubSeq(artifacts, 1, n) \in Seq(Things)
  BY <1>2
<1>4. CASE GiveUp \/ Abort
  <2>1. sess' = sess /\ stored' = stored /\ memory' = memory /\ (End("failed") \/ End("aborted"))
    BY <1>4 DEF GiveUp, Abort
  <2> QED BY <2>1, <1>1, <1>2, GoneKeeps DEF End
<1>5. ASSUME NEW how \in {"completed", "failed"}, NEW n \in 0..Len(artifacts), Accepted(how, n)
      PROVE  DurableInv' /\ Keeps
  <2>1. /\ memory' = IF List(CtxCell, ckpts) = Absent THEN memory ELSE memory \o List(CtxCell, ckpts)
        /\ sess' = IF detached THEN sess ELSE Drained
        /\ stored' = stored \o SubSeq(artifacts, 1, n) /\ End(how)
    BY <1>5 DEF Accepted
  <2>2. CtxCell \in Cell /\ Refers(CtxCell)
    BY <1>2, CtxCellType
  <2>3. List(CtxCell, ckpts) \in Seq(Things) \cup {Absent}
    BY <2>2, <1>2, ListType DEF Refers, TypeOK
  <2>4. memory' \in Seq(Things)
    BY <2>1, <2>3, <1>2
  <2>5. Own(<<>>) \in Cell /\ Own(<<>>).ref = NoId
    BY DEF Own, Cell
  <2>6. sess' \in Cell /\ sess'.ref \in {sess.ref, NoId}
    BY <2>1, <2>2, <2>5, <1>2 DEF Drained, CtxCell
  <2> QED BY <2>1, <2>4, <2>6, <1>1, <1>2, <1>3, GoneKeeps DEF End
<1>6. CASE Reject
  <2>1. PICK n \in 0..Len(artifacts) : stored' = stored \o SubSeq(artifacts, 1, n)
    BY <1>6 DEF Reject
  <2>2. sess' = sess /\ memory' = memory /\ End("failed")
    BY <1>6 DEF Reject
  <2> QED BY <2>1, <2>2, <1>1, <1>2, <1>3, GoneKeeps DEF End
<1>7. Len(artifacts) \in 0..Len(artifacts)
  BY <1>2
<1> QED BY <1>4, <1>5, <1>6, <1>7 DEF Accept, FailLate

\* Executions does not depend on anything else.
LEMMA UnspentKeeps ==
    ASSUME Executions, active' = active, execs' = execs, resumes' = resumes, attempts' = attempts,
           view' = view
    PROVE  Executions'
  BY DEF Executions

\* The steps of the resume loop that do not end the run.
LEMMA LoopKeeps ==
    ASSUME DurableAssumption, DurableInv, Raise \/ Resume \/ Revalidate
    PROVE  DurableInv' /\ Keeps
<1>1. CASE Raise
  <2> USE <1>1 DEF Raise, Catches, sessionVars, stepVars
  <2>1. TypeOK'
    BY DEF DurableInv, TypeOK, Refers
  <2>2. Counted' /\ Mirrored' /\ Keeps
    BY DEF DurableInv, Counted, Mirrored, Keeps
  <2>3. active' = active /\ execs' = execs /\ resumes' = resumes /\ attempts' = attempts /\ view' = view
    OBVIOUS
  <2> QED BY <2>1, <2>2, <2>3, UnspentKeeps DEF DurableInv
<1>2. CASE Revalidate
  <2>1. /\ active # NoRun /\ attempts < MaxRetries
        /\ attempts' = attempts + 1 /\ execs' = execs + 1
        /\ UNCHANGED <<sessionVars, stepVars, raised, resumes, status, active, base, crashes>>
    BY <1>2 DEF Revalidate, Executing
  <2>2. {attempts, execs, resumes} \subseteq Nat /\ MaxRetries \in Nat /\ MaxResume \in Nat
    BY DEF DurableInv, TypeOK, DurableAssumption
  <2>3. {usage', counter', resumes', attempts', calls', execs', crashes'} \subseteq Nat
    BY <2>1, <2>2 DEF DurableInv, TypeOK, stepVars
  <2>4. TypeOK'
    <3>1. /\ raised' \in BOOLEAN /\ (raised' => active' \in DurableRuns)
          /\ detached' \in BOOLEAN /\ queued' \subseteq Things /\ base' \in Ids \cup {NoId}
          /\ status' \in [Runs -> {"new", "running", "completed", "failed", "aborted"}]
          /\ active' \in Runs \cup {NoRun}
          /\ \A r \in Runs : status'[r] = "running" <=> active' = r
      BY <2>1 DEF DurableInv, TypeOK, stepVars
    <3>2. /\ blob' \in Blob \cup {NoBlob} /\ sess' \in Cell /\ view' \in Cell
          /\ stored' \in Seq(Things) /\ memory' \in Seq(Things) /\ artifacts' \in Seq(Things)
          /\ Refers(sess)' /\ Refers(view)'
      BY <2>1 DEF DurableInv, TypeOK, Refers, sessionVars, stepVars
    <3>3. /\ DOMAIN ckpts' \subseteq Ids /\ \A id \in DOMAIN ckpts' : ckpts'[id] \in Snapshot
          /\ DOMAIN disk' = DOMAIN ckpts' /\ \A id \in DOMAIN disk' : disk'[id] \in Snapshot
      BY <2>1 DEF DurableInv, TypeOK, sessionVars
    <3> QED BY <2>3, <3>1, <3>2, <3>3 DEF TypeOK
  <2>5. Counted' /\ Mirrored' /\ Keeps
    BY <2>1 DEF DurableInv, Counted, Mirrored, Keeps, sessionVars, stepVars
  <2>6. active' = active /\ view' = view /\ resumes' = resumes /\ execs = 1 + resumes + attempts
    BY <2>1 DEF DurableInv, Executions, stepVars
  <2>7. /\ execs' = 1 + resumes' + attempts' /\ resumes' <= MaxResume /\ attempts' <= MaxRetries
    BY <2>1, <2>2, <2>6 DEF DurableInv, Executions
  <2>8. Executions'
    BY <2>1, <2>6, <2>7 DEF Executions
  <2> QED BY <2>4, <2>5, <2>8 DEF DurableInv
<1>3. CASE Resume
  <2> DEFINE shot == ckpts[blob.id]
  <2>1. /\ blob.id \in DOMAIN ckpts /\ ~Spent /\ raised /\ detached' = TRUE /\ raised' = FALSE
        /\ usage' = shot.blob.usage /\ artifacts' = shot.blob.artifacts
        /\ view' = IF shot.pending = Absent THEN Own(Absent) ELSE [ref |-> blob.id, val |-> Absent]
        /\ counter' = counter /\ attempts' = attempts /\ resumes' = resumes + 1 /\ execs' = execs + 1
        /\ UNCHANGED <<sessionVars, status, active, calls, queued, base, crashes>>
    BY <1>3 DEF Resume, ResumedUsage, ResumedArtifacts, ResumedCounter, ResumedAttempts, ResumedTries
  <2>2. shot \in Snapshot /\ blob.id \in Ids
    BY <2>1 DEF DurableInv, TypeOK
  <2>3. usage' \in Nat /\ artifacts' \in Seq(Things)
    BY <2>1, <2>2 DEF Snapshot, Blob
  <2>4. view' \in Cell /\ Refers(view)'
    BY <2>1, <2>2 DEF Cell, Own, Refers, sessionVars
  <2> HIDE DEF shot
  <2>5. TypeOK'
    <3>1. /\ raised' \in BOOLEAN /\ (raised' => active' \in DurableRuns)
          /\ detached' \in BOOLEAN /\ queued' \subseteq Things /\ base' \in Ids \cup {NoId}
          /\ status' \in [Runs -> {"new", "running", "completed", "failed", "aborted"}]
          /\ active' \in Runs \cup {NoRun}
          /\ \A r \in Runs : status'[r] = "running" <=> active' = r
      BY <2>1 DEF DurableInv, TypeOK
    <3>2. /\ blob' \in Blob \cup {NoBlob} /\ sess' \in Cell
          /\ stored' \in Seq(Things) /\ memory' \in Seq(Things)
          /\ Refers(sess)'
      BY <2>1 DEF DurableInv, TypeOK, Refers, sessionVars
    <3>3. /\ DOMAIN ckpts' \subseteq Ids /\ \A id \in DOMAIN ckpts' : ckpts'[id] \in Snapshot
          /\ DOMAIN disk' = DOMAIN ckpts' /\ \A id \in DOMAIN disk' : disk'[id] \in Snapshot
      BY <2>1 DEF DurableInv, TypeOK, sessionVars
    <3>4. {usage', counter', resumes', attempts', calls', execs', crashes'} \subseteq Nat
      BY <2>1, <2>3 DEF DurableInv, TypeOK
    <3> QED BY <2>3, <2>4, <3>1, <3>2, <3>3, <3>4 DEF TypeOK
  <2>6. Counted' /\ Mirrored' /\ Keeps
    BY <2>1 DEF DurableInv, Counted, Mirrored, Keeps, sessionVars
  <2>7. active # NoRun
    BY <2>1 DEF DurableInv, TypeOK, DurableAssumption
  <2>8. {attempts, execs, resumes} \subseteq Nat /\ MaxRetries \in Nat /\ MaxResume \in Nat
    BY DEF DurableInv, TypeOK, DurableAssumption
  <2>9. execs = 1 + resumes + attempts /\ attempts <= MaxRetries /\ resumes < MaxResume
    BY <2>1, <2>7, <2>8 DEF DurableInv, Executions, Spent
  <2>10. execs' = 1 + resumes' + attempts' /\ attempts' <= MaxRetries /\ resumes' <= MaxResume
    BY <2>1, <2>8, <2>9
  <2>11. Executions'
    BY <2>1, <2>7, <2>10 DEF Executions
  <2> QED BY <2>5, <2>6, <2>11 DEF DurableInv
<1> QED BY <1>1, <1>2, <1>3

\* A restart: memory is what the backend wrote.
LEMMA CrashKeeps ==
    ASSUME DurableAssumption, DurableInv, Crash
    PROVE  DurableInv' /\ Keeps
<1> USE DEF LocalsGone, Crash
<1>1. Own(Absent) \in Cell /\ Own(Absent).ref = NoId
  BY DEF Own, Cell
<1>2. Refers(sess)' /\ Refers(view)'
  BY <1>1 DEF Refers
<1>3. \A r \in Runs : status'[r] # "running" /\ (status[r] # "new" => status'[r] # "new")
  BY DEF DurableInv, TypeOK
<1>4. NoRun \notin Runs
  BY DEF DurableAssumption
<1>5. TypeOK'
  <2>1. /\ status' \in [Runs -> {"new", "running", "completed", "failed", "aborted"}]
        /\ \A r \in Runs : status'[r] = "running" <=> active' = r
    BY <1>3, <1>4 DEF DurableInv, TypeOK
  <2>2. /\ view' \in Cell /\ sess' \in Cell /\ queued' \subseteq Things
        /\ artifacts' \in Seq(Things) /\ stored' \in Seq(Things) /\ memory' \in Seq(Things)
    BY <1>1 DEF DurableInv, TypeOK
  <2>3. {usage', counter', resumes', attempts', calls', execs', crashes'} \subseteq Nat
    BY DEF DurableInv, TypeOK
  <2>4. /\ DOMAIN ckpts' \subseteq Ids /\ \A id \in DOMAIN ckpts' : ckpts'[id] \in Snapshot
        /\ DOMAIN disk' = DOMAIN ckpts' /\ \A id \in DOMAIN disk' : disk'[id] \in Snapshot
    BY DEF DurableInv, TypeOK
  <2> QED BY <2>1, <2>2, <2>3, <2>4, <1>2 DEF TypeOK
<1>6. Counted'
  BY <1>3, <1>4 DEF DurableInv, TypeOK, Counted, Ids
<1>7. Mirrored' /\ Keeps
  BY DEF DurableInv, TypeOK, Mirrored, Keeps
<1>8. Executions'
  BY <1>1 DEF Executions, DurableAssumption
<1> QED BY <1>5, <1>6, <1>7, <1>8 DEF DurableInv

(***************************************************************************)
(* The invariant, and the theorems.                                        *)
(***************************************************************************)
\* The initial state satisfies the invariant.
LEMMA InitInv ==
    ASSUME DurableAssumption, Init
    PROVE  DurableInv
<1> USE DEF Init
<1>1. Own(Absent) \in Cell /\ Own(Absent).ref = NoId
  BY DEF Own, Cell
<1>2. DOMAIN ckpts = {} /\ DOMAIN disk = {}
  OBVIOUS
<1>3. TypeOK
  <2>1. {usage, counter, resumes, attempts, calls, execs, crashes} \subseteq Nat
    OBVIOUS
  <2>2. stored \in Seq(Things) /\ memory \in Seq(Things) /\ artifacts \in Seq(Things)
    OBVIOUS
  <2>3. /\ status \in [Runs -> {"new", "running", "completed", "failed", "aborted"}]
        /\ \A r \in Runs : status[r] = "running" <=> active = r
    BY DEF DurableAssumption
  <2>4. sess \in Cell /\ view \in Cell /\ Refers(sess) /\ Refers(view)
    BY <1>1 DEF Refers
  <2> QED BY <2>1, <2>2, <2>3, <2>4, <1>2 DEF TypeOK
<1>4. Counted /\ Mirrored
  BY <1>2 DEF Counted, Mirrored
<1>5. Executions
  BY <1>1 DEF Executions, DurableAssumption
<1> QED BY <1>3, <1>4, <1>5 DEF DurableInv

\* Every step keeps the invariant, and every checkpoint with its blob.
LEMMA StepKeeps ==
    ASSUME DurableAssumption, DurableInv, [Next]_vars
    PROVE  DurableInv' /\ Keeps
<1>1. ASSUME NEW r \in Runs, Begin(r) \/ \E id \in DOMAIN ckpts : BeginFrom(r, id)
      PROVE  DurableInv' /\ Keeps
  BY <1>1, StartKeeps
<1>2. CASE \/ \E kind \in Kinds, ok \in BOOLEAN : Call(kind, ok)
           \/ \E ok \in BOOLEAN : ChildStep(ok)
           \/ \E kind \in Kinds : Batch(kind)
  BY <1>2, CallKeeps
<1>3. CASE Raise \/ Resume \/ Revalidate
  BY <1>3, LoopKeeps
<1>4. CASE GiveUp \/ Abort \/ Accept \/ FailLate \/ Reject
  BY <1>4, EndKeeps
<1>5. CASE Crash
  BY <1>5, CrashKeeps
<1>6. CASE UNCHANGED vars
  <2> USE <1>6 DEF vars, sessionVars, stepVars, loopVars
  <2>1. TypeOK'
    BY DEF DurableInv, TypeOK, Refers
  <2>2. Counted' /\ Mirrored' /\ Executions' /\ Keeps
    BY DEF DurableInv, Counted, Mirrored, Executions, Keeps
  <2> QED BY <2>1, <2>2 DEF DurableInv
<1> QED BY <1>1, <1>2, <1>3, <1>4, <1>5, <1>6 DEF Next

\* The inductive invariant holds in every reachable state.
THEOREM DurableInvariant == Spec => []DurableInv
<1>1. Init => DurableInv
  BY InitInv, DurableAssumption
<1>2. DurableInv /\ [Next]_vars => DurableInv'
  BY StepKeeps, DurableAssumption
<1> QED BY <1>1, <1>2, PTL DEF Spec

\* The types of the session, the run and the checkpoints, and that a cell that
\* refers to a stored checkpoint refers to a list in it.
THEOREM DurableTypes == Spec => []TypeOK
<1>1. DurableInv => TypeOK
  BY DEF DurableInv
<1> QED BY <1>1, DurableInvariant, PTL

\* pattern.execute() is invoked at most 1 + MaxResume + MaxRetries times in a
\* run, however resumes and validation retries alternate.
THEOREM ExecutionsBounded == Spec => []ExecuteBound
<1>1. ASSUME DurableInv
      PROVE  ExecuteBound
  <2>1. /\ {resumes, attempts, execs} \subseteq Nat /\ MaxResume \in Nat /\ MaxRetries \in Nat
        /\ resumes <= MaxResume /\ attempts <= MaxRetries
    BY <1>1, DurableAssumption DEF DurableInv, TypeOK, Executions, DurableAssumption
  <2>2. CASE active = NoRun
    BY <2>1, <2>2, <1>1 DEF DurableInv, Executions, ExecuteBound
  <2>3. CASE active # NoRun
    BY <2>1, <2>3, <1>1 DEF DurableInv, Executions, ExecuteBound
  <2> QED BY <2>2, <2>3
<1> QED BY <1>1, DurableInvariant, PTL

\* An announced checkpoint is neither lost nor written over, across resumes,
\* failing saves, later runs and restarts.
THEOREM CheckpointsAreKept == Spec => CheckpointsKept
<1>1. DurableInv /\ [Next]_vars =>
         [/\ DOMAIN ckpts \subseteq DOMAIN ckpts'
          /\ \A id \in DOMAIN ckpts : ckpts'[id].blob = ckpts[id].blob]_vars
  BY StepKeeps, DurableAssumption DEF Keeps
<1> QED BY <1>1, DurableInvariant, PTL DEF Spec, CheckpointsKept

(***************************************************************************)
(* What a resume finds, and what a rewound run counts.                     *)
(***************************************************************************)
\* Between runs the locals of run() are as a new run finds them.
Clean ==
    active = NoRun =>
       /\ usage = 0 /\ counter = 0 /\ calls = 0 /\ artifacts = <<>>
       /\ ~detached /\ ~raised /\ base = NoId

\* A checkpoint is stored under the id of its blob, and once the active run has
\* one, the blob of the session is that of its last step.
Traced ==
    /\ \A id \in DOMAIN ckpts : ckpts[id].blob.id = id /\ id[1] \in DurableRuns
    /\ blob # NoBlob =>
          /\ blob.id[1] \in DurableRuns
          /\ status[blob.id[1]] # "new"
          /\ blob.id[1] = active => blob.id[2] = counter
    /\ (\E id \in DOMAIN ckpts : id[1] = active) => blob # NoBlob /\ blob.id[1] = active

ResumeInv == DurableInv /\ Clean /\ Traced

\* The checkpoints have the blobs they had.
SameBlobs ==
    /\ DOMAIN ckpts' = DOMAIN ckpts
    /\ \A id \in DOMAIN ckpts : ckpts'[id].blob = ckpts[id].blob

\* The blob of the next step of the active run.
NextBlob(u, arts) == [id |-> <<active, counter + 1>>, usage |-> u, artifacts |-> arts]

\* A step leaves the blob, or writes the next one of a durable run and, if the
\* save succeeds, a checkpoint of it.
Adds(u, arts) ==
    \/ counter' = counter /\ blob' = blob /\ SameBlobs
    \/ /\ active \in DurableRuns
       /\ counter' = counter + 1
       /\ blob' = NextBlob(u, arts)
       /\ DOMAIN ckpts \subseteq DOMAIN ckpts'
       /\ DOMAIN ckpts' \subseteq DOMAIN ckpts \cup {<<active, counter + 1>>}
       /\ \A id \in DOMAIN ckpts' :
             ckpts'[id].blob = IF id = <<active, counter + 1>> THEN NextBlob(u, arts)
                               ELSE ckpts[id].blob

\* What a call, a child's step or a batch does to the counts and the blob.
Counted1 ==
    /\ active \in Runs /\ calls' = calls + 1
    /\ UNCHANGED <<status, active, base, rewinds, crashes, stored, memory, detached, raised>>
    /\ usage' \in {usage, usage + 1}
    /\ artifacts' \in {artifacts, Append(artifacts, <<active, calls + 1>>)}
    /\ Adds(usage', artifacts')

\* The checkpoint handler adds at most the next checkpoint.
LEMMA OnStepAdds ==
    ASSUME DurableAssumption, DurableInv, active \in Runs, NEW stock, Grown(stock),
           NEW u, NEW arts, NEW ok \in BOOLEAN, OnStep(stock, u, arts, ok)
    PROVE  Adds(u, arts)
<1> DEFINE id1 == <<active, counter + 1>>
           shot == [blob |-> BlobFor(counter + 1, u, arts), pending |-> List(sess', stock)]
<1>1. shot.blob = NextBlob(u, arts)
  BY DEF BlobFor, NextBlob
<1>2. DOMAIN stock = DOMAIN ckpts /\ \A id \in DOMAIN ckpts : stock[id].blob = ckpts[id].blob
  BY DEF Grown
<1>3. id1 \notin DOMAIN ckpts
  BY DEF DurableInv, TypeOK, Counted
<1>4. CASE active \in DurableRuns /\ ok
  <2>1. counter' = counter + 1 /\ blob' = shot.blob /\ ckpts' = Put(stock, id1, shot)
    BY <1>4 DEF OnStep
  <2> HIDE DEF shot, id1
  <2>2. /\ DOMAIN ckpts' = DOMAIN ckpts \cup {id1}
        /\ \A id \in DOMAIN ckpts' : ckpts'[id] = IF id = id1 THEN shot ELSE stock[id]
    BY <2>1, <1>2 DEF Put
  <2>3. \A id \in DOMAIN ckpts' :
           ckpts'[id].blob = IF id = id1 THEN NextBlob(u, arts) ELSE ckpts[id].blob
    BY <2>2, <1>1, <1>2
  <2> QED BY <1>1, <1>4, <2>1, <2>2, <2>3 DEF Adds, id1
<1>5. CASE active \in DurableRuns /\ ~ok
  <2>1. counter' = counter + 1 /\ blob' = shot.blob /\ ckpts' = stock
    BY <1>5 DEF OnStep
  <2> HIDE DEF shot
  <2>2. \A id \in DOMAIN ckpts' :
           ckpts'[id].blob = IF id = <<active, counter + 1>> THEN NextBlob(u, arts) ELSE ckpts[id].blob
    BY <2>1, <1>2, <1>3
  <2> QED BY <1>1, <1>2, <1>5, <2>1, <2>2 DEF Adds
<1>6. CASE active \notin DurableRuns
  BY <1>2, <1>6 DEF OnStep, Adds, SameBlobs
<1> QED BY <1>4, <1>5, <1>6

\* The three ways in which a call is seen to succeed.
LEMMA CallCounts ==
    ASSUME DurableAssumption, DurableInv,
           \/ \E kind \in Kinds, ok \in BOOLEAN : Call(kind, ok)
           \/ \E ok \in BOOLEAN : ChildStep(ok)
           \/ \E kind \in Kinds : Batch(kind)
    PROVE  Counted1
<1>1. /\ active \in Runs /\ calls' = calls + 1 /\ TypeOK
      /\ UNCHANGED <<status, active, base, rewinds, crashes, stored, memory, detached, raised>>
  BY DEF DurableInv, TypeOK, Call, ChildStep, Batch, Calling, Executing, loopVars
<1>2. ASSUME NEW kind \in Kinds, NEW ok \in BOOLEAN, Call(kind, ok)
      PROVE  Counted1
  <2>1. usage' = usage + 1 /\ artifacts' = Left(kind) /\ OnStep(LeftStock(kind), usage + 1, Left(kind), ok)
    BY <1>2 DEF Call
  <2>2. Grown(LeftStock(kind))
    BY <1>1, LeftType
  <2>3. Adds(usage', artifacts')
    BY <2>1, <2>2, <1>1, OnStepAdds
  <2> QED BY <1>1, <2>1, <2>3 DEF Counted1, Left
<1>3. ASSUME NEW ok \in BOOLEAN, ChildStep(ok)
      PROVE  Counted1
  <2>1. usage' = usage /\ artifacts' = artifacts /\ OnStep(ckpts, usage, artifacts, ok)
    BY <1>3 DEF ChildStep
  <2>2. Grown(ckpts)
    BY <1>1 DEF Grown, TypeOK
  <2>3. Adds(usage', artifacts')
    BY <2>1, <2>2, <1>1, OnStepAdds
  <2> QED BY <1>1, <2>1, <2>3 DEF Counted1
<1>4. ASSUME NEW kind \in Kinds, Batch(kind)
      PROVE  Counted1
  <2>1. /\ usage' = usage /\ artifacts' = Left(kind) /\ ckpts' = LeftStock(kind)
        /\ counter' = counter /\ blob' = blob
    BY <1>4 DEF Batch
  <2>2. Grown(LeftStock(kind))
    BY <1>1, LeftType
  <2>3. SameBlobs
    BY <2>1, <2>2 DEF Grown, SameBlobs
  <2> QED BY <1>1, <2>1, <2>3 DEF Counted1, Left, Adds
<1> QED BY <1>2, <1>3, <1>4

\* The end of a run, whatever it persists.
Ended(how) ==
    /\ active \in Runs
    /\ status' = [status EXCEPT ![active] = how]
    /\ LocalsGone
    /\ UNCHANGED <<blob, ckpts, crashes>>

\* Every way to end is one of a few.
LEMMA EndEnds ==
    ASSUME DurableAssumption, TypeOK, GiveUp \/ Abort \/ Accept \/ FailLate \/ Reject
    PROVE  \E how \in {"completed", "failed", "aborted"} : Ended(how)
  BY DEF TypeOK, DurableAssumption, GiveUp, Abort, Accept, FailLate, Accepted, Reject,
         Executing, End, Ended

\* What the steps of the resume loop leave alone.
LEMMA LoopFrame ==
    ASSUME DurableAssumption, TypeOK, Raise \/ Resume \/ Revalidate
    PROVE  /\ active \in Runs
           /\ UNCHANGED <<sessionVars, status, active, counter, calls, queued, base, crashes>>
  BY DEF DurableAssumption, TypeOK, Raise, Resume, Revalidate, Catches, Executing, stepVars,
         ResumedCounter

\* Every step keeps what a resume relies on.
LEMMA TraceStep ==
    ASSUME DurableAssumption, ResumeInv, [Next]_vars
    PROVE  Clean' /\ Traced'
<1>0. TypeOK /\ Clean /\ Traced /\ Counted /\ Mirrored /\ DurableInv /\ NoRun \notin Runs
  BY DEF ResumeInv, DurableInv, DurableAssumption
<1>a. blob # NoBlob => blob.id \in Ids
  BY <1>0 DEF TypeOK, Blob
<1>b. DOMAIN ckpts \subseteq Ids
  BY <1>0 DEF TypeOK
<1>1. CASE \/ \E kind \in Kinds, ok \in BOOLEAN : Call(kind, ok)
           \/ \E ok \in BOOLEAN : ChildStep(ok)
           \/ \E kind \in Kinds : Batch(kind)
  <2>1. Counted1
    BY <1>0, <1>1, CallCounts
  <2>2. Clean'
    BY <2>1, <1>0 DEF Counted1, Clean
  <2>3. CASE counter' = counter /\ blob' = blob /\ SameBlobs
    BY <2>1, <2>2, <2>3, <1>0 DEF Counted1, Traced, SameBlobs
  <2>4. CASE ~(counter' = counter /\ blob' = blob /\ SameBlobs)
    <3>1. /\ active \in DurableRuns /\ counter' = counter + 1
          /\ blob' = NextBlob(usage', artifacts')
          /\ DOMAIN ckpts' \subseteq DOMAIN ckpts \cup {<<active, counter + 1>>}
          /\ \A id \in DOMAIN ckpts' :
                ckpts'[id].blob = IF id = <<active, counter + 1>> THEN NextBlob(usage', artifacts')
                                  ELSE ckpts[id].blob
      BY <2>1, <2>4 DEF Counted1, Adds
    <3>2. blob' # NoBlob /\ blob'.id = <<active, counter + 1>>
      BY <3>1 DEF NextBlob, NoBlob
    <3>3. \A id \in DOMAIN ckpts' : ckpts'[id].blob.id = id /\ id[1] \in DurableRuns
      BY <3>1, <1>0 DEF NextBlob, Traced
    <3>4. status'[active] # "new" /\ active' = active
      BY <2>1, <1>0 DEF Counted1, TypeOK
    <3> QED BY <2>2, <3>1, <3>2, <3>3, <3>4 DEF Traced
  <2> QED BY <2>3, <2>4
<1>2. ASSUME NEW r \in Runs, Begin(r) \/ \E id \in DOMAIN ckpts : BeginFrom(r, id)
      PROVE  Clean' /\ Traced'
  <2>1. /\ active = NoRun /\ status[r] = "new" /\ status' = [status EXCEPT ![r] = "running"]
        /\ active' = r /\ counter' = counter /\ ckpts' = ckpts
        /\ blob' = blob \/ \E id \in DOMAIN ckpts : blob' = ckpts[id].blob
    BY <1>2 DEF Begin, BeginFrom, Started, sessionVars
  <2>2. \A id \in DOMAIN ckpts : id[1] # r
    BY <2>1, <1>0 DEF Counted
  <2>3. blob' # NoBlob => blob'.id[1] \in DurableRuns /\ status[blob'.id[1]] # "new"
    BY <2>1, <1>0 DEF Traced, Counted
  <2>4. blob' # NoBlob => status'[blob'.id[1]] # "new" /\ blob'.id[1] # r
    BY <2>1, <2>3, <1>0 DEF TypeOK, DurableAssumption
  <2> QED BY <2>1, <2>2, <2>3, <2>4, <1>0 DEF Clean, Traced
<1>3. CASE Raise \/ Resume \/ Revalidate
  <2>1. active \in Runs /\ UNCHANGED <<blob, ckpts, status, active, counter>>
    BY <1>0, <1>3, LoopFrame DEF sessionVars
  <2> QED BY <2>1, <1>0 DEF Clean, Traced
<1>4. CASE GiveUp \/ Abort \/ Accept \/ FailLate \/ Reject
  <2>1. PICK how \in {"completed", "failed", "aborted"} : Ended(how)
    BY <1>0, <1>4, EndEnds
  <2>2. Clean'
    BY <2>1 DEF Ended, LocalsGone, Clean
  <2>3. active' = NoRun /\ blob' = blob /\ ckpts' = ckpts /\ status' = [status EXCEPT ![active] = how]
    BY <2>1 DEF Ended, LocalsGone
  <2>4. \A id \in Ids : id[1] # NoRun
    BY <1>0 DEF Ids
  <2>5. blob # NoBlob => status'[blob.id[1]] # "new"
    BY <2>3, <1>0 DEF Traced, TypeOK, DurableAssumption
  <2> QED BY <2>2, <2>3, <2>4, <2>5, <1>0, <1>a, <1>b DEF Traced
<1>5. CASE Crash
  <2>1. active' = NoRun /\ blob' = NoBlob /\ ckpts' = disk /\ LocalsGone
    BY <1>5 DEF Crash, LocalsGone
  <2>2. DOMAIN disk = DOMAIN ckpts /\ \A id \in DOMAIN disk : disk[id].blob = ckpts[id].blob
    BY <1>0 DEF TypeOK, Mirrored
  <2>3. \A id \in DOMAIN ckpts : id[1] # NoRun
    BY <1>0, <1>b DEF Ids
  <2> QED BY <2>1, <2>2, <2>3, <1>0 DEF LocalsGone, Clean, Traced
<1>6. CASE UNCHANGED vars
  BY <1>0, <1>6 DEF vars, sessionVars, stepVars, loopVars, Clean, Traced
<1> QED BY <1>1, <1>2, <1>3, <1>4, <1>5, <1>6 DEF Next

\* What a resume relies on holds in every reachable state.
THEOREM ResumeInvariant == Spec => []ResumeInv
<1>1. Init => ResumeInv
  <2> SUFFICES ASSUME Init PROVE ResumeInv
    OBVIOUS
  <2>1. DOMAIN ckpts = {} /\ blob = NoBlob
    BY DEF Init
  <2>2. Clean /\ Traced
    BY <2>1 DEF Init, Clean, Traced
  <2> QED BY <2>2, InitInv, DurableAssumption DEF ResumeInv
<1>2. ResumeInv /\ [Next]_vars => ResumeInv'
  BY TraceStep, StepKeeps, DurableAssumption DEF ResumeInv
<1> QED BY <1>1, <1>2, PTL DEF Spec

\* Only a resume makes one more attempt without ending the run.
LEMMA ResumesByResume ==
    ASSUME DurableAssumption, ResumeInv, [Next]_vars, Resumes
    PROVE  /\ active \in DurableRuns /\ blob # NoBlob /\ blob.id \in DOMAIN ckpts
           /\ active \in Runs
<1>0. TypeOK /\ resumes \in Nat /\ NoRun \notin Runs /\ DurableRuns \subseteq Runs
  BY DEF ResumeInv, DurableInv, TypeOK, DurableAssumption
<1>1. CASE Resume
  BY <1>0, <1>1 DEF Resume, TypeOK
<1>2. CASE ~Resume
  <2>1. resumes' = resumes \/ resumes' = 0
    BY <1>2 DEF Next, Begin, BeginFrom, Started, Call, ChildStep, Batch, Calling, Raise, GiveUp,
                Abort, Accept, FailLate, Accepted, Reject, End, LocalsGone, Revalidate, Crash,
                loopVars, vars
  <2> QED BY <2>1, <1>0 DEF Resumes
<1> QED BY <1>1, <1>2

\* A resume from the run's own work, or from what the request named while there
\* is none, is a resume from the newest: for any number of durable runs.
THEOREM OwnWorkIsNewest ==
    Spec => [][Resumes /\ (blob.id[1] = active \/ blob.id = base) => Newest(blob.id)]_vars
<1>1. ResumeInv /\ [Next]_vars =>
         [Resumes /\ (blob.id[1] = active \/ blob.id = base) => Newest(blob.id)]_vars
  <2> SUFFICES ASSUME ResumeInv, [Next]_vars, Resumes, blob.id[1] = active \/ blob.id = base
               PROVE  Newest(blob.id)
    OBVIOUS
  <2>1. blob # NoBlob /\ Traced /\ Counted
    BY ResumesByResume, DurableAssumption DEF ResumeInv, DurableInv
  <2> QED BY <2>1 DEF Traced, Counted, Newest
<1> QED BY <1>1, ResumeInvariant, PTL DEF Spec

\* With one durable run in a session a resume never continues from anything but
\* the newest checkpoint of the run or the one named.  (With two, a run that has
\* no checkpoint yet resumes from what the other left: ResumesOwnWork.)
THEOREM ResumesFromNewest ==
    ASSUME \A r, s \in DurableRuns : r = s
    PROVE  Spec => ResumeFromNewest
<1>1. ResumeInv /\ [Next]_vars => [Resumes => Newest(blob.id)]_vars
  <2> SUFFICES ASSUME ResumeInv, [Next]_vars, Resumes
               PROVE  Newest(blob.id)
    OBVIOUS
  <2>1. blob # NoBlob /\ Traced /\ Counted /\ active \in DurableRuns
    BY ResumesByResume, DurableAssumption DEF ResumeInv, DurableInv
  <2>2. blob.id[1] = active
    BY <2>1 DEF Traced
  <2> QED BY <2>1, <2>2 DEF Traced, Counted, Newest
<1> QED BY <1>1, ResumeInvariant, PTL DEF Spec, ResumeFromNewest

(***************************************************************************)
(* Pending memory writes.                                                  *)
(***************************************************************************)
\* The writes queued are of runs that have started, and of calls that were
\* made; without a resume or a restart the list is the session's own.
Listed ==
    /\ \A w \in queued : status[w[1]] # "new" /\ (w[1] = active => w[2] <= calls)
    /\ rewinds = {} /\ crashes = 0 => ~detached /\ sess.ref = NoId /\ WritesAccounted

WriteInv == DurableInv /\ Clean /\ Listed

\* Appending something new to a list.
LEMMA AppendOnce ==
    ASSUME NEW S, NEW list \in Seq(S), NEW e \in S, e \notin Elements(list), Once(list)
    PROVE  Once(Append(list, e)) /\ Elements(Append(list, e)) = Elements(list) \cup {e}
<1> DEFINE more == Append(list, e)
<1>1. /\ Len(list) \in Nat /\ DOMAIN list = 1 .. Len(list) /\ DOMAIN more = 1 .. Len(list) + 1
      /\ \A i \in 1 .. Len(list) : more[i] = list[i]
      /\ more[Len(list) + 1] = e
  OBVIOUS
<1> HIDE DEF more
<1>2. \A i \in DOMAIN list : list[i] # e
  BY DEF Elements
<1>3. Once(more)
  BY <1>1, <1>2 DEF Once
<1>4. Elements(more) = Elements(list) \cup {e}
  BY <1>1 DEF Elements
<1> QED BY <1>3, <1>4 DEF more

\* Two lists that share nothing, one after the other.
LEMMA ConcatOnce ==
    ASSUME NEW S, NEW first \in Seq(S), NEW second \in Seq(S), Once(first), Once(second),
           \A i \in DOMAIN first, j \in DOMAIN second : first[i] # second[j]
    PROVE  Once(first \o second)
<1> DEFINE both == first \o second
<1>1. /\ Len(first) \in Nat /\ Len(second) \in Nat
      /\ DOMAIN first = 1 .. Len(first) /\ DOMAIN second = 1 .. Len(second)
      /\ DOMAIN both = 1 .. Len(first) + Len(second)
      /\ \A i \in DOMAIN both : both[i] = IF i <= Len(first) THEN first[i] ELSE second[i - Len(first)]
  OBVIOUS
<1> HIDE DEF both
<1>2. ASSUME NEW i \in DOMAIN both, NEW j \in DOMAIN both, both[i] = both[j]
      PROVE  i = j
  <2>1. CASE i <= Len(first) /\ j <= Len(first)
    BY <1>1, <1>2, <2>1 DEF Once
  <2>2. CASE i > Len(first) /\ j > Len(first)
    <3>1. i - Len(first) \in DOMAIN second /\ j - Len(first) \in DOMAIN second
      BY <1>1, <2>2
    <3>2. second[i - Len(first)] = second[j - Len(first)]
      BY <1>1, <1>2, <2>2
    <3>3. i - Len(first) = j - Len(first)
      BY <3>1, <3>2 DEF Once
    <3> QED BY <1>1, <3>3
  <2>3. CASE i <= Len(first) /\ j > Len(first)
    <3>1. i \in DOMAIN first /\ j - Len(first) \in DOMAIN second
      BY <1>1, <2>3
    <3>2. first[i] = second[j - Len(first)]
      BY <1>1, <1>2, <2>3
    <3> QED BY <3>1, <3>2
  <2>4. CASE i > Len(first) /\ j <= Len(first)
    <3>1. j \in DOMAIN first /\ i - Len(first) \in DOMAIN second
      BY <1>1, <2>4
    <3>2. first[j] = second[i - Len(first)]
      BY <1>1, <1>2, <2>4
    <3> QED BY <3>1, <3>2
  <2> QED BY <1>1, <2>1, <2>2, <2>3, <2>4
<1> QED BY <1>2 DEF Once, both

\* A part of a list.
LEMMA PartOnce ==
    ASSUME NEW S, NEW list \in Seq(S), Once(list), NEW n \in 0 .. Len(list)
    PROVE  LET part == SubSeq(list, 1, n) IN
           /\ part \in Seq(S) /\ Once(part)
           /\ \A i \in DOMAIN part : i \in DOMAIN list /\ part[i] = list[i]
<1> DEFINE part == SubSeq(list, 1, n)
<1>1. /\ part \in Seq(S) /\ DOMAIN part = 1 .. n /\ DOMAIN list = 1 .. Len(list) /\ Len(list) \in Nat
      /\ \A i \in 1 .. n : part[i] = list[i]
  OBVIOUS
<1> HIDE DEF part
<1>2. \A i \in DOMAIN part : i \in DOMAIN list /\ part[i] = list[i]
  BY <1>1
<1>3. Once(part)
  BY <1>2 DEF Once
<1> QED BY <1>1, <1>2, <1>3 DEF part

\* A call that queues a write: it is in the list, after those that were.
LEMMA QueueAccounts ==
    ASSUME DurableAssumption, WriteInv, active \in Runs, NEW kind \in Kinds, Queue(kind),
           rewinds = {}, crashes = 0, rewinds' = rewinds, crashes' = crashes, memory' = memory
    PROVE  sess'.ref = NoId /\ WritesAccounted'
<1> DEFINE w == <<active, calls + 1>>
<1>0. memory \in Seq(Things) /\ sess \in Cell /\ calls \in Nat
  BY DEF WriteInv, DurableInv, TypeOK
<1>1. /\ ~detached /\ sess.ref = NoId /\ queued = Elements(AllWrites) /\ Once(AllWrites)
      /\ memory \in Seq(Things) /\ sess \in Cell /\ calls \in Nat
  BY <1>0 DEF WriteInv, Listed, WritesAccounted
<1>2. /\ sess.val \in Seq(Things) \cup {Absent} /\ List(sess, ckpts) = sess.val
      /\ Absent \notin Seq(Things)
  BY <1>1 DEF Cell, List, DurableAssumption, Things
<1>3. CASE kind = "write"
  <2>1. sess' = Noted(sess, w) /\ queued' = queued \cup {w}
    BY <1>1, <1>3 DEF Queue
  <2>2. sess'.ref = NoId /\ sess'.val = Extended(sess.val, w)
    BY <1>1, <2>1 DEF Noted, Cell
  <2>3. w \in Things /\ w \notin queued
    BY <1>1 DEF Things, WriteInv, Listed
  <2>4. Extended(sess.val, w) \in Seq(Things)
    BY <1>2, <2>3, ExtendedType
  <2>5. List(sess', ckpts') = Extended(sess.val, w)
    BY <2>2 DEF List
  <2>6. AllWrites' = Append(AllWrites, w)
    <3> HIDE DEF w
    <3>1. AllWrites' = memory \o Extended(sess.val, w)
      BY <2>4, <2>5, <1>2 DEF AllWrites
    <3>2. CASE sess.val = Absent
      BY <1>1, <1>2, <2>3, <3>1, <3>2 DEF Extended, AllWrites
    <3>3. CASE sess.val # Absent
      <4>1. sess.val \in Seq(Things)
        BY <1>2, <3>3
      <4>2. memory \o Append(sess.val, w) = Append(memory \o sess.val, w)
        BY <1>1, <2>3, <4>1
      <4> QED BY <1>2, <3>1, <3>3, <4>2 DEF Extended, AllWrites
    <3> QED BY <3>2, <3>3
  <2>7. AllWrites \in Seq(Things)
    BY <1>1, <1>2 DEF AllWrites
  <2>8. Once(AllWrites') /\ Elements(AllWrites') = queued'
    <3> HIDE DEF w
    <3>1. Once(Append(AllWrites, w)) /\ Elements(Append(AllWrites, w)) = Elements(AllWrites) \cup {w}
      BY <1>1, <2>3, <2>7, AppendOnce
    <3> QED BY <1>1, <2>1, <2>6, <3>1
  <2> QED BY <2>2, <2>8 DEF WritesAccounted
<1>4. CASE kind # "write"
  <2>1. sess' = sess /\ queued' = queued
    BY <1>4 DEF Queue
  <2>2. AllWrites' = AllWrites
    BY <1>1, <2>1 DEF AllWrites, List
  <2> QED BY <1>1, <2>1, <2>2 DEF WritesAccounted
<1> QED BY <1>3, <1>4

\* The list is drained into long-term memory: nothing is lost or doubled.
LEMMA DrainAccounts ==
    ASSUME DurableAssumption, WriteInv, rewinds = {}, crashes = 0,
           NEW how, NEW n, Accepted(how, n)
    PROVE  sess'.ref = NoId /\ WritesAccounted'
<1>0. memory \in Seq(Things) /\ sess \in Cell
  BY DEF WriteInv, DurableInv, TypeOK
<1>1. /\ ~detached /\ sess.ref = NoId /\ queued = Elements(AllWrites) /\ Once(AllWrites)
      /\ memory \in Seq(Things) /\ sess \in Cell
  BY <1>0 DEF WriteInv, Listed, WritesAccounted
<1>2. /\ sess.val \in Seq(Things) \cup {Absent} /\ List(sess, ckpts) = sess.val
      /\ Absent \notin Seq(Things)
  BY <1>1 DEF Cell, List, DurableAssumption, Things
<1>3. /\ memory' = (IF sess.val = Absent THEN memory ELSE memory \o sess.val)
      /\ sess' = (IF sess.val \in {Absent, <<>>} THEN sess ELSE Own(<<>>))
      /\ queued' = queued
  BY <1>1, <1>2 DEF Accepted, CtxCell, Drained, End, LocalsGone
<1>4. AllWrites = memory'
  BY <1>2, <1>3 DEF AllWrites
<1>5. sess'.ref = NoId /\ List(sess', ckpts') \in {Absent, <<>>}
  BY <1>1, <1>2, <1>3 DEF Own, List
<1>6. AllWrites \in Seq(Things)
  BY <1>1, <1>2 DEF AllWrites
<1>7. AllWrites' = AllWrites
  <2>1. memory' \in Seq(Things)
    BY <1>4, <1>6
  <2>2. memory' \o <<>> = memory'
    BY <2>1
  <2>3. AllWrites' = memory'
    BY <1>5, <2>2 DEF AllWrites
  <2> QED BY <1>4, <2>3
<1> QED BY <1>1, <1>3, <1>5, <1>7 DEF WritesAccounted

\* Nothing about the writes changes.
LEMMA SameAccounts ==
    ASSUME WritesAccounted, rewinds = {}, crashes = 0, sess.ref = NoId,
           sess' = sess, memory' = memory, queued' = queued
    PROVE  WritesAccounted'
<1>1. AllWrites' = AllWrites
  BY DEF AllWrites, List
<1>2. queued = Elements(AllWrites) /\ Once(AllWrites)
  BY DEF WritesAccounted
<1> QED BY <1>1, <1>2 DEF WritesAccounted

\* Every step accounts for the writes.
LEMMA WriteStep ==
    ASSUME DurableAssumption, WriteInv, [Next]_vars
    PROVE  Clean' /\ Listed'
<1>0. /\ TypeOK /\ Clean /\ Listed /\ DurableInv /\ NoRun \notin Runs
      /\ queued \subseteq Things /\ calls \in Nat /\ crashes \in Nat
  BY DEF WriteInv, DurableInv, TypeOK, DurableAssumption
<1>a. \A q \in queued : q[1] \in Runs /\ q[2] \in Nat
  BY <1>0 DEF Things
<1>1. CASE \/ \E kind \in Kinds, ok \in BOOLEAN : Call(kind, ok)
           \/ \E ok \in BOOLEAN : ChildStep(ok)
           \/ \E kind \in Kinds : Batch(kind)
  <2>1. Counted1
    BY <1>0, <1>1, CallCounts
  <2>2. Clean'
    BY <2>1, <1>0 DEF Counted1, Clean
  <2>3. /\ active \in Runs /\ calls' = calls + 1
        /\ UNCHANGED <<status, active, rewinds, crashes, memory, detached>>
    BY <2>1 DEF Counted1
  <2>4. (\E kind \in Kinds : Queue(kind)) \/ UNCHANGED <<sess, view, queued>>
    BY <1>1 DEF Call, ChildStep, Batch
  <2>5. queued' \subseteq queued \cup {<<active, calls + 1>>}
    BY <2>4 DEF Queue
  <2>6. \A q \in queued' : status'[q[1]] # "new" /\ (q[1] = active' => q[2] <= calls')
    BY <2>3, <2>5, <1>0, <1>a DEF Listed, TypeOK
  <2>7. ASSUME rewinds' = {}, crashes' = 0
        PROVE  ~detached' /\ sess'.ref = NoId /\ WritesAccounted'
    <3>1. rewinds = {} /\ crashes = 0 /\ ~detached /\ sess.ref = NoId /\ WritesAccounted
      BY <2>3, <2>7, <1>0 DEF Listed
    <3>2. sess'.ref = NoId /\ WritesAccounted'
      BY <2>3, <2>4, <3>1, QueueAccounts, SameAccounts
    <3> QED BY <2>3, <3>1, <3>2
  <2> QED BY <2>2, <2>6, <2>7 DEF Listed
<1>2. ASSUME NEW r \in Runs, Begin(r) \/ \E id \in DOMAIN ckpts : BeginFrom(r, id)
      PROVE  Clean' /\ Listed'
  <2>1. /\ active = NoRun /\ status[r] = "new" /\ status' = [status EXCEPT ![r] = "running"]
        /\ active' = r /\ UNCHANGED <<calls, queued, crashes, memory, detached>>
        /\ rewinds' = {} => rewinds = {} /\ sess' = sess
    BY <1>2 DEF Begin, BeginFrom, Started, sessionVars
  <2>2. \A q \in queued : status'[q[1]] # "new" /\ q[1] # r
    BY <2>1, <1>0, <1>a DEF Listed, TypeOK
  <2>3. ASSUME rewinds' = {}, crashes' = 0
        PROVE  ~detached' /\ sess'.ref = NoId /\ WritesAccounted'
    <3>1. rewinds = {} /\ crashes = 0 /\ ~detached /\ sess.ref = NoId /\ WritesAccounted
      BY <2>1, <2>3, <1>0 DEF Listed
    <3> QED BY <2>1, <2>3, <3>1, SameAccounts
  <2> QED BY <2>1, <2>2, <2>3, <1>0 DEF Clean, Listed
<1>3. CASE Raise \/ Resume \/ Revalidate
  <2>1. active \in Runs /\ UNCHANGED <<sess, memory, status, active, calls, queued, crashes>>
    BY <1>0, <1>3, LoopFrame DEF sessionVars
  <2>2. rewinds' = {} => rewinds = {} /\ detached' = detached
    BY <1>3 DEF Raise, Resume, Revalidate, stepVars
  <2>3. ASSUME rewinds' = {}, crashes' = 0
        PROVE  ~detached' /\ sess'.ref = NoId /\ WritesAccounted'
    <3>1. rewinds = {} /\ crashes = 0 /\ ~detached /\ sess.ref = NoId /\ WritesAccounted
      BY <2>1, <2>2, <2>3, <1>0 DEF Listed
    <3> QED BY <2>1, <2>2, <2>3, <3>1, SameAccounts
  <2> QED BY <2>1, <2>3, <1>0 DEF Clean, Listed
<1>4. CASE GiveUp \/ Abort \/ Accept \/ FailLate \/ Reject
  <2>1. PICK how \in {"completed", "failed", "aborted"} : Ended(how)
    BY <1>0, <1>4, EndEnds
  <2>2. /\ Clean' /\ active' = NoRun /\ ~detached'
        /\ status' = [status EXCEPT ![active] = how] /\ UNCHANGED <<queued, rewinds, crashes>>
    BY <2>1 DEF Ended, LocalsGone, Clean
  <2>3. \A q \in queued' : status'[q[1]] # "new" /\ q[1] # active'
    BY <2>2, <1>0, <1>a DEF Listed, TypeOK
  <2>4. ASSUME rewinds' = {}, crashes' = 0
        PROVE  sess'.ref = NoId /\ WritesAccounted'
    <3>1. rewinds = {} /\ crashes = 0 /\ ~detached /\ sess.ref = NoId /\ WritesAccounted
      BY <2>2, <2>4, <1>0 DEF Listed
    <3>2. CASE sess' = sess /\ memory' = memory
      BY <2>2, <3>1, <3>2, SameAccounts
    <3>3. CASE ~(sess' = sess /\ memory' = memory)
      <4>1. \E h, n : Accepted(h, n)
        BY <1>4, <3>3 DEF GiveUp, Abort, Reject, Accept, FailLate
      <4> QED BY <3>1, <4>1, DrainAccounts
    <3> QED BY <3>2, <3>3
  <2> QED BY <2>2, <2>3, <2>4 DEF Listed
<1>5. CASE Crash
  <2>1. active' = NoRun /\ LocalsGone /\ crashes' = crashes + 1 /\ queued' = queued
        /\ status' = [r \in Runs |-> IF r = active THEN "aborted" ELSE status[r]]
    BY <1>5 DEF Crash, LocalsGone
  <2>2. crashes' # 0
    BY <2>1, <1>0
  <2>3. \A q \in queued' : status'[q[1]] # "new" /\ q[1] # active'
    BY <2>1, <1>0, <1>a DEF Listed
  <2> QED BY <2>1, <2>2, <2>3 DEF LocalsGone, Clean, Listed
<1>6. CASE UNCHANGED vars
  <2>1. /\ UNCHANGED <<sess, memory, queued, status, active, calls, rewinds, crashes, detached>>
        /\ Clean'
    BY <1>0, <1>6 DEF vars, sessionVars, stepVars, loopVars, Clean
  <2>2. ASSUME rewinds = {}, crashes = 0
        PROVE  WritesAccounted'
    BY <1>0, <2>1, <2>2, SameAccounts DEF Listed
  <2> QED BY <2>1, <2>2, <1>0 DEF Listed
<1> QED BY <1>1, <1>2, <1>3, <1>4, <1>5, <1>6 DEF Next

\* Without a resume or a restart, every write the remember tool queued is either
\* pending in the session or in long-term memory, once: no run that fails, late
\* or early, loses or repeats one.
THEOREM NoWriteLost == Spec => []WritesAccounted
<1>1. Init => WriteInv
  <2> SUFFICES ASSUME Init PROVE WriteInv
    OBVIOUS
  <2>1. sess = Own(Absent) /\ List(sess, ckpts) = Absent /\ memory = <<>> /\ queued = {} /\ ~detached
    BY DEF Init, Own, List
  <2>2. WritesAccounted /\ sess.ref = NoId
    <3>1. AllWrites = <<>>
      BY <2>1 DEF AllWrites
    <3>2. Elements(AllWrites) = {} /\ Once(AllWrites)
      BY <3>1 DEF Elements, Once
    <3> QED BY <2>1, <3>2 DEF WritesAccounted, Own
  <2>3. Clean /\ Listed
    BY <2>1, <2>2 DEF Init, Clean, Listed
  <2> QED BY <2>3, InitInv, DurableAssumption DEF WriteInv
<1>2. WriteInv /\ [Next]_vars => WriteInv'
  BY WriteStep, StepKeeps, DurableAssumption DEF WriteInv
<1>3. WriteInv => WritesAccounted
  BY DEF WriteInv, Listed, WritesAccounted
<1> QED BY <1>1, <1>2, <1>3, PTL DEF Spec

(***************************************************************************)
(* What a rewound run counts.                                              *)
(***************************************************************************)
\* A list of things of the first n calls of a run, each once.
OwnOnce(list, r, n) ==
    Once(list) /\ \A i \in DOMAIN list : list[i][1] = r /\ list[i][2] <= n

\* What the active run counts, and what its checkpoints say it counted; what is
\* stored is from runs that have ended.
Rewound ==
    /\ base = NoId =>
          /\ usage <= calls
          /\ \A id \in DOMAIN ckpts : id[1] = active => ckpts[id].blob.usage <= calls
    /\ "request" \notin rewinds =>
          /\ base = NoId
          /\ OwnOnce(artifacts, active, calls)
          /\ \A id \in DOMAIN ckpts : id[1] = active => OwnOnce(ckpts[id].blob.artifacts, active, calls)
          /\ Once(stored)
          /\ \A i \in DOMAIN stored : status[stored[i][1]] \notin {"new", "running"}

CountInv == ResumeInv /\ Rewound

\* The part of Rewound about what is persisted.
Persisted ==
    Once(stored) /\ \A i \in DOMAIN stored : status[stored[i][1]] \notin {"new", "running"}

\* One more call: what was the run's own still is, and so is what it leaves.
LEMMA OwnGrows ==
    ASSUME NEW list \in Seq(Things), OwnOnce(list, active, calls), active \in Runs, calls \in Nat,
           active' = active, calls' = calls + 1
    PROVE  OwnOnce(list, active', calls') /\ OwnOnce(Append(list, <<active, calls + 1>>), active', calls')
<1> DEFINE new == <<active, calls + 1>>
<1>1. new \in Things /\ new[1] = active /\ new[2] = calls + 1
  BY DEF Things
<1>2. /\ Len(list) \in Nat /\ DOMAIN list = 1 .. Len(list)
      /\ \A i \in DOMAIN list : list[i] \in Things /\ list[i][2] \in Nat
  BY DEF Things
<1>3. new \notin Elements(list)
  BY <1>1, <1>2 DEF OwnOnce, Elements
<1> HIDE DEF new
<1>4. Once(list) /\ Once(Append(list, new))
  BY <1>1, <1>3, AppendOnce DEF OwnOnce
<1>5. \A i \in DOMAIN list : list[i][1] = active /\ list[i][2] <= calls + 1
  BY <1>2 DEF OwnOnce
<1>6. /\ DOMAIN Append(list, new) = 1 .. Len(list) + 1
      /\ \A i \in 1 .. Len(list) + 1 :
            Append(list, new)[i] = IF i = Len(list) + 1 THEN new ELSE list[i]
  BY <1>1
<1>7. \A i \in DOMAIN Append(list, new) :
         Append(list, new)[i][1] = active /\ Append(list, new)[i][2] <= calls + 1
  BY <1>1, <1>2, <1>5, <1>6
<1> QED BY <1>4, <1>5, <1>7 DEF OwnOnce, new

\* A call keeps it: the checkpoint it adds counts what the run counts.
LEMMA CallRewound ==
    ASSUME DurableAssumption, CountInv, Counted1
    PROVE  Rewound'
<1>0. /\ TypeOK /\ Rewound /\ active \in Runs /\ calls \in Nat /\ calls' = calls + 1
      /\ UNCHANGED <<status, active, base, rewinds, stored>>
      /\ usage \in Nat /\ usage' \in {usage, usage + 1}
      /\ artifacts \in Seq(Things)
      /\ artifacts' \in {artifacts, Append(artifacts, <<active, calls + 1>>)}
      /\ Adds(usage', artifacts')
  BY DEF CountInv, ResumeInv, DurableInv, TypeOK, Counted1
<1>1. \A id \in DOMAIN ckpts : ckpts[id].blob.usage \in Nat /\ ckpts[id].blob.artifacts \in Seq(Things)
  BY <1>0 DEF TypeOK, Snapshot, Blob
<1>2. /\ DOMAIN ckpts \subseteq DOMAIN ckpts'
      /\ \A id \in DOMAIN ckpts' :
            \/ id \in DOMAIN ckpts /\ ckpts'[id].blob = ckpts[id].blob
            \/ ckpts'[id].blob = NextBlob(usage', artifacts')
  BY <1>0 DEF Adds, SameBlobs
<1>3. base' = NoId => usage' <= calls'
  BY <1>0 DEF Rewound
<1>4. ASSUME base' = NoId, NEW id \in DOMAIN ckpts', id[1] = active'
      PROVE  ckpts'[id].blob.usage <= calls'
  BY <1>0, <1>1, <1>2, <1>3, <1>4 DEF Rewound, NextBlob
<1>5. ASSUME "request" \notin rewinds'
      PROVE  /\ base' = NoId /\ OwnOnce(artifacts', active', calls') /\ Persisted'
             /\ \A id \in DOMAIN ckpts' : id[1] = active' => OwnOnce(ckpts'[id].blob.artifacts, active', calls')
  <2>1. base' = NoId /\ OwnOnce(artifacts, active, calls) /\ Persisted'
    BY <1>0, <1>5 DEF Rewound, Persisted, Once
  <2>2. OwnOnce(artifacts', active', calls')
    <3> PICK old : old = artifacts
      OBVIOUS
    <3>1. OwnOnce(old, active, calls) /\ old \in Seq(Things)
      BY <1>0, <2>1
    <3>2. OwnOnce(old, active', calls') /\ OwnOnce(Append(old, <<active, calls + 1>>), active', calls')
      BY <1>0, <3>1, OwnGrows
    <3>3. artifacts' = old \/ artifacts' = Append(old, <<active, calls + 1>>)
      BY <1>0
    <3> QED BY <3>2, <3>3
  <2>3. ASSUME NEW id \in DOMAIN ckpts', id[1] = active'
        PROVE  OwnOnce(ckpts'[id].blob.artifacts, active', calls')
    <3>1. CASE id \in DOMAIN ckpts /\ ckpts'[id].blob = ckpts[id].blob
      <4> PICK old : old = ckpts[id].blob.artifacts
        OBVIOUS
      <4>1. OwnOnce(old, active, calls) /\ old \in Seq(Things)
        BY <1>0, <1>1, <1>5, <2>3, <3>1 DEF Rewound
      <4>2. OwnOnce(old, active', calls')
        BY <1>0, <4>1, OwnGrows
      <4> QED BY <3>1, <4>2
    <3>2. CASE ckpts'[id].blob = NextBlob(usage', artifacts')
      BY <2>2, <3>2 DEF NextBlob
    <3> QED BY <1>2, <3>1, <3>2
  <2> QED BY <2>1, <2>2, <2>3
<1> QED BY <1>3, <1>4, <1>5 DEF Rewound, Persisted

\* What a run persists when it ends: its artifacts, or those before the one the
\* backend refuses.
LEMMA EndStores ==
    ASSUME TypeOK, GiveUp \/ Abort \/ Accept \/ FailLate \/ Reject
    PROVE  \E n \in 0 .. Len(artifacts) : stored' = stored \o SubSeq(artifacts, 1, n)
<1>1. artifacts \in Seq(Things) /\ stored \in Seq(Things) /\ Len(artifacts) \in Nat
  BY DEF TypeOK
<1>2. CASE GiveUp \/ Abort
  <2>1. stored' = stored
    BY <1>2 DEF GiveUp, Abort
  <2>2. SubSeq(artifacts, 1, 0) = <<>> /\ stored \o <<>> = stored
    BY <1>1
  <2>3. stored' = stored \o SubSeq(artifacts, 1, 0)
    BY <2>1, <2>2
  <2> QED BY <1>1, <2>3
<1>3. CASE Accept
  BY <1>1, <1>3 DEF Accept, Accepted
<1>4. CASE FailLate
  BY <1>4 DEF FailLate, Accepted
<1>5. CASE Reject
  BY <1>5 DEF Reject
<1> QED BY <1>2, <1>3, <1>4, <1>5

\* The end of a run adds nothing that is stored already.
LEMMA EndPersists ==
    ASSUME DurableAssumption, TypeOK, Persisted, OwnOnce(artifacts, active, calls), active \in Runs,
           NEW n \in 0 .. Len(artifacts), stored' = stored \o SubSeq(artifacts, 1, n),
           NEW how \in {"completed", "failed", "aborted"},
           status' = [status EXCEPT ![active] = how]
    PROVE  Persisted'
<1> DEFINE part == SubSeq(artifacts, 1, n)
<1>1. artifacts \in Seq(Things) /\ stored \in Seq(Things) /\ status[active] = "running"
  BY DEF TypeOK
<1>2. /\ part \in Seq(Things) /\ Once(part)
      /\ \A i \in DOMAIN part : i \in DOMAIN artifacts /\ part[i] = artifacts[i]
  BY <1>1, PartOnce DEF OwnOnce
<1> HIDE DEF part
<1>3. \A i \in DOMAIN part : part[i][1] = active
  BY <1>2 DEF OwnOnce
<1>4. \A i \in DOMAIN stored : stored[i][1] # active
  BY <1>1 DEF Persisted
<1>5. Once(stored \o part)
  BY <1>1, <1>2, <1>3, <1>4, ConcatOnce DEF Persisted
<1>6. /\ DOMAIN (stored \o part) = 1 .. Len(stored) + Len(part)
      /\ DOMAIN stored = 1 .. Len(stored) /\ DOMAIN part = 1 .. Len(part)
      /\ Len(stored) \in Nat /\ Len(part) \in Nat
      /\ \A i \in 1 .. Len(stored) + Len(part) :
            (stored \o part)[i] = IF i <= Len(stored) THEN stored[i] ELSE part[i - Len(stored)]
  BY <1>1, <1>2
<1>7. \A i \in DOMAIN stored' : \/ \E j \in DOMAIN stored : stored'[i] = stored[j]
                                \/ \E j \in DOMAIN part : stored'[i] = part[j]
  <2> SUFFICES ASSUME NEW i \in 1 .. Len(stored) + Len(part)
               PROVE  \/ \E j \in DOMAIN stored : (stored \o part)[i] = stored[j]
                      \/ \E j \in DOMAIN part : (stored \o part)[i] = part[j]
    BY <1>6 DEF part
  <2>1. CASE i <= Len(stored)
    BY <1>6, <2>1
  <2>2. CASE ~(i <= Len(stored))
    <3>1. i - Len(stored) \in 1 .. Len(part)
      BY <1>6, <2>2
    <3> QED BY <1>6, <2>2, <3>1
  <2> QED BY <2>1, <2>2
<1>8. ASSUME NEW i \in DOMAIN stored'
      PROVE  status'[stored'[i][1]] \notin {"new", "running"}
  <2>1. \A j \in DOMAIN stored : stored[j][1] \in Runs
    BY <1>1 DEF Things
  <2>2. CASE \E j \in DOMAIN stored : stored'[i] = stored[j]
    BY <1>4, <2>1, <2>2 DEF Persisted, TypeOK
  <2>3. CASE \E j \in DOMAIN part : stored'[i] = part[j]
    BY <1>3, <2>3 DEF TypeOK
  <2> QED BY <1>7, <2>2, <2>3
<1> QED BY <1>5, <1>8 DEF Persisted, part

\* Every step keeps it, if a resume finds the active run's own work: with two
\* durable runs in a session a run that has no checkpoint yet takes over the
\* usage and the artifacts of the other (ResumesOwnWork).
LEMMA CountStep ==
    ASSUME DurableAssumption, \A r, s \in DurableRuns : r = s, CountInv, [Next]_vars
    PROVE  Rewound'
<1>0. TypeOK /\ ResumeInv /\ Rewound /\ Clean /\ Counted /\ NoRun \notin Runs
  BY DEF CountInv, ResumeInv, DurableInv, DurableAssumption
<1>a. DOMAIN ckpts \subseteq Ids /\ \A id \in Ids : id[1] \in Runs
  BY <1>0 DEF TypeOK, Ids
<1>b. stored \in Seq(Things) /\ \A i \in DOMAIN stored : stored[i][1] \in Runs
  BY <1>0 DEF TypeOK, Things
<1>1. CASE \/ \E kind \in Kinds, ok \in BOOLEAN : Call(kind, ok)
           \/ \E ok \in BOOLEAN : ChildStep(ok)
           \/ \E kind \in Kinds : Batch(kind)
  BY <1>0, <1>1, CallCounts, CallRewound DEF ResumeInv
<1>2. ASSUME NEW r \in Runs, Begin(r)
      PROVE  Rewound'
  <2>1. /\ active = NoRun /\ status[r] = "new" /\ status' = [status EXCEPT ![r] = "running"]
        /\ active' = r /\ UNCHANGED <<calls, usage, artifacts, base, rewinds, ckpts, stored>>
        /\ calls = 0 /\ usage = 0 /\ artifacts = <<>>
    BY <1>0, <1>2 DEF Begin, Started, sessionVars, Clean
  <2>2. \A id \in DOMAIN ckpts : id[1] # r
    BY <2>1, <1>0 DEF Counted
  <2>3. ASSUME "request" \notin rewinds
        PROVE  Persisted'
    BY <2>1, <2>3, <1>0, <1>b DEF Rewound, Persisted, TypeOK, Once
  <2>4. OwnOnce(artifacts', active', calls')
    BY <2>1 DEF OwnOnce, Once
  <2> QED BY <2>1, <2>2, <2>3, <2>4, <1>0 DEF Rewound, Persisted, Clean
<1>3. ASSUME NEW r \in Runs, NEW id \in DOMAIN ckpts, BeginFrom(r, id)
      PROVE  Rewound'
  <2>1. "request" \in rewinds' /\ base' = id /\ id \in Ids
    BY <1>3, <1>a DEF BeginFrom
  <2>2. base' # NoId
    BY <2>1 DEF Ids, NoId
  <2> QED BY <2>1, <2>2 DEF Rewound
<1>4. CASE Raise \/ Revalidate
  <2>1. UNCHANGED <<ckpts, stored, usage, artifacts, status, active, calls, base, rewinds>>
    BY <1>4 DEF Raise, Revalidate, sessionVars, stepVars
  <2> QED BY <2>1, <1>0 DEF Rewound, OwnOnce, Once
<1>5. CASE Resume
  <2>1. /\ active \in DurableRuns /\ blob # NoBlob /\ blob.id \in DOMAIN ckpts
        /\ UNCHANGED <<ckpts, stored, status, active, calls, base>>
        /\ usage' = ckpts[blob.id].blob.usage /\ artifacts' = ckpts[blob.id].blob.artifacts
        /\ rewinds' = rewinds \cup {"error"}
    BY <1>0, <1>5 DEF Resume, ResumedUsage, ResumedArtifacts, sessionVars, TypeOK
  <2>2. blob.id[1] = active
    BY <2>1, <1>0 DEF ResumeInv, Traced
  <2>3. base' = NoId => usage' <= calls'
    BY <2>1, <2>2, <1>0 DEF Rewound
  <2>4. "request" \notin rewinds' => "request" \notin rewinds
    BY <2>1
  <2>5. "request" \notin rewinds' => OwnOnce(artifacts', active', calls')
    BY <2>1, <2>2, <2>4, <1>0 DEF Rewound, OwnOnce, Once
  <2> QED BY <2>1, <2>3, <2>4, <2>5, <1>0 DEF Rewound, OwnOnce, Once
<1>6. CASE GiveUp \/ Abort \/ Accept \/ FailLate \/ Reject
  <2>1. PICK how \in {"completed", "failed", "aborted"} : Ended(how)
    BY <1>0, <1>6, EndEnds
  <2>2. PICK n \in 0 .. Len(artifacts) : stored' = stored \o SubSeq(artifacts, 1, n)
    BY <1>0, <1>6, EndStores
  <2>3. /\ active \in Runs /\ status' = [status EXCEPT ![active] = how] /\ active' = NoRun
        /\ usage' = 0 /\ artifacts' = <<>> /\ calls' = 0 /\ base' = NoId
        /\ rewinds' = rewinds /\ ckpts' = ckpts
    BY <2>1 DEF Ended, LocalsGone
  <2>4. ASSUME "request" \notin rewinds
        PROVE  Persisted'
    <3>1. Persisted /\ OwnOnce(artifacts, active, calls)
      BY <2>4, <1>0 DEF Rewound, Persisted
    <3> QED BY <1>0, <2>2, <2>3, <3>1, EndPersists
  <2>5. \A id \in DOMAIN ckpts' : id[1] # active'
    BY <2>3, <1>0, <1>a
  <2>6. OwnOnce(artifacts', active', calls')
    BY <2>3 DEF OwnOnce, Once
  <2> QED BY <2>3, <2>4, <2>5, <2>6 DEF Rewound, Persisted
<1>7. CASE Crash
  <2>1. /\ active' = NoRun /\ usage' = 0 /\ artifacts' = <<>> /\ calls' = 0 /\ base' = NoId
        /\ rewinds' = rewinds /\ ckpts' = disk /\ stored' = stored
        /\ status' = [r \in Runs |-> IF r = active THEN "aborted" ELSE status[r]]
    BY <1>7 DEF Crash, LocalsGone
  <2>2. \A id \in DOMAIN ckpts' : id[1] # active'
    BY <2>1, <1>0, <1>a DEF TypeOK
  <2>3. ASSUME "request" \notin rewinds
        PROVE  Persisted'
    BY <2>1, <2>3, <1>0, <1>b DEF Rewound, Persisted, Once
  <2>4. OwnOnce(artifacts', active', calls')
    BY <2>1 DEF OwnOnce, Once
  <2> QED BY <2>1, <2>2, <2>3, <2>4 DEF Rewound, Persisted
<1>8. CASE UNCHANGED vars
  BY <1>0, <1>8 DEF vars, sessionVars, stepVars, loopVars, Rewound, OwnOnce, Once
<1> QED BY <1>1, <1>2, <1>3, <1>4, <1>5, <1>6, <1>7, <1>8 DEF Next

\* With one durable run in a session, and any number of runs that are not: a run
\* never reports more usage than the calls it saw succeed, and no artifact is
\* persisted twice unless a request names a checkpoint, however often the run is
\* rewound, crashes and fails late.
THEOREM RewoundRunsCountOnce ==
    ASSUME \A r, s \in DurableRuns : r = s
    PROVE  Spec => []RewindsCountOnce
<1>1. Init => Rewound
  <2> SUFFICES ASSUME Init PROVE Rewound
    OBVIOUS
  <2>1. DOMAIN ckpts = {} /\ DOMAIN stored = {} /\ DOMAIN artifacts = {} /\ usage = 0 /\ calls = 0 /\ base = NoId
    BY DEF Init
  <2> QED BY <2>1 DEF Rewound, OwnOnce, Once
<1>2. Rewound /\ ResumeInv /\ [Next]_vars => Rewound'
  BY CountStep, DurableAssumption DEF CountInv
<1>3. Rewound => RewindsCountOnce
  BY DEF Rewound, RewindsCountOnce, UsageNotInflated, ArtifactsOnce
<1> QED BY <1>1, <1>2, <1>3, ResumeInvariant, PTL DEF Spec
=============================================================================
