----------------------------- MODULE DurableRun -----------------------------
(***************************************************************************)
(* Durable execution in DefaultRuntime.run: step checkpoints, the resume   *)
(* loop, explicit resume from a checkpoint, and what a run leaves behind   *)
(* in its session for the next one.                                        *)
(*                                                                         *)
(* One session; its runs follow one another (ReentrantSession shows that   *)
(* runs of independent callers do).  A pattern is what the runtime sees of *)
(* it: calls that succeed, batches, steps of a delegated child sharing the *)
(* session, errors, and a result that validates or does not.               *)
(*                                                                         *)
(* Two parts of session_state matter: __durable__ (here blob) and the list *)
(* _pending_memory_writes, which the remember tool appends to and memory   *)
(* writeback drains.  The list is an object: a context rehydrated from a   *)
(* checkpoint shares the list of the stored checkpoint, so it is a cell    *)
(* that either holds its own value or refers to a checkpoint's.            *)
(***************************************************************************)
EXTENDS Naturals, Sequences, FiniteSets

CONSTANTS
    Runs,         \* run ids
    NoRun,        \* the session is free
    Absent,       \* the key _pending_memory_writes is not in the dict
    DurableRuns,  \* the runs requested with durable=True
    MaxResume,    \* budget.max_resume_attempts
    MaxRetries,   \* budget.max_validation_retries
    SaveMayFail,  \* may create_checkpoint raise?
    Explicit,     \* may a run name a checkpoint to resume from?
    Kinds,        \* what a call may leave: nothing, an artifact, a pending write
    MaxCalls,     \* bound: calls a run makes
    MaxCrashes    \* bound: process restarts

ASSUME DurableAssumption ==
    /\ NoRun \notin Runs
    /\ Absent \notin Seq(Runs \X (Nat \ {0}))
    /\ DurableRuns \subseteq Runs
    /\ MaxResume \in Nat
    /\ MaxRetries \in Nat
    /\ SaveMayFail \in BOOLEAN
    /\ Explicit \in BOOLEAN
    /\ Kinds \subseteq {"plain", "artifact", "write"}
    /\ MaxCalls \in Nat
    /\ MaxCrashes \in Nat

VARIABLES
    blob,       \* session_state["__durable__"]
    sess,       \* session_state["_pending_memory_writes"], a cell
    ckpts,      \* session_state["_session_checkpoints"]
    disk,       \* the checkpoints as they were written by the backend
    stored,     \* the artifacts persisted in the session
    memory,     \* the writes drained into long-term memory
    status,     \* what became of each run
    active,     \* the run holding the session
    raised,     \* the active run is handling a retryable error
    usage,      \* usage counter of the active run
    artifacts,  \* artifacts of the active run
    counter,    \* steps counted by its checkpoint handler
    resumes,    \* resume_attempt
    attempts,   \* validation attempts
    detached,   \* is context.state a copy, no longer session_state?
    view,       \* the pending list of a detached context, a cell
    calls,      \* history: calls the active run has seen succeed
    execs,      \* history: pattern.execute() invocations of the active run
    queued,     \* history: the writes queued
    base,       \* history: the checkpoint the active run was asked to resume
    crashes,    \* history: restarts
    rewinds     \* history: what has rewound a run, "error" or "request"

sessionVars == <<blob, sess, ckpts, disk, stored, memory>>
stepVars == <<usage, artifacts, counter, detached, view, calls, queued>>
loopVars == <<raised, resumes, attempts, execs>>
vars == <<sessionVars, stepVars, loopVars, status, active, base, crashes, rewinds>>

Ids == Runs \X (Nat \ {0})      \* "{run_id}:step:{n}"
NoId == <<>>
Things == Runs \X (Nat \ {0})   \* an artifact or a write, by the call it is from
NoBlob == <<>>

Blob == [id: Ids, usage: Nat, artifacts: Seq(Things)]
Snapshot == [blob: Blob, pending: Seq(Things) \cup {Absent}]
Cell == [ref: Ids \cup {NoId}, val: Seq(Things) \cup {Absent}]
Own(list) == [ref |-> NoId, val |-> list]

Put(f, id, v) == [x \in DOMAIN f \cup {id} |-> IF x = id THEN v ELSE f[x]]

\* A cell that refers to a checkpoint refers to a list in it.
Refers(cell) ==
    cell.ref # NoId => cell.ref \in DOMAIN ckpts /\ ckpts[cell.ref].pending # Absent

TypeOK ==
    /\ blob \in Blob \cup {NoBlob}
    /\ sess \in Cell
    /\ DOMAIN ckpts \subseteq Ids /\ \A id \in DOMAIN ckpts : ckpts[id] \in Snapshot
    /\ DOMAIN disk = DOMAIN ckpts /\ \A id \in DOMAIN disk : disk[id] \in Snapshot
    /\ stored \in Seq(Things)
    /\ memory \in Seq(Things)
    /\ status \in [Runs -> {"new", "running", "completed", "failed", "aborted"}]
    /\ active \in Runs \cup {NoRun}
    /\ \A r \in Runs : status[r] = "running" <=> active = r
    /\ raised \in BOOLEAN
    /\ raised => active \in DurableRuns
    /\ {usage, counter, resumes, attempts, calls, execs, crashes} \subseteq Nat
    /\ artifacts \in Seq(Things)
    /\ detached \in BOOLEAN
    /\ view \in Cell
    /\ queued \subseteq Things
    /\ base \in Ids \cup {NoId}
    /\ Refers(sess)
    /\ Refers(view)

Init ==
    /\ blob = NoBlob
    /\ sess = Own(Absent)
    /\ ckpts = <<>>
    /\ disk = <<>>
    /\ stored = <<>>
    /\ memory = <<>>
    /\ status = [r \in Runs |-> "new"]
    /\ active = NoRun
    /\ raised = FALSE
    /\ usage = 0
    /\ artifacts = <<>>
    /\ counter = 0
    /\ resumes = 0
    /\ attempts = 0
    /\ detached = FALSE
    /\ view = Own(Absent)
    /\ calls = 0
    /\ execs = 0
    /\ queued = {}
    /\ base = NoId
    /\ crashes = 0
    /\ rewinds = {}

(***************************************************************************)
(* The pending list the pattern's context sees.                            *)
(***************************************************************************)
List(cell, stock) == IF cell.ref = NoId THEN cell.val ELSE stock[cell.ref].pending
CtxCell == IF detached THEN view ELSE sess

Extended(list, w) == IF list = Absent THEN <<w>> ELSE Append(list, w)

\* The cell, and the stored checkpoints, once w is appended through the cell.
Noted(cell, w) ==
    IF cell.ref = NoId THEN [cell EXCEPT !.val = Extended(@, w)] ELSE cell
NotedIn(cell, w) ==
    IF cell.ref = NoId THEN ckpts
    ELSE [ckpts EXCEPT ![cell.ref].pending = Append(@, w)]

(***************************************************************************)
(* A run takes the session, plainly or from a checkpoint it names.  The    *)
(* checkpoint's keys are merged over those of the session.                 *)
(***************************************************************************)
Started(r) ==
    /\ active = NoRun
    /\ status[r] = "new"
    /\ status' = [status EXCEPT ![r] = "running"]
    /\ active' = r
    /\ execs' = 1
    /\ UNCHANGED <<raised, counter, resumes, attempts, detached, view, calls, queued, crashes>>

Begin(r) ==
    /\ Started(r)
    /\ UNCHANGED <<sessionVars, usage, artifacts, base, rewinds>>

BeginFrom(r, id) ==
    /\ Explicit
    /\ id \in DOMAIN ckpts
    /\ Started(r)
    /\ blob' = ckpts[id].blob
    /\ sess' = IF ckpts[id].pending = Absent THEN sess ELSE [ref |-> id, val |-> Absent]
    /\ usage' = ckpts[id].blob.usage
    /\ artifacts' = ckpts[id].blob.artifacts
    /\ base' = id
    /\ rewinds' = rewinds \cup {"request"}
    /\ UNCHANGED <<ckpts, disk, stored, memory>>

(***************************************************************************)
(* The step-checkpoint handler, inside the emit of llm.succeeded or        *)
(* tool.succeeded.  The blob is written before the checkpoint is created,  *)
(* and stays when create_checkpoint raises.                                *)
(***************************************************************************)
\* Mutant of BlobFor: the blob keeps the id of the run's first checkpoint.
BlobFor_First(n, u, arts) ==
    [id |-> IF n > 1 /\ blob # NoBlob THEN blob.id ELSE <<active, n>>, usage |-> u, artifacts |-> arts]

BlobFor(n, u, arts) == [id |-> <<active, n>>, usage |-> u, artifacts |-> arts]

Written(id, shot) == Put(disk, id, shot)

OnStep(stock, u, arts, ok) ==
    LET n == counter + 1
        shot == [blob |-> BlobFor(n, u, arts), pending |-> List(sess', stock)]
    IN IF active \in DurableRuns
       THEN /\ counter' = n
            /\ blob' = shot.blob
            /\ ckpts' = IF ok THEN Put(stock, <<active, n>>, shot) ELSE stock
            /\ disk' = IF ok THEN Written(<<active, n>>, shot) ELSE disk
       ELSE ckpts' = stock /\ UNCHANGED <<counter, blob, disk>>

Executing ==
    /\ active # NoRun
    /\ ~raised

Calling ==
    /\ Executing
    /\ calls < MaxCalls
    /\ calls' = calls + 1
    /\ UNCHANGED <<detached, stored, memory, loopVars, status, active, base, crashes, rewinds>>

\* What the tool of a call leaves: nothing, an artifact or a pending write.
Left(kind) == IF kind = "artifact" THEN Append(artifacts, <<active, calls + 1>>) ELSE artifacts
LeftStock(kind) == IF kind = "write" THEN NotedIn(CtxCell, <<active, calls + 1>>) ELSE ckpts

Queue(kind) ==
    IF kind = "write"
    THEN LET w == <<active, calls + 1>> IN
         /\ queued' = queued \cup {w}
         /\ IF detached THEN view' = Noted(view, w) /\ UNCHANGED sess
                        ELSE sess' = Noted(sess, w) /\ UNCHANGED view
    ELSE UNCHANGED <<queued, sess, view>>

Call(kind, ok) ==
    /\ Calling
    /\ ok \/ SaveMayFail
    /\ usage' = usage + 1
    /\ artifacts' = Left(kind)
    /\ Queue(kind)
    /\ OnStep(LeftStock(kind), usage + 1, Left(kind), ok)

\* A step of a delegated child that shares the session: its event carries the
\* session id the handler filters by; usage and artifacts are the child's own.
ChildStep(ok) ==
    /\ Calling
    /\ ok \/ SaveMayFail
    /\ UNCHANGED <<usage, artifacts, sess, view, queued>>
    /\ OnStep(ckpts, usage, artifacts, ok)

\* call_tool_batch: no tool.succeeded for its items, and nothing listens to
\* tool.batch.completed.
Batch(kind) ==
    /\ Calling
    /\ artifacts' = Left(kind)
    /\ Queue(kind)
    /\ ckpts' = LeftStock(kind)
    /\ UNCHANGED <<usage, counter, blob, disk>>

(***************************************************************************)
(* The durable outer loop.                                                 *)
(***************************************************************************)
\* The locals of run() go with it.
LocalsGone ==
    /\ active' = NoRun
    /\ raised' = FALSE
    /\ usage' = 0
    /\ artifacts' = <<>>
    /\ counter' = 0
    /\ resumes' = 0
    /\ attempts' = 0
    /\ detached' = FALSE
    /\ view' = Own(Absent)
    /\ calls' = 0
    /\ execs' = 0
    /\ base' = NoId
    /\ UNCHANGED <<queued, rewinds>>

End(how) ==
    /\ status' = [status EXCEPT ![active] = how]
    /\ LocalsGone
    /\ UNCHANGED <<blob, ckpts, disk, crashes>>

\* A non-retryable error, an exceeded budget, a handoff, a cancellation, or
\* any error of a run that is not durable.
Abort ==
    /\ Executing
    /\ End("aborted")
    /\ UNCHANGED <<sess, stored, memory>>

\* Only a durable run catches retryable errors.
Catches == active \in DurableRuns

Raise ==
    /\ Executing
    /\ Catches
    /\ raised' = TRUE
    /\ UNCHANGED <<sessionVars, stepVars, resumes, attempts, execs, status, active, base, crashes, rewinds>>

Spent == resumes >= MaxResume

\* Mutant of Hopeless: the error is kept back until the budget is spent.
Hopeless_Budget == Spent

\* No blob, or the budget is spent (run.resume_exhausted), or the checkpoint
\* named by the blob is not there.
Hopeless ==
    \/ blob = NoBlob
    \/ Spent
    \/ blob # NoBlob /\ blob.id \notin DOMAIN ckpts

GiveUp ==
    /\ raised
    /\ Hopeless
    /\ End("failed")
    /\ UNCHANGED <<sess, stored, memory>>

\* Mutants of what a resume restores: the handler starts counting anew, the
\* validation attempts are forgotten, usage is added, artifacts are not cleared.
ResumedCounter_Zero == 0
ResumedCounter == counter
ResumedAttempts_Zero == 0
ResumedAttempts == attempts
ResumedUsage_Added(shot) == usage + shot.blob.usage
ResumedUsage(shot) == shot.blob.usage
ResumedArtifacts_Kept(shot) == artifacts \o shot.blob.artifacts
ResumedArtifacts(shot) == shot.blob.artifacts

ResumedTries == resumes + 1

Resume ==
    /\ raised
    /\ blob # NoBlob
    /\ ~Spent
    /\ blob.id \in DOMAIN ckpts
    /\ LET shot == ckpts[blob.id] IN
          /\ usage' = ResumedUsage(shot)
          /\ artifacts' = ResumedArtifacts(shot)
          /\ view' = IF shot.pending = Absent THEN Own(Absent)
                     ELSE [ref |-> blob.id, val |-> Absent]
    /\ detached' = TRUE
    /\ raised' = FALSE
    /\ counter' = ResumedCounter
    /\ attempts' = ResumedAttempts
    /\ resumes' = ResumedTries
    /\ execs' = execs + 1
    /\ rewinds' = rewinds \cup {"error"}
    /\ UNCHANGED <<sessionVars, status, active, calls, queued, base, crashes>>

(***************************************************************************)
(* pattern.execute() returns; finalize validates the output.               *)
(***************************************************************************)
\* Mutant of Drained: writeback leaves the list it has written.
Drained_Not == CtxCell

\* context.state["_pending_memory_writes"] = [], unless there was nothing.
Drained == IF List(CtxCell, ckpts) \in {Absent, <<>>} THEN CtxCell ELSE Own(<<>>)

\* Memory writeback, then the artifacts, one by one.
Accepted(how, n) ==
    /\ Executing
    /\ memory' = IF List(CtxCell, ckpts) = Absent THEN memory ELSE memory \o List(CtxCell, ckpts)
    /\ sess' = IF detached THEN sess ELSE Drained
    /\ stored' = stored \o SubSeq(artifacts, 1, n)
    /\ End(how)

Accept == Accepted("completed", Len(artifacts))

\* The duration budget, the transcript, an artifact or the assembler's
\* finalize fails after the writeback: what was persisted stays persisted.
FailLate == \E n \in 0..Len(artifacts) : Accepted("failed", n)

Revalidate ==
    /\ Executing
    /\ attempts < MaxRetries
    /\ attempts' = attempts + 1
    /\ execs' = execs + 1
    /\ UNCHANGED <<sessionVars, stepVars, raised, resumes, status, active, base, crashes, rewinds>>

\* Validation exhausted: the run fails, and its artifacts are persisted as
\* far as the backend lets it.
Reject ==
    /\ Executing
    /\ attempts >= MaxRetries
    /\ \E n \in 0..Len(artifacts) : stored' = stored \o SubSeq(artifacts, 1, n)
    /\ UNCHANGED <<sess, memory>>
    /\ End("failed")

(***************************************************************************)
(* The process dies.  What session_state held in memory only is gone.      *)
(***************************************************************************)
Crash ==
    /\ crashes < MaxCrashes
    /\ crashes' = crashes + 1
    /\ status' = [r \in Runs |-> IF r = active THEN "aborted" ELSE status[r]]
    /\ LocalsGone
    /\ blob' = NoBlob
    /\ sess' = Own(Absent)
    /\ ckpts' = disk
    /\ UNCHANGED <<disk, stored, memory>>

Next ==
    \/ \E r \in Runs : Begin(r) \/ \E id \in DOMAIN ckpts : BeginFrom(r, id)
    \/ \E kind \in Kinds, ok \in BOOLEAN : Call(kind, ok)
    \/ \E ok \in BOOLEAN : ChildStep(ok)
    \/ \E kind \in Kinds : Batch(kind)
    \/ Raise
    \/ GiveUp
    \/ Resume
    \/ Abort
    \/ Accept
    \/ FailLate
    \/ Revalidate
    \/ Reject
    \/ Crash

Spec == Init /\ [][Next]_vars

\* pattern.execute() returns or raises after finitely many calls, and the
\* runtime handles what comes out of it.
Outcome == Raise \/ GiveUp \/ Resume \/ Abort \/ Accept \/ FailLate \/ Revalidate \/ Reject

FairSpec == Spec /\ WF_vars(Outcome)

(***************************************************************************)
(* Properties.                                                             *)
(***************************************************************************)
\* What a list holds, and whether it holds it once.
Elements(list) == {list[i] : i \in DOMAIN list}
Once(list) == \A i, j \in DOMAIN list : list[i] = list[j] => i = j

\* A checkpoint announced by run.checkpoint_saved is neither lost nor written
\* over: the handler's counter goes on across resumes, so no id is used twice,
\* and a restart finds what the backend wrote.
CheckpointsKept ==
    [][/\ DOMAIN ckpts \subseteq DOMAIN ckpts'
       /\ \A id \in DOMAIN ckpts : ckpts'[id].blob = ckpts[id].blob]_vars

\* Resumes and validation retries share no budget but neither renews the other:
\* a run invokes pattern.execute() at most 1 + MaxResume + MaxRetries times.
ExecuteBound == execs <= 1 + MaxResume + MaxRetries

\* A resume continues from the newest checkpoint of the run, or, while it has
\* none of its own, from the one the request named.
Newest(id) ==
    \/ id[1] = active /\ \A other \in DOMAIN ckpts : other[1] = active => other[2] <= id[2]
    \/ id = base /\ \A other \in DOMAIN ckpts : other[1] # active
Resumes == resumes' > resumes /\ active' = active
ResumeFromNewest == [][Resumes => Newest(blob.id)]_vars

\* What a run reports as its usage never exceeds the calls it saw succeed,
\* however often it was rewound and whatever earlier runs left in the session.
UsageNotInflated == active # NoRun /\ base = NoId => usage <= calls

\* No artifact is persisted twice in a session, though resumes rewind the list
\* and late failures persist a part of it.  A run asked to go on from another
\* run's checkpoint does persist that run's artifacts again.
ArtifactsOnce == "request" \notin rewinds => Once(stored)

\* What a rewound run reports and persists, it reports and persists once.
RewindsCountOnce == UsageNotInflated /\ ArtifactsOnce

\* The writes in long-term memory, then those pending.
AllWrites == IF List(sess, ckpts) = Absent THEN memory ELSE memory \o List(sess, ckpts)

\* Without a resume or a restart every queued memory write is in the pending
\* list or in long-term memory, and in one of them once: a run that fails
\* leaves its writes to the next run that completes.
WritesAccounted ==
    rewinds = {} /\ crashes = 0 => queued = Elements(AllWrites) /\ Once(AllWrites)

\* Every run ends, however its errors, resumes and validation retries alternate.
EveryRunEnds == \A r \in Runs : (status[r] = "running") ~> (status[r] # "running")

(***************************************************************************)
(* What comments, docs and tests say and the code does otherwise.          *)
(***************************************************************************)
\* A run that has written no checkpoint has nothing to resume to (the comment
\* in the resume loop): it resumes from its own checkpoints, or the named one.
ResumesOwnWork == [][Resumes => blob.id[1] = active \/ blob.id = base]_vars

\* A failed create_checkpoint does not fail the run (the API reference): a
\* retryable error still finds the checkpoints saved before.
SaveFailureHarmless ==
    [][(\E id \in DOMAIN ckpts : id[1] = active) /\ raised /\ resumes < MaxResume
          => active' = active \/ crashes' # crashes]_vars

\* A batched tool call is one step of a durable run, with its checkpoint (the
\* API reference).
BatchIsOneStep ==
    [][(active \in DurableRuns /\ \E kind \in Kinds : Batch(kind)) => counter' = counter + 1]_vars

\* A resume resets the state the pattern sees to the checkpointed snapshot (the
\* comment in _rehydrate_pattern_from_checkpoint).
ResumeRestoresSnapshot ==
    [][Resumes => List(view', ckpts') = disk[blob.id].pending]_vars

\* Writeback drains the queued writes to disk (the tool reference): none is
\* written a second time.
WrittenOnce == Once(memory)
=============================================================================
