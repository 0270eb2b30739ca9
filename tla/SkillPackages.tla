--------------------------- MODULE SkillPackages ---------------------------
(***************************************************************************)
(* LocalSkillsManager: the packages found under the search paths, what the *)
(* state of a session says of them, and runs of their entrypoints, which   *)
(* share the interpreter's import path and its modules.  A package is      *)
(* imported when it is run, and the session is read after it has run.      *)
(***************************************************************************)
EXTENDS Naturals, Sequences, SequencesExt, FiniteSets

CONSTANTS
    Disks,      \* what may lie under the search paths: sequences of directories
                \* [root, name, front, package, entries, enabled]
    None,       \* a SKILL.md without a name
    Sessions, Tasks,
    MaxRuns     \* runs, loads, preparations and deletions in all (bound)

VARIABLES
    disk,
    packages,   \* _packages: of a name, the directory
    modules,    \* sys.modules: of a package's name, the root it came from
    path,       \* what was put in front of sys.path
    skills,     \* of a session and a name: what _session_skills says
    prepared,   \* the sessions that were prepared without an error
    task,       \* runs of a skill
    runs

vars == <<disk, packages, modules, path, skills, prepared, task, runs>>

Absent == [there |-> FALSE, named |-> FALSE, references |-> FALSE, ran |-> 0]
Blank == [Absent EXCEPT !.there = TRUE]
Idle == [at |-> "idle", session |-> None, skill |-> None, added |-> FALSE, code |-> None]

NamesOf(d) == {d[i].name : i \in DOMAIN d} \ {None}
SkillNames == UNION {NamesOf(d) : d \in Disks}

Init ==
    /\ disk \in Disks
    /\ packages = <<>> /\ modules = <<>> /\ path = <<>>
    /\ skills = [s \in Sessions |-> [k \in SkillNames |-> Absent]]
    /\ prepared = {}
    /\ task = [t \in Tasks |-> Idle]
    /\ runs = 0

Counts == runs < MaxRuns /\ runs' = runs + 1

(***************************************************************************)
(* _discover: a package without front matter, or one that is wanted and    *)
(* has not exactly one entrypoint, spoils it for all; of two packages with *)
(* a name the later one counts.  An empty result is not remembered.        *)
(***************************************************************************)
Wanted(d) == d.name # None /\ d.enabled
Spoilt == \E i \in DOMAIN disk : ~disk[i].front \/ (Wanted(disk[i]) /\ disk[i].entries # 1)
Listed ==
    LET found == {i \in DOMAIN disk : Wanted(disk[i])}
    IN [k \in {disk[i].name : i \in found} |->
           disk[CHOOSE i \in found : disk[i].name = k /\ \A j \in found : disk[j].name = k => j <= i]]
Discovered == IF DOMAIN packages # {} THEN packages ELSE Listed
Discovers == (DOMAIN packages # {} \/ ~Spoilt) /\ packages' = Discovered

\* Mutant of Noted: what a session knew of its skills is replaced.
Noted_Anew(record) == [Blank EXCEPT !.named = TRUE]
\* current.setdefault.
Noted(record) == IF record.there THEN record ELSE [Blank EXCEPT !.named = TRUE]

\* prepare_session.  The state is set before the summaries are made of it,
\* which cannot be made of an entry without a name.
Prepare(s) ==
    /\ Counts /\ Discovers
    /\ skills' = [skills EXCEPT ![s] = [k \in SkillNames |-> IF k \in DOMAIN Discovered THEN Noted(@[k]) ELSE @[k]]]
    /\ prepared' = IF \A k \in SkillNames : skills'[s][k].there => skills'[s][k].named
                   THEN prepared \cup {s} ELSE prepared
    /\ UNCHANGED <<disk, modules, path, task>>

\* load_references, by the application or a tool of it, of any session.
LoadReferences(s, k) ==
    /\ Counts /\ Discovers
    /\ IF k \in DOMAIN Discovered
       THEN skills' = [skills EXCEPT ![s][k].there = TRUE, ![s][k].references = TRUE]
       ELSE UNCHANGED skills
    /\ UNCHANGED <<disk, modules, path, prepared, task>>

(***************************************************************************)
(* run_skill: up to the result that is awaited, and from there.            *)
(***************************************************************************)
\* The first root on the path that has the package.
FoundOn(where, package) ==
    LET hits == {i \in DOMAIN where : \E j \in DOMAIN disk : disk[j].root = where[i] /\ disk[j].package = package}
    IN where[CHOOSE i \in hits : \A j \in hits : i <= j]

RunSkill(t, s, k) ==
    /\ task[t].at = "idle" /\ Counts /\ Discovers
    /\ k \in DOMAIN Discovered
    /\ LET d == Discovered[k]
           added == d.root \notin ToSet(path)
           where == IF added THEN <<d.root>> \o path ELSE path
           code == IF d.package \in DOMAIN modules THEN modules[d.package] ELSE FoundOn(where, d.package)
       IN /\ path' = where
          /\ modules' = [p \in DOMAIN modules \cup {d.package} |-> IF p = d.package THEN code ELSE modules[p]]
          /\ task' = [task EXCEPT ![t] = [at |-> "running", session |-> s, skill |-> k, added |-> added, code |-> code]]
    /\ UNCHANGED <<disk, skills, prepared>>

\* Mutant of Restored: the path is restored after a result only.
Restored_OnSuccess(t, ok) ==
    IF task[t].added /\ ok THEN Remove(path, packages[task[t].skill].root) ELSE path
\* The finally block.
Restored(t, ok) ==
    IF task[t].added THEN Remove(path, packages[task[t].skill].root) ELSE path

\* A failed entrypoint, or one that returns no dict, leaves the state alone.
Finish(t, ok) ==
    /\ task[t].at = "running"
    /\ path' = Restored(t, ok)
    /\ skills' = IF ok THEN [skills EXCEPT ![task[t].session][task[t].skill] = [@ EXCEPT !.there = TRUE, !.ran = 1]]
                 ELSE skills
    /\ task' = [task EXCEPT ![t] = Idle]
    /\ UNCHANGED <<disk, packages, modules, prepared, runs>>

\* delete_session.
Delete(s) ==
    /\ Counts
    /\ skills' = [skills EXCEPT ![s] = [k \in SkillNames |-> Absent]]
    /\ prepared' = prepared \ {s}
    /\ UNCHANGED <<disk, packages, modules, path, task>>

Next ==
    \/ \E s \in Sessions : Prepare(s) \/ Delete(s) \/ \E k \in SkillNames : LoadReferences(s, k)
    \/ \E t \in Tasks : \/ \E s \in Sessions, k \in SkillNames : RunSkill(t, s, k)
                        \/ \E ok \in BOOLEAN : Finish(t, ok)

Spec == Init /\ [][Next]_vars
-----------------------------------------------------------------------------
Running == {t \in Tasks : task[t].at = "running"}

\* run_skill: whatever runs at a time, and however it ends, the import path
\* holds the roots of those runs that put them there, each once, and nothing
\* when no skill runs.
PathRestored ==
    /\ \A i, j \in DOMAIN path : path[i] = path[j] => i = j
    /\ ToSet(path) = {packages[task[t].skill].root : t \in {u \in Running : task[u].added}}

\* run_skill: a skill whose package has a name of its own runs its own code.
OwnEntrypoint ==
    \A t \in Running :
        LET d == packages[task[t].skill]
        IN (\A i \in DOMAIN disk : disk[i].package = d.package => disk[i].root = d.root) => task[t].code = d.root

\* prepare_session, run_skill: a session that could be prepared once, so that
\* a run may begin in it, still can, unless it was deleted and a run of a skill
\* that had begun before wrote to it.
StaysPrepared == \A s \in prepared : \A k \in SkillNames : skills[s][k].there => skills[s][k].named

\* prepare_session, load_references, run_skill: what a session knows of its
\* skills is never lost while it is there.
SkillsRemembered ==
    [][\A s \in Sessions, k \in SkillNames :
          \/ /\ skills[s][k].references => skills'[s][k].references
             /\ skills[s][k].ran <= skills'[s][k].ran
          \/ \A j \in SkillNames : skills'[s][j] = Absent]_vars

SkillsFaithful == PathRestored /\ OwnEntrypoint /\ StaysPrepared

\* Statements of the documentation that the code does not meet (README,
\* Disagreements); no run checks them.

\* A skill runs the entrypoint of its own package.
RunsItsEntrypoint == \A t \in Running : task[t].code = packages[task[t].skill].root

\* The root of a skill is on the path as long as it runs.
PathHeld == \A t \in Running : packages[task[t].skill].root \in ToSet(path)

\* A session can always be prepared: only this manager writes its skills.
AlwaysPrepared == \A s \in Sessions, k \in SkillNames : skills[s][k].there => skills[s][k].named
=============================================================================
