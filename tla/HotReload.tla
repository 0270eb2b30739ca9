------------------------------ MODULE HotReload ------------------------------
(***************************************************************************)
(* openagents dev: a config file that is saved while it is watched, by     *)
(* watchdog's observer, whose events start a timer in a thread of its own, *)
(* by polling, or not at all.  A reload loads the file and then puts what  *)
(* it loaded in place; threads may change in between.  What else a reload  *)
(* does is in RuntimeFacade.                                               *)
(***************************************************************************)
EXTENDS Naturals, FiniteSets

CONSTANTS
    None,
    Slots,      \* threads of timers that may exist at once (bound)
    MaxSaves    \* saves of the file (bound)

VARIABLES
    mode,       \* "watchdog", "polling" or "once"
    tells,      \* whether the observer tells of the reading of a file, too
    at,         \* of the main thread: "loaded", "watching", "closing" or "over"
    file,       \* the version in the file, [n, state]
    config,     \* the version in force
    seen,       \* last_mtime of the polling loop, as a version
    events,     \* what the observer has not told yet
    timer,      \* of a slot: "free", "waiting" or "loading"
    latest,     \* state["timer"]
    read,       \* of a slot: the version its reload has loaded
    due, heard  \* the last version a reload has to read, and the last one it did

watched == <<file, config, seen>>
timers == <<events, timer, latest, read>>
vars == <<mode, tells, at, watched, timers, due, heard>>

Version(n, state) == [n |-> n, state |-> state]
Waiting == {t \in Slots : timer[t] = "waiting"}
Most(a, b) == IF a < b THEN b ELSE a

Init ==
    /\ mode \in {"watchdog", "polling", "once"}
    /\ tells \in BOOLEAN /\ (tells => mode = "watchdog")
    /\ at = "loaded" /\ file = Version(0, "valid") /\ config = file /\ seen = 0
    /\ events = 0 /\ timer = [t \in Slots |-> "free"] /\ latest = None
    /\ read = [t \in Slots |-> None]
    /\ due = 0 /\ heard = 0

\* The file is written in place, removed, or replaced by one that was written
\* beside it: of that, the path the observer's event starts from is another.
Save(state, replaced) ==
    /\ file.n < MaxSaves
    /\ file' = Version(file.n + 1, state)
    /\ LET told == mode = "watchdog" /\ ~replaced
       IN /\ events' = IF told /\ at = "watching" THEN events + 1 ELSE events
          /\ due' = IF at = "watching" /\ (told \/ (mode = "polling" /\ state # "absent")) THEN file'.n ELSE due
    /\ UNCHANGED <<mode, tells, at, config, seen, timer, latest, read, heard>>

\* The watch begins after the configuration was loaded.
Watch ==
    /\ at = "loaded" /\ mode # "once"
    /\ at' = "watching"
    /\ seen' = IF file.state = "absent" THEN 0 ELSE file.n
    /\ UNCHANGED <<mode, tells, file, config, timers, due, heard>>
-----------------------------------------------------------------------------
\* Mutant of Adopts: what cannot be parsed is taken over.
Adopts_Anything(v) == v.state # "absent"
\* A ConfigError is logged, and the configuration stays.
Adopts(v) == v.state = "valid"

\* _reload_with_log in the main thread: nothing else reloads meanwhile.
Reload == config' = IF Adopts(file) THEN file ELSE config

\* --no-watch.
Once ==
    /\ mode = "once" /\ at = "loaded"
    /\ Reload /\ at' = "closing"
    /\ UNCHANGED <<mode, tells, file, seen, timers, due, heard>>

\* Mutant of Changed: times of modification too coarse for two saves.
Changed_Coarse == file.n \div 2 # seen \div 2
Changed == file.n # seen

\* A round of the polling loop.
Poll ==
    /\ mode = "polling" /\ at = "watching" /\ file.state # "absent" /\ Changed
    /\ seen' = file.n /\ heard' = file.n
    /\ Reload
    /\ UNCHANGED <<mode, tells, at, file, timers, due>>
-----------------------------------------------------------------------------
\* Mutant of Cancelled: a timer is replaced without being cancelled.
Cancelled_Never == timer
\* Timer.cancel(): one that has gone off goes on.
Cancelled == [t \in Slots |-> IF t = latest /\ timer[t] = "waiting" THEN "free" ELSE timer[t]]

\* Mutant of Reset: a burst that has a timer gets no other.
Reset_Kept(t) ==
    IF latest # None /\ timer[latest] # "free" THEN UNCHANGED <<timer, latest>>
    ELSE timer' = [Cancelled EXCEPT ![t] = "waiting"] /\ latest' = t
Reset(t) == timer' = [Cancelled EXCEPT ![t] = "waiting"] /\ latest' = t

\* The observer tells of an event of this path: _schedule, under its lock.
Schedule(t) ==
    /\ events > 0 /\ at = "watching" /\ Cancelled[t] = "free"
    /\ events' = events - 1
    /\ Reset(t)
    /\ UNCHANGED <<mode, tells, at, watched, read, due, heard>>

\* A timer goes off: load_config reads the file.
Fire(t) ==
    /\ timer[t] = "waiting" /\ at # "over"
    /\ timer' = [timer EXCEPT ![t] = "loading"]
    /\ read' = [read EXCEPT ![t] = file]
    /\ heard' = Most(heard, file.n)
    /\ events' = IF tells /\ at = "watching" /\ file.state # "absent" /\ events = 0 THEN 1 ELSE events
    /\ UNCHANGED <<mode, tells, at, watched, latest, due>>

\* The end of that reload: the configuration is the one it has read.
Apply(t) ==
    /\ timer[t] = "loading" /\ at # "over"
    /\ config' = IF Adopts(read[t]) THEN read[t] ELSE config
    /\ timer' = [timer EXCEPT ![t] = "free"]
    /\ read' = [read EXCEPT ![t] = None]
    /\ UNCHANGED <<mode, tells, at, file, seen, events, latest, due, heard>>
-----------------------------------------------------------------------------
\* Ctrl+C: the observer is stopped, its timers are not.  The threads are
\* daemons: with the process, they end.
Interrupt ==
    /\ at = "watching"
    /\ at' = "closing" /\ events' = 0
    /\ UNCHANGED <<mode, tells, watched, timer, latest, read, due, heard>>

Close ==
    /\ at = "closing" /\ at' = "over"
    /\ UNCHANGED <<mode, tells, watched, timers, due, heard>>

Works(t) == Schedule(t) \/ Fire(t) \/ Apply(t)
Next ==
    \/ \E state \in {"valid", "broken", "absent"}, replaced \in BOOLEAN : Save(state, replaced)
    \/ Watch \/ Once \/ Poll
    \/ \E t \in Slots : Works(t)
    \/ Interrupt \/ Close

\* The loop polls, the observer tells, timers go off and their threads run.
Fairness == WF_vars(Poll) /\ \A t \in Slots : WF_vars(Works(t))

Spec == Init /\ [][Next]_vars /\ Fairness
-----------------------------------------------------------------------------
\* _debounced, _reload_with_log: however saves and timers interleave, one
\* timer at most waits, the one that the next event cancels, so that a burst
\* ends in one reload; and a file that cannot be loaded never takes the place
\* of a configuration.
HotReloadFaithful ==
    /\ Waiting \subseteq {latest}
    /\ config.state = "valid"
    /\ mode = "polling" /\ heard = file.n /\ file.state = "valid" => config = file

\* What is to be reloaded has been read.
CaughtUp == at = "watching" /\ file.state # "absent" => heard >= due
\* _schedule, _watch_polling: what was saved under watch is read by a reload,
\* even when a burst goes on while an earlier reload is still at it; polling,
\* if it is not gone by then.
SavesAreRead == <>[]CaughtUp

\* Statements of the documentation that the code does not meet (README,
\* Disagreements); no run checks them.

\* dev, "Watches the config file for changes": what was read last is in force.
\* A thread that read an older version may be the last to put it in place.
NewestStays ==
    <>[](at = "watching" /\ file.state = "valid" /\ heard = file.n => config = file)

\* _debounced: "a burst of filesystem events (save/replace/truncate)".  Of a
\* replacement nothing is heard; and what is saved before the watch begins is
\* in neither.
ReplacementsAreSeen == <>[](at = "watching" /\ file.state = "valid" => heard >= file.n)

\* dev, "on each change": reloads come to an end.  Where the observer tells of
\* the reading, every reload asks for the next.
ReloadsEnd == <>[](Waiting = {})
=============================================================================
