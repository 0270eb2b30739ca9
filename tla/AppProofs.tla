------------------------------ MODULE AppProofs ------------------------------
(***************************************************************************)
(* What an application's Runtime keeps, for any number of agents, sessions,*)
(* runs and files.  First the bundles of plugins, however requests,        *)
(* reloads, agent reloads and closed sessions meet.  Then delegation:      *)
(* depths are counted, tasks exclude each other from their sessions,       *)
(* children begin with what they were promised, and records are true.      *)
(* Then, a section each: streams of a run's events, the loading of         *)
(* plugins, an application's loggers, the skills of a session, and the     *)
(* watching of a config file.  The last section puts together the parts    *)
(* that serve runs, and those that leave the application as they found it. *)
(***************************************************************************)
EXTENDS MCApp, TLAPS

\* What the inductive steps know of the variables the bundles depend on.
Sorts ==
    /\ bundles \in Seq([agent : Agents, def : SUBSET {1, 2}])
    /\ cached \in [Sessions -> [Agents -> 0..Len(bundles)]]
    /\ closed \subseteq 1..Len(bundles)
    /\ disk \in Files /\ config \in Files
    /\ reload \in [Reloaders -> [at : {"idle", "invalidating", "announcing"}, removed : SUBSET Agents]]
    /\ \A r \in Runs : run[r].at = "preparing" => run[r].agent \in Agents /\ run[r].session \in Sessions
    /\ DOMAIN run = Runs

\* BundlesAccounted, place by place: a bundle is closed or in the cache; it has
\* one place there; the place is its agent's; and it is of an agent that is
\* configured, or that a reload under way has removed.
ClosedOrCached == \A n \in 1..Len(bundles) : n \in closed <=> \A s \in Sessions, a \in Agents : cached[s][a] # n
OnePlace ==
    \A s, t \in Sessions, a, b \in Agents : cached[s][a] # 0 /\ cached[s][a] = cached[t][b] => s = t /\ a = b
OwnAgent == \A s \in Sessions, a \in Agents : cached[s][a] # 0 => bundles[cached[s][a]].agent = a
NoneForgotten ==
    \A s \in Sessions, a \in Agents :
        cached[s][a] # 0 => \/ a \in Configured(config)
                            \/ \E w \in Reloaders : reload[w].at = "invalidating" /\ a \in reload[w].removed

Accounts == Sorts /\ ClosedOrCached /\ OnePlace /\ OwnAgent /\ NoneForgotten

\* A configuration's agents are agents.
LEMMA ConfiguredAreAgents == ASSUME NEW f PROVE Configured(f) \subseteq Agents
BY DEF Configured

\* The runtime starts without bundles.
LEMMA AccountsInit == Init => Accounts
<1> SUFFICES ASSUME Init PROVE Accounts
  OBVIOUS
<1>1. Len(bundles) = 0
  BY DEF Init
<1>2. Sorts
  BY <1>1, FacadeAssumption DEF Init, Sorts, NoReload, NoRun, Reloaders
<1>3. \A s \in Sessions, a \in Agents : cached[s][a] = 0
  BY DEF Init
<1> QED
  BY <1>1, <1>2, <1>3 DEF Accounts, ClosedOrCached, OnePlace, OwnAgent, NoneForgotten

\* A step that leaves the bundles, the cache, the configuration and the reloads
\* alone leaves the accounts as they are.
LEMMA AccountsKept ==
  ASSUME Accounts, UNCHANGED <<cached, bundles, closed, config, reload>>,
         disk' \in Files, DOMAIN run' = Runs,
         \A r \in Runs : run'[r].at = "preparing" => run'[r].agent \in Agents /\ run'[r].session \in Sessions
  PROVE  Accounts'
<1>1. Sorts'
  BY DEF Accounts, Sorts
<1>2. ClosedOrCached' /\ OnePlace' /\ OwnAgent'
  BY DEF Accounts, ClosedOrCached, OnePlace, OwnAgent
<1>3. NoneForgotten'
  BY DEF Accounts, NoneForgotten, Configured
<1> QED
  BY <1>1, <1>2, <1>3 DEF Accounts

\* reload() puts a configuration in place that was in the file, and what it has
\* removed it will drop.
LEMMA SwapAccounted ==
  ASSUME Accounts, NEW w \in Reloaders, reload[w].at = "idle", Swap(w),
         UNCHANGED <<disk, cached, bundles, closed, run>>
  PROVE  Accounts'
<1>1. CASE UNCHANGED <<config, reload>>
  BY <1>1, AccountsKept DEF Accounts, Sorts
<1>2. CASE /\ config' = disk
           /\ reload' = [reload EXCEPT ![w] = [at |-> "invalidating", removed |-> Configured(config) \ Configured(disk)]]
  <2>1. Sorts'
    BY <1>2, ConfiguredAreAgents DEF Accounts, Sorts
  <2>2. ClosedOrCached' /\ OnePlace' /\ OwnAgent'
    BY DEF Accounts, ClosedOrCached, OnePlace, OwnAgent
  <2>3. NoneForgotten'
    <3> SUFFICES ASSUME NEW s \in Sessions, NEW a \in Agents, cached[s][a] # 0, a \notin Configured(disk)
                 PROVE  \E v \in Reloaders : reload'[v].at = "invalidating" /\ a \in reload'[v].removed
      BY <1>2 DEF NoneForgotten, Configured
    <3>1. CASE a \in Configured(config)
      <4>1. reload'[w].at = "invalidating" /\ a \in reload'[w].removed
        BY <1>2, <3>1 DEF Accounts, Sorts
      <4> QED
        BY <4>1
    <3>2. CASE a \notin Configured(config)
      <4>1. PICK v \in Reloaders : reload[v].at = "invalidating" /\ a \in reload[v].removed
        BY <3>2 DEF Accounts, NoneForgotten
      <4>2. v # w /\ reload'[v] = reload[v]
        BY <1>2, <4>1 DEF Accounts, Sorts
      <4> QED
        BY <4>1, <4>2
    <3> QED
      BY <3>1, <3>2
  <2> QED
    BY <2>1, <2>2, <2>3 DEF Accounts
<1> QED
  BY <1>1, <1>2 DEF Swap

\* What is taken out of the cache is closed, and nothing else is; nobody is to
\* be dropped any more for whom a reload was under way only if it is gone.
LEMMA DroppedAccounted ==
  ASSUME Accounts, NEW doomed \in SUBSET (Sessions \X Agents), Dropped(doomed),
         UNCHANGED <<disk, config, bundles, run>>,
         reload' \in [Reloaders -> [at : {"idle", "invalidating", "announcing"}, removed : SUBSET Agents]],
         \A w \in Reloaders, a \in Agents :
             reload[w].at = "invalidating" /\ a \in reload[w].removed =>
                 \/ reload'[w] = reload[w]
                 \/ \A s \in Sessions : <<s, a>> \in doomed
  PROVE  Accounts'
<1> DEFINE gone == {cached[p[1]][p[2]] : p \in doomed} \ {0}
<1>1. \A s \in Sessions, a \in Agents : cached'[s][a] = IF <<s, a>> \in doomed THEN 0 ELSE cached[s][a]
  BY DEF Dropped
<1>2. closed' = closed \cup gone
  BY DEF Dropped
<1>3. \A s \in Sessions, a \in Agents : cached[s][a] \in 0..Len(bundles)
  BY DEF Accounts, Sorts
<1>9. \A n : n \in gone <=> n # 0 /\ \E s \in Sessions, a \in Agents : <<s, a>> \in doomed /\ cached[s][a] = n
  <2>1. ASSUME NEW n \in gone
        PROVE  n # 0 /\ \E s \in Sessions, a \in Agents : <<s, a>> \in doomed /\ cached[s][a] = n
    <3>1. PICK p \in doomed : n = cached[p[1]][p[2]]
      BY <2>1
    <3>2. PICK s \in Sessions, a \in Agents : p = <<s, a>>
      OBVIOUS
    <3>3. <<s, a>> \in doomed /\ cached[s][a] = n
      BY <3>1, <3>2
    <3> QED
      BY <2>1, <3>3
  <2>2. ASSUME NEW n, n # 0, NEW s \in Sessions, NEW a \in Agents, <<s, a>> \in doomed, cached[s][a] = n
        PROVE  n \in gone
    <3>1. <<s, a>>[1] = s /\ <<s, a>>[2] = a
      OBVIOUS
    <3> QED
      BY <2>2, <3>1
  <2> HIDE DEF gone
  <2> QED
    BY <2>1, <2>2, Zenon
<1> HIDE DEF gone
<1>4. gone \subseteq 1..Len(bundles)
  <2> SUFFICES ASSUME NEW n \in gone PROVE n \in 1..Len(bundles)
    OBVIOUS
  <2>0. PICK s \in Sessions, a \in Agents : <<s, a>> \in doomed /\ cached[s][a] = n
    BY <1>9
  <2>1. n # 0 /\ n \in 0..Len(bundles)
    BY <1>3, <1>9, <2>0
  <2>2. Len(bundles) \in Nat
    BY DEF Accounts, Sorts
  <2> QED
    BY <2>1, <2>2
<1>5. Sorts'
  <2>1. cached' \in [Sessions -> [Agents -> 0..Len(bundles)]]
    BY <1>3 DEF Dropped, Accounts, Sorts
  <2> QED
    BY <1>2, <1>4, <2>1 DEF Accounts, Sorts
<1>6. ClosedOrCached'
  <2> SUFFICES ASSUME NEW n \in 1..Len(bundles)
               PROVE  n \in closed' <=> \A s \in Sessions, a \in Agents : cached'[s][a] # n
    BY DEF ClosedOrCached
  <2>1. n # 0
    BY DEF Accounts, Sorts
  <2>2. CASE \E s \in Sessions, a \in Agents : <<s, a>> \in doomed /\ cached[s][a] = n
    <3>1. PICK s \in Sessions, a \in Agents : <<s, a>> \in doomed /\ cached[s][a] = n
      BY <2>2
    <3>2. n \in closed'
      BY <1>2, <1>9, <2>1, <3>1
    <3>3. ASSUME NEW t \in Sessions, NEW b \in Agents, <<t, b>> \notin doomed PROVE cached[t][b] # n
      BY <2>1, <3>1, <3>3 DEF Accounts, OnePlace
    <3>4. \A t \in Sessions, b \in Agents : cached'[t][b] # n
      BY <1>1, <2>1, <3>3
    <3> QED
      BY <3>2, <3>4
  <2>3. CASE ~\E s \in Sessions, a \in Agents : <<s, a>> \in doomed /\ cached[s][a] = n
    <3>1. n \in closed' <=> n \in closed
      BY <1>2, <1>9, <2>3
    <3>2. ASSUME NEW s \in Sessions, NEW a \in Agents PROVE cached'[s][a] = n <=> cached[s][a] = n
      BY <1>1, <2>1, <2>3
    <3> QED
      BY <3>1, <3>2 DEF Accounts, ClosedOrCached
  <2> QED
    BY <2>2, <2>3
<1>7. OnePlace' /\ OwnAgent'
  <2>1. \A s \in Sessions, a \in Agents : cached'[s][a] # 0 => cached'[s][a] = cached[s][a]
    BY <1>1
  <2>2. OnePlace'
    BY <2>1 DEF Accounts, OnePlace
  <2>3. OwnAgent'
    BY <2>1 DEF Accounts, OwnAgent
  <2> QED
    BY <2>2, <2>3
<1>8. NoneForgotten'
  <2> SUFFICES ASSUME NEW s \in Sessions, NEW a \in Agents, cached'[s][a] # 0, a \notin Configured(config)
               PROVE  \E w \in Reloaders : reload'[w].at = "invalidating" /\ a \in reload'[w].removed
    BY DEF NoneForgotten, Configured
  <2>1. cached[s][a] # 0 /\ <<s, a>> \notin doomed
    BY <1>1
  <2>2. PICK w \in Reloaders : reload[w].at = "invalidating" /\ a \in reload[w].removed
    BY <2>1 DEF Accounts, NoneForgotten
  <2>3. reload'[w] = reload[w]
    BY <2>1, <2>2
  <2> QED
    BY <2>2, <2>3
<1> QED
  BY <1>5, <1>6, <1>7, <1>8 DEF Accounts

\* A run that begins takes the bundle in the cache, or leaves a new one there,
\* of an agent that is configured.
LEMMA PickAccounted == ASSUME Accounts, NEW r \in Runs, Pick(r) PROVE Accounts'
<1> DEFINE a == run[r].agent
           s == run[r].session
           new == Len(bundles) + 1
<1>1. a \in Agents /\ s \in Sessions /\ Len(bundles) \in Nat /\ cached[s][a] \in 0..Len(bundles)
  BY DEF Accounts, Sorts, Pick
<1>2. UNCHANGED <<disk, config, closed, reload>>
  BY DEF Pick
<1>3. /\ DOMAIN run' = Runs
      /\ \A q \in Runs : run'[q].at = "preparing" => run'[q].agent \in Agents /\ run'[q].session \in Sessions
  BY DEF Accounts, Sorts, Pick, Goto
<1>4. CASE cached[s][a] # 0 \/ a \notin Configured(config)
  <2>1. cached' = [cached EXCEPT ![s][a] = cached[s][a]] /\ bundles' = bundles
    <3>1. new # 0 /\ cached[s][a] # new
      BY <1>1
    <3>2. CASE cached[s][a] # 0
      BY <3>1, <3>2 DEF Pick
    <3>3. CASE cached[s][a] = 0 /\ a \notin Configured(config)
      BY <3>1, <3>3 DEF Pick
    <3> QED
      BY <1>4, <3>2, <3>3
  <2>2. cached' = cached
    BY <1>1, <2>1 DEF Accounts, Sorts
  <2> QED
    BY <1>2, <1>3, <2>1, <2>2, AccountsKept DEF Accounts, Sorts
<1>5. CASE cached[s][a] = 0 /\ a \in Configured(config)
  <2>1. /\ cached' = [cached EXCEPT ![s][a] = new]
        /\ bundles' = Append(bundles, [agent |-> a, def |-> config.agents[a]])
    BY <1>1, <1>5 DEF Pick
  <2>2. \A t \in Sessions, b \in Agents :
            cached'[t][b] = IF t = s /\ b = a THEN new ELSE cached[t][b]
    BY <1>1, <2>1 DEF Accounts, Sorts
  <2>3. \A t \in Sessions, b \in Agents : cached[t][b] \in 0..Len(bundles)
    BY DEF Accounts, Sorts
  <2>4. config.agents[a] \in SUBSET {1, 2}
    BY <1>1, FacadeAssumption DEF Accounts, Sorts
  <2>5. bundles' \in Seq([agent : Agents, def : SUBSET {1, 2}]) /\ Len(bundles') = new
    BY <1>1, <2>1, <2>4 DEF Accounts, Sorts
  <2>6. bundles'[new].agent = a /\ \A n \in 1..Len(bundles) : bundles'[n] = bundles[n]
    BY <1>1, <2>1, <2>4 DEF Accounts, Sorts
  <2>7. Sorts'
    <3>1. cached' \in [Sessions -> [Agents -> 0..new]]
      BY <1>1, <2>1 DEF Accounts, Sorts
    <3>2. closed' \subseteq 1..new
      BY <1>1, <1>2 DEF Accounts, Sorts
    <3> QED
      BY <1>2, <1>3, <2>5, <3>1, <3>2 DEF Accounts, Sorts
  <2>8. ClosedOrCached'
    <3> SUFFICES ASSUME NEW n \in 1..new
                 PROVE  n \in closed <=> \A t \in Sessions, b \in Agents : cached'[t][b] # n
      BY <1>2, <2>5 DEF ClosedOrCached
    <3>1. CASE n = new
      <4>1. n \notin closed
        BY <1>1, <3>1 DEF Accounts, Sorts
      <4> QED
        BY <1>1, <2>2, <3>1, <4>1
    <3>2. CASE n # new
      <4>1. n \in 1..Len(bundles)
        BY <1>1, <3>2
      <4>2. \A t \in Sessions, b \in Agents : cached'[t][b] = n <=> cached[t][b] = n
        BY <1>1, <1>5, <2>2, <3>2, <4>1
      <4> QED
        BY <4>1, <4>2 DEF Accounts, ClosedOrCached
    <3> QED
      BY <3>1, <3>2
  <2>9. OnePlace'
    <3>1. \A t \in Sessions, b \in Agents : cached[t][b] # new
      BY <1>1, <2>3
    <3> QED
      BY <2>2, <3>1 DEF Accounts, OnePlace
  <2>10. OwnAgent'
    <3> SUFFICES ASSUME NEW t \in Sessions, NEW b \in Agents, cached'[t][b] # 0
                 PROVE  bundles'[cached'[t][b]].agent = b
      BY DEF OwnAgent
    <3>1. CASE t = s /\ b = a
      BY <2>2, <2>6, <3>1
    <3>2. CASE ~(t = s /\ b = a)
      <4>1. cached'[t][b] = cached[t][b] /\ cached[t][b] \in 1..Len(bundles)
        BY <1>1, <2>2, <2>3, <3>2
      <4> QED
        BY <2>6, <4>1 DEF Accounts, OwnAgent
    <3> QED
      BY <3>1, <3>2
  <2>11. NoneForgotten'
    <3> SUFFICES ASSUME NEW t \in Sessions, NEW b \in Agents, cached'[t][b] # 0, b \notin Configured(config)
                 PROVE  \E w \in Reloaders : reload[w].at = "invalidating" /\ b \in reload[w].removed
      BY <1>2 DEF NoneForgotten, Configured
    <3>1. cached[t][b] # 0
      BY <1>5, <2>2
    <3> QED
      BY <3>1 DEF Accounts, NoneForgotten
  <2> QED
    BY <2>7, <2>8, <2>9, <2>10, <2>11 DEF Accounts
<1> QED
  BY <1>4, <1>5

\* Every step of the application and of its reloads keeps the accounts.
LEMMA AccountsStep == ASSUME Accounts, [Next]_vars PROVE Accounts'
<1>1. CASE UNCHANGED vars
  BY <1>1, AccountsKept DEF vars, Accounts, Sorts
<1>2. ASSUME NEW f \in Files, NEW older \in BOOLEAN, Edit(f, older) PROVE Accounts'
  BY <1>2, AccountsKept DEF Edit, Accounts, Sorts
<1>3. CASE Notice
  BY <1>3, SwapAccounted DEF Notice, Reloaders
<1>4. CASE Ask
  BY <1>4, SwapAccounted DEF Ask, Reloaders
<1>5. ASSUME NEW w \in Reloaders, Drop(w) PROVE Accounts'
  <2> DEFINE doomed == Sessions \X reload[w].removed
  <2>1. reload[w].removed \subseteq Agents
    BY DEF Accounts, Sorts
  <2>2. doomed \in SUBSET (Sessions \X Agents)
    BY <2>1
  <2>3. reload' \in [Reloaders -> [at : {"idle", "invalidating", "announcing"}, removed : SUBSET Agents]]
    BY <1>5 DEF Drop, Accounts, Sorts
  <2>4. ASSUME NEW v \in Reloaders, NEW a \in Agents, reload[v].at = "invalidating" /\ a \in reload[v].removed
        PROVE  reload'[v] = reload[v] \/ \A s \in Sessions : <<s, a>> \in doomed
    BY <1>5, <2>4 DEF Drop, Accounts, Sorts
  <2>5. Dropped(doomed) /\ UNCHANGED <<disk, config, bundles, run>>
    BY <1>5 DEF Drop
  <2> HIDE DEF doomed
  <2> QED
    BY <2>2, <2>3, <2>4, <2>5, DroppedAccounted
<1>6. ASSUME NEW w \in Reloaders, Announced(w) PROVE Accounts'
  <2>1. reload[w].at = "announcing" /\ reload' = [reload EXCEPT ![w] = NoReload]
    BY <1>6 DEF Announced
  <2>2. UNCHANGED <<disk, config, cached, bundles, closed, run>>
    BY <1>6 DEF Announced
  <2>3. \A v \in Reloaders : reload[v].at = "invalidating" => reload'[v] = reload[v]
    BY <2>1 DEF Accounts, Sorts
  <2>4. Sorts'
    BY <2>1, <2>2 DEF Accounts, Sorts, NoReload
  <2>5. ClosedOrCached' /\ OnePlace' /\ OwnAgent'
    BY <2>2 DEF Accounts, ClosedOrCached, OnePlace, OwnAgent
  <2>6. NoneForgotten'
    BY <2>2, <2>3 DEF Accounts, NoneForgotten, Configured
  <2> QED
    BY <2>4, <2>5, <2>6 DEF Accounts
<1>7. ASSUME NEW b \in Agents, ReloadAgent(b) PROVE Accounts'
  <2>1. Dropped(Sessions \X {b}) /\ UNCHANGED <<disk, config, bundles, run, reload>>
    BY <1>7 DEF ReloadAgent
  <2> QED
    BY <2>1, DroppedAccounted DEF Accounts, Sorts
<1>8. ASSUME NEW s \in Sessions, CloseSession(s) PROVE Accounts'
  <2>1. Dropped({s} \X Agents) /\ UNCHANGED <<disk, config, bundles, run, reload>>
    BY <1>8 DEF CloseSession
  <2> QED
    BY <2>1, DroppedAccounted DEF Accounts, Sorts
<1>9. ASSUME NEW r \in Runs, NEW a \in Agents, NEW s \in Sessions, NEW routed \in BOOLEAN, Request(r, a, s, routed)
      PROVE  Accounts'
  <2>1. UNCHANGED <<disk, cached, bundles, closed, config, reload>>
    BY <1>9 DEF Request
  <2>2. /\ DOMAIN run' = Runs
        /\ run'[r].agent = a /\ run'[r].session = s
        /\ \A q \in Runs : q # r => run'[q] = run[q]
    BY <1>9 DEF Request, Goto, NoRun, Accounts, Sorts
  <2> QED
    BY <2>1, <2>2, AccountsKept DEF Accounts, Sorts
<1>10. ASSUME NEW r \in Runs, Pick(r) PROVE Accounts'
  BY <1>10, PickAccounted
<1>11. ASSUME NEW r \in Runs, Finish(r) PROVE Accounts'
  <2>1. UNCHANGED <<disk, cached, bundles, closed, config, reload>>
    BY <1>11 DEF Finish
  <2>2. DOMAIN run' = Runs /\ run'[r].at = "new" /\ \A q \in Runs : q # r => run'[q] = run[q]
    BY <1>11 DEF Finish, Goto, NoRun, Accounts, Sorts
  <2> QED
    BY <2>1, <2>2, AccountsKept DEF Accounts, Sorts
<1> QED
  BY <1>1, <1>2, <1>3, <1>4, <1>5, <1>6, <1>7, <1>8, <1>9, <1>10, <1>11 DEF Next, Reload

\* The parts of the invariant say what BundlesAccounted says.
LEMMA AccountsMean == Accounts => BundlesAccounted
<1> SUFFICES ASSUME Accounts PROVE BundlesAccounted
  OBVIOUS
<1> DEFINE holders(n) == {p \in Sessions \X Agents : cached[p[1]][p[2]] = n}
<1>1. ASSUME NEW n, NEW p \in holders(n)
      PROVE  \E s \in Sessions, a \in Agents : p = <<s, a>> /\ cached[s][a] = n /\ p[2] = a
  <2>1. PICK s \in Sessions, a \in Agents : p = <<s, a>>
    OBVIOUS
  <2>2. p[1] = s /\ p[2] = a
    BY <2>1
  <2> QED
    BY <2>1, <2>2
<1>2. ASSUME NEW n, NEW s \in Sessions, NEW a \in Agents, cached[s][a] = n PROVE <<s, a>> \in holders(n)
  <2>1. <<s, a>>[1] = s /\ <<s, a>>[2] = a
    OBVIOUS
  <2> QED
    BY <1>2, <2>1
<1> HIDE DEF holders
<1>3. ASSUME NEW n \in 1..Len(bundles)
      PROVE  /\ n \in closed <=> holders(n) = {}
             /\ \A p, q \in holders(n) : p = q
             /\ \A p \in holders(n) : p[2] = bundles[n].agent
  <2>1. n # 0
    BY DEF Accounts, Sorts
  <2>2. holders(n) = {} <=> \A s \in Sessions, a \in Agents : cached[s][a] # n
    BY <1>1, <1>2
  <2>3. n \in closed <=> holders(n) = {}
    BY <2>2 DEF Accounts, ClosedOrCached
  <2>4. ASSUME NEW p \in holders(n), NEW q \in holders(n) PROVE p = q
    <3>1. PICK s \in Sessions, a \in Agents : p = <<s, a>> /\ cached[s][a] = n
      BY <1>1
    <3>2. PICK t \in Sessions, b \in Agents : q = <<t, b>> /\ cached[t][b] = n
      BY <1>1
    <3>3. s = t /\ a = b
      BY <2>1, <3>1, <3>2 DEF Accounts, OnePlace
    <3> QED
      BY <3>1, <3>2, <3>3
  <2>5. ASSUME NEW p \in holders(n) PROVE p[2] = bundles[n].agent
    <3>1. PICK s \in Sessions, a \in Agents : cached[s][a] = n /\ p[2] = a
      BY <1>1
    <3> QED
      BY <2>1, <3>1 DEF Accounts, OwnAgent
  <2> QED
    BY <2>3, <2>4, <2>5
<1>4. NoneForgotten
  BY DEF Accounts
<1> QED
  BY <1>3, <1>4 DEF BundlesAccounted, NoneForgotten, holders

\* reload, reload_agent, close_session, _get_plugins_for_session: every bundle
\* is in the cache at one place, its agent's, or closed, and none is kept for
\* an agent that is configured no more once the reload that removed it has
\* come past its awaits; whatever the file is made to hold, and when.
THEOREM BundlesAreAccounted == Spec => []BundlesAccounted
<1>1. Init => Accounts
  BY AccountsInit
<1>2. Accounts /\ [Next]_vars => Accounts'
  BY AccountsStep
<1>3. Accounts => BundlesAccounted
  BY AccountsMean
<1> QED
  BY <1>1, <1>2, <1>3, PTL DEF Spec

\* Pick is the only step that puts a run to work: nobody is "executing" after
\* any other step who was not before.
LEMMA OnlyPicked ==
  ASSUME Accounts, [Next]_vars, NEW r \in Runs, run[r].at # "executing", run'[r].at = "executing"
  PROVE  Pick(r)
<1>1. DOMAIN run = Runs
  BY DEF Accounts, Sorts
<1>2. CASE run' = run
  BY <1>2
<1>3. ASSUME NEW q \in Runs, NEW a \in Agents, NEW s \in Sessions, NEW routed \in BOOLEAN,
             Request(q, a, s, routed)
      PROVE  FALSE
  <2>1. run'[q].at \in {"preparing", "refused"} /\ \A p \in Runs : p # q => run'[p] = run[p]
    BY <1>1, <1>3 DEF Request, Goto, NoRun
  <2> QED
    BY <2>1
<1>4. ASSUME NEW q \in Runs, Pick(q) PROVE q = r
  <2>1. \A p \in Runs : p # q => run'[p] = run[p]
    BY <1>1, <1>4 DEF Pick, Goto
  <2> QED
    BY <2>1
<1>5. ASSUME NEW q \in Runs, Finish(q) PROVE FALSE
  <2>1. run'[q].at = "new" /\ \A p \in Runs : p # q => run'[p] = run[p]
    BY <1>1, <1>5 DEF Finish, Goto, NoRun
  <2> QED
    BY <2>1
<1>6. (\E q \in Runs : Pick(q) \/ Finish(q)) \/ run' = run
       \/ \E q \in Runs, a \in Agents, s \in Sessions, routed \in BOOLEAN : Request(q, a, s, routed)
  BY DEF Next, vars, Edit, Notice, Ask, Reload, Drop, Announced, ReloadAgent, CloseSession
<1> QED
  BY <1>2, <1>3, <1>4, <1>5, <1>6

\* The bundle with which a run begins is the one in the cache, or new: no reload
\* and no closed session has closed it.
LEMMA PicksLiveBundle ==
  ASSUME Accounts, NEW r \in Runs, Pick(r), run'[r].at = "executing"
  PROVE  run'[r].agent \in Configured(config) /\ run'[r].bundle \notin closed
<1> DEFINE a == run[r].agent
           s == run[r].session
           old == cached[s][a]
           new == Len(bundles) + 1
           bundle == IF old # 0 THEN old ELSE IF a \in Configured(config) THEN new ELSE 0
<1>1. a \in Agents /\ s \in Sessions /\ Len(bundles) \in Nat /\ old \in 0..Len(bundles)
  BY DEF Accounts, Sorts, Pick
<1>2. /\ run'[r].agent = a /\ run'[r].bundle = bundle
      /\ run'[r].at = IF bundle # 0 /\ Executes(a) THEN "executing" ELSE "refused"
  BY DEF Pick, Goto, Accounts, Sorts
<1>3. a \in Configured(config) /\ bundle # 0
  BY <1>2 DEF Executes
<1>4. CASE old # 0
  <2>1. old \in 1..Len(bundles)
    BY <1>1, <1>4
  <2>2. old \notin closed
    BY <1>1, <2>1 DEF Accounts, ClosedOrCached
  <2> QED
    BY <1>2, <1>3, <1>4, <2>2
<1>5. CASE old = 0
  <2>1. new \notin closed
    BY <1>1 DEF Accounts, Sorts
  <2> QED
    BY <1>2, <1>3, <1>5, <2>1
<1> QED
  BY <1>4, <1>5

\* run_detailed: a run begins with an agent that is configured at that moment
\* and a bundle that nobody has closed, whatever has been reloaded or closed
\* since it was asked for.
THEOREM RunsBeginKnown == Spec => RunsKnown
<1>1. Init => Accounts
  BY AccountsInit
<1>2. Accounts /\ [Next]_vars => Accounts'
  BY AccountsStep
<1>3. Accounts /\ [Next]_vars =>
         [\A r \in Runs : run[r].at # "executing" /\ run'[r].at = "executing" =>
              run'[r].agent \in Configured(config) /\ run'[r].bundle \notin closed]_vars
  BY OnlyPicked, PicksLiveBundle
<1> QED
  BY <1>1, <1>2, <1>3, PTL DEF Spec, RunsKnown
-----------------------------------------------------------------------------
Hows == {"completed", "failed", "cancelled", "handed", None}
RunRecs ==
    [at : {"off", "asked", "running", "delegating", "over"}, how : Hows, parent : Ids \cup {None}, depth : Nat,
     task : Ids \cup {None}, isolation : {"shared", "forked", "isolated", None}, session : Delegated!RunSessions,
     acquired : BOOLEAN, child : Ids \cup {None}, transfer : BOOLEAN, tries : Nat,
     copied : Seq(Ids), found : Seq(Ids)]
TreeSorts ==
    /\ limit \in Nat
    /\ delegated \in [Ids -> RunRecs]
    /\ states \in [Delegated!RunSessions -> Seq(Ids)]
    /\ owner \in [Delegated!RunSessions -> Ids \cup {None}]
    /\ info \in [Ids -> {None, "running", "completed", "failed"}]

Inside(r) == delegated[r].at \in {"running", "delegating"}
Live(r) == delegated[r].at = "asked" \/ Inside(r)
Begun(r) == Inside(r) \/ delegated[r].at = "over"

\* The tree of delegations.
Placed(r) ==
    /\ delegated[r].at = "off" => delegated[r] = Delegated!NoRun
    /\ delegated[r].parent # None =>
          /\ delegated[delegated[r].parent].at # "off"
          /\ delegated[r].depth = delegated[delegated[r].parent].depth + 1 /\ delegated[r].depth <= limit
    /\ delegated[r].at # "off" => delegated[r].task \in Ids /\ delegated[delegated[r].task].at # "off"
    /\ delegated[r].at = "delegating" =>
          /\ delegated[r].child \in Ids /\ delegated[delegated[r].child].at # "off"
          /\ delegated[delegated[r].child].task = delegated[r].task /\ delegated[delegated[r].child].parent = r
TreeInv == TreeSorts /\ \A r \in Ids : Placed(r)

\* The runs of a task: of two, the shallower waits for the other; and a run
\* whose child is over has nobody below it.
Stacked(r, q) ==
    Live(r) /\ Live(q) /\ r # q /\ delegated[r].task = delegated[q].task =>
        delegated[r].depth # delegated[q].depth /\ (delegated[r].depth < delegated[q].depth => delegated[r].at = "delegating")
Topmost(r) ==
    delegated[r].at = "delegating" /\ delegated[delegated[r].child].at = "over" =>
        \A q \in Ids : Live(q) /\ delegated[q].task = delegated[r].task => delegated[q].depth <= delegated[r].depth
StackInv == (\A r, q \in Ids : Stacked(r, q)) /\ \A r \in Ids : Topmost(r)

\* The runs in a session: of its holder's task all, and whoever entered it
\* first above the others.
Holds(r) == Inside(r) => owner[delegated[r].session] = delegated[r].task
Outlasts(r, q) ==
    Inside(r) /\ Inside(q) /\ r # q /\ delegated[r].session = delegated[q].session /\ delegated[r].acquired
        => delegated[r].depth < delegated[q].depth
LockInv == (\A r \in Ids : Holds(r)) /\ \A r, q \in Ids : Outlasts(r, q)

\* Sessions that are new belong to their run until it begins, and a copy that
\* was made once is what it was made from until then.
Named(r) ==
    /\ delegated[r].isolation = "isolated" => delegated[r].session = Delegated!New(r)
    /\ delegated[r].isolation = "forked" => \E p \in Ids : delegated[r].session = Delegated!ForkOf(p)
    /\ \A c \in Ids \ {r} : delegated[r].session = Delegated!New(c) => Begun(c)
    /\ delegated[r].session = Delegated!New(r) => delegated[r].at # "off"
Alone(c) == \A d \in Ids \ {c} : delegated[d].session # delegated[c].session
Starts(c) ==
    /\ ~Begun(c) => states[Delegated!New(c)] = <<>>
    /\ delegated[c].isolation = "isolated" /\ Begun(c) => delegated[c].found = <<>>
    /\ delegated[c].isolation = "forked" /\ Alone(c) =>
          /\ delegated[c].at = "asked" => states[delegated[c].session] = delegated[c].copied
          /\ Begun(c) => delegated[c].found = delegated[c].copied
SessionInv == \A r \in Ids : Named(r) /\ Starts(r)

\* The names of sessions do not collide.
LEMMA SessionsDiffer ==
  /\ Delegated!Main \in Delegated!RunSessions
  /\ \A r \in Ids : Delegated!ForkOf(r) \in Delegated!RunSessions /\ Delegated!New(r) \in Delegated!RunSessions
  /\ \A r, c \in Ids : Delegated!ForkOf(r) # Delegated!New(c)
  /\ \A r \in Ids : Delegated!ForkOf(r) # Delegated!Main /\ Delegated!New(r) # Delegated!Main
  /\ \A r, c \in Ids : Delegated!New(r) = Delegated!New(c) => r = c
BY DEF Delegated!Main, Delegated!ForkOf, Delegated!New, Delegated!RunSessions

\* A run that has not begun is of the records runs are of.
LEMMA NoRunSorts == Delegated!NoRun \in RunRecs
BY SessionsDiffer DEF Delegated!NoRun, RunRecs, Hows

\* At first there is no tree: every run is off.
LEMMA TreeInvInit == Delegated!DelegationAssumption /\ Delegated!Init => TreeInv
<1> SUFFICES ASSUME Delegated!DelegationAssumption, Delegated!Init PROVE TreeInv
  OBVIOUS
<1>1. TreeSorts
  <2>1. limit \in Nat /\ states \in [Delegated!RunSessions -> Seq(Ids)]
    BY DEF Delegated!Init, Delegated!DelegationAssumption
  <2> QED
    BY <2>1, NoRunSorts DEF Delegated!Init, TreeSorts
<1>2. ASSUME NEW r \in Ids PROVE Placed(r)
  <2>1. delegated[r] = Delegated!NoRun
    BY DEF Delegated!Init
  <2>2. Delegated!NoRun.at = "off" /\ Delegated!NoRun.parent = None
    BY DEF Delegated!NoRun
  <2> QED
    BY <2>1, <2>2 DEF Placed
<1> QED
  BY <1>1, <1>2 DEF TreeInv

\* What a run was asked for does not change.
Stays(r) ==
    /\ delegated'[r].parent = delegated[r].parent /\ delegated'[r].depth = delegated[r].depth /\ delegated'[r].task = delegated[r].task
    /\ delegated'[r].isolation = delegated[r].isolation /\ delegated'[r].session = delegated[r].session /\ delegated'[r].copied = delegated[r].copied

\* A run goes on or ends, and the others are left as they are.
Moves(r) ==
    /\ Live(r) /\ Stays(r) /\ delegated'[r].at \in {"running", "over"}
    /\ \A q \in Ids \ {r} : delegated'[q] = delegated[q]
    /\ limit' = limit

\* A run that goes on or ends leaves the tree as it is.
LEMMA MovesTree ==
  ASSUME TreeInv, TreeSorts', NEW r \in Ids, Moves(r)
  PROVE  TreeInv'
<1>1. \A q \in Ids : Stays(q) /\ (delegated[q].at # "off" => delegated'[q].at # "off")
  BY DEF Moves, Stays
<1>2. ASSUME NEW q \in Ids PROVE Placed(q)'
  <2>1. Placed(q) /\ delegated[q].parent \in Ids \cup {None} /\ delegated[q].task \in Ids \cup {None} /\ delegated[q] \in RunRecs
    BY DEF TreeInv, TreeSorts, RunRecs
  <2>2. delegated'[q].at = "off" => delegated'[q] = Delegated!NoRun
    BY <2>1 DEF Moves, Placed
  <2>3. delegated'[q].parent # None =>
           /\ delegated'[delegated'[q].parent].at # "off"
           /\ delegated'[q].depth = delegated'[delegated'[q].parent].depth + 1 /\ delegated'[q].depth <= limit'
    <3>1. SUFFICES ASSUME delegated[q].parent # None
                   PROVE  /\ delegated'[delegated[q].parent].at # "off"
                          /\ delegated'[q].depth = delegated'[delegated[q].parent].depth + 1 /\ delegated'[q].depth <= limit'
      BY <1>1 DEF Stays
    <3>2. delegated[q].parent \in Ids
      BY <2>1, <3>1
    <3> QED
      BY <1>1, <2>1, <3>1, <3>2 DEF Placed, Stays, Moves
  <2>4. delegated'[q].at # "off" => delegated'[q].task \in Ids /\ delegated'[delegated'[q].task].at # "off"
    <3>1. (delegated[q].at # "off" /\ delegated'[q].task = delegated[q].task) \/ delegated'[q].at = "off"
      BY <1>1 DEF Moves, Stays, Live, Inside
    <3> QED
      BY <1>1, <2>1, <3>1 DEF Placed
  <2>5. delegated'[q].at = "delegating" =>
          /\ delegated'[q].child \in Ids /\ delegated'[delegated'[q].child].at # "off"
          /\ delegated'[delegated'[q].child].task = delegated'[q].task /\ delegated'[delegated'[q].child].parent = q
    <3>1. delegated'[q].at = "delegating" => delegated'[q] = delegated[q]
      BY DEF Moves
    <3> QED
      BY <1>1, <2>1, <3>1 DEF Placed, Stays
  <2> QED
    BY <2>2, <2>3, <2>4, <2>5 DEF Placed
<1> QED
  BY <1>2 DEF TreeInv

\* The steps that move one run.
LEMMA EnterMoves ==
  ASSUME TreeInv, NEW r \in Ids, Delegated!Enter(r)
  PROVE  /\ TreeSorts' /\ Moves(r) /\ delegated[r].at = "asked" /\ delegated'[r].at = "running"
         /\ owner[delegated[r].session] \in {None, delegated[r].task} /\ owner' = [owner EXCEPT ![delegated[r].session] = delegated[r].task]
         /\ delegated'[r].acquired = (owner[delegated[r].session] = None) /\ delegated'[r].found = states[delegated[r].session]
         /\ UNCHANGED <<limit, states, info>>
<1> DEFINE w == [delegated[r] EXCEPT !.at = "running", !.acquired = owner[delegated[r].session] = None, !.found = states[delegated[r].session]]
<1>1. /\ delegated[r].at = "asked" /\ owner[delegated[r].session] \in {None, delegated[r].task} /\ delegated' = [delegated EXCEPT ![r] = w]
      /\ owner' = [owner EXCEPT ![delegated[r].session] = delegated[r].task] /\ UNCHANGED <<limit, states, info>>
  BY DEF Delegated!Enter, Delegated!Put
<1>2. delegated[r] \in RunRecs /\ delegated[r].session \in Delegated!RunSessions /\ states[delegated[r].session] \in Seq(Ids) /\ delegated[r].task \in Ids
  <2>1. delegated[r] \in RunRecs /\ delegated[r].session \in Delegated!RunSessions
    BY DEF TreeInv, TreeSorts, RunRecs
  <2>2. delegated[r].task \in Ids
    BY <1>1 DEF TreeInv, Placed
  <2> QED
    BY <2>1, <2>2 DEF TreeInv, TreeSorts
<1>3. /\ w \in RunRecs /\ w.at = "running" /\ w.acquired = (owner[delegated[r].session] = None)
      /\ w.found = states[delegated[r].session]
      /\ w.parent = delegated[r].parent /\ w.depth = delegated[r].depth /\ w.task = delegated[r].task
      /\ w.isolation = delegated[r].isolation /\ w.session = delegated[r].session /\ w.copied = delegated[r].copied
  BY <1>2 DEF RunRecs
<1> HIDE DEF w
<1>4. delegated'[r] = w /\ delegated' \in [Ids -> RunRecs] /\ \A q \in Ids \ {r} : delegated'[q] = delegated[q]
  BY <1>1, <1>3 DEF TreeInv, TreeSorts
<1>5. TreeSorts'
  BY <1>1, <1>2, <1>4 DEF TreeInv, TreeSorts
<1> QED
  BY <1>1, <1>3, <1>4, <1>5 DEF Moves, Stays, Live

\* A refused delegation only counts as one tried.
LEMMA RefusedMoves ==
  ASSUME TreeInv, NEW r \in Ids, Delegated!Refused(r)
  PROVE  /\ TreeSorts' /\ Moves(r) /\ delegated[r].at = "running" /\ delegated'[r].at = "running"
         /\ delegated'[r].acquired = delegated[r].acquired /\ delegated'[r].found = delegated[r].found
         /\ UNCHANGED <<limit, states, owner, info>>
<1> DEFINE w == [delegated[r] EXCEPT !.tries = @ + 1]
<1>1. delegated[r].at = "running" /\ delegated' = [delegated EXCEPT ![r] = w] /\ UNCHANGED <<limit, states, owner, info>>
  BY DEF Delegated!Refused, Delegated!Put
<1>2. delegated[r] \in RunRecs /\ delegated[r].tries + 1 \in Nat
  BY DEF TreeInv, TreeSorts, RunRecs
<1>3. /\ w \in RunRecs /\ w.at = delegated[r].at /\ w.acquired = delegated[r].acquired /\ w.found = delegated[r].found
      /\ w.parent = delegated[r].parent /\ w.depth = delegated[r].depth /\ w.task = delegated[r].task
      /\ w.isolation = delegated[r].isolation /\ w.session = delegated[r].session /\ w.copied = delegated[r].copied
  BY <1>2 DEF RunRecs
<1> HIDE DEF w
<1>4. delegated'[r] = w /\ delegated' \in [Ids -> RunRecs] /\ \A q \in Ids \ {r} : delegated'[q] = delegated[q]
  BY <1>1, <1>3 DEF TreeInv, TreeSorts
<1>5. TreeSorts'
  BY <1>1, <1>4 DEF TreeInv, TreeSorts
<1> QED
  BY <1>1, <1>3, <1>4, <1>5 DEF Moves, Stays, Live, Inside

\* A run that ends writes in no session but its own.
LEMMA EndMoves ==
  ASSUME TreeInv, NEW r \in Ids, NEW how \in {"completed", "failed", "cancelled"}, Delegated!End(r, how)
  PROVE  /\ TreeSorts' /\ Moves(r) /\ delegated[r].at = "running" /\ delegated'[r].at = "over"
         /\ delegated'[r].found = delegated[r].found
         /\ \A s \in Delegated!RunSessions \ {delegated[r].session} : states'[s] = states[s]
         /\ owner' = Delegated!Leaves(r) /\ UNCHANGED <<limit, info>>
<1> DEFINE w == [delegated[r] EXCEPT !.at = "over", !.how = how]
<1>1. /\ delegated[r].at = "running" /\ delegated' = [delegated EXCEPT ![r] = w] /\ owner' = Delegated!Leaves(r) /\ UNCHANGED <<limit, info>>
      /\ states' = IF how = "cancelled" THEN states ELSE [states EXCEPT ![delegated[r].session] = Append(@, r)]
  BY DEF Delegated!End, Delegated!Put
<1>2. delegated[r] \in RunRecs /\ delegated[r].session \in Delegated!RunSessions
  BY DEF TreeInv, TreeSorts, RunRecs
<1>3. /\ w \in RunRecs /\ w.at = "over" /\ w.found = delegated[r].found
      /\ w.parent = delegated[r].parent /\ w.depth = delegated[r].depth /\ w.task = delegated[r].task
      /\ w.isolation = delegated[r].isolation /\ w.session = delegated[r].session /\ w.copied = delegated[r].copied
  BY <1>2 DEF RunRecs, Hows
<1> HIDE DEF w
<1>4. delegated'[r] = w /\ delegated' \in [Ids -> RunRecs] /\ \A q \in Ids \ {r} : delegated'[q] = delegated[q]
  BY <1>1, <1>3 DEF TreeInv, TreeSorts
<1>5. states' \in [Delegated!RunSessions -> Seq(Ids)] /\ \A s \in Delegated!RunSessions \ {delegated[r].session} : states'[s] = states[s]
  <2>1. Append(states[delegated[r].session], r) \in Seq(Ids)
    BY <1>2 DEF TreeInv, TreeSorts
  <2> QED
    BY <1>1, <2>1 DEF TreeInv, TreeSorts
<1>6. owner' \in [Delegated!RunSessions -> Ids \cup {None}]
  BY <1>1 DEF Delegated!Leaves, TreeInv, TreeSorts
<1>7. TreeSorts'
  BY <1>1, <1>4, <1>5, <1>6 DEF TreeInv, TreeSorts
<1> QED
  BY <1>1, <1>3, <1>4, <1>5, <1>7 DEF Moves, Stays, Live, Inside

\* A run whose child is over goes on in its session, or ends and leaves it.
LEMMA BackMoves ==
  ASSUME TreeInv, NEW r \in Ids, Delegated!Back(r)
  PROVE  /\ TreeSorts' /\ Moves(r) /\ delegated[r].at = "delegating" /\ delegated[delegated[r].child].at = "over"
         /\ \/ delegated'[r].at = "over" /\ owner' = Delegated!Leaves(r)
            \/ delegated'[r].at = "running" /\ owner' = owner
         /\ delegated'[r].acquired = delegated[r].acquired /\ delegated'[r].found = delegated[r].found
         /\ UNCHANGED <<limit, states, info>>
<1> DEFINE c == delegated[r].child
           ends == delegated[r].transfer \/ delegated[c].how = "cancelled"
           w == [delegated[r] EXCEPT !.child = None, !.at = IF ends THEN "over" ELSE "running",
                    !.how = IF ~ends THEN None ELSE IF delegated[c].how = "cancelled" THEN "cancelled" ELSE "handed"]
<1>1. /\ delegated[r].at = "delegating" /\ delegated[c].at = "over" /\ delegated' = [delegated EXCEPT ![r] = w]
      /\ owner' = (IF ends THEN Delegated!Leaves(r) ELSE owner) /\ UNCHANGED <<limit, states, info>>
  BY DEF Delegated!Back, Delegated!Put
<1>2. delegated[r] \in RunRecs
  BY DEF TreeInv, TreeSorts
<1> HIDE DEF ends
<1>3. /\ w \in RunRecs /\ w.at = (IF ends THEN "over" ELSE "running") /\ w.acquired = delegated[r].acquired /\ w.found = delegated[r].found
      /\ w.parent = delegated[r].parent /\ w.depth = delegated[r].depth /\ w.task = delegated[r].task
      /\ w.isolation = delegated[r].isolation /\ w.session = delegated[r].session /\ w.copied = delegated[r].copied
  BY <1>2 DEF RunRecs, Hows
<1> HIDE DEF w
<1>4. delegated'[r] = w /\ delegated' \in [Ids -> RunRecs] /\ \A q \in Ids \ {r} : delegated'[q] = delegated[q]
  BY <1>1, <1>3 DEF TreeInv, TreeSorts
<1>5. owner' \in [Delegated!RunSessions -> Ids \cup {None}]
  BY <1>1 DEF Delegated!Leaves, TreeInv, TreeSorts
<1>6. TreeSorts'
  BY <1>1, <1>4, <1>5 DEF TreeInv, TreeSorts
<1> QED
  BY <1>1, <1>3, <1>4, <1>6 DEF Moves, Stays, Live, Inside

\* A run that was off begins: for the application, or as the child of one.
LEMMA RequestBegins ==
  ASSUME TreeInv, NEW r \in Ids, Delegated!Request(r)
  PROVE  /\ TreeSorts' /\ delegated[r] = Delegated!NoRun
         /\ delegated'[r].at = "asked" /\ delegated'[r].parent = None /\ delegated'[r].isolation = None
         /\ delegated'[r].task = r /\ delegated'[r].session = Delegated!Main
         /\ \A q \in Ids \ {r} : delegated'[q] = delegated[q]
         /\ UNCHANGED <<limit, states, owner, info>>
<1> DEFINE w == [Delegated!NoRun EXCEPT !.at = "asked", !.task = r]
<1>1. delegated[r].at = "off" /\ delegated' = [delegated EXCEPT ![r] = w] /\ UNCHANGED <<limit, states, owner, info>>
  BY DEF Delegated!Request, Delegated!Put
<1>2. w \in RunRecs /\ w.at = "asked" /\ w.parent = None /\ w.isolation = None /\ w.task = r /\ w.session = Delegated!Main
  <2>1. Delegated!NoRun.parent = None /\ Delegated!NoRun.isolation = None /\ Delegated!NoRun.session = Delegated!Main
    BY DEF Delegated!NoRun
  <2> QED
    BY <2>1, NoRunSorts DEF RunRecs
<1> HIDE DEF w
<1>3. delegated'[r] = w /\ delegated' \in [Ids -> RunRecs] /\ \A q \in Ids \ {r} : delegated'[q] = delegated[q]
  BY <1>1, <1>2 DEF TreeInv, TreeSorts
<1>4. TreeSorts'
  BY <1>1, <1>3 DEF TreeInv, TreeSorts
<1>5. delegated[r] = Delegated!NoRun
  BY <1>1 DEF TreeInv, Placed
<1> QED
  BY <1>1, <1>2, <1>3, <1>4, <1>5

\* What delegate() sets up: the child with its depth, task, session and copy, and
\* the parent that waits for it or not.
LEMMA DelegateBegins ==
  ASSUME TreeInv, NEW r \in Ids, NEW c \in Ids, NEW isolation \in {"shared", "forked", "isolated"},
         NEW background \in BOOLEAN, NEW transfer \in BOOLEAN, Delegated!Delegate(r, c, isolation, background, transfer)
  PROVE  /\ TreeSorts' /\ delegated[c] = Delegated!NoRun /\ r # c /\ delegated[r].at = "running" /\ delegated[r].depth < limit
         /\ delegated'[c].at = "asked" /\ delegated'[c].parent = r /\ delegated'[c].depth = delegated[r].depth + 1
         /\ delegated'[c].session = Delegated!Target(r, c, isolation) /\ delegated'[c].isolation = isolation
         /\ delegated'[c].copied = (IF isolation = "forked" THEN states[delegated[r].session] ELSE <<>>)
         /\ delegated'[c].task = (IF background THEN c ELSE delegated[r].task)
         /\ delegated'[r].at = (IF background THEN "running" ELSE "delegating")
         /\ delegated'[r].child = (IF background THEN None ELSE c)
         /\ delegated'[r].acquired = delegated[r].acquired /\ delegated'[r].found = delegated[r].found /\ Stays(r)
         /\ \A q \in Ids \ {r, c} : delegated'[q] = delegated[q]
         /\ isolation = "forked" => states' = [states EXCEPT ![Delegated!ForkOf(r)] = states[delegated[r].session]]
         /\ isolation # "forked" => states' = states
         /\ \A i \in Ids : info'[i] \in {"completed", "failed"} => info'[i] = info[i]
         /\ UNCHANGED <<limit, owner>>
<1> DEFINE to == Delegated!Target(r, c, isolation)
           copied == IF isolation = "forked" THEN states[delegated[r].session] ELSE <<>>
           child == [Delegated!NoRun EXCEPT !.at = "asked", !.parent = r, !.depth = delegated[r].depth + 1, !.session = to,
                       !.task = IF background THEN c ELSE delegated[r].task,
                       !.isolation = isolation, !.copied = copied]
           w == [delegated[r] EXCEPT !.tries = @ + 1, !.at = IF background THEN "running" ELSE "delegating",
                               !.child = IF background THEN None ELSE c, !.transfer = transfer]
<1>1. /\ delegated[r].at = "running" /\ delegated[r].depth < limit /\ delegated[c].at = "off"
      /\ states' = (IF isolation = "forked" THEN [states EXCEPT ![to] = copied] ELSE states)
      /\ delegated' = [delegated EXCEPT ![c] = child,
                            ![r].tries = @ + 1,
                            ![r].at = IF background THEN "running" ELSE "delegating",
                            ![r].child = IF background THEN None ELSE c,
                            ![r].transfer = transfer]
      /\ info' = (IF background THEN [info EXCEPT ![c] = "running"] ELSE info)
      /\ UNCHANGED <<limit, owner>>
  BY DEF Delegated!Delegate, Delegated!MayDelegate
<1>2. /\ delegated[r] \in RunRecs /\ delegated[r].depth + 1 \in Nat /\ delegated[r].tries + 1 \in Nat /\ delegated[r].session \in Delegated!RunSessions
      /\ delegated[r].task \in Ids /\ states[delegated[r].session] \in Seq(Ids)
  <2>1. delegated[r] \in RunRecs /\ delegated[r].depth \in Nat /\ delegated[r].tries \in Nat /\ delegated[r].session \in Delegated!RunSessions
    BY DEF TreeInv, TreeSorts, RunRecs
  <2>2. delegated[r].task \in Ids
    BY <1>1 DEF TreeInv, Placed
  <2> QED
    BY <2>1, <2>2 DEF TreeInv, TreeSorts
<1>3. delegated[c] = Delegated!NoRun /\ r # c
  BY <1>1 DEF TreeInv, Placed
<1>4. to \in Delegated!RunSessions /\ copied \in Seq(Ids)
  <2>1. to \in Delegated!RunSessions
    BY <1>2, SessionsDiffer DEF Delegated!Target
  <2> QED
    BY <1>2, <2>1
<1>5. isolation = "forked" => to = Delegated!ForkOf(r)
  BY DEF Delegated!Target
<1> HIDE DEF to
<1>6. /\ isolation = "forked" => states' = [states EXCEPT ![Delegated!ForkOf(r)] = states[delegated[r].session]]
      /\ isolation # "forked" => states' = states
      /\ states' \in [Delegated!RunSessions -> Seq(Ids)]
  BY <1>1, <1>2, <1>4, <1>5 DEF TreeInv, TreeSorts
<1> HIDE DEF copied
<1>7. /\ child \in RunRecs /\ child.at = "asked" /\ child.parent = r /\ child.depth = delegated[r].depth + 1
      /\ child.session = to /\ child.isolation = isolation /\ child.copied = copied
      /\ child.task = (IF background THEN c ELSE delegated[r].task)
  BY <1>2, <1>4, NoRunSorts DEF RunRecs
<1>8. /\ w \in RunRecs /\ w.at = (IF background THEN "running" ELSE "delegating")
      /\ w.child = (IF background THEN None ELSE c) /\ w.acquired = delegated[r].acquired /\ w.found = delegated[r].found
      /\ w.parent = delegated[r].parent /\ w.depth = delegated[r].depth /\ w.task = delegated[r].task
      /\ w.isolation = delegated[r].isolation /\ w.session = delegated[r].session /\ w.copied = delegated[r].copied
  BY <1>2 DEF RunRecs
<1>9. delegated' = [delegated EXCEPT ![c] = child, ![r] = w]
  BY <1>1, <1>3 DEF TreeInv, TreeSorts
<1> HIDE DEF child, w
<1>10. delegated'[r] = w /\ delegated'[c] = child /\ delegated' \in [Ids -> RunRecs] /\ \A q \in Ids \ {r, c} : delegated'[q] = delegated[q]
  BY <1>3, <1>7, <1>8, <1>9 DEF TreeInv, TreeSorts
<1>11. info' \in [Ids -> {None, "running", "completed", "failed"}]
       /\ \A i \in Ids : info'[i] \in {"completed", "failed"} => info'[i] = info[i]
  BY <1>1 DEF TreeInv, TreeSorts
<1>12. TreeSorts'
  BY <1>1, <1>6, <1>10, <1>11 DEF TreeInv, TreeSorts
<1>13. /\ delegated'[c].at = "asked" /\ delegated'[c].parent = r /\ delegated'[c].depth = delegated[r].depth + 1
       /\ delegated'[c].session = Delegated!Target(r, c, isolation) /\ delegated'[c].isolation = isolation
       /\ delegated'[c].copied = (IF isolation = "forked" THEN states[delegated[r].session] ELSE <<>>)
       /\ delegated'[c].task = (IF background THEN c ELSE delegated[r].task)
  BY <1>7, <1>10 DEF to, copied
<1>14. /\ delegated'[r].at = (IF background THEN "running" ELSE "delegating")
       /\ delegated'[r].child = (IF background THEN None ELSE c)
       /\ delegated'[r].acquired = delegated[r].acquired /\ delegated'[r].found = delegated[r].found /\ Stays(r)
  BY <1>8, <1>10 DEF Stays
<1> QED
  BY <1>1, <1>3, <1>6, <1>10, <1>11, <1>12, <1>13, <1>14

\* A run that begins is nobody's parent, child or task before.
LEMMA OffIsFree ==
  ASSUME Delegated!DelegationAssumption, TreeInv, NEW c \in Ids, delegated[c] = Delegated!NoRun
  PROVE  /\ delegated[c].at = "off" /\ delegated[c].parent = None /\ delegated[c].session = Delegated!Main /\ delegated[c].isolation = None
         /\ \A q \in Ids : /\ delegated[q].parent # c /\ delegated[q].task # c
                           /\ delegated[q].at = "delegating" => delegated[q].child # c
<1>1. /\ delegated[c].at = "off" /\ delegated[c].parent = None /\ delegated[c].session = Delegated!Main /\ delegated[c].isolation = None
      /\ Delegated!NoRun.task = None
  BY DEF Delegated!NoRun
<1>2. c # None
  BY DEF Delegated!DelegationAssumption
<1>3. ASSUME NEW q \in Ids
      PROVE  /\ delegated[q].parent # c /\ delegated[q].task # c
             /\ delegated[q].at = "delegating" => delegated[q].child # c
  BY <1>1, <1>2 DEF TreeInv, Placed
<1> QED
  BY <1>1, <1>3

\* The tree keeps its shape when a run begins.
LEMMA RequestTree ==
  ASSUME Delegated!DelegationAssumption, TreeInv, NEW r \in Ids, Delegated!Request(r)
  PROVE  TreeInv'
<1>1. /\ TreeSorts' /\ delegated[r] = Delegated!NoRun
      /\ delegated'[r].at = "asked" /\ delegated'[r].parent = None /\ delegated'[r].task = r
      /\ \A q \in Ids \ {r} : delegated'[q] = delegated[q]
      /\ limit' = limit
  BY RequestBegins
<1>2. \A q \in Ids : /\ delegated[q].parent # r /\ delegated[q].task # r
                     /\ delegated[q].at = "delegating" => delegated[q].child # r
  BY <1>1, OffIsFree
<1>3. Placed(r)'
  BY <1>1 DEF Placed
<1>4. ASSUME NEW q \in Ids, q # r PROVE Placed(q)'
  <2>1. Placed(q) /\ delegated'[q] = delegated[q] /\ delegated[q].parent \in Ids \cup {None} /\ delegated[q].task \in Ids \cup {None}
    BY <1>1, <1>4 DEF TreeInv, TreeSorts, RunRecs
  <2>2. delegated[q].parent # None => delegated'[delegated[q].parent] = delegated[delegated[q].parent]
    BY <1>1, <1>2, <2>1
  <2>3. delegated[q].at # "off" => delegated'[delegated[q].task] = delegated[delegated[q].task]
    BY <1>1, <1>2, <2>1 DEF Placed
  <2>4. delegated[q].at = "delegating" => delegated'[delegated[q].child] = delegated[delegated[q].child]
    BY <1>1, <1>2, <2>1 DEF Placed
  <2> QED
    BY <1>1, <2>1, <2>2, <2>3, <2>4 DEF Placed
<1> QED
  BY <1>1, <1>3, <1>4 DEF TreeInv

\* A child is attached to the run that asked for it, one deeper.
LEMMA DelegateTree ==
  ASSUME Delegated!DelegationAssumption, TreeInv, NEW r \in Ids, NEW c \in Ids, NEW isolation \in {"shared", "forked", "isolated"},
         NEW background \in BOOLEAN, NEW transfer \in BOOLEAN, Delegated!Delegate(r, c, isolation, background, transfer)
  PROVE  TreeInv'
<1>1. /\ TreeSorts' /\ delegated[c] = Delegated!NoRun /\ r # c /\ delegated[r].at = "running" /\ delegated[r].depth < limit
      /\ delegated'[c].at = "asked" /\ delegated'[c].parent = r /\ delegated'[c].depth = delegated[r].depth + 1
      /\ delegated'[c].task = (IF background THEN c ELSE delegated[r].task)
      /\ delegated'[r].at = (IF background THEN "running" ELSE "delegating")
      /\ delegated'[r].child = (IF background THEN None ELSE c)
      /\ Stays(r)
      /\ \A q \in Ids \ {r, c} : delegated'[q] = delegated[q]
      /\ limit' = limit
  BY DelegateBegins
<1>2. \A q \in Ids : /\ delegated[q].parent # c /\ delegated[q].task # c
                     /\ delegated[q].at = "delegating" => delegated[q].child # c
  BY <1>1, OffIsFree
<1>3. \A q \in Ids \ {c} : Stays(q) /\ (delegated[q].at # "off" => delegated'[q].at # "off")
  BY <1>1 DEF Stays
<1>4. \A q \in Ids : delegated[q].parent \in Ids \cup {None} /\ delegated[q].task \in Ids \cup {None} /\ delegated[q].depth \in Nat /\ limit \in Nat
  BY DEF TreeInv, TreeSorts, RunRecs
<1>5. Placed(c)'
  <2>1. delegated[r].task \in Ids /\ delegated[delegated[r].task].at # "off" /\ delegated[r].task # c
    BY <1>1, <1>2 DEF TreeInv, Placed
  <2>2. delegated'[delegated[r].task].at # "off"
    BY <1>3, <2>1
  <2>3. delegated'[r].at # "off" /\ delegated'[r].depth = delegated[r].depth
    BY <1>1 DEF Stays
  <2>4. delegated'[c].depth <= limit
    BY <1>1, <1>4
  <2> QED
    BY <1>1, <2>1, <2>2, <2>3, <2>4 DEF Placed
<1>6. ASSUME NEW q \in Ids, q # c PROVE Placed(q)'
  <2>1. Placed(q) /\ Stays(q)
    BY <1>3, <1>6 DEF TreeInv
  <2>2. delegated'[q].at = "off" => delegated'[q] = Delegated!NoRun
    BY <1>1, <1>6, <2>1 DEF Placed
  <2>3. delegated'[q].parent # None =>
           /\ delegated'[delegated'[q].parent].at # "off"
           /\ delegated'[q].depth = delegated'[delegated'[q].parent].depth + 1 /\ delegated'[q].depth <= limit'
    <3>1. SUFFICES ASSUME delegated[q].parent # None
                   PROVE  /\ delegated'[delegated[q].parent].at # "off"
                          /\ delegated'[q].depth = delegated'[delegated[q].parent].depth + 1 /\ delegated'[q].depth <= limit'
      BY <2>1 DEF Stays
    <3>2. delegated[q].parent \in Ids \ {c}
      BY <1>2, <1>4, <3>1
    <3> QED
      BY <1>1, <1>3, <2>1, <3>1, <3>2 DEF Placed, Stays
  <2>4. delegated'[q].at # "off" => delegated'[q].task \in Ids /\ delegated'[delegated'[q].task].at # "off"
    <3>1. delegated'[q].at # "off" => delegated[q].at # "off"
      BY <1>1, <1>6
    <3>2. delegated[q].at # "off" => delegated[q].task \in Ids \ {c}
      BY <1>2, <2>1 DEF Placed
    <3> QED
      BY <1>3, <2>1, <3>1, <3>2 DEF Placed, Stays
  <2>5. delegated'[q].at = "delegating" =>
          /\ delegated'[q].child \in Ids /\ delegated'[delegated'[q].child].at # "off"
          /\ delegated'[delegated'[q].child].task = delegated'[q].task /\ delegated'[delegated'[q].child].parent = q
    <3>1. CASE q = r
      BY <1>1, <2>1, <3>1 DEF Stays
    <3>2. CASE q # r
      <4>1. delegated'[q] = delegated[q]
        BY <1>1, <1>6, <3>2
      <4>2. delegated[q].at = "delegating" => delegated[q].child \in Ids \ {c}
        BY <1>2, <2>1 DEF Placed
      <4> QED
        BY <1>3, <2>1, <4>1, <4>2 DEF Placed, Stays
    <3> QED
      BY <3>1, <3>2
  <2> QED
    BY <2>2, <2>3, <2>4, <2>5 DEF Placed
<1> QED
  BY <1>1, <1>5, <1>6 DEF TreeInv

\* Every step keeps the tree.
LEMMA TreeInvNext == Delegated!DelegationAssumption /\ TreeInv /\ [Delegated!Next]_(Delegated!vars) => TreeInv'
<1> SUFFICES ASSUME Delegated!DelegationAssumption, TreeInv, [Delegated!Next]_(Delegated!vars) PROVE TreeInv'
  OBVIOUS
<1>1. ASSUME NEW r \in Ids, Delegated!Request(r) PROVE TreeInv'
  BY <1>1, RequestTree
<1>2. ASSUME NEW r \in Ids, Delegated!Refused(r) \/ Delegated!Enter(r) \/ Delegated!Back(r) PROVE TreeInv'
  BY <1>2, RefusedMoves, EnterMoves, BackMoves, MovesTree
<1>3. ASSUME NEW r \in Ids, NEW how \in {"completed", "failed", "cancelled"}, Delegated!End(r, how) PROVE TreeInv'
  BY <1>3, EndMoves, MovesTree
<1>4. ASSUME NEW r \in Ids, NEW status \in {"completed", "failed"}, Delegated!Record(r, status) PROVE TreeInv'
  BY <1>4 DEF Delegated!Record, TreeInv, TreeSorts, Placed
<1>5. ASSUME NEW r \in Ids, NEW c \in Ids, NEW isolation \in {"shared", "forked", "isolated"},
             NEW background \in BOOLEAN, NEW transfer \in BOOLEAN, Delegated!Delegate(r, c, isolation, background, transfer)
      PROVE  TreeInv'
  BY <1>5, DelegateTree
<1>6. CASE UNCHANGED Delegated!vars
  BY <1>6 DEF Delegated!vars, TreeInv, TreeSorts, Placed
<1> QED
  BY <1>1, <1>2, <1>3, <1>4, <1>5, <1>6 DEF Delegated!Next, Delegated!Progress

\* The stack of a task: entering and being refused change nothing of it.
LEMMA RunningStack ==
  ASSUME TreeInv, StackInv, NEW r \in Ids, Moves(r), delegated[r].at \in {"asked", "running"}, delegated'[r].at = "running"
  PROVE  StackInv'
<1>1. \A q \in Ids : /\ Live(q)' <=> Live(q)
                     /\ delegated'[q].task = delegated[q].task /\ delegated'[q].depth = delegated[q].depth
                     /\ delegated'[q].at = "delegating" <=> delegated[q].at = "delegating"
                     /\ delegated'[q].at = "over" <=> delegated[q].at = "over"
                     /\ delegated[q].at = "delegating" => delegated'[q].child = delegated[q].child /\ delegated[q].child \in Ids
  BY DEF Moves, Stays, Live, Inside, TreeInv, Placed
<1>2. ASSUME NEW x \in Ids, NEW y \in Ids PROVE Stacked(x, y)'
  BY <1>1 DEF StackInv, Stacked
<1>3. ASSUME NEW x \in Ids PROVE Topmost(x)'
  BY <1>1 DEF StackInv, Topmost
<1> QED
  BY <1>2, <1>3 DEF StackInv

\* The deepest run of a task ends: now the one that waits for it is the deepest.
LEMMA OverStack ==
  ASSUME Delegated!DelegationAssumption, TreeInv, StackInv, NEW r \in Ids, Moves(r), delegated'[r].at = "over",
         \A q \in Ids \ {r} : Live(q) /\ delegated[q].task = delegated[r].task => delegated[q].depth < delegated[r].depth
  PROVE  StackInv'
<1>1. \A q \in Ids \ {r} : /\ Live(q)' <=> Live(q)
                           /\ delegated'[q] = delegated[q]
  BY DEF Moves, Live, Inside
<1>2. ~Live(r)' /\ delegated'[r].task = delegated[r].task /\ delegated'[r].depth = delegated[r].depth
  BY DEF Moves, Stays, Live, Inside
<1>3. ASSUME NEW x \in Ids, NEW y \in Ids PROVE Stacked(x, y)'
  BY <1>1, <1>2 DEF StackInv, Stacked
<1>4. ASSUME NEW x \in Ids PROVE Topmost(x)'
  <2>1. SUFFICES ASSUME delegated'[x].at = "delegating", delegated'[delegated'[x].child].at = "over",
                        NEW q \in Ids, Live(q)', delegated'[q].task = delegated'[x].task
                 PROVE  delegated'[q].depth <= delegated'[x].depth
    BY DEF Topmost
  <2>2. x # r /\ q # r /\ delegated'[x] = delegated[x] /\ delegated'[q] = delegated[q] /\ Live(q)
    BY <1>1, <1>2, <2>1 DEF Moves
  <2>3. CASE delegated[x].child = r
    <3>1. delegated[r].task = delegated[x].task /\ delegated[r].parent = x
      BY <2>1, <2>2, <2>3 DEF TreeInv, Placed
    <3>2. delegated[r].depth = delegated[x].depth + 1
      <4>1. x # None
        BY DEF Delegated!DelegationAssumption
      <4> QED
        BY <3>1, <4>1 DEF TreeInv, Placed
    <3>3. delegated[q].depth < delegated[r].depth
      BY <2>1, <2>2, <3>1
    <3> QED
      BY <2>2, <3>2, <3>3 DEF TreeInv, TreeSorts, RunRecs
  <2>4. CASE delegated[x].child # r
    <3>1. delegated'[delegated[x].child] = delegated[delegated[x].child]
      BY <1>1, <2>1, <2>2, <2>4 DEF TreeInv, Placed
    <3> QED
      BY <2>1, <2>2, <3>1 DEF StackInv, Topmost
  <2> QED
    BY <2>3, <2>4
<1> QED
  BY <1>3, <1>4 DEF StackInv

\* Of a task's runs, one that waits for nobody is the deepest.
LEMMA RunningIsDeepest ==
  ASSUME TreeInv, StackInv, NEW r \in Ids, delegated[r].at \in {"asked", "running"},
         NEW q \in Ids, q # r, Live(q), delegated[q].task = delegated[r].task
  PROVE  delegated[q].depth < delegated[r].depth /\ delegated[q].at = "delegating"
<1>1. Stacked(r, q) /\ Stacked(q, r) /\ Live(r)
  BY DEF StackInv, Live, Inside
<1>2. delegated[r].depth \in Nat /\ delegated[q].depth \in Nat
  BY DEF TreeInv, TreeSorts, RunRecs
<1> QED
  BY <1>1, <1>2 DEF Stacked

\* So is one whose child is over.
LEMMA ReturnedIsDeepest ==
  ASSUME TreeInv, StackInv, NEW r \in Ids, delegated[r].at = "delegating", delegated[delegated[r].child].at = "over",
         NEW q \in Ids, q # r, Live(q), delegated[q].task = delegated[r].task
  PROVE  delegated[q].depth < delegated[r].depth /\ delegated[q].at = "delegating"
<1>1. Stacked(r, q) /\ Stacked(q, r) /\ Live(r) /\ Topmost(r)
  BY DEF StackInv, Live, Inside
<1>2. delegated[r].depth \in Nat /\ delegated[q].depth \in Nat
  BY DEF TreeInv, TreeSorts, RunRecs
<1> QED
  BY <1>1, <1>2 DEF Stacked, Topmost

\* The parent of a run that is over is the deepest of its task, whether it goes
\* on or ends.
LEMMA BackStack ==
  ASSUME Delegated!DelegationAssumption, TreeInv, StackInv, NEW r \in Ids, Delegated!Back(r)
  PROVE  StackInv'
<1>1. Moves(r) /\ delegated[r].at = "delegating" /\ delegated[delegated[r].child].at = "over" /\ delegated'[r].at \in {"running", "over"}
  BY BackMoves
<1>2. \A q \in Ids \ {r} : Live(q) /\ delegated[q].task = delegated[r].task => delegated[q].depth < delegated[r].depth /\ delegated[q].at = "delegating"
  BY <1>1, ReturnedIsDeepest
<1>3. CASE delegated'[r].at = "over"
  BY <1>1, <1>2, <1>3, OverStack
<1>4. CASE delegated'[r].at = "running"
  <2>1. \A q \in Ids : /\ Live(q)' <=> Live(q)
                       /\ delegated'[q].task = delegated[q].task /\ delegated'[q].depth = delegated[q].depth
                       /\ q # r => delegated'[q] = delegated[q]
    BY <1>1, <1>4 DEF Moves, Stays, Live, Inside
  <2>2. ASSUME NEW x \in Ids, NEW y \in Ids PROVE Stacked(x, y)'
    <3>1. CASE x # r
      BY <2>1, <3>1 DEF StackInv, Stacked
    <3>2. CASE x = r
      <4>1. delegated[r].depth \in Nat /\ delegated[y].depth \in Nat
        BY DEF TreeInv, TreeSorts, RunRecs
      <4> QED
        BY <1>2, <2>1, <3>2, <4>1 DEF Stacked
    <3> QED
      BY <3>1, <3>2
  <2>3. ASSUME NEW x \in Ids PROVE Topmost(x)'
    <3>1. SUFFICES ASSUME delegated'[x].at = "delegating", delegated'[delegated'[x].child].at = "over" PROVE Topmost(x)'
      BY DEF Topmost
    <3>2. x # r /\ delegated'[x] = delegated[x] /\ delegated[x].child \in Ids /\ delegated[x].child # r
      BY <1>4, <2>1, <3>1 DEF TreeInv, Placed
    <3>3. delegated[delegated[x].child].at = "over"
      BY <2>1, <3>1, <3>2
    <3> QED
      BY <2>1, <3>1, <3>2, <3>3 DEF StackInv, Topmost
  <2> QED
    BY <2>2, <2>3 DEF StackInv
<1> QED
  BY <1>1, <1>3, <1>4

\* A run that the application asks for is a task of its own.
LEMMA RequestStack ==
  ASSUME Delegated!DelegationAssumption, TreeInv, StackInv, NEW r \in Ids, Delegated!Request(r)
  PROVE  StackInv'
<1>1. delegated[r] = Delegated!NoRun /\ delegated'[r].at = "asked" /\ delegated'[r].task = r /\ \A q \in Ids \ {r} : delegated'[q] = delegated[q]
  BY RequestBegins
<1>2. \A q \in Ids : delegated[q].task # r /\ (delegated[q].at = "delegating" => delegated[q].child \in Ids \ {r})
  BY <1>1, OffIsFree DEF TreeInv, Placed
<1>3. \A q \in Ids \ {r} : Live(q)' <=> Live(q)
  BY <1>1 DEF Live, Inside
<1>4. ASSUME NEW x \in Ids, NEW y \in Ids PROVE Stacked(x, y)'
  BY <1>1, <1>2, <1>3 DEF StackInv, Stacked
<1>5. ASSUME NEW x \in Ids PROVE Topmost(x)'
  <2>1. SUFFICES ASSUME delegated'[x].at = "delegating", delegated'[delegated'[x].child].at = "over",
                        NEW q \in Ids, Live(q)', delegated'[q].task = delegated'[x].task
                 PROVE  delegated'[q].depth <= delegated'[x].depth
    BY DEF Topmost
  <2>2. x # r /\ delegated'[x] = delegated[x] /\ q # r /\ delegated'[q] = delegated[q]
    BY <1>1, <1>2, <2>1
  <2> QED
    BY <1>1, <1>2, <1>3, <2>1, <2>2 DEF StackInv, Topmost
<1> QED
  BY <1>4, <1>5 DEF StackInv

\* A child is below its parent, or a task of its own.
LEMMA DelegateStack ==
  ASSUME Delegated!DelegationAssumption, TreeInv, StackInv, NEW r \in Ids, NEW c \in Ids, NEW isolation \in {"shared", "forked", "isolated"},
         NEW background \in BOOLEAN, NEW transfer \in BOOLEAN, Delegated!Delegate(r, c, isolation, background, transfer)
  PROVE  StackInv'
<1>1. /\ delegated[c] = Delegated!NoRun /\ r # c /\ delegated[r].at = "running"
      /\ delegated'[c].at = "asked" /\ delegated'[c].depth = delegated[r].depth + 1
      /\ delegated'[c].task = (IF background THEN c ELSE delegated[r].task)
      /\ delegated'[r].at = (IF background THEN "running" ELSE "delegating")
      /\ delegated'[r].child = (IF background THEN None ELSE c)
      /\ delegated'[r].task = delegated[r].task /\ delegated'[r].depth = delegated[r].depth
      /\ \A q \in Ids \ {r, c} : delegated'[q] = delegated[q]
  BY DelegateBegins DEF Stays
<1>2. \A q \in Ids : delegated[q].task # c /\ (delegated[q].at = "delegating" => delegated[q].child \in Ids \ {c})
  BY <1>1, OffIsFree DEF TreeInv, Placed
<1>3. /\ \A q \in Ids \ {c} : /\ Live(q)' <=> Live(q)
                              /\ delegated'[q].task = delegated[q].task /\ delegated'[q].depth = delegated[q].depth
      /\ Live(r)
  BY <1>1 DEF Live, Inside
<1>4. \A q \in Ids \ {r} : Live(q) /\ delegated[q].task = delegated[r].task => delegated[q].depth < delegated[r].depth /\ delegated[q].at = "delegating"
  BY <1>1, RunningIsDeepest
<1>5. \A q \in Ids : delegated[q].depth \in Nat
  BY DEF TreeInv, TreeSorts, RunRecs
<1>6. \A q \in Ids \ {c} : Live(q)' /\ delegated'[q].task = delegated'[c].task
          => delegated'[q].depth < delegated'[c].depth /\ delegated'[q].at = "delegating"
  <2>1. CASE background
    BY <1>1, <1>2, <1>3, <2>1
  <2>2. CASE ~background
    BY <1>1, <1>3, <1>4, <1>5, <2>2
  <2> QED
    BY <2>1, <2>2
<1>7. ASSUME NEW x \in Ids, NEW y \in Ids PROVE Stacked(x, y)'
  <2>0. \A q \in Ids : delegated'[q].depth \in Nat
    BY <1>1, <1>3, <1>5
  <2>1. SUFFICES ASSUME Live(x)', Live(y)', x # y, delegated'[x].task = delegated'[y].task
                 PROVE  /\ delegated'[x].depth # delegated'[y].depth
                        /\ delegated'[x].depth < delegated'[y].depth => delegated'[x].at = "delegating"
    BY DEF Stacked
  <2>2. CASE x = c
    <3>1. delegated'[y].depth < delegated'[x].depth
      BY <1>6, <2>1, <2>2
    <3> QED
      BY <2>0, <3>1
  <2>3. CASE y = c
    <3>1. delegated'[x].depth < delegated'[y].depth /\ delegated'[x].at = "delegating"
      BY <1>6, <2>1, <2>3
    <3> QED
      BY <2>0, <3>1
  <2>4. CASE x = r /\ y # c
    <3>1. Live(y) /\ y # r /\ delegated[y].task = delegated[r].task /\ delegated'[y].depth = delegated[y].depth
      BY <1>1, <1>3, <2>1, <2>4
    <3>2. delegated[y].depth < delegated[r].depth
      BY <1>4, <3>1
    <3> QED
      BY <1>1, <1>5, <2>4, <3>1, <3>2
  <2>5. CASE x # r /\ x # c /\ y # c
    BY <1>1, <1>3, <2>1, <2>5 DEF StackInv, Stacked
  <2> QED
    BY <2>2, <2>3, <2>4, <2>5
<1>8. ASSUME NEW x \in Ids PROVE Topmost(x)'
  <2>1. SUFFICES ASSUME delegated'[x].at = "delegating", delegated'[delegated'[x].child].at = "over",
                        NEW q \in Ids, Live(q)', delegated'[q].task = delegated'[x].task
                 PROVE  delegated'[q].depth <= delegated'[x].depth
    BY DEF Topmost
  <2>2. x # c /\ x # r
    BY <1>1, <2>1
  <2>3. delegated'[x] = delegated[x] /\ delegated[x].child \in Ids \ {c} /\ delegated[x].at = "delegating"
    BY <1>1, <1>2, <2>1, <2>2
  <2>4. delegated[delegated[x].child].at = "over"
    BY <1>1, <2>1, <2>3
  <2>5. Live(x) /\ delegated[r].task # delegated[x].task
    <3>1. Topmost(x) /\ Live(x)
      BY <2>3 DEF StackInv, Live, Inside
    <3>2. delegated[r].task = delegated[x].task => delegated[r].depth <= delegated[x].depth
      BY <1>3, <2>3, <2>4, <3>1 DEF Topmost
    <3>3. delegated[r].task = delegated[x].task => delegated[x].depth < delegated[r].depth
      BY <1>4, <2>2, <3>1
    <3> QED
      BY <1>5, <3>1, <3>2, <3>3
  <2>6. q # c /\ q # r
    BY <1>1, <1>2, <1>3, <2>1, <2>3, <2>5
  <2> QED
    BY <1>1, <1>3, <2>1, <2>3, <2>4, <2>6 DEF StackInv, Topmost
<1> QED
  BY <1>7, <1>8 DEF StackInv

\* Every step keeps the stacks.
LEMMA StackInvNext == Delegated!DelegationAssumption /\ TreeInv /\ StackInv /\ [Delegated!Next]_(Delegated!vars) => StackInv'
<1> SUFFICES ASSUME Delegated!DelegationAssumption, TreeInv, StackInv, [Delegated!Next]_(Delegated!vars) PROVE StackInv'
  OBVIOUS
<1>1. ASSUME NEW r \in Ids, Delegated!Request(r) PROVE StackInv'
  BY <1>1, RequestStack
<1>2. ASSUME NEW r \in Ids, Delegated!Refused(r) \/ Delegated!Enter(r) PROVE StackInv'
  BY <1>2, RefusedMoves, EnterMoves, RunningStack
<1>3. ASSUME NEW r \in Ids, Delegated!Back(r) PROVE StackInv'
  BY <1>3, BackStack
<1>4. ASSUME NEW r \in Ids, NEW how \in {"completed", "failed", "cancelled"}, Delegated!End(r, how) PROVE StackInv'
  <2>1. Moves(r) /\ delegated[r].at = "running" /\ delegated'[r].at = "over"
    BY <1>4, EndMoves
  <2>2. \A q \in Ids \ {r} : Live(q) /\ delegated[q].task = delegated[r].task => delegated[q].depth < delegated[r].depth
    BY <2>1, RunningIsDeepest
  <2> QED
    BY <2>1, <2>2, OverStack
<1>5. ASSUME NEW r \in Ids, NEW status \in {"completed", "failed"}, Delegated!Record(r, status) PROVE StackInv'
  BY <1>5 DEF Delegated!Record, StackInv, Stacked, Topmost, Live, Inside
<1>6. ASSUME NEW r \in Ids, NEW c \in Ids, NEW isolation \in {"shared", "forked", "isolated"},
             NEW background \in BOOLEAN, NEW transfer \in BOOLEAN, Delegated!Delegate(r, c, isolation, background, transfer)
      PROVE  StackInv'
  BY <1>6, DelegateStack
<1>7. CASE UNCHANGED Delegated!vars
  BY <1>7 DEF Delegated!vars, StackInv, Stacked, Topmost, Live, Inside
<1> QED
  BY <1>1, <1>2, <1>3, <1>4, <1>5, <1>6, <1>7 DEF Delegated!Next, Delegated!Progress

\* The locks: a step that lets nobody in and nobody out.
LEMMA SameLock ==
  ASSUME LockInv, owner' = owner,
         \A q \in Ids : Inside(q)' =>
             /\ Inside(q) /\ delegated'[q].session = delegated[q].session /\ delegated'[q].task = delegated[q].task
             /\ delegated'[q].depth = delegated[q].depth /\ delegated'[q].acquired = delegated[q].acquired
  PROVE  LockInv'
<1>1. ASSUME NEW q \in Ids PROVE Holds(q)'
  BY DEF LockInv, Holds
<1>2. ASSUME NEW x \in Ids, NEW y \in Ids PROVE Outlasts(x, y)'
  BY DEF LockInv, Outlasts
<1> QED
  BY <1>1, <1>2 DEF LockInv

\* A run enters a session nobody is in, or one its task holds, and is then the
\* deepest in it.
LEMMA EnterLock ==
  ASSUME Delegated!DelegationAssumption, TreeInv, StackInv, LockInv, NEW r \in Ids, Delegated!Enter(r)
  PROVE  LockInv'
<1> DEFINE s == delegated[r].session
<1>1. /\ Moves(r) /\ delegated[r].at = "asked" /\ owner[s] \in {None, delegated[r].task} /\ owner' = [owner EXCEPT ![s] = delegated[r].task]
      /\ delegated'[r].acquired = (owner[s] = None) /\ delegated'[r].session = s /\ delegated'[r].task = delegated[r].task
      /\ delegated'[r].depth = delegated[r].depth
      /\ \A q \in Ids \ {r} : delegated'[q] = delegated[q]
  BY EnterMoves DEF Moves, Stays
<1>2. \A q \in Ids : delegated[q].session \in Delegated!RunSessions /\ owner'[s] = delegated[r].task
  BY <1>1 DEF TreeInv, TreeSorts, RunRecs
<1>3. \A q \in Ids : delegated[q].session # s => owner'[delegated[q].session] = owner[delegated[q].session]
  BY <1>1, <1>2 DEF TreeInv, TreeSorts
<1>4. ASSUME NEW q \in Ids, Inside(q), delegated[q].session = s
      PROVE  owner[s] # None /\ delegated[q].task = delegated[r].task
  <2>1. owner[s] = delegated[q].task /\ delegated[q].task \in Ids
    BY <1>4 DEF LockInv, Holds, Inside, TreeInv, Placed
  <2>2. owner[s] # None
    BY <2>1 DEF Delegated!DelegationAssumption
  <2> QED
    BY <1>1, <2>1, <2>2
<1>5. ASSUME NEW q \in Ids PROVE Holds(q)'
  <2>1. CASE q = r
    BY <1>1, <1>2, <2>1 DEF Holds
  <2>2. CASE q # r /\ delegated[q].session = s
    BY <1>1, <1>2, <1>4, <2>2 DEF Holds, Inside
  <2>3. CASE q # r /\ delegated[q].session # s
    BY <1>1, <1>3, <2>3 DEF LockInv, Holds, Inside
  <2> QED
    BY <2>1, <2>2, <2>3
<1>6. ASSUME NEW x \in Ids, NEW y \in Ids PROVE Outlasts(x, y)'
  <2>1. SUFFICES ASSUME Inside(x)', Inside(y)', x # y, delegated'[x].session = delegated'[y].session, delegated'[x].acquired
                 PROVE  delegated'[x].depth < delegated'[y].depth
    BY DEF Outlasts
  <2>2. CASE x = r
    BY <1>1, <1>4, <2>1, <2>2 DEF Inside
  <2>3. CASE y = r
    <3>1. Inside(x) /\ delegated[x].session = s /\ delegated'[x] = delegated[x] /\ x # r
      BY <1>1, <2>1, <2>3 DEF Inside
    <3>2. delegated[x].task = delegated[r].task
      BY <1>4, <3>1
    <3>3. delegated[x].depth < delegated[r].depth
      BY <1>1, <3>1, <3>2, RunningIsDeepest DEF Live
    <3> QED
      BY <1>1, <2>3, <3>1, <3>3
  <2>4. CASE x # r /\ y # r
    BY <1>1, <2>1, <2>4 DEF LockInv, Outlasts, Inside
  <2> QED
    BY <2>2, <2>3, <2>4
<1> QED
  BY <1>5, <1>6 DEF LockInv

\* A run that entered a session leaves it when nobody else is in it.
LEMMA LeaveLock ==
  ASSUME TreeInv, LockInv, NEW r \in Ids, Moves(r), Inside(r), delegated'[r].at = "over", owner' = Delegated!Leaves(r),
         \A q \in Ids \ {r} : Live(q) /\ delegated[q].task = delegated[r].task => delegated[q].depth < delegated[r].depth
  PROVE  LockInv'
<1>1. /\ \A q \in Ids \ {r} : delegated'[q] = delegated[q]
      /\ ~Inside(r)'
  BY DEF Moves, Inside
<1>2. CASE ~delegated[r].acquired
  BY <1>1, <1>2, SameLock DEF Delegated!Leaves, Inside
<1>3. CASE delegated[r].acquired
  <2>1. /\ owner' = [owner EXCEPT ![delegated[r].session] = None]
        /\ \A q \in Ids : delegated[q].session \in Delegated!RunSessions /\ delegated[q].depth \in Nat
    BY <1>3 DEF Delegated!Leaves, TreeInv, TreeSorts, RunRecs
  <2>2. ASSUME NEW q \in Ids, q # r, Inside(q) PROVE delegated[q].session # delegated[r].session
    <3>1. SUFFICES ASSUME delegated[q].session = delegated[r].session PROVE FALSE
      OBVIOUS
    <3>2. delegated[r].depth < delegated[q].depth
      BY <1>3, <2>2, <3>1 DEF LockInv, Outlasts
    <3>3. delegated[q].task = delegated[r].task
      BY <2>2, <3>1 DEF LockInv, Holds
    <3>4. delegated[q].depth < delegated[r].depth
      BY <2>2, <3>3 DEF Live
    <3> QED
      BY <2>1, <3>2, <3>4
  <2>3. ASSUME NEW q \in Ids PROVE Holds(q)'
    <3>1. SUFFICES ASSUME Inside(q)' PROVE owner'[delegated'[q].session] = delegated'[q].task
      BY DEF Holds
    <3>2. q # r /\ Inside(q) /\ delegated'[q] = delegated[q]
      BY <1>1, <3>1 DEF Inside
    <3>3. delegated[q].session # delegated[r].session /\ owner[delegated[q].session] = delegated[q].task
      BY <2>2, <3>2 DEF LockInv, Holds
    <3> QED
      BY <2>1, <3>2, <3>3 DEF TreeInv, TreeSorts
  <2>4. ASSUME NEW x \in Ids, NEW y \in Ids PROVE Outlasts(x, y)'
    BY <1>1 DEF LockInv, Outlasts, Inside
  <2> QED
    BY <2>3, <2>4 DEF LockInv
<1> QED
  BY <1>2, <1>3

\* Every step keeps who is in which session.
LEMMA LockInvNext == Delegated!DelegationAssumption /\ TreeInv /\ StackInv /\ LockInv /\ [Delegated!Next]_(Delegated!vars) => LockInv'
<1> SUFFICES ASSUME Delegated!DelegationAssumption, TreeInv, StackInv, LockInv, [Delegated!Next]_(Delegated!vars) PROVE LockInv'
  OBVIOUS
<1>1. ASSUME NEW r \in Ids, Delegated!Request(r) PROVE LockInv'
  <2>1. delegated'[r].at = "asked" /\ owner' = owner /\ \A q \in Ids \ {r} : delegated'[q] = delegated[q]
    BY <1>1, RequestBegins
  <2> QED
    BY <2>1, SameLock DEF Inside
<1>2. ASSUME NEW r \in Ids, Delegated!Refused(r) PROVE LockInv'
  <2>1. /\ Moves(r) /\ delegated[r].at = "running" /\ owner' = owner /\ delegated'[r].acquired = delegated[r].acquired
    BY <1>2, RefusedMoves
  <2> QED
    BY <2>1, SameLock DEF Inside, Moves, Stays
<1>3. ASSUME NEW r \in Ids, Delegated!Enter(r) PROVE LockInv'
  BY <1>3, EnterLock
<1>4. ASSUME NEW r \in Ids, Delegated!Back(r) PROVE LockInv'
  <2>1. /\ Moves(r) /\ delegated[r].at = "delegating" /\ delegated[delegated[r].child].at = "over" /\ delegated'[r].acquired = delegated[r].acquired
        /\ \/ delegated'[r].at = "over" /\ owner' = Delegated!Leaves(r)
           \/ delegated'[r].at = "running" /\ owner' = owner
    BY <1>4, BackMoves
  <2>2. \A q \in Ids \ {r} : Live(q) /\ delegated[q].task = delegated[r].task => delegated[q].depth < delegated[r].depth
    BY <2>1, ReturnedIsDeepest
  <2>3. CASE delegated'[r].at = "over" /\ owner' = Delegated!Leaves(r)
    BY <2>1, <2>2, <2>3, LeaveLock DEF Inside
  <2>4. CASE delegated'[r].at = "running" /\ owner' = owner
    BY <2>1, <2>4, SameLock DEF Inside, Moves, Stays
  <2> QED
    BY <2>1, <2>3, <2>4
<1>5. ASSUME NEW r \in Ids, NEW how \in {"completed", "failed", "cancelled"}, Delegated!End(r, how) PROVE LockInv'
  <2>1. Moves(r) /\ delegated[r].at = "running" /\ delegated'[r].at = "over" /\ owner' = Delegated!Leaves(r)
    BY <1>5, EndMoves
  <2>2. \A q \in Ids \ {r} : Live(q) /\ delegated[q].task = delegated[r].task => delegated[q].depth < delegated[r].depth
    BY <2>1, RunningIsDeepest
  <2> QED
    BY <2>1, <2>2, LeaveLock DEF Inside
<1>6. ASSUME NEW r \in Ids, NEW status \in {"completed", "failed"}, Delegated!Record(r, status) PROVE LockInv'
  BY <1>6, SameLock DEF Delegated!Record, Inside
<1>7. ASSUME NEW r \in Ids, NEW c \in Ids, NEW isolation \in {"shared", "forked", "isolated"},
             NEW background \in BOOLEAN, NEW transfer \in BOOLEAN, Delegated!Delegate(r, c, isolation, background, transfer)
      PROVE  LockInv'
  <2>1. /\ r # c /\ delegated[r].at = "running" /\ delegated'[c].at = "asked" /\ delegated'[r].acquired = delegated[r].acquired /\ owner' = owner
        /\ Stays(r) /\ \A q \in Ids \ {r, c} : delegated'[q] = delegated[q]
    BY <1>7, DelegateBegins
  <2> QED
    BY <2>1, SameLock DEF Inside, Stays
<1>8. CASE UNCHANGED Delegated!vars
  BY <1>8, SameLock DEF Delegated!vars, Inside
<1> QED
  BY <1>1, <1>2, <1>3, <1>4, <1>5, <1>6, <1>7, <1>8 DEF Delegated!Next, Delegated!Progress

\* The sessions: a run enters, goes on or ends; only a run that is in its
\* session writes, and only there.
LEMMA MovesSession ==
  ASSUME TreeInv, SessionInv, NEW r \in Ids, Moves(r),
         Begun(r) => delegated'[r].found = delegated[r].found,
         ~Begun(r) => delegated'[r].found = states[delegated[r].session],
         \A s \in Delegated!RunSessions : states'[s] = states[s] \/ (Begun(r) /\ s = delegated[r].session)
  PROVE  SessionInv'
<1>1. /\ \A q \in Ids : Stays(q) /\ (Begun(q) => Begun(q)')
      /\ \A q \in Ids \ {r} : delegated'[q] = delegated[q] /\ (Begun(q)' <=> Begun(q))
      /\ Begun(r)' /\ delegated'[r].at # "asked" /\ (~Begun(r) => delegated[r].at = "asked")
  BY DEF Moves, Stays, Begun, Live, Inside
<1>2. \A q \in Ids : delegated[q].session \in Delegated!RunSessions /\ Named(q) /\ Starts(q)
  BY DEF TreeInv, TreeSorts, RunRecs, SessionInv
<1>3. ASSUME NEW q \in Ids PROVE Named(q)'
  <2>1. delegated'[q].at # "off" \/ delegated[q].at = "off"
    BY <1>1 DEF Begun, Inside
  <2> QED
    BY <1>1, <1>2, <2>1 DEF Named, Stays
<1>4. ASSUME NEW c \in Ids PROVE Starts(c)'
  <2>1. ~Begun(c)' => states'[Delegated!New(c)] = <<>>
    <3>1. SUFFICES ASSUME ~Begun(c)' PROVE states'[Delegated!New(c)] = <<>>
      OBVIOUS
    <3>2. c # r /\ ~Begun(c)
      BY <1>1, <3>1
    <3>3. delegated[r].session # Delegated!New(c)
      BY <1>2, <3>2 DEF Named
    <3> QED
      BY <1>2, <3>2, <3>3, SessionsDiffer DEF Starts
  <2>2. delegated'[c].isolation = "isolated" /\ Begun(c)' => delegated'[c].found = <<>>
    <3>1. CASE c # r
      BY <1>1, <1>2, <3>1 DEF Starts
    <3>2. CASE c = r
      BY <1>1, <1>2, <3>2 DEF Starts, Stays, Named
    <3> QED
      BY <3>1, <3>2
  <2>3. ASSUME delegated'[c].isolation = "forked", Alone(c)'
        PROVE  /\ delegated'[c].at = "asked" => states'[delegated'[c].session] = delegated'[c].copied
               /\ Begun(c)' => delegated'[c].found = delegated'[c].copied
    <3>1. delegated[c].isolation = "forked" /\ Alone(c)
      BY <1>1, <2>3 DEF Alone, Stays
    <3>2. CASE c # r
      <4>1. delegated'[c] = delegated[c] /\ delegated[c].session # delegated[r].session /\ states'[delegated[c].session] = states[delegated[c].session]
        BY <1>1, <1>2, <3>1, <3>2 DEF Alone
      <4> QED
        BY <1>1, <1>2, <3>1, <3>2, <4>1 DEF Starts
    <3>3. CASE c = r
      BY <1>1, <1>2, <3>1, <3>3 DEF Starts, Stays
    <3> QED
      BY <3>2, <3>3
  <2> QED
    BY <2>1, <2>2, <2>3 DEF Starts
<1> QED
  BY <1>3, <1>4 DEF SessionInv

\* A run of the application's begins in the application's session.
LEMMA RequestSession ==
  ASSUME Delegated!DelegationAssumption, TreeInv, SessionInv, NEW r \in Ids, Delegated!Request(r)
  PROVE  SessionInv'
<1>1. /\ delegated[r] = Delegated!NoRun /\ delegated'[r].at = "asked" /\ delegated'[r].isolation = None /\ delegated'[r].session = Delegated!Main
      /\ \A q \in Ids \ {r} : delegated'[q] = delegated[q]
      /\ states' = states
  BY RequestBegins
<1>2. delegated[r].at = "off" /\ delegated[r].session = Delegated!Main /\ None \notin {"isolated", "forked"}
  BY <1>1, OffIsFree DEF Delegated!DelegationAssumption
<1>3. \A q \in Ids : delegated'[q].session = delegated[q].session /\ (Begun(q)' <=> Begun(q)) /\ Named(q) /\ Starts(q)
  BY <1>1, <1>2 DEF Begun, Inside, SessionInv
<1>4. ASSUME NEW q \in Ids PROVE Named(q)'
  BY <1>1, <1>2, <1>3, SessionsDiffer DEF Named
<1>5. ASSUME NEW c \in Ids PROVE Starts(c)'
  <2>1. Alone(c)' <=> Alone(c)
    BY <1>3 DEF Alone
  <2>2. CASE c = r
    BY <1>1, <1>2, <1>3, <2>2 DEF Starts
  <2>3. CASE c # r
    BY <1>1, <1>3, <2>1, <2>3 DEF Starts
  <2> QED
    BY <2>2, <2>3
<1> QED
  BY <1>4, <1>5 DEF SessionInv

\* A child's session is its parent's, a new one, or a copy that makes all who
\* have the same one share it.
LEMMA DelegateSession ==
  ASSUME Delegated!DelegationAssumption, TreeInv, SessionInv, NEW r \in Ids, NEW c \in Ids,
         NEW isolation \in {"shared", "forked", "isolated"},
         NEW background \in BOOLEAN, NEW transfer \in BOOLEAN, Delegated!Delegate(r, c, isolation, background, transfer)
  PROVE  SessionInv'
<1>1. /\ delegated[c] = Delegated!NoRun /\ r # c /\ delegated[r].at = "running"
      /\ delegated'[c].at = "asked" /\ delegated'[c].isolation = isolation /\ delegated'[c].session = Delegated!Target(r, c, isolation)
      /\ delegated'[c].copied = (IF isolation = "forked" THEN states[delegated[r].session] ELSE <<>>)
      /\ delegated'[r].at \in {"running", "delegating"} /\ delegated'[r].found = delegated[r].found /\ Stays(r)
      /\ \A q \in Ids \ {r, c} : delegated'[q] = delegated[q]
      /\ isolation = "forked" => states' = [states EXCEPT ![Delegated!ForkOf(r)] = states[delegated[r].session]]
      /\ isolation # "forked" => states' = states
  BY DelegateBegins
<1>2. delegated[c].at = "off" /\ delegated[c].session = Delegated!Main
  BY <1>1, OffIsFree
<1>3. /\ \A q \in Ids : Named(q) /\ Starts(q) /\ (Begun(q)' <=> Begun(q))
      /\ \A q \in Ids \ {c} : Stays(q) /\ delegated'[q].found = delegated[q].found /\ (delegated'[q].at = "asked" => delegated'[q] = delegated[q])
      /\ Begun(r)
  BY <1>1, <1>2 DEF Begun, Inside, SessionInv, Stays
<1>4. \A s \in Delegated!RunSessions : s # Delegated!ForkOf(r) => states'[s] = states[s]
  BY <1>1 DEF TreeInv, TreeSorts
<1>5. Named(c)'
  <2>1. CASE isolation = "shared"
    BY <1>1, <1>2, <1>3, <2>1, SessionsDiffer DEF Named, Delegated!Target
  <2>2. CASE isolation = "forked"
    BY <1>1, <2>2, SessionsDiffer DEF Named, Delegated!Target
  <2>3. CASE isolation = "isolated"
    BY <1>1, <2>3, SessionsDiffer DEF Named, Delegated!Target
  <2> QED
    BY <2>1, <2>2, <2>3
<1>6. ASSUME NEW q \in Ids, q # c PROVE Named(q)'
  <2>1. delegated'[q].at # "off" \/ delegated[q].at = "off"
    BY <1>1, <1>6
  <2> QED
    BY <1>3, <1>6, <2>1 DEF Named, Stays
<1>7. ASSUME NEW q \in Ids PROVE Starts(q)'
  <2>1. ~Begun(q)' => states'[Delegated!New(q)] = <<>>
    BY <1>3, <1>4, SessionsDiffer DEF Starts
  <2>2. CASE q = c
    <3>1. ~Begun(c)'
      BY <1>2, <1>3 DEF Begun, Inside
    <3>2. isolation = "forked" => states'[delegated'[c].session] = delegated'[c].copied
      BY <1>1, SessionsDiffer DEF Delegated!Target, TreeInv, TreeSorts
    <3> QED
      BY <1>1, <2>1, <2>2, <3>1, <3>2 DEF Starts
  <2>3. CASE q # c
    <3>1. delegated'[q].isolation = "isolated" /\ Begun(q)' => delegated'[q].found = <<>>
      BY <1>3, <2>3 DEF Starts, Stays
    <3>2. ASSUME delegated'[q].isolation = "forked", Alone(q)'
          PROVE  /\ delegated'[q].at = "asked" => states'[delegated'[q].session] = delegated'[q].copied
                 /\ Begun(q)' => delegated'[q].found = delegated'[q].copied
      <4>1. delegated[q].isolation = "forked" /\ delegated[q].session # Delegated!Main /\ delegated[q].session \in Delegated!RunSessions
        BY <1>3, <2>3, <3>2, SessionsDiffer DEF Named, Stays
      <4>2. Alone(q)
        BY <1>2, <1>3, <2>3, <3>2, <4>1 DEF Alone, Stays
      <4>3. isolation = "forked" => delegated[q].session # Delegated!ForkOf(r)
        BY <1>1, <1>3, <2>3, <3>2 DEF Alone, Stays, Delegated!Target
      <4>4. states'[delegated[q].session] = states[delegated[q].session]
        BY <1>1, <1>4, <4>1, <4>3
      <4> QED
        BY <1>3, <2>3, <4>1, <4>2, <4>4 DEF Starts, Stays
    <3> QED
      BY <2>1, <3>1, <3>2 DEF Starts
  <2> QED
    BY <2>2, <2>3
<1> QED
  BY <1>5, <1>6, <1>7 DEF SessionInv

\* Every step keeps what sessions are and what runs begin with.
LEMMA SessionInvNext == Delegated!DelegationAssumption /\ TreeInv /\ SessionInv /\ [Delegated!Next]_(Delegated!vars) => SessionInv'
<1> SUFFICES ASSUME Delegated!DelegationAssumption, TreeInv, SessionInv, [Delegated!Next]_(Delegated!vars) PROVE SessionInv'
  OBVIOUS
<1>1. ASSUME NEW r \in Ids, Delegated!Request(r) PROVE SessionInv'
  BY <1>1, RequestSession
<1>2. ASSUME NEW r \in Ids, Delegated!Refused(r) PROVE SessionInv'
  <2>1. Moves(r) /\ delegated[r].at = "running" /\ delegated'[r].found = delegated[r].found /\ states' = states
    BY <1>2, RefusedMoves
  <2> QED
    BY <2>1, MovesSession DEF Begun, Inside
<1>3. ASSUME NEW r \in Ids, Delegated!Enter(r) PROVE SessionInv'
  <2>1. Moves(r) /\ delegated[r].at = "asked" /\ delegated'[r].found = states[delegated[r].session] /\ states' = states
    BY <1>3, EnterMoves
  <2> QED
    BY <2>1, MovesSession DEF Begun, Inside
<1>4. ASSUME NEW r \in Ids, Delegated!Back(r) PROVE SessionInv'
  <2>1. Moves(r) /\ delegated[r].at = "delegating" /\ delegated'[r].found = delegated[r].found /\ states' = states
    BY <1>4, BackMoves
  <2> QED
    BY <2>1, MovesSession DEF Begun, Inside
<1>5. ASSUME NEW r \in Ids, NEW how \in {"completed", "failed", "cancelled"}, Delegated!End(r, how) PROVE SessionInv'
  <2>1. /\ Moves(r) /\ delegated[r].at = "running" /\ delegated'[r].found = delegated[r].found
        /\ \A s \in Delegated!RunSessions \ {delegated[r].session} : states'[s] = states[s]
    BY <1>5, EndMoves
  <2> QED
    BY <2>1, MovesSession DEF Begun, Inside
<1>6. ASSUME NEW r \in Ids, NEW status \in {"completed", "failed"}, Delegated!Record(r, status) PROVE SessionInv'
  BY <1>6 DEF Delegated!Record, SessionInv, Named, Starts, Alone, Begun, Inside
<1>7. ASSUME NEW r \in Ids, NEW c \in Ids, NEW isolation \in {"shared", "forked", "isolated"},
             NEW background \in BOOLEAN, NEW transfer \in BOOLEAN, Delegated!Delegate(r, c, isolation, background, transfer)
      PROVE  SessionInv'
  BY <1>7, DelegateSession
<1>8. CASE UNCHANGED Delegated!vars
  BY <1>8 DEF Delegated!vars, SessionInv, Named, Starts, Alone, Begun, Inside
<1> QED
  BY <1>1, <1>2, <1>3, <1>4, <1>5, <1>6, <1>7, <1>8 DEF Delegated!Next, Delegated!Progress

\* The records: a run that is over stays as it is.
LEMMA RecordsTrueNext == TreeInv /\ Delegated!RecordsTrue /\ [Delegated!Next]_(Delegated!vars) => Delegated!RecordsTrue'
<1> SUFFICES ASSUME TreeInv, Delegated!RecordsTrue, [Delegated!Next]_(Delegated!vars) PROVE Delegated!RecordsTrue'
  OBVIOUS
<1>1. ASSUME \A i \in Ids : delegated[i].at = "over" => delegated'[i] = delegated[i],
             \A i \in Ids : info'[i] \in {"completed", "failed"} => info'[i] = info[i]
      PROVE  Delegated!RecordsTrue'
  BY <1>1 DEF Delegated!RecordsTrue
<1>2. ASSUME NEW r \in Ids, Moves(r), info' = info PROVE Delegated!RecordsTrue'
  BY <1>1, <1>2 DEF Moves, Live, Inside
<1>3. ASSUME NEW r \in Ids, Delegated!Request(r) PROVE Delegated!RecordsTrue'
  <2>1. delegated[r].at = "off" /\ info' = info /\ \A q \in Ids \ {r} : delegated'[q] = delegated[q]
    BY <1>3, RequestBegins DEF Delegated!Request
  <2> QED
    BY <1>1, <2>1
<1>4. ASSUME NEW r \in Ids, Delegated!Refused(r) \/ Delegated!Enter(r) \/ Delegated!Back(r) PROVE Delegated!RecordsTrue'
  BY <1>2, <1>4, RefusedMoves, EnterMoves, BackMoves
<1>5. ASSUME NEW r \in Ids, NEW how \in {"completed", "failed", "cancelled"}, Delegated!End(r, how) PROVE Delegated!RecordsTrue'
  BY <1>2, <1>5, EndMoves
<1>6. ASSUME NEW r \in Ids, NEW status \in {"completed", "failed"}, Delegated!Record(r, status) PROVE Delegated!RecordsTrue'
  BY <1>6 DEF Delegated!Record, Delegated!Settles, Delegated!RecordsTrue, TreeInv, TreeSorts
<1>7. ASSUME NEW r \in Ids, NEW c \in Ids, NEW isolation \in {"shared", "forked", "isolated"},
             NEW background \in BOOLEAN, NEW transfer \in BOOLEAN, Delegated!Delegate(r, c, isolation, background, transfer)
      PROVE  Delegated!RecordsTrue'
  <2>1. /\ delegated[r].at = "running" /\ delegated[c] = Delegated!NoRun /\ \A q \in Ids \ {r, c} : delegated'[q] = delegated[q]
        /\ \A i \in Ids : info'[i] \in {"completed", "failed"} => info'[i] = info[i]
    BY <1>7, DelegateBegins
  <2>2. delegated[c].at = "off"
    BY <2>1 DEF Delegated!NoRun
  <2> QED
    BY <1>1, <2>1, <2>2
<1>8. CASE UNCHANGED Delegated!vars
  BY <1>8 DEF Delegated!vars, Delegated!RecordsTrue
<1> QED
  BY <1>3, <1>4, <1>5, <1>6, <1>7, <1>8 DEF Delegated!Next, Delegated!Progress

DelegationInv == TreeInv /\ StackInv /\ LockInv /\ SessionInv /\ Delegated!RecordsTrue

\* The whole invariant holds at first.
LEMMA DelegationInvInit == Delegated!DelegationAssumption /\ Delegated!Init => DelegationInv
<1> SUFFICES ASSUME Delegated!DelegationAssumption, Delegated!Init PROVE DelegationInv
  OBVIOUS
<1>1. /\ \A r \in Ids : /\ delegated[r].at = "off" /\ delegated[r].isolation = None /\ delegated[r].session = Delegated!Main
                        /\ states[Delegated!New(r)] = <<>> /\ info[r] = None
      /\ None \notin {"isolated", "forked", "completed", "failed"}
  BY SessionsDiffer DEF Delegated!Init, Delegated!NoRun, Delegated!DelegationAssumption
<1>2. StackInv
  BY <1>1 DEF StackInv, Stacked, Topmost, Live, Inside
<1>3. LockInv
  BY <1>1 DEF LockInv, Holds, Outlasts, Inside
<1>4. SessionInv
  BY <1>1, SessionsDiffer DEF SessionInv, Named, Starts, Begun, Inside
<1>5. Delegated!RecordsTrue
  BY <1>1 DEF Delegated!RecordsTrue
<1> QED
  BY <1>2, <1>3, <1>4, <1>5, TreeInvInit DEF DelegationInv

\* The whole invariant is inductive.
LEMMA DelegationInvNext == Delegated!DelegationAssumption /\ DelegationInv /\ [Delegated!Next]_(Delegated!vars) => DelegationInv'
BY TreeInvNext, StackInvNext, LockInvNext, SessionInvNext, RecordsTrueNext DEF DelegationInv

\* It says what delegation promises.
LEMMA DelegationInvSound == DelegationInv => Delegated!DelegationSound
<1> SUFFICES ASSUME DelegationInv PROVE Delegated!DelegationSound
  OBVIOUS
<1>1. Delegated!DepthCounted
  BY DEF DelegationInv, TreeInv, Placed, Delegated!DepthCounted
<1>2. Delegated!SessionsExclude
  BY DEF DelegationInv, LockInv, Holds, Inside, Delegated!SessionsExclude
<1>3. Delegated!ChildrenStartRight
  BY DEF DelegationInv, SessionInv, Starts, Alone, Begun, Inside, Delegated!ChildrenStartRight
<1> QED
  BY <1>1, <1>2, <1>3 DEF DelegationInv, Delegated!DelegationSound

\* However many runs delegate to however many others, and whatever the limit:
\* a child is one deeper than its parent and no deeper than the limit, a task
\* is in a session alone, a child begins in an empty session or with the copy
\* made for it, and a record says how a run ended only when it has.
THEOREM DelegationIsSound == ASSUME Delegated!DelegationAssumption PROVE Delegated!Spec => []Delegated!DelegationSound
<1>1. Delegated!Init => DelegationInv
  BY DelegationInvInit
<1>2. DelegationInv /\ [Delegated!Next]_(Delegated!vars) => DelegationInv'
  BY DelegationInvNext
<1>3. DelegationInv => Delegated!DelegationSound
  BY DelegationInvSound
<1> QED
  BY <1>1, <1>2, <1>3, PTL DEF Delegated!Spec
-----------------------------------------------------------------------------
\* Events and chunks that there may be.
Events == [by : Streams, n : Nat \ {0}, kind : Stream!EventKinds]
ChunkRecs == [of : [by : Streams, n : Nat, kind : Stream!EventKinds \cup {Stream!Finished}], sequence : Nat]

StreamSorts ==
    /\ wrapped \in BOOLEAN /\ subs \subseteq Streams
    /\ task \in [Streams -> {"none", "running", "cancelling", "returned", "failed", "cancelled"}]
    /\ emitted \in [Streams -> Seq(Stream!EventKinds)]
    /\ pending \in [Streams -> [event : Events \cup {Stream!NoEvent}, to : SUBSET Streams]]
    /\ queue \in [Streams -> Seq(ChunkRecs)]
    /\ count \in [Streams -> Nat]
    /\ stream \in [Streams -> {"off", "asking", "given", "concluded", "closing", "over"}]
    /\ got \in [Streams -> Seq(ChunkRecs)]

Watched(r) == stream[r] \in {"asking", "given", "concluded", "closing"}

\* A stream's handler is on the bus while its generator is there.
Linked(r) ==
    /\ task[r] = "none" <=> stream[r] = "off"
    /\ stream[r] \in {"concluded", "over"} => Stream!TaskDone(r)
    /\ Watched(r) => r \in subs
    /\ stream[r] = "over" => wrapped \/ r \notin subs

\* What waits for a slow handler is the last event, on its way to its stream too.
LastEvent(r) == [by |-> r, n |-> Len(emitted[r]), kind |-> emitted[r][Len(emitted[r])]]
Waits(r) ==
    /\ task[r] = "none" => emitted[r] = <<>>
    /\ pending[r].event # Stream!NoEvent =>
          /\ task[r] \in {"running", "cancelling"} /\ r \in pending[r].to
          /\ emitted[r] # <<>> /\ pending[r].event = LastEvent(r)

\* Chunks are counted, and the one of the result is the last given.
Numbered(r) ==
    /\ count[r] = Len(Stream!Chunks(r))
    /\ \A i \in 1..Len(Stream!Chunks(r)) :
          /\ Stream!Chunks(r)[i].sequence = i
          /\ Stream!Chunks(r)[i].of.kind = Stream!Finished => i = Len(got[r]) /\ stream[r] \in {"concluded", "over"}

\* What a stream has of its run and of others.
OwnAt(r, i) == Stream!Chunks(r)[i].of.by = r /\ Stream!NotFinished(Stream!Chunks(r)[i])
Lost(r, n) == task[r] = "cancelled" /\ n = Len(emitted[r])
Told(r) ==
    /\ \A i \in 1..Len(Stream!Chunks(r)) :
          /\ Stream!Chunks(r)[i].of.by # r => Stream!Chunks(r)[i].of.kind = "pattern"
          /\ OwnAt(r, i) => Stream!Chunks(r)[i].of.n \in 1..Len(emitted[r]) /\ Stream!Chunks(r)[i].of.n # pending[r].event.n
    /\ \A i, j \in 1..Len(Stream!Chunks(r)) : OwnAt(r, i) /\ OwnAt(r, j) /\ i < j => Stream!Chunks(r)[i].of.n < Stream!Chunks(r)[j].of.n
    /\ Watched(r) => \A n \in 1..Len(emitted[r]) :
          emitted[r][n] # "unmapped" /\ n # pending[r].event.n /\ ~Lost(r, n) =>
              \E i \in 1..Len(Stream!Chunks(r)) : OwnAt(r, i) /\ Stream!Chunks(r)[i].of.n = n

StreamInv == StreamSorts /\ \A r \in Streams : Linked(r) /\ Waits(r) /\ Numbered(r) /\ Told(r)

\* The chunks of a stream are chunks.
LEMMA ChunksAre == ASSUME StreamSorts, NEW r \in Streams PROVE Stream!Chunks(r) \in Seq(ChunkRecs) /\ Len(Stream!Chunks(r)) = Len(got[r]) + Len(queue[r])
BY DEF StreamSorts, Stream!Chunks

\* An event that is projected is a chunk more for the streams that it passes to.
LEMMA Projected ==
    ASSUME StreamSorts, NEW e \in Events, NEW to \in SUBSET Streams, Stream!Project(e, to), got' = got, NEW r \in Streams
    PROVE  /\ queue' \in [Streams -> Seq(ChunkRecs)] /\ count' \in [Streams -> Nat]
           /\ r \in to /\ Stream!Passes(e, r) =>
                 /\ Stream!Chunks(r)' = Append(Stream!Chunks(r), [of |-> e, sequence |-> count[r] + 1])
                 /\ count'[r] = count[r] + 1
                 /\ [of |-> e, sequence |-> count[r] + 1] \in ChunkRecs
           /\ ~(r \in to /\ Stream!Passes(e, r)) => Stream!Chunks(r)' = Stream!Chunks(r) /\ count'[r] = count[r]
<1>1. \A q \in Streams : [of |-> e, sequence |-> count[q] + 1] \in ChunkRecs
  BY DEF Events, ChunkRecs, StreamSorts
<1>2. queue' \in [Streams -> Seq(ChunkRecs)] /\ count' \in [Streams -> Nat]
  BY <1>1 DEF Stream!Project, StreamSorts
<1>3. ASSUME r \in to, Stream!Passes(e, r)
      PROVE Stream!Chunks(r)' = Append(Stream!Chunks(r), [of |-> e, sequence |-> count[r] + 1]) /\ count'[r] = count[r] + 1
  <2>1. queue'[r] = Append(queue[r], [of |-> e, sequence |-> count[r] + 1]) /\ count'[r] = count[r] + 1
    BY <1>3 DEF Stream!Project
  <2>2. \A g, q \in Seq(ChunkRecs), x \in ChunkRecs : g \o Append(q, x) = Append(g \o q, x)
    OBVIOUS
  <2> QED BY <1>1, <2>1, <2>2 DEF Stream!Chunks, StreamSorts
<1>4. ASSUME ~(r \in to /\ Stream!Passes(e, r)) PROVE Stream!Chunks(r)' = Stream!Chunks(r) /\ count'[r] = count[r]
  <2>1. queue'[r] = queue[r] /\ count'[r] = count[r]
    BY <1>4 DEF Stream!Project
  <2> QED BY <2>1 DEF Stream!Chunks
<1> QED BY <1>1, <1>2, <1>3, <1>4

\* A run of which a step changes nothing keeps what holds of it.
LEMMA Untouched ==
    ASSUME StreamInv, NEW q \in Streams, Stream!Chunks(q)' = Stream!Chunks(q), count'[q] = count[q], got'[q] = got[q], wrapped' = wrapped,
           emitted'[q] = emitted[q], pending'[q] = pending[q], task'[q] = task[q], stream'[q] = stream[q],
           q \in subs' <=> q \in subs
    PROVE  Linked(q)' /\ Waits(q)' /\ Numbered(q)' /\ Told(q)'
<1>1. Linked(q)'
  BY DEF StreamInv, Linked, Watched, Stream!TaskDone
<1>2. Waits(q)'
  BY DEF StreamInv, Waits, LastEvent
<1>3. Numbered(q)'
  BY DEF StreamInv, Numbered
<1>4. Told(q)'
  BY DEF StreamInv, Told, OwnAt, Stream!NotFinished, Watched, Lost
<1> QED BY <1>1, <1>2, <1>3, <1>4

\* A chunk more has the next number.
LEMMA NumberedOfMore ==
    ASSUME StreamInv, NEW q \in Streams, NEW e \in Events, got'[q] = got[q], stream'[q] = stream[q],
           [of |-> e, sequence |-> count[q] + 1] \in ChunkRecs,
           Stream!Chunks(q)' = Append(Stream!Chunks(q), [of |-> e, sequence |-> count[q] + 1]), count'[q] = count[q] + 1
    PROVE  Numbered(q)'
<1> DEFINE c == Stream!Chunks(q)
<1> DEFINE x == [of |-> e, sequence |-> count[q] + 1]
<1>1. c \in Seq(ChunkRecs) /\ count[q] = Len(c)
  BY ChunksAre DEF StreamInv, Numbered
<1>2. x.sequence = Len(c) + 1 /\ x.of.kind # Stream!Finished
  BY <1>1 DEF Events, Stream!EventKinds, Stream!Finished
<1>3. /\ Len(Append(c, x)) = Len(c) + 1
      /\ \A i \in 1..Len(c) : Append(c, x)[i] = c[i]
      /\ Append(c, x)[Len(c) + 1] = x
  BY <1>1
<1>4. \A i \in 1..Len(c) : c[i].sequence = i /\ (c[i].of.kind = Stream!Finished => i = Len(got[q]) /\ stream[q] \in {"concluded", "over"})
  BY DEF StreamInv, Numbered
<1> QED BY <1>1, <1>2, <1>3, <1>4 DEF Numbered

\* What a chunk of another run adds to a stream.
LEMMA ToldOfForeign ==
    ASSUME StreamInv, NEW q \in Streams, NEW e \in Events, e.by # q, e.kind = "pattern", stream'[q] = stream[q], task'[q] = task[q],
           emitted'[q] = emitted[q], pending'[q] = pending[q],
           [of |-> e, sequence |-> count[q] + 1] \in ChunkRecs,
           Stream!Chunks(q)' = Append(Stream!Chunks(q), [of |-> e, sequence |-> count[q] + 1])
    PROVE  Told(q)'
<1> DEFINE c == Stream!Chunks(q)
<1> DEFINE x == [of |-> e, sequence |-> count[q] + 1]
<1>1. c \in Seq(ChunkRecs)
  BY ChunksAre DEF StreamInv
<1>2. /\ Len(Append(c, x)) = Len(c) + 1
      /\ \A i \in 1..Len(c) : Append(c, x)[i] = c[i]
      /\ Append(c, x)[Len(c) + 1] = x
  BY <1>1
<1>3. x.of.by # q /\ x.of.kind = "pattern"
  OBVIOUS
<1>4. Len(c) \in Nat /\ Len(Stream!Chunks(q)') = Len(c) + 1
  BY <1>1, <1>2
<1>5. \A i \in 1..Len(c) : Stream!Chunks(q)'[i] = c[i] /\ (OwnAt(q, i)' <=> OwnAt(q, i))
  BY <1>2 DEF OwnAt, Stream!NotFinished
<1>6. \A i : i = Len(c) + 1 => Stream!Chunks(q)'[i] = x /\ ~OwnAt(q, i)'
  BY <1>2, <1>3 DEF OwnAt, Stream!NotFinished
<1> HIDE DEF c, x
<1>7. Told(q)
  BY DEF StreamInv
<1>8. \A i \in 1..Len(c) + 1 : i \in 1..Len(c) \/ i = Len(c) + 1
  BY <1>4
<1>9. \A i \in 1..Len(c) : i \in 1..Len(c) + 1
  BY <1>4
<1>10. \A i \in 1..Len(Stream!Chunks(q)') :
          /\ Stream!Chunks(q)'[i].of.by # q => Stream!Chunks(q)'[i].of.kind = "pattern"
          /\ OwnAt(q, i)' => Stream!Chunks(q)'[i].of.n \in 1..Len(emitted[q]) /\ Stream!Chunks(q)'[i].of.n # pending[q].event.n
  BY <1>3, <1>4, <1>5, <1>6, <1>7, <1>8 DEF Told, c
<1>11. \A i, j \in 1..Len(Stream!Chunks(q)') : OwnAt(q, i)' /\ OwnAt(q, j)' /\ i < j => Stream!Chunks(q)'[i].of.n < Stream!Chunks(q)'[j].of.n
  BY <1>4, <1>5, <1>6, <1>7, <1>8 DEF Told, c
<1>12. Watched(q)' => \A n \in 1..Len(emitted[q]) :
          emitted[q][n] # "unmapped" /\ n # pending[q].event.n /\ ~Lost(q, n)' =>
              \E i \in 1..Len(Stream!Chunks(q)') : OwnAt(q, i)' /\ Stream!Chunks(q)'[i].of.n = n
  BY <1>4, <1>5, <1>7, <1>9 DEF Told, Watched, Lost, c
<1> QED BY <1>10, <1>11, <1>12 DEF Told

\* What an event of its own, which waits no more, adds to a stream.
LEMMA ToldOfOwn ==
    ASSUME StreamInv, NEW q \in Streams, NEW e \in Events, e.by = q, e.n = Len(emitted[q]'), stream'[q] = stream[q], task'[q] = task[q],
           emitted'[q] \in Seq(Stream!EventKinds), emitted[q] \in Seq(Stream!EventKinds), Len(emitted[q]) <= Len(emitted[q]'),
           \A n \in 1..Len(emitted[q]') : n # Len(emitted[q]') => n \in 1..Len(emitted[q]) /\ emitted'[q][n] = emitted[q][n] /\ n # pending[q].event.n,
           \A i \in 1..Len(Stream!Chunks(q)) : OwnAt(q, i) => Stream!Chunks(q)[i].of.n < e.n,
           pending'[q].event = Stream!NoEvent, task[q] # "cancelled",
           [of |-> e, sequence |-> count[q] + 1] \in ChunkRecs,
           Stream!Chunks(q)' = Append(Stream!Chunks(q), [of |-> e, sequence |-> count[q] + 1])
    PROVE  Told(q)'
<1> DEFINE c == Stream!Chunks(q)
<1> DEFINE x == [of |-> e, sequence |-> count[q] + 1]
<1>1. c \in Seq(ChunkRecs)
  BY ChunksAre DEF StreamInv
<1>2. /\ Len(Append(c, x)) = Len(c) + 1
      /\ \A i \in 1..Len(c) : Append(c, x)[i] = c[i]
      /\ Append(c, x)[Len(c) + 1] = x
  BY <1>1
<1>3. x.of.by = q /\ x.of.n = e.n /\ x.of.kind # Stream!Finished /\ e.n \in Nat \ {0}
  BY DEF Events, Stream!EventKinds, Stream!Finished
<1>4. Len(c) \in Nat /\ Len(Stream!Chunks(q)') = Len(c) + 1
  BY <1>1, <1>2
<1>5. \A i \in 1..Len(c) : Stream!Chunks(q)'[i] = c[i] /\ (OwnAt(q, i)' <=> OwnAt(q, i))
  BY <1>2 DEF OwnAt, Stream!NotFinished
<1>6. \A i : i = Len(c) + 1 => Stream!Chunks(q)'[i] = x /\ OwnAt(q, i)'
  BY <1>2, <1>3 DEF OwnAt, Stream!NotFinished
<1> HIDE DEF c, x
<1>7. Told(q) /\ pending'[q].event.n = 0 /\ Len(emitted[q]) \in Nat /\ Len(emitted'[q]) \in Nat
  BY DEF StreamInv, Stream!NoEvent
<1>8. \A i \in 1..Len(c) + 1 : i \in 1..Len(c) \/ i = Len(c) + 1
  BY <1>4
<1>9. (\A i \in 1..Len(c) : i \in 1..Len(c) + 1) /\ Len(c) + 1 \in 1..Len(c) + 1
  BY <1>4
<1>10. \A i \in 1..Len(Stream!Chunks(q)') :
          /\ Stream!Chunks(q)'[i].of.by # q => Stream!Chunks(q)'[i].of.kind = "pattern"
          /\ OwnAt(q, i)' => Stream!Chunks(q)'[i].of.n \in 1..Len(emitted'[q]) /\ Stream!Chunks(q)'[i].of.n # pending'[q].event.n
  BY <1>3, <1>4, <1>5, <1>6, <1>7, <1>8 DEF Told, c
<1>11. \A i, j \in 1..Len(Stream!Chunks(q)') : OwnAt(q, i)' /\ OwnAt(q, j)' /\ i < j => Stream!Chunks(q)'[i].of.n < Stream!Chunks(q)'[j].of.n
  BY <1>3, <1>4, <1>5, <1>6, <1>7, <1>8 DEF Told, c
<1>12. Watched(q)' => \A n \in 1..Len(emitted'[q]) :
          emitted'[q][n] # "unmapped" /\ n # pending'[q].event.n /\ ~Lost(q, n)' =>
              \E i \in 1..Len(Stream!Chunks(q)') : OwnAt(q, i)' /\ Stream!Chunks(q)'[i].of.n = n
  <2> SUFFICES ASSUME Watched(q)', NEW n \in 1..Len(emitted'[q]), emitted'[q][n] # "unmapped", ~Lost(q, n)'
               PROVE  \E i \in 1..Len(Stream!Chunks(q)') : OwnAt(q, i)' /\ Stream!Chunks(q)'[i].of.n = n
    OBVIOUS
  <2>1. CASE n = Len(emitted'[q])
    BY <2>1, <1>3, <1>4, <1>6, <1>9
  <2>2. CASE n # Len(emitted'[q])
    <3>1. n \in 1..Len(emitted[q]) /\ emitted[q][n] # "unmapped" /\ n # pending[q].event.n /\ Watched(q)
      BY <2>2 DEF Watched
    <3>2. CASE ~Lost(q, n)
      <4>1. PICK i \in 1..Len(c) : OwnAt(q, i) /\ c[i].of.n = n
        BY <1>7, <3>1, <3>2 DEF Told, c
      <4> QED BY <4>1, <1>4, <1>5, <1>9
    <3>3. CASE Lost(q, n)
      BY <3>3 DEF Lost
    <3> QED BY <3>2, <3>3
  <2> QED BY <2>1, <2>2
<1> QED BY <1>10, <1>11, <1>12 DEF Told

Kept(q) == Linked(q)' /\ Waits(q)' /\ Numbered(q)' /\ Told(q)'

\* A projected event leaves what holds of the runs that did not emit it.
LEMMA OthersKept ==
    ASSUME StreamInv, NEW r \in Streams, NEW e \in Events, e.by = r, NEW to \in SUBSET Streams, Stream!Project(e, to),
           UNCHANGED <<got, wrapped, subs, task, stream>>,
           NEW q \in Streams, q # r, emitted'[q] = emitted[q], pending'[q] = pending[q]
    PROVE  Kept(q)
<1>1. StreamSorts
  BY DEF StreamInv
<1>2. CASE q \in to /\ Stream!Passes(e, q)
  <2>1. /\ Stream!Chunks(q)' = Append(Stream!Chunks(q), [of |-> e, sequence |-> count[q] + 1]) /\ count'[q] = count[q] + 1
        /\ [of |-> e, sequence |-> count[q] + 1] \in ChunkRecs
    BY <1>1, <1>2, Projected
  <2>2. e.kind = "pattern"
    BY <1>2 DEF Stream!Passes, Events, Stream!EventKinds
  <2>3. Numbered(q)'
    BY <2>1, NumberedOfMore
  <2>4. Told(q)'
    BY <2>1, <2>2, ToldOfForeign
  <2>5. Linked(q)' /\ Waits(q)'
    BY DEF StreamInv, Linked, Watched, Stream!TaskDone, Waits, LastEvent
  <2> QED BY <2>3, <2>4, <2>5 DEF Kept
<1>3. CASE ~(q \in to /\ Stream!Passes(e, q))
  <2>1. Stream!Chunks(q)' = Stream!Chunks(q) /\ count'[q] = count[q]
    BY <1>1, <1>3, Projected
  <2> QED BY <2>1, Untouched DEF Kept
<1> QED BY <1>2, <1>3

\* While a run goes on its handler is on the bus.
LEMMA HandlerIsThere ==
    ASSUME StreamInv, NEW r \in Streams, task[r] \in {"running", "cancelling"} PROVE r \in subs /\ Watched(r)
BY DEF StreamInv, StreamSorts, Linked, Watched, Stream!TaskDone

\* An event that is emitted reaches its own stream whole, and others as foreign.
LEMMA EmitKeeps ==
    ASSUME StreamInv, NEW r \in Streams, NEW kind \in Stream!EventKinds, NEW slow \in BOOLEAN, Stream!Emit(r, kind, slow)
    PROVE  StreamInv'
<1> DEFINE e == [by |-> r, n |-> Len(emitted[r]) + 1, kind |-> kind]
<1>1. StreamSorts /\ Linked(r) /\ Waits(r) /\ Numbered(r) /\ Told(r)
  BY DEF StreamInv
<1>2. /\ task[r] \in {"running", "cancelling"} /\ pending[r].event = Stream!NoEvent
      /\ emitted' = [emitted EXCEPT ![r] = Append(@, kind)]
      /\ UNCHANGED <<wrapped, subs, task, stream, got>>
      /\ IF slow THEN pending' = [pending EXCEPT ![r] = [event |-> e, to |-> subs]] /\ UNCHANGED <<queue, count>>
                 ELSE Stream!Project(e, subs) /\ UNCHANGED pending
  BY DEF Stream!Emit
<1>3. emitted[r] \in Seq(Stream!EventKinds) /\ Len(emitted[r]) \in Nat
  BY <1>1 DEF StreamSorts
<1>4. /\ emitted' \in [Streams -> Seq(Stream!EventKinds)] /\ emitted'[r] = Append(emitted[r], kind)
      /\ Len(emitted'[r]) = Len(emitted[r]) + 1 /\ emitted'[r][Len(emitted[r]) + 1] = kind
      /\ \A n \in 1..Len(emitted[r]) : emitted'[r][n] = emitted[r][n]
      /\ \A q \in Streams : q # r => emitted'[q] = emitted[q]
  BY <1>1, <1>2, <1>3 DEF StreamSorts
<1>5. e \in Events /\ e.n = Len(emitted[r]) + 1 /\ e.by = r /\ e.kind = kind /\ e # Stream!NoEvent /\ Stream!NoEvent.n = 0
  BY <1>3 DEF Events, Stream!NoEvent
<1>6. r \in subs /\ Watched(r) /\ task[r] # "cancelled" /\ subs \in SUBSET Streams
  BY <1>1, <1>2, HandlerIsThere DEF StreamSorts
<1>7. Linked(r)'
  BY <1>1, <1>2 DEF Linked, Watched, Stream!TaskDone
<1> HIDE DEF e
<1>8. \A i \in 1..Len(Stream!Chunks(r)) : OwnAt(r, i) => Stream!Chunks(r)[i].of.n \in 1..Len(emitted[r])
  BY <1>1 DEF Told
<1>9. CASE slow
  <2>1. /\ pending' = [pending EXCEPT ![r] = [event |-> e, to |-> subs]] /\ UNCHANGED <<queue, count>>
        /\ pending'[r].event = e /\ pending'[r].to = subs /\ \A q \in Streams : q # r => pending'[q] = pending[q]
    BY <1>1, <1>2, <1>9 DEF StreamSorts, e
  <2>2. StreamSorts'
    BY <1>1, <1>2, <1>4, <1>5, <1>6, <2>1 DEF StreamSorts
  <2>3. \A q \in Streams : Stream!Chunks(q)' = Stream!Chunks(q)
    BY <1>2, <2>1 DEF Stream!Chunks
  <2>4. \A q \in Streams : q # r => Kept(q)
    BY <1>2, <1>4, <2>1, <2>3, Untouched DEF Kept
  <2>5. Waits(r)'
    <3>1. e = LastEvent(r)'
      BY <1>4 DEF LastEvent, e
    <3>2. emitted'[r] # <<>>
      BY <1>3, <1>4
    <3> QED BY <1>2, <1>5, <1>6, <2>1, <3>1, <3>2 DEF Waits
  <2>6. Numbered(r)'
    BY <1>1, <1>2, <2>1, <2>3 DEF Numbered
  <2>7. Told(r)'
    <3>1. \A i \in 1..Len(Stream!Chunks(r)) : OwnAt(r, i)' <=> OwnAt(r, i)
      BY <2>3 DEF OwnAt, Stream!NotFinished
    <3>2. \A i \in 1..Len(Stream!Chunks(r)) :
             /\ Stream!Chunks(r)[i].of.by # r => Stream!Chunks(r)[i].of.kind = "pattern"
             /\ OwnAt(r, i) => Stream!Chunks(r)[i].of.n \in 1..Len(emitted'[r]) /\ Stream!Chunks(r)[i].of.n # pending'[r].event.n
      BY <1>1, <1>3, <1>4, <1>5, <1>8, <2>1 DEF Told
    <3>3. \A n \in 1..Len(emitted'[r]) : n # pending'[r].event.n => n \in 1..Len(emitted[r]) /\ n # pending[r].event.n /\ emitted'[r][n] = emitted[r][n]
      BY <1>2, <1>3, <1>4, <1>5, <2>1
    <3>4. \A n \in 1..Len(emitted'[r]) : emitted'[r][n] # "unmapped" /\ n # pending'[r].event.n =>
              \E i \in 1..Len(Stream!Chunks(r)) : OwnAt(r, i) /\ Stream!Chunks(r)[i].of.n = n
      BY <1>1, <1>6, <3>3 DEF Told, Lost
    <3> QED BY <1>1, <2>3, <3>1, <3>2, <3>4 DEF Told
  <2> QED BY <1>7, <2>2, <2>4, <2>5, <2>6, <2>7 DEF StreamInv, Kept
<1>10. CASE ~slow
  <2>1. Stream!Project(e, subs) /\ UNCHANGED pending
    BY <1>2, <1>10 DEF e
  <2>2. /\ queue' \in [Streams -> Seq(ChunkRecs)] /\ count' \in [Streams -> Nat]
        /\ Stream!Passes(e, r) =>
              /\ Stream!Chunks(r)' = Append(Stream!Chunks(r), [of |-> e, sequence |-> count[r] + 1])
              /\ count'[r] = count[r] + 1
              /\ [of |-> e, sequence |-> count[r] + 1] \in ChunkRecs
        /\ ~Stream!Passes(e, r) => Stream!Chunks(r)' = Stream!Chunks(r) /\ count'[r] = count[r]
    BY <1>1, <1>2, <1>5, <1>6, <2>1, Projected
  <2>3. StreamSorts'
    BY <1>1, <1>2, <1>4, <2>1, <2>2 DEF StreamSorts
  <2>4. \A q \in Streams : q # r => Kept(q)
    BY <1>2, <1>4, <1>5, <1>6, <2>1, OthersKept
  <2>5. Waits(r)'
    BY <1>1, <1>2, <2>1 DEF Waits
  <2>6. Stream!Passes(e, r) <=> kind # "unmapped"
    BY <1>5 DEF Stream!Passes, Stream!EventKinds
  <2>7. CASE kind # "unmapped"
    <3>1. Numbered(r)'
      BY <1>2, <1>5, <2>2, <2>6, <2>7, NumberedOfMore
    <3>2. /\ \A n \in 1..Len(emitted'[r]) : n # Len(emitted'[r]) =>
                n \in 1..Len(emitted[r]) /\ emitted'[r][n] = emitted[r][n] /\ n # pending[r].event.n
          /\ \A i \in 1..Len(Stream!Chunks(r)) : OwnAt(r, i) => Stream!Chunks(r)[i].of.n < e.n
      BY <1>2, <1>3, <1>4, <1>5, <1>8
    <3>3. emitted'[r] \in Seq(Stream!EventKinds) /\ Len(emitted[r]) <= Len(emitted'[r]) /\ pending'[r].event = Stream!NoEvent
      BY <1>2, <1>3, <1>4, <2>1
    <3>4. Told(r)'
      <4>1. e.by = r /\ e.n = Len(emitted'[r]) /\ e \in Events /\ stream'[r] = stream[r] /\ task'[r] = task[r]
        BY <1>2, <1>4, <1>5
      <4>2. /\ [of |-> e, sequence |-> count[r] + 1] \in ChunkRecs
            /\ Stream!Chunks(r)' = Append(Stream!Chunks(r), [of |-> e, sequence |-> count[r] + 1])
        BY <2>2, <2>6, <2>7
      <4> QED BY <1>3, <1>6, <3>2, <3>3, <4>1, <4>2, ToldOfOwn
    <3> QED BY <1>7, <2>3, <2>4, <2>5, <3>1, <3>4 DEF StreamInv, Kept
  <2>8. CASE kind = "unmapped"
    <3>1. Stream!Chunks(r)' = Stream!Chunks(r) /\ count'[r] = count[r]
      BY <2>2, <2>6, <2>8
    <3>2. Numbered(r)'
      BY <1>1, <1>2, <3>1 DEF Numbered
    <3>3. \A i \in 1..Len(Stream!Chunks(r)) : OwnAt(r, i)' <=> OwnAt(r, i)
      BY <3>1 DEF OwnAt, Stream!NotFinished
    <3>4. \A n \in 1..Len(emitted'[r]) : emitted'[r][n] # "unmapped" => n \in 1..Len(emitted[r]) /\ emitted'[r][n] = emitted[r][n]
      BY <1>3, <1>4, <2>8
    <3>5. \A i \in 1..Len(Stream!Chunks(r)) :
             /\ Stream!Chunks(r)[i].of.by # r => Stream!Chunks(r)[i].of.kind = "pattern"
             /\ OwnAt(r, i) => Stream!Chunks(r)[i].of.n \in 1..Len(emitted'[r]) /\ Stream!Chunks(r)[i].of.n # pending'[r].event.n
      BY <1>1, <1>3, <1>4, <2>1 DEF Told
    <3>6. \A n \in 1..Len(emitted'[r]) : emitted'[r][n] # "unmapped" /\ n # pending'[r].event.n =>
              \E i \in 1..Len(Stream!Chunks(r)) : OwnAt(r, i) /\ Stream!Chunks(r)[i].of.n = n
      BY <1>1, <1>6, <2>1, <3>4 DEF Told, Lost
    <3>7. Told(r)'
      BY <1>1, <3>1, <3>3, <3>5, <3>6 DEF Told
    <3> QED BY <1>7, <2>3, <2>4, <2>5, <3>2, <3>7 DEF StreamInv, Kept
  <2> QED BY <2>7, <2>8
<1> QED BY <1>9, <1>10

\* So does one whose delivery waited for a slow handler.
LEMMA DeliverKeeps == ASSUME StreamInv, NEW r \in Streams, Stream!Deliver(r) PROVE StreamInv'
<1>1. StreamSorts /\ Linked(r) /\ Waits(r) /\ Numbered(r) /\ Told(r)
  BY DEF StreamInv
<1>2. /\ pending[r].event # Stream!NoEvent
      /\ Stream!Project(pending[r].event, pending[r].to)
      /\ pending' = [pending EXCEPT ![r] = [event |-> Stream!NoEvent, to |-> {}]]
      /\ UNCHANGED <<wrapped, subs, task, emitted, stream, got>>
  BY DEF Stream!Deliver
<1>3. PICK e \in Events, to \in SUBSET Streams : e = pending[r].event /\ to = pending[r].to
  BY <1>1, <1>2 DEF StreamSorts
<1>4. /\ task[r] \in {"running", "cancelling"} /\ r \in to
      /\ emitted[r] # <<>> /\ emitted[r] \in Seq(Stream!EventKinds)
      /\ e.by = r /\ e.n = Len(emitted[r]) /\ e.kind = emitted[r][Len(emitted[r])]
  BY <1>1, <1>2, <1>3 DEF Waits, LastEvent, StreamSorts
<1>5. Len(emitted[r]) \in Nat \ {0} /\ e.kind \in Stream!EventKinds
  BY <1>4 DEF Events
<1>6. /\ pending' \in [Streams -> [event : Events \cup {Stream!NoEvent}, to : SUBSET Streams]] /\ pending'[r].event = Stream!NoEvent
      /\ \A q \in Streams : q # r => pending'[q] = pending[q]
  BY <1>1, <1>2 DEF StreamSorts
<1>7. /\ queue' \in [Streams -> Seq(ChunkRecs)] /\ count' \in [Streams -> Nat]
      /\ Stream!Passes(e, r) =>
            /\ Stream!Chunks(r)' = Append(Stream!Chunks(r), [of |-> e, sequence |-> count[r] + 1])
            /\ count'[r] = count[r] + 1
            /\ [of |-> e, sequence |-> count[r] + 1] \in ChunkRecs
      /\ ~Stream!Passes(e, r) => Stream!Chunks(r)' = Stream!Chunks(r) /\ count'[r] = count[r]
  BY <1>1, <1>2, <1>3, <1>4, Projected
<1>8. StreamSorts'
  BY <1>1, <1>2, <1>6, <1>7 DEF StreamSorts
<1>9. \A q \in Streams : q # r => Kept(q)
  BY <1>2, <1>3, <1>4, <1>6, OthersKept
<1>10. Linked(r)' /\ Waits(r)'
  BY <1>1, <1>2, <1>6 DEF Linked, Watched, Stream!TaskDone, Waits
<1>11. Stream!Passes(e, r) <=> e.kind # "unmapped"
  BY <1>4, <1>5 DEF Stream!Passes, Stream!EventKinds
<1>12. \A i \in 1..Len(Stream!Chunks(r)) : OwnAt(r, i) => Stream!Chunks(r)[i].of.n \in 1..Len(emitted[r]) /\ Stream!Chunks(r)[i].of.n # e.n
  BY <1>1, <1>3 DEF Told
<1>13. CASE e.kind # "unmapped"
  <2>1. Numbered(r)'
    BY <1>2, <1>7, <1>11, <1>13, NumberedOfMore
  <2>2. \A i \in 1..Len(Stream!Chunks(r)) : OwnAt(r, i) => Stream!Chunks(r)[i].of.n < e.n
    BY <1>4, <1>5, <1>12
  <2>3. Told(r)'
    <3>1. e.by = r /\ e.n = Len(emitted'[r]) /\ stream'[r] = stream[r] /\ task'[r] = task[r] /\ task[r] # "cancelled"
      BY <1>2, <1>4
    <3>2. /\ [of |-> e, sequence |-> count[r] + 1] \in ChunkRecs
          /\ Stream!Chunks(r)' = Append(Stream!Chunks(r), [of |-> e, sequence |-> count[r] + 1])
      BY <1>7, <1>11, <1>13
    <3>3. /\ emitted'[r] \in Seq(Stream!EventKinds) /\ emitted[r] \in Seq(Stream!EventKinds) /\ Len(emitted[r]) <= Len(emitted'[r])
          /\ \A n \in 1..Len(emitted'[r]) : n # Len(emitted'[r]) =>
                n \in 1..Len(emitted[r]) /\ emitted'[r][n] = emitted[r][n] /\ n # pending[r].event.n
      BY <1>2, <1>3, <1>4, <1>5
    <3> QED BY <1>6, <2>2, <3>1, <3>2, <3>3, ToldOfOwn
  <2> QED BY <1>8, <1>9, <1>10, <2>1, <2>3 DEF StreamInv, Kept
<1>14. CASE e.kind = "unmapped"
  <2>1. Stream!Chunks(r)' = Stream!Chunks(r) /\ count'[r] = count[r]
    BY <1>7, <1>11, <1>14
  <2>2. Numbered(r)'
    BY <1>1, <1>2, <2>1 DEF Numbered
  <2>3. \A i \in 1..Len(Stream!Chunks(r)) : OwnAt(r, i)' <=> OwnAt(r, i)
    BY <2>1 DEF OwnAt, Stream!NotFinished
  <2>4. \A i \in 1..Len(Stream!Chunks(r)) :
           /\ Stream!Chunks(r)[i].of.by # r => Stream!Chunks(r)[i].of.kind = "pattern"
           /\ OwnAt(r, i) => Stream!Chunks(r)[i].of.n \in 1..Len(emitted[r]) /\ Stream!Chunks(r)[i].of.n # pending'[r].event.n
    BY <1>1, <1>6, <1>12 DEF Told, Stream!NoEvent
  <2>5. Watched(r) => \A n \in 1..Len(emitted[r]) : emitted[r][n] # "unmapped" =>
              \E i \in 1..Len(Stream!Chunks(r)) : OwnAt(r, i) /\ Stream!Chunks(r)[i].of.n = n
    BY <1>1, <1>3, <1>4, <1>14 DEF Told, Lost
  <2>6. Told(r)'
    BY <1>1, <1>2, <2>1, <2>3, <2>4, <2>5 DEF Told, Watched
  <2> QED BY <1>8, <1>9, <1>10, <2>2, <2>6 DEF StreamInv, Kept
<1> QED BY <1>13, <1>14

\* A run that ends loses at most the event that waits.
LEMMA EndRunKeeps == ASSUME StreamInv, NEW r \in Streams, NEW how \in {"returned", "failed", "cancelled"}, Stream!EndRun(r, how) PROVE StreamInv'
<1>1. StreamSorts /\ Linked(r) /\ Waits(r) /\ Numbered(r) /\ Told(r)
  BY DEF StreamInv
<1>2. /\ task[r] \in {"running", "cancelling"} /\ (how = "cancelled" \/ pending[r].event = Stream!NoEvent)
      /\ task' = [task EXCEPT ![r] = how]
      /\ pending' = [pending EXCEPT ![r] = [event |-> Stream!NoEvent, to |-> {}]]
      /\ UNCHANGED <<wrapped, subs, emitted, queue, count, stream, got>>
  BY DEF Stream!EndRun
<1>3. StreamSorts' /\ pending'[r].event = Stream!NoEvent /\ task'[r] = how /\ Stream!NoEvent.n = 0
  BY <1>1, <1>2 DEF StreamSorts, Stream!NoEvent
<1>4. \A q \in Streams : q # r => pending'[q] = pending[q] /\ task'[q] = task[q]
  BY <1>1, <1>2 DEF StreamSorts
<1>5. \A q \in Streams : Stream!Chunks(q)' = Stream!Chunks(q)
  BY <1>2 DEF Stream!Chunks
<1>6. \A q \in Streams : q # r => Kept(q)
  BY <1>2, <1>4, <1>5, Untouched DEF Kept
<1>7. Linked(r)' /\ Waits(r)'
  BY <1>1, <1>2, <1>3 DEF Linked, Watched, Stream!TaskDone, Waits
<1>8. Numbered(r)'
  BY <1>1, <1>2, <1>5 DEF Numbered
<1>9. Told(r)'
  <2>1. \A i \in 1..Len(Stream!Chunks(r)) : OwnAt(r, i)' <=> OwnAt(r, i)
    BY <1>5 DEF OwnAt, Stream!NotFinished
  <2>2. \A i \in 1..Len(Stream!Chunks(r)) :
           /\ Stream!Chunks(r)[i].of.by # r => Stream!Chunks(r)[i].of.kind = "pattern"
           /\ OwnAt(r, i) => Stream!Chunks(r)[i].of.n \in 1..Len(emitted[r]) /\ Stream!Chunks(r)[i].of.n # pending'[r].event.n
    BY <1>1, <1>3 DEF Told
  <2>3. \A n \in 1..Len(emitted[r]) : ~Lost(r, n)' => n # pending[r].event.n
    BY <1>1, <1>2, <1>3 DEF Lost, Waits, LastEvent
  <2>4. Watched(r) => \A n \in 1..Len(emitted[r]) : emitted[r][n] # "unmapped" /\ ~Lost(r, n)' =>
              \E i \in 1..Len(Stream!Chunks(r)) : OwnAt(r, i) /\ Stream!Chunks(r)[i].of.n = n
    BY <1>1, <1>2, <2>3 DEF Told, Lost
  <2> QED BY <1>1, <1>2, <1>5, <2>1, <2>2, <2>4 DEF Told, Watched
<1> QED BY <1>3, <1>6, <1>7, <1>8, <1>9 DEF StreamInv, Kept

\* A step of a generator and of tasks that leaves events and chunks alone.
LEMMA QuietStep ==
    ASSUME StreamInv, NEW q \in Streams, UNCHANGED <<wrapped, emitted, pending>>, Stream!Chunks(q)' = Stream!Chunks(q), count'[q] = count[q],
           Len(got'[q]) = Len(got[q]) \/ \A i \in 1..Len(Stream!Chunks(q)) : Stream!Chunks(q)[i].of.kind # Stream!Finished,
           stream[q] \in {"concluded", "over"} => stream'[q] \in {"concluded", "over"},
           Watched(q)' => Watched(q) \/ emitted[q] = <<>>,
           task'[q] = task[q] \/ (task[q] \in {"none", "running", "cancelling"} /\ task'[q] \in {"running", "cancelling"})
    PROVE  Waits(q)' /\ Numbered(q)' /\ Told(q)'
<1>1. StreamSorts /\ Linked(q) /\ Waits(q) /\ Numbered(q) /\ Told(q)
  BY DEF StreamInv
<1>2. Waits(q)'
  BY <1>1 DEF Waits, LastEvent, StreamSorts
<1>3. Numbered(q)'
  BY <1>1 DEF Numbered
<1>4. \A i \in 1..Len(Stream!Chunks(q)) : OwnAt(q, i)' <=> OwnAt(q, i)
  BY DEF OwnAt, Stream!NotFinished
<1>5. \A n : Lost(q, n) => Lost(q, n)'
  BY DEF Lost
<1>6. Watched(q)' => \A n \in 1..Len(emitted[q]) :
          emitted[q][n] # "unmapped" /\ n # pending[q].event.n /\ ~Lost(q, n)' =>
              \E i \in 1..Len(Stream!Chunks(q)) : OwnAt(q, i) /\ Stream!Chunks(q)[i].of.n = n
  <2>1. CASE Watched(q)
    BY <1>1, <1>5, <2>1 DEF Told
  <2>2. CASE emitted[q] = <<>>
    <3>1. 1..Len(emitted[q]) = {}
      BY <2>2
    <3> QED BY <3>1
  <2> QED BY <2>1, <2>2
<1>7. Told(q)'
  BY <1>1, <1>4, <1>6 DEF Told
<1> QED BY <1>2, <1>3, <1>7

\* A stream that is opened has no chunk, and its handler is on the bus.
LEMMA OpenKeeps == ASSUME StreamInv, NEW r \in Streams, Stream!Open(r) PROVE StreamInv'
<1>1. StreamSorts /\ Linked(r) /\ Waits(r) /\ Numbered(r) /\ Told(r)
  BY DEF StreamInv
<1>2. /\ stream[r] = "off" /\ subs' = subs \cup {r}
      /\ task' = [task EXCEPT ![r] = "running"] /\ stream' = [stream EXCEPT ![r] = "asking"]
      /\ UNCHANGED <<wrapped, emitted, pending, queue, count, got>>
  BY DEF Stream!Open, Stream!Goto
<1>3. StreamSorts'
  BY <1>1, <1>2 DEF StreamSorts
<1>4. \A q \in Streams : Stream!Chunks(q)' = Stream!Chunks(q)
  BY <1>2 DEF Stream!Chunks
<1>5. /\ \A q \in Streams : q # r => task'[q] = task[q] /\ stream'[q] = stream[q] /\ (q \in subs' <=> q \in subs)
      /\ task'[r] = "running" /\ stream'[r] = "asking" /\ r \in subs'
  BY <1>1, <1>2 DEF StreamSorts
<1>6. \A q \in Streams : q # r => Kept(q)
  BY <1>2, <1>4, <1>5, Untouched DEF Kept
<1>7. Linked(r)'
  BY <1>5 DEF Linked, Watched
<1>8. task[r] = "none" /\ emitted[r] = <<>>
  BY <1>1, <1>2 DEF Linked, Waits
<1>9. Waits(r)' /\ Numbered(r)' /\ Told(r)'
  BY <1>2, <1>4, <1>5, <1>8, QuietStep
<1> QED BY <1>3, <1>6, <1>7, <1>9 DEF StreamInv, Kept

\* A chunk that is taken moves from the queue to what was given.
LEMMA TakeKeeps == ASSUME StreamInv, NEW r \in Streams, Stream!Take(r) PROVE StreamInv'
<1>1. StreamSorts /\ Linked(r) /\ Waits(r) /\ Numbered(r) /\ Told(r)
  BY DEF StreamInv
<1>2. /\ stream[r] = "asking" /\ queue[r] # <<>>
      /\ got' = [got EXCEPT ![r] = Append(@, Head(queue[r]))] /\ queue' = [queue EXCEPT ![r] = Tail(@)]
      /\ stream' = [stream EXCEPT ![r] = "given"]
      /\ UNCHANGED <<wrapped, subs, task, emitted, pending, count>>
  BY DEF Stream!Take, Stream!Goto
<1>3. queue[r] \in Seq(ChunkRecs) /\ got[r] \in Seq(ChunkRecs) /\ Head(queue[r]) \in ChunkRecs /\ Tail(queue[r]) \in Seq(ChunkRecs)
  BY <1>1, <1>2 DEF StreamSorts
<1>4. StreamSorts'
  BY <1>1, <1>2, <1>3 DEF StreamSorts
<1>5. Stream!Chunks(r)' = Stream!Chunks(r)
  <2>1. \A g, q \in Seq(ChunkRecs) : q # <<>> => Append(g, Head(q)) \o Tail(q) = g \o q
    OBVIOUS
  <2>2. got'[r] = Append(got[r], Head(queue[r])) /\ queue'[r] = Tail(queue[r])
    BY <1>1, <1>2 DEF StreamSorts
  <2> QED BY <1>2, <1>3, <2>1, <2>2 DEF Stream!Chunks
<1>6. /\ \A q \in Streams : q # r => stream'[q] = stream[q] /\ got'[q] = got[q] /\ queue'[q] = queue[q]
      /\ stream'[r] = "given"
  BY <1>1, <1>2 DEF StreamSorts
<1>7. \A q \in Streams : q # r => Stream!Chunks(q)' = Stream!Chunks(q)
  BY <1>6 DEF Stream!Chunks
<1>8. \A q \in Streams : q # r => Kept(q)
  BY <1>2, <1>6, <1>7, Untouched DEF Kept
<1>9. Linked(r)' /\ Watched(r)
  BY <1>1, <1>2, <1>6 DEF Linked, Watched, Stream!TaskDone
<1>10. \A i \in 1..Len(Stream!Chunks(r)) : Stream!Chunks(r)[i].of.kind # Stream!Finished
  BY <1>1, <1>2 DEF Numbered
<1>11. Waits(r)' /\ Numbered(r)' /\ Told(r)'
  BY <1>2, <1>5, <1>9, <1>10, QuietStep
<1> QED BY <1>4, <1>8, <1>9, <1>11 DEF StreamInv, Kept

\* A step of the generator alone, and of the tasks it cancels.
LEMMA GeneratorKeeps ==
    ASSUME StreamInv, NEW r \in Streams, NEW spot \in {"asking", "over", "closing"}, stream' = [stream EXCEPT ![r] = spot],
           UNCHANGED <<wrapped, emitted, pending, queue, count, got>>,
           \/ spot = "asking" /\ stream[r] = "given" /\ UNCHANGED <<task, subs>>
           \/ spot = "over" /\ Stream!TaskDone(r) /\ Stream!Unsubscribe(r) /\ UNCHANGED task
           \/ spot = "closing" /\ stream[r] \in {"asking", "given"} /\ task[r] \in {"running", "cancelling"}
              /\ UNCHANGED subs /\ task' = [task EXCEPT ![r] = "cancelling"]
    PROVE  StreamInv'
<1>1. StreamSorts /\ Linked(r) /\ Waits(r) /\ Numbered(r) /\ Told(r)
  BY DEF StreamInv
<1>2. StreamSorts'
  BY <1>1 DEF StreamSorts, Stream!Unsubscribe
<1>3. \A q \in Streams : Stream!Chunks(q)' = Stream!Chunks(q)
  BY DEF Stream!Chunks
<1>4. /\ \A q \in Streams : q # r => task'[q] = task[q] /\ stream'[q] = stream[q] /\ (q \in subs' <=> q \in subs)
      /\ stream'[r] = spot
  BY <1>1 DEF StreamSorts, Stream!Unsubscribe
<1>5. \A q \in Streams : q # r => Kept(q)
  BY <1>3, <1>4, Untouched DEF Kept
<1>6. Linked(r)'
  BY <1>1, <1>4 DEF Linked, Watched, Stream!TaskDone, StreamSorts, Stream!Unsubscribe
<1>7. Waits(r)' /\ Numbered(r)' /\ Told(r)'
  <2>1. /\ Watched(r)' => Watched(r)
        /\ stream[r] \in {"concluded", "over"} => stream'[r] \in {"concluded", "over"}
    BY <1>4 DEF Watched
  <2>2. task'[r] = task[r] \/ (task[r] \in {"running", "cancelling"} /\ task'[r] \in {"running", "cancelling"})
    BY <1>1 DEF StreamSorts
  <2> QED BY <1>3, <2>1, <2>2, QuietStep
<1> QED BY <1>2, <1>5, <1>6, <1>7 DEF StreamInv, Kept

\* The result is the last chunk, given once the queue is empty and the run over.
LEMMA ConcludeKeeps == ASSUME StreamInv, NEW r \in Streams, Stream!Conclude(r) PROVE StreamInv'
<1> DEFINE x == [of |-> [by |-> r, n |-> 0, kind |-> Stream!Finished], sequence |-> count[r] + 1]
<1> DEFINE c == Stream!Chunks(r)
<1>1. StreamSorts /\ Linked(r) /\ Waits(r) /\ Numbered(r) /\ Told(r)
  BY DEF StreamInv
<1>2. /\ stream[r] = "asking" /\ Stream!TaskDone(r) /\ queue[r] = <<>>
      /\ count' = [count EXCEPT ![r] = @ + 1] /\ got' = [got EXCEPT ![r] = Append(@, x)]
      /\ stream' = [stream EXCEPT ![r] = "concluded"]
      /\ UNCHANGED <<wrapped, subs, task, emitted, pending, queue>>
  BY DEF Stream!Conclude, Stream!Goto, Stream!Exhausted
<1>3. x \in ChunkRecs /\ x.of.kind = Stream!Finished /\ x.sequence = count[r] + 1 /\ count[r] \in Nat /\ got[r] \in Seq(ChunkRecs)
  <2>1. count[r] \in Nat /\ got[r] \in Seq(ChunkRecs)
    BY <1>1 DEF StreamSorts
  <2>2. x.of \in [by : Streams, n : Nat, kind : Stream!EventKinds \cup {Stream!Finished}]
    OBVIOUS
  <2>3. x.sequence \in Nat /\ x = [of |-> x.of, sequence |-> x.sequence]
    BY <2>1
  <2> QED BY <2>1, <2>2, <2>3 DEF ChunkRecs
<1> HIDE DEF x
<1>4. /\ StreamSorts' /\ count'[r] = count[r] + 1 /\ got'[r] = Append(got[r], x) /\ stream'[r] = "concluded"
      /\ \A q \in Streams : q # r => count'[q] = count[q] /\ got'[q] = got[q] /\ stream'[q] = stream[q]
  BY <1>1, <1>2, <1>3 DEF StreamSorts
<1>5. c = got[r] /\ Stream!Chunks(r)' = Append(c, x) /\ c \in Seq(ChunkRecs)
  <2>1. \A g \in Seq(ChunkRecs) : g \o <<>> = g
    OBVIOUS
  <2>2. Append(got[r], x) \in Seq(ChunkRecs)
    BY <1>3
  <2> QED BY <1>2, <1>3, <1>4, <2>1, <2>2 DEF Stream!Chunks
<1>6. /\ Len(Append(c, x)) = Len(c) + 1 /\ Len(c) \in Nat
      /\ \A i \in 1..Len(c) : Append(c, x)[i] = c[i]
      /\ Append(c, x)[Len(c) + 1] = x
  BY <1>3, <1>5
<1>7. /\ \A i \in 1..Len(c) : Stream!Chunks(r)'[i] = c[i] /\ (OwnAt(r, i)' <=> OwnAt(r, i))
      /\ \A i : i = Len(c) + 1 => Stream!Chunks(r)'[i] = x /\ ~OwnAt(r, i)'
  BY <1>3, <1>5, <1>6 DEF OwnAt, Stream!NotFinished
<1>8. \A q \in Streams : q # r => Kept(q)
  <2>1. \A q \in Streams : q # r => Stream!Chunks(q)' = Stream!Chunks(q)
    BY <1>2, <1>4 DEF Stream!Chunks
  <2> QED BY <1>2, <1>4, <2>1, Untouched DEF Kept
<1>9. Linked(r)' /\ Waits(r)'
  BY <1>1, <1>2, <1>4 DEF Linked, Watched, Stream!TaskDone, Waits, LastEvent
<1>10. \A i \in 1..Len(c) : c[i].sequence = i /\ c[i].of.kind # Stream!Finished /\ count[r] = Len(c)
  BY <1>1, <1>2 DEF Numbered
<1>11. Numbered(r)'
  <2>1. count'[r] = Len(c) + 1 /\ Len(got'[r]) = Len(c) + 1 /\ x.sequence = Len(c) + 1
    BY <1>1, <1>3, <1>4, <1>5, <1>6 DEF Numbered
  <2>2. \A i \in 1..Len(c) + 1 : i \in 1..Len(c) \/ i = Len(c) + 1
    BY <1>6
  <2> QED BY <1>4, <1>5, <1>6, <1>7, <1>10, <2>1, <2>2 DEF Numbered
<1>12. Told(r)'
  <2> HIDE DEF c
  <2>1. Len(Stream!Chunks(r)') = Len(c) + 1
    BY <1>5, <1>6
  <2>2. (\A i \in 1..Len(c) + 1 : i \in 1..Len(c) \/ i = Len(c) + 1) /\ \A i \in 1..Len(c) : i \in 1..Len(c) + 1
    BY <1>6
  <2>3. \A i \in 1..Len(Stream!Chunks(r)') :
           /\ Stream!Chunks(r)'[i].of.by # r => Stream!Chunks(r)'[i].of.kind = "pattern"
           /\ OwnAt(r, i)' => Stream!Chunks(r)'[i].of.n \in 1..Len(emitted[r]) /\ Stream!Chunks(r)'[i].of.n # pending[r].event.n
    <3>1. x.of.by = r
      BY DEF x
    <3> QED BY <1>1, <1>7, <2>1, <2>2, <3>1 DEF Told, c
  <2>4. \A i, j \in 1..Len(Stream!Chunks(r)') : OwnAt(r, i)' /\ OwnAt(r, j)' /\ i < j => Stream!Chunks(r)'[i].of.n < Stream!Chunks(r)'[j].of.n
    BY <1>1, <1>7, <2>1, <2>2 DEF Told, c
  <2>5. \A n \in 1..Len(emitted[r]) :
          emitted[r][n] # "unmapped" /\ n # pending[r].event.n /\ ~Lost(r, n)' =>
              \E i \in 1..Len(Stream!Chunks(r)') : OwnAt(r, i)' /\ Stream!Chunks(r)'[i].of.n = n
    BY <1>1, <1>2, <1>7, <2>1, <2>2 DEF Told, Watched, Lost, c
  <2> QED BY <1>2, <2>3, <2>4, <2>5 DEF Told
<1> QED BY <1>4, <1>8, <1>9, <1>11, <1>12 DEF StreamInv, Kept

\* Every step of a run and of its consumer keeps all of it.
LEMMA StreamInvNext == StreamInv /\ [Stream!Next]_(Stream!vars) => StreamInv'
<1> SUFFICES ASSUME StreamInv, [Stream!Next]_(Stream!vars) PROVE StreamInv'
  OBVIOUS
<1>1. CASE UNCHANGED Stream!vars
  <2>1. \A q \in Streams : Kept(q)
    <3>1. \A q \in Streams : Stream!Chunks(q)' = Stream!Chunks(q)
      BY <1>1 DEF Stream!vars, Stream!Chunks
    <3> QED BY <1>1, <3>1, Untouched DEF Stream!vars, Kept
  <2>2. StreamSorts'
    BY <1>1 DEF Stream!vars, StreamInv, StreamSorts
  <2> QED BY <2>1, <2>2 DEF StreamInv, Kept
<1>2. ASSUME NEW r \in Streams, Stream!Open(r) \/ Stream!Work(r) PROVE StreamInv'
  BY <1>2, OpenKeeps, DeliverKeeps, EmitKeeps, EndRunKeeps DEF Stream!Work
<1>3. ASSUME NEW r \in Streams, Stream!Take(r) \/ Stream!Conclude(r) PROVE StreamInv'
  BY <1>3, TakeKeeps, ConcludeKeeps
<1>4. ASSUME NEW r \in Streams, Stream!AskAgain(r) PROVE StreamInv'
  BY <1>4, GeneratorKeeps DEF Stream!AskAgain, Stream!Goto
<1>5. ASSUME NEW r \in Streams, Stream!Over(r) PROVE StreamInv'
  <2>1. Stream!TaskDone(r)
    BY <1>5 DEF Stream!Over, Stream!Exhausted, StreamInv, Linked
  <2> QED BY <1>5, <2>1, GeneratorKeeps DEF Stream!Over, Stream!Goto
<1>6. ASSUME NEW r \in Streams, Stream!Abandon(r) PROVE StreamInv'
  <2>1. CASE Stream!TaskDone(r)
    BY <1>6, <2>1, GeneratorKeeps DEF Stream!Abandon, Stream!Goto
  <2>2. CASE ~Stream!TaskDone(r)
    <3>1. task[r] \in {"running", "cancelling"} /\ stream[r] \in {"asking", "given"}
      BY <1>6, <2>2 DEF Stream!Abandon, Stream!TaskDone, StreamInv, StreamSorts, Linked
    <3> QED BY <1>6, <2>2, <3>1, GeneratorKeeps DEF Stream!Abandon, Stream!Goto
  <2> QED BY <2>1, <2>2
<1> QED BY <1>1, <1>2, <1>3, <1>4, <1>5, <1>6 DEF Stream!Next, Stream!Consume

\* No stream is open at first.
LEMMA StreamInvInit == wrapped \in BOOLEAN /\ Stream!Init => StreamInv
<1> SUFFICES ASSUME wrapped \in BOOLEAN, Stream!Init PROVE StreamInv
  OBVIOUS
<1>1. StreamSorts
  BY DEF Stream!Init, StreamSorts
<1>2. ASSUME NEW r \in Streams PROVE Stream!Chunks(r) = <<>> /\ 1..Len(Stream!Chunks(r)) = {} /\ Len(Stream!Chunks(r)) = 0
  <2>1. <<>> \o <<>> = <<>>
    OBVIOUS
  <2>2. got[r] = <<>> /\ queue[r] = <<>>
    BY DEF Stream!Init
  <2> QED BY <2>1, <2>2 DEF Stream!Chunks
<1>3. ASSUME NEW r \in Streams PROVE Linked(r) /\ Waits(r) /\ Numbered(r) /\ Told(r)
  <2>1. stream[r] = "off" /\ task[r] = "none" /\ pending[r].event = Stream!NoEvent /\ emitted[r] = <<>> /\ count[r] = 0
    BY DEF Stream!Init
  <2> QED BY <1>2, <2>1 DEF Linked, Waits, Numbered, Told, Watched
<1> QED BY <1>1, <1>3 DEF StreamInv

\* What the invariant says of the chunks is what a consumer relies on.
LEMMA StreamInvSound == StreamInv => Stream!WellNumbered /\ Stream!OwnEventsWhole /\ Stream!LeavesNothing
<1> SUFFICES ASSUME StreamInv PROVE Stream!WellNumbered /\ Stream!OwnEventsWhole /\ Stream!LeavesNothing
  OBVIOUS
<1>1. Stream!WellNumbered
  BY DEF StreamInv, Numbered, Stream!WellNumbered
<1>2. Stream!LeavesNothing
  BY DEF StreamInv, Linked, Stream!LeavesNothing
<1>3. Stream!OwnEventsWhole
  BY DEF StreamInv, Told, OwnAt, Watched, Lost, Stream!OwnEventsWhole
<1> QED BY <1>1, <1>2, <1>3

\* However many runs are streamed and however they and their consumers meet: the
\* chunks of a stream are numbered without a gap and only the last is the result,
\* a run's own events reach its stream whole and in order, those of others only
\* as the pattern's, and a stream that is over leaves no handler that it could
\* have taken off, and no task.
THEOREM StreamsAreWhole == ASSUME Wrappings \subseteq BOOLEAN PROVE Stream!Spec => [](Stream!WellNumbered /\ Stream!OwnEventsWhole /\ Stream!LeavesNothing)
<1>1. Stream!Init => StreamInv
  BY StreamInvInit DEF Stream!Init
<1> QED BY <1>1, StreamInvNext, StreamInvSound, PTL DEF Stream!Spec
-----------------------------------------------------------------------------
\* What a load comes to: a plugin that has what its kind needs, or an error.
Errors == {"import", "incomplete", "no selector", "not an object", "renamed", "uncallable", "unknown type"}
Good(kind, load) ==
    \/ load.error = None /\ (load.plugin.class \/ kind \in Plugins!Checked => Plugins!Required[kind] \subseteq load.plugin.methods)
    \/ load.error \in Errors \ {"no selector"} /\ load.plugin = None

\* An instance of a factory has what its kind needs, or there is none.
LEMMA InstanceGood == ASSUME NEW kind, NEW f PROVE Good(kind, Plugins!Instance_(kind, f))
<1>1. CASE f.class /\ ~Plugins!Complete(kind, f)
  BY <1>1 DEF Plugins!Instance_, Plugins!Failed, Errors, Good
<1>2. CASE ~(f.class /\ ~Plugins!Complete(kind, f)) /\ ~f.takes
  BY <1>2 DEF Plugins!Instance_, Plugins!Failed, Errors, Good
<1>3. CASE ~(f.class /\ ~Plugins!Complete(kind, f)) /\ f.takes /\ ~Plugins!Complete(kind, f)
  BY <1>3 DEF Plugins!Instance_, Plugins!Failed, Errors, Good
<1>4. CASE f.takes /\ Plugins!Complete(kind, f)
  <2>1. Plugins!Instance_(kind, f) = [plugin |-> f, error |-> None]
    BY <1>4 DEF Plugins!Instance_, Plugins!Built
  <2>2. Plugins!Instance_(kind, f).plugin = f /\ Plugins!Instance_(kind, f).error = None
    BY <2>1
  <2>3. f.class \/ kind \in Plugins!Checked => Plugins!Required[kind] \subseteq f.methods
    BY <1>4, Zenon DEF Plugins!Complete
  <2> QED BY <2>2, <2>3, Zenon DEF Good
<1> QED BY <1>1, <1>2, <1>3, <1>4

\* So has what a reference with a selector is loaded as.
LEMMA LoadGood == ASSUME NEW kind, NEW ref, Plugins!SelectorFits(ref) PROVE Good(kind, Plugins!Load(kind, ref))
<1>1. CASE Plugins!Cleaned(ref.impl) # None
  BY <1>1, InstanceGood DEF Plugins!Load, Plugins!Failed, Errors, Good
<1>2. CASE Plugins!Cleaned(ref.impl) = None
  <2>1. Plugins!Cleaned(ref.type) # None
    BY <1>2 DEF Plugins!SelectorFits
  <2>2. Plugins!Load(kind, ref) = IF kind = "context_assembler" /\ Plugins!Cleaned(ref.type) = "summarizing" THEN Plugins!Failed("renamed")
                          ELSE IF Plugins!Lookup(kind, Plugins!Cleaned(ref.type)) = None THEN Plugins!Failed("unknown type")
                          ELSE Plugins!Instance_(kind, Plugins!Lookup(kind, Plugins!Cleaned(ref.type)))
    BY <1>2, <2>1 DEF Plugins!Load
  <2>3. Good(kind, Plugins!Failed("renamed")) /\ Good(kind, Plugins!Failed("unknown type"))
    BY DEF Plugins!Failed, Errors, Good
  <2>4. Good(kind, Plugins!Instance_(kind, Plugins!Lookup(kind, Plugins!Cleaned(ref.type))))
    BY InstanceGood
  <2> QED BY <2>2, <2>3, <2>4
<1> QED BY <1>1, <1>2

\* A plugin that was loaded has what its kind needs; an executor or assembler
\* that is not configured is none.
Fits(kind, load) == load.error = None /\ load.plugin # None /\ (load.plugin.class \/ kind \in Plugins!Checked) => Plugins!Required[kind] \subseteq load.plugin.methods
Selected(s) == s.got.error # "no selector"

\* None of the errors of a load is taken for success.
LEMMA GoodFits == ASSUME Plugins!LoadingAssumption, NEW kind, NEW load, Good(kind, load) PROVE Fits(kind, load) /\ load.error # "no selector"
<1>1. \A t \in Errors : None # t
  BY DEF Plugins!LoadingAssumption, Errors
<1>2. None # "no selector"
  BY <1>1 DEF Errors
<1>3. Fits(kind, load)
  <2>1. CASE load.error = None /\ (load.plugin.class \/ kind \in Plugins!Checked => Plugins!Required[kind] \subseteq load.plugin.methods)
    BY <2>1, Zenon DEF Fits
  <2>2. CASE load.error \in Errors \ {"no selector"} /\ load.plugin = None
    BY <2>2, Zenon DEF Fits
  <2> QED BY <2>1, <2>2 DEF Good
<1>4. load.error # "no selector"
  BY <1>2 DEF Good, Errors
<1> QED BY <1>3, <1>4

\* An executor or an assembler that is not configured is no error.
LEMMA OptionalFits ==
    ASSUME Plugins!LoadingAssumption, NEW kind, NEW ref, ref # None => Plugins!SelectorFits(ref)
    PROVE  Fits(kind, Plugins!LoadOptional(kind, ref)) /\ Plugins!LoadOptional(kind, ref).error # "no selector"
<1>1. CASE ref = None
  <2>1. Plugins!LoadOptional(kind, ref) = [plugin |-> None, error |-> None]
    BY <1>1 DEF Plugins!LoadOptional, Plugins!Built
  <2>2. Plugins!LoadOptional(kind, ref).plugin = None /\ Plugins!LoadOptional(kind, ref).error = None
    BY <2>1
  <2>3. None # "no selector"
    BY DEF Plugins!LoadingAssumption
  <2>4. Fits(kind, Plugins!LoadOptional(kind, ref))
    BY <2>2, Zenon DEF Fits
  <2> QED BY <2>2, <2>3, <2>4
<1>2. CASE ref # None
  BY <1>2, LoadGood, GoodFits DEF Plugins!LoadOptional
<1> QED BY <1>1, <1>2

\* The steps of a configuration that was accepted.
ToolStep(agent, i) == [at |-> 4 + i, kind |-> "tool", of |-> agent.tools[i].id, got |-> Plugins!Load("tool", agent.tools[i].ref)]
\* Of what an agent refers to: each that loads fits, no two of a kind, and the
\* tools are the enabled ones.
LEMMA StepsFit ==
    ASSUME Plugins!LoadingAssumption, NEW agent, Plugins!Accepted(agent)
    PROVE  /\ \A s \in Plugins!Steps(agent) : Fits(s.kind, s.got) /\ Selected(s)
           /\ \A s, t \in Plugins!Steps(agent) : s.kind = t.kind /\ (s.kind = "tool" => s.of = t.of) => s = t
           /\ \A i \in DOMAIN agent.tools :
                 agent.tools[i].enabled <=> \E s \in Plugins!Steps(agent) : s.kind = "tool" /\ s.of = agent.tools[i].id
<1> DEFINE s1 == [at |-> 1, kind |-> "memory", of |-> "memory", got |-> Plugins!Load("memory", agent.memory)]
<1> DEFINE s2 == [at |-> 2, kind |-> "pattern", of |-> "pattern", got |-> Plugins!Load("pattern", agent.pattern)]
<1> DEFINE s3 == [at |-> 3, kind |-> "tool_executor", of |-> "tool_executor",
                  got |-> Plugins!LoadOptional("tool_executor", agent.tool_executor)]
<1> DEFINE s4 == [at |-> 4, kind |-> "context_assembler", of |-> "context_assembler",
                  got |-> Plugins!LoadOptional("context_assembler", agent.context_assembler)]
<1> DEFINE on == {j \in DOMAIN agent.tools : agent.tools[j].enabled}
<1>1. \A s : s \in Plugins!Steps(agent) <=> s \in {s1, s2, s3, s4} \/ \E i \in on : s = ToolStep(agent, i)
  BY DEF Plugins!Steps, ToolStep
<1>2. /\ s1.kind = "memory" /\ s2.kind = "pattern" /\ s3.kind = "tool_executor" /\ s4.kind = "context_assembler"
      /\ s1.got = Plugins!Load("memory", agent.memory) /\ s2.got = Plugins!Load("pattern", agent.pattern)
      /\ s3.got = Plugins!LoadOptional("tool_executor", agent.tool_executor)
      /\ s4.got = Plugins!LoadOptional("context_assembler", agent.context_assembler)
  OBVIOUS
<1>3. \A i \in on : /\ ToolStep(agent, i).kind = "tool" /\ ToolStep(agent, i).of = agent.tools[i].id
                    /\ ToolStep(agent, i).got = Plugins!Load("tool", agent.tools[i].ref)
  BY DEF ToolStep
<1>4. \A i, j \in DOMAIN agent.tools : Plugins!SelectorFits(agent.tools[i].ref) /\ (agent.tools[i].id = agent.tools[j].id => i = j)
  BY DEF Plugins!Accepted
<1> HIDE DEF s1, s2, s3, s4
<1>5. ASSUME NEW s \in Plugins!Steps(agent) PROVE Fits(s.kind, s.got) /\ Selected(s)
  <2>0. /\ Plugins!SelectorFits(agent.memory) /\ Plugins!SelectorFits(agent.pattern)
        /\ agent.tool_executor # None => Plugins!SelectorFits(agent.tool_executor)
        /\ agent.context_assembler # None => Plugins!SelectorFits(agent.context_assembler)
    BY DEF Plugins!Accepted
  <2>1. CASE s = s1 \/ s = s2
    <3>1. /\ Fits("memory", Plugins!Load("memory", agent.memory)) /\ Plugins!Load("memory", agent.memory).error # "no selector"
          /\ Fits("pattern", Plugins!Load("pattern", agent.pattern)) /\ Plugins!Load("pattern", agent.pattern).error # "no selector"
      BY <2>0, LoadGood, GoodFits
    <3> QED BY <1>2, <2>1, <3>1 DEF Selected
  <2>2. CASE s = s3 \/ s = s4
    <3>1. /\ Fits("tool_executor", s3.got) /\ s3.got.error # "no selector"
          /\ Fits("context_assembler", s4.got) /\ s4.got.error # "no selector"
      BY <1>2, <2>0, OptionalFits
    <3> QED BY <1>2, <2>2, <3>1 DEF Selected
  <2>3. ASSUME NEW i \in on, s = ToolStep(agent, i) PROVE Fits(s.kind, s.got) /\ Selected(s)
    BY <1>3, <1>4, <2>3, LoadGood, GoodFits DEF Selected
  <2> QED BY <1>1, <2>1, <2>2, <2>3
<1>6. ASSUME NEW s \in Plugins!Steps(agent), NEW t \in Plugins!Steps(agent), s.kind = t.kind, s.kind = "tool" => s.of = t.of PROVE s = t
  <2>1. CASE s.kind = "tool"
    <3>1. PICK i \in on, j \in on : s = ToolStep(agent, i) /\ t = ToolStep(agent, j)
      BY <1>1, <1>2, <1>6, <2>1
    <3> QED BY <1>3, <1>4, <1>6, <2>1, <3>1
  <2>2. CASE s.kind # "tool"
    BY <1>1, <1>2, <1>3, <1>6, <2>2
  <2> QED BY <2>1, <2>2
<1>7. ASSUME NEW i \in DOMAIN agent.tools
      PROVE  agent.tools[i].enabled <=> \E s \in Plugins!Steps(agent) : s.kind = "tool" /\ s.of = agent.tools[i].id
  <2>1. ASSUME i \in on PROVE \E s \in Plugins!Steps(agent) : s.kind = "tool" /\ s.of = agent.tools[i].id
    BY <1>1, <1>3, <2>1
  <2>2. ASSUME NEW s \in Plugins!Steps(agent), s.kind = "tool", s.of = agent.tools[i].id PROVE i \in on
    <3>1. PICK j \in on : s = ToolStep(agent, j)
      BY <1>1, <1>2, <2>2
    <3>2. i = j
      BY <1>3, <1>4, <2>2, <3>1
    <3> QED BY <3>2
  <2> QED BY <2>1, <2>2
<1> QED BY <1>5, <1>6, <1>7

\* What an agent was loaded with, or failed for.
LoadedInv ==
    loaded # None =>
        /\ loaded.error # "no selector"
        /\ loaded.error = None => Plugins!Accepted(loaded.agent)
        /\ \A s \in loaded.plugins : Fits(s.kind, s.got) /\ s.got.error = None
        /\ \A s, t \in loaded.plugins : s.kind = t.kind /\ (s.kind = "tool" => s.of = t.of) => s = t
        /\ loaded.error = None => \A i \in DOMAIN loaded.agent.tools :
              loaded.agent.tools[i].enabled <=> \E s \in loaded.plugins : s.kind = "tool" /\ s.of = loaded.agent.tools[i].id

\* Loading an agent establishes it, whatever was loaded before.
LEMMA LoadKeeps == ASSUME Plugins!LoadingAssumption, NEW agent, Plugins!LoadAgent(agent) PROVE LoadedInv'
<1>1. None # "config" /\ None # "no selector"
  BY DEF Plugins!LoadingAssumption
<1>2. CASE ~Plugins!Accepted(agent) /\ loaded' = [agent |-> agent, error |-> "config", plugins |-> {}]
  <2>1. loaded'.error = "config" /\ loaded'.plugins = {}
    BY <1>2
  <2> QED BY <1>1, <2>1 DEF LoadedInv
<1>3. CASE /\ Plugins!Accepted(agent) /\ {s \in Plugins!Steps(agent) : s.got.error # None} = {}
           /\ loaded' = [agent |-> agent, error |-> None, plugins |-> Plugins!Steps(agent)]
  <2>1. loaded'.error = None /\ loaded'.plugins = Plugins!Steps(agent) /\ loaded'.agent = agent
    BY <1>3
  <2>2. \A s \in Plugins!Steps(agent) : s.got.error = None
    BY <1>3
  <2>3. PICK steps : steps = Plugins!Steps(agent)
    OBVIOUS
  <2>4. \A s \in steps : Fits(s.kind, s.got) /\ s.got.error = None
    BY <1>3, <2>2, <2>3, StepsFit
  <2>5. \A s, t \in steps : s.kind = t.kind /\ (s.kind = "tool" => s.of = t.of) => s = t
    BY <1>3, <2>3, StepsFit
  <2>6. \A i \in DOMAIN agent.tools :
            agent.tools[i].enabled <=> \E s \in steps : s.kind = "tool" /\ s.of = agent.tools[i].id
    BY <1>3, <2>3, StepsFit
  <2>7. loaded'.error # "no selector" /\ Plugins!Accepted(loaded'.agent)
    BY <1>1, <1>3, <2>1
  <2>8. loaded'.plugins = steps /\ loaded'.agent = agent
    BY <2>1, <2>3
  <2> HIDE DEF Plugins!Accepted, Fits
  <2> QED BY <2>4, <2>5, <2>6, <2>7, <2>8 DEF LoadedInv
<1>4. ASSUME Plugins!Accepted(agent), NEW s \in Plugins!Steps(agent), s.got.error # None,
             loaded' = [agent |-> agent, error |-> s.got.error, plugins |-> {}]
      PROVE  LoadedInv'
  <2>1. loaded'.error = s.got.error /\ loaded'.plugins = {} /\ s.got.error # "no selector"
    BY <1>4, StepsFit DEF Selected
  <2> QED BY <1>4, <2>1 DEF LoadedInv
<1> QED BY <1>2, <1>3, <1>4 DEF Plugins!LoadAgent

\* Decorators and other loads keep it.
LEMMA LoadedInvNext == Plugins!LoadingAssumption /\ LoadedInv /\ [Plugins!Next]_(Plugins!vars) => LoadedInv'
<1> SUFFICES ASSUME Plugins!LoadingAssumption, LoadedInv, [Plugins!Next]_(Plugins!vars) PROVE LoadedInv'
  OBVIOUS
<1>1. CASE loaded' = loaded
  BY <1>1 DEF LoadedInv
<1> QED BY <1>1, LoadKeeps DEF Plugins!Next, Plugins!Decorate, Plugins!vars

\* What it says of the plugins is what an agent relies on.
LEMMA LoadedInvUsable == LoadedInv => Plugins!LoadedIsUsable
<1> SUFFICES ASSUME LoadedInv, loaded # None, loaded.error = None PROVE Plugins!LoadedIsUsable
  BY DEF LoadedInv, Plugins!LoadedIsUsable
<1>1. \A p \in loaded.plugins : p.got.plugin # None /\ p.got.plugin.class => Plugins!Required[p.kind] \subseteq p.got.plugin.methods
  BY Zenon DEF LoadedInv, Fits
<1>2. \A r \in {loaded.agent.memory, loaded.agent.pattern} : Plugins!Cleaned(r.impl) # None => Plugins!Cleaned(r.type) = None
  BY DEF LoadedInv, Plugins!Accepted, Plugins!SelectorFits
<1> QED BY <1>1, <1>2 DEF LoadedInv, Plugins!LoadedIsUsable

\* The executor or assembler of a run.
LEMMA DependencyFits ==
    ASSUME Plugins!LoadingAssumption, NEW kind \in Plugins!Checked, NEW raw
    PROVE  Plugins!Dependency(kind, raw).error = None => Plugins!Required[kind] \subseteq Plugins!Dependency(kind, raw).plugin.methods
<1> DEFINE Serves(load) == load.error = None => Plugins!Required[kind] \subseteq load.plugin.methods
<1>1. \A t \in Errors : Serves(Plugins!Failed(t))
  BY DEF Plugins!Failed, Plugins!LoadingAssumption, Errors
<1>2. \A f : Serves(Plugins!Fitted(kind, f))
  <2> TAKE f
  <2>1. Plugins!Fitted(kind, f) = IF ~f.takes THEN Plugins!Failed("uncallable")
                          ELSE IF Plugins!Required[kind] \subseteq f.methods THEN Plugins!Built(f) ELSE Plugins!Failed("incomplete")
    BY DEF Plugins!Fitted
  <2>2. CASE f.takes /\ Plugins!Required[kind] \subseteq f.methods
    <3>1. Plugins!Fitted(kind, f) = Plugins!Built(f)
      BY <2>1, <2>2
    <3> QED BY <2>2, <3>1 DEF Plugins!Built
  <2>3. CASE ~(f.takes /\ Plugins!Required[kind] \subseteq f.methods)
    <3>1. Plugins!Fitted(kind, f) \in {Plugins!Failed("uncallable"), Plugins!Failed("incomplete")}
      BY <2>1, <2>3
    <3> QED BY <1>1, <3>1 DEF Errors
  <2> QED BY <2>2, <2>3
<1>3. Serves(Plugins!Built(Known[kind].default))
  BY DEF Plugins!Built, Plugins!LoadingAssumption, Plugins!Checked, Plugins!Required
<1> HIDE DEF Serves
<1>4. Serves(Plugins!Dependency(kind, raw))
  BY <1>1, <1>2, <1>3 DEF Plugins!Dependency, Errors
<1> QED BY <1>4 DEF Serves

\* The executor and the assembler of a run are complete too.
LEMMA LoadedInvServes == Plugins!LoadingAssumption /\ LoadedInv => Plugins!DependenciesFit
<1> SUFFICES ASSUME Plugins!LoadingAssumption, LoadedInv, loaded # None, loaded.error = None, NEW kind \in Plugins!Checked, NEW raw
             PROVE  LET load == Plugins!Resolved(kind, loaded.plugins, raw)
                        brought == {p \in loaded.plugins : p.kind = kind /\ p.got.plugin # None}
                    IN /\ load.error = None => Plugins!Required[kind] \subseteq load.plugin.methods
                       /\ \A p \in brought : load = p.got
  BY DEF Plugins!DependenciesFit
<1> DEFINE brought == {p \in loaded.plugins : p.kind = kind /\ p.got.plugin # None}
<1>1. CASE brought = {}
  BY <1>1, DependencyFits DEF Plugins!Resolved
<1>2. CASE brought # {}
  <2>1. PICK p \in brought : p = CHOOSE q \in brought : TRUE
    BY <1>2
  <2>2. Plugins!Resolved(kind, loaded.plugins, raw) = p.got
    BY <1>2, <2>1 DEF Plugins!Resolved
  <2>3. kind # "tool"
    BY DEF Plugins!Checked
  <2>4. \A q \in brought : q = p
    BY <2>3 DEF LoadedInv
  <2>5. Fits(kind, p.got) /\ p.got.plugin # None
    BY DEF LoadedInv
  <2>6. p.got.error = None => Plugins!Required[kind] \subseteq p.got.plugin.methods
    BY <2>5, Zenon DEF Fits
  <2> QED BY <2>2, <2>4, <2>6
<1> QED BY <1>1, <1>2

\* Whatever is configured, decorated and importable: an agent is loaded only with
\* plugins that have what their kind needs, one for each enabled tool, and the
\* executor and assembler of its runs are complete, its own first.
THEOREM LoadedAgentsServe == ASSUME Plugins!LoadingAssumption PROVE Plugins!Spec => [](Plugins!LoadedIsUsable /\ Plugins!DependenciesFit)
<1>1. Plugins!Init => LoadedInv
  BY DEF Plugins!Init, LoadedInv
<1> QED BY <1>1, LoadedInvNext, LoadedInvUsable, LoadedInvServes, PTL DEF Plugins!Spec

\* A name that is builtin is looked up there, whatever is decorated.
LEMMA BuiltinFirst == \A k \in Plugins!Kinds : \A t \in DOMAIN Shipped[k] : Plugins!Lookup(k, t) = Shipped[k][t]
BY DEF Plugins!Lookup

\* No decorator changes what a builtin name stands for.
THEOREM BuiltinsStay == Plugins!Spec => Plugins!BuiltinsUnmoved
<1>1. (\A k \in Plugins!Kinds : \A t \in DOMAIN Shipped[k] : Plugins!Lookup(k, t) = Shipped[k][t])'
  BY BuiltinFirst, PTL
<1>2. \A k \in Plugins!Kinds : \A t \in DOMAIN Shipped[k] : Plugins!Lookup(k, t)' = Plugins!Lookup(k, t)
  BY <1>1, BuiltinFirst
<1> QED BY <1>2, PTL DEF Plugins!BuiltinsUnmoved, Plugins!Spec
-----------------------------------------------------------------------------
\* What the loggers are: a record of these fields, with a level for each logger
\* and sinks that are numbered below the next number.
IsTree(t) ==
    /\ t = [level |-> t.level, propagate |-> t.propagate, handlers |-> t.handlers, overridden |-> t.overridden,
            sinks |-> t.sinks, next |-> t.next, installed |-> t.installed]
    /\ DOMAIN t.level = LoggerNames
    /\ t.next \in Nat
    /\ t.sinks = [i \in DOMAIN t.sinks |-> t.sinks[i]]
    /\ \A i \in DOMAIN t.sinks \cup t.installed : i \in Nat /\ i < t.next

\* Only sinks of ours are remembered as installed.
OursInstalled(t) == \A i \in DOMAIN t.sinks : ~t.sinks[i].own => i \notin t.installed

LogInv ==
    /\ IsTree(tree) /\ OursInstalled(tree)
    /\ touched \subseteq LoggerNames
    /\ env \in LogEnvironments

\* What of the application is in one state of the loggers as in another.
SameApp(t, u, levels) ==
    /\ {h \in u.handlers : ~h.own} = {h \in t.handlers : ~h.own}
    /\ \A i \in DOMAIN t.sinks : ~t.sinks[i].own => i \in DOMAIN u.sinks /\ ~u.sinks[i].own
    /\ \A n \in levels : u.level[n] = t.level[n]

\* One after the other.
LEMMA SameAppTrans ==
    ASSUME NEW t, NEW u, NEW v, NEW levels, SameApp(t, u, levels), SameApp(u, v, levels)
    PROVE  SameApp(t, v, levels)
BY DEF SameApp

\* The sinks that are removed are ours.
LEMMA RemovesOurs ==
    ASSUME NEW t, IsTree(t), OursInstalled(t), NEW levels
    PROVE  /\ IsTree(Logging!RemoveInstalled(t)) /\ OursInstalled(Logging!RemoveInstalled(t))
           /\ SameApp(t, Logging!RemoveInstalled(t), levels)
           /\ Logging!RemoveInstalled(t).level = t.level /\ Logging!RemoveInstalled(t).overridden = t.overridden
<1> DEFINE u == Logging!RemoveInstalled(t)
<1>1. PICK sinks : sinks = [i \in DOMAIN t.sinks \ t.installed |-> t.sinks[i]]
  OBVIOUS
<1>2. u = [t EXCEPT !.sinks = sinks, !.installed = {}]
  BY <1>1 DEF Logging!RemoveInstalled, Logging!Restrict
<1>3. u = [level |-> t.level, propagate |-> t.propagate, handlers |-> t.handlers, overridden |-> t.overridden,
           sinks |-> sinks, next |-> t.next, installed |-> {}]
  BY <1>2 DEF IsTree
<1> HIDE DEF u
<1>4. /\ u.level = t.level /\ u.propagate = t.propagate /\ u.handlers = t.handlers /\ u.overridden = t.overridden
      /\ u.sinks = sinks /\ u.next = t.next /\ u.installed = {}
  BY <1>3
<1>5. DOMAIN sinks = DOMAIN t.sinks \ t.installed /\ \A i \in DOMAIN sinks : sinks[i] = t.sinks[i]
  BY <1>1
<1>6. IsTree(u)
  BY <1>3, <1>4, <1>5, <1>1 DEF IsTree
<1>7. OursInstalled(u)
  BY <1>4 DEF OursInstalled
<1>8. SameApp(t, u, levels)
  BY <1>4, <1>5 DEF SameApp, OursInstalled
<1> QED BY <1>4, <1>6, <1>7, <1>8 DEF u

\* A reset touches the level of Root and of the loggers that were overridden.
LEMMA ResetSpares ==
    ASSUME NEW t, IsTree(t), OursInstalled(t), NEW levels, levels \subseteq LoggerNames \ (t.overridden \cup {Logging!Root})
    PROVE  /\ IsTree(Logging!Reset(t)) /\ OursInstalled(Logging!Reset(t)) /\ SameApp(t, Logging!Reset(t), levels)
<1>1. PICK level : level = [n \in LoggerNames |-> IF n = Logging!Root \/ n \in t.overridden THEN 0 ELSE t.level[n]]
  OBVIOUS
<1>2. PICK handlers : handlers = {h \in t.handlers : ~h.own}
  OBVIOUS
<1>3. PICK u : u = [t EXCEPT !.handlers = handlers, !.propagate = TRUE, !.level = level, !.overridden = {}]
  OBVIOUS
<1>4. Logging!Reset(t) = Logging!RemoveInstalled(u)
  BY <1>1, <1>2, <1>3 DEF Logging!Reset
<1>5. u = [level |-> level, propagate |-> TRUE, handlers |-> handlers, overridden |-> {},
           sinks |-> t.sinks, next |-> t.next, installed |-> t.installed]
  BY <1>3 DEF IsTree
<1>6. /\ u.level = level /\ u.handlers = handlers /\ u.overridden = {} /\ u.propagate = TRUE
      /\ u.sinks = t.sinks /\ u.next = t.next /\ u.installed = t.installed
  BY <1>5, Zenon
<1>7. IsTree(u)
  BY <1>1, <1>5, <1>6 DEF IsTree
<1>8. OursInstalled(u)
  BY <1>6 DEF OursInstalled
<1>9. {h \in handlers : ~h.own} = {h \in t.handlers : ~h.own}
  BY <1>2
<1>10. \A n \in levels : level[n] = t.level[n]
  BY <1>1
<1>11. SameApp(u, Logging!RemoveInstalled(u), levels) /\ IsTree(Logging!RemoveInstalled(u)) /\ OursInstalled(Logging!RemoveInstalled(u))
  BY <1>7, <1>8, RemovesOurs
<1> QED BY <1>4, <1>6, <1>9, <1>10, <1>11 DEF SameApp

\* Levels that no rule names stay.
LEMMA LevelledSpares ==
    ASSUME NEW t, IsTree(t), OursInstalled(t), NEW c, NEW levels, levels \subseteq LoggerNames \ (Logging!OwnRules(c) \cup {Logging!Root})
    PROVE  /\ IsTree(Logging!Levelled(t, c)) /\ OursInstalled(Logging!Levelled(t, c)) /\ SameApp(t, Logging!Levelled(t, c), levels)
           /\ Logging!Levelled(t, c).overridden = Logging!OwnRules(c)
<1>1. PICK level : level = [n \in LoggerNames |-> IF n \in Logging!OwnRules(c) THEN c.rules[n] ELSE IF n = Logging!Root THEN c.level ELSE t.level[n]]
  OBVIOUS
<1>2. PICK u : u = Logging!Levelled(t, c)
  OBVIOUS
<1>3. u = [t EXCEPT !.propagate = FALSE, !.overridden = Logging!OwnRules(c), !.level = level]
  BY <1>1, <1>2 DEF Logging!Levelled
<1>4. u = [level |-> level, propagate |-> FALSE, handlers |-> t.handlers, overridden |-> Logging!OwnRules(c),
           sinks |-> t.sinks, next |-> t.next, installed |-> t.installed]
  BY <1>3 DEF IsTree
<1>5. /\ u.level = level /\ u.handlers = t.handlers /\ u.overridden = Logging!OwnRules(c) /\ u.propagate = FALSE
      /\ u.sinks = t.sinks /\ u.next = t.next /\ u.installed = t.installed
  BY <1>4, Zenon
<1>6. IsTree(u) /\ OursInstalled(u)
  BY <1>1, <1>4, <1>5 DEF IsTree, OursInstalled
<1>7. SameApp(t, u, levels)
  BY <1>1, <1>5 DEF SameApp
<1> QED BY <1>2, <1>5, <1>6, <1>7

\* Sinks that are installed are ours, and new.
LEMMA InstallsOurs ==
    ASSUME NEW t, IsTree(t), OursInstalled(t), NEW c, NEW levels,
           Len(c.sinks) \in Nat, DOMAIN c.sinks = 1..Len(c.sinks), \A i \in DOMAIN c.sinks : c.sinks[i].own
    PROVE  IsTree(Logging!Installed(t, c)) /\ OursInstalled(Logging!Installed(t, c)) /\ SameApp(t, Logging!Installed(t, c), levels)
<1>1. CASE ~Logging!UsesLoguru(c)
  <2>1. Logging!Installed(t, c) = t
    BY <1>1 DEF Logging!Installed
  <2> QED BY <2>1 DEF SameApp
<1>2. CASE Logging!UsesLoguru(c)
  <2>1. PICK ids : ids = {t.next + i : i \in DOMAIN c.sinks}
    OBVIOUS
  <2>2. PICK sinks : sinks = [i \in DOMAIN t.sinks \cup ids |-> IF i \in ids THEN c.sinks[i - t.next] ELSE t.sinks[i]]
    OBVIOUS
  <2>3. PICK u : u = Logging!Installed(t, c)
    OBVIOUS
  <2>4. u = [t EXCEPT !.sinks = sinks, !.installed = t.installed \cup ids, !.next = t.next + Len(c.sinks) + 1]
    BY <1>2, <2>1, <2>2, <2>3 DEF Logging!Installed
  <2>5. u = [level |-> t.level, propagate |-> t.propagate, handlers |-> t.handlers, overridden |-> t.overridden,
             sinks |-> sinks, next |-> t.next + Len(c.sinks) + 1, installed |-> t.installed \cup ids]
    BY <2>4 DEF IsTree
  <2>6. /\ u.level = t.level /\ u.handlers = t.handlers /\ u.overridden = t.overridden /\ u.propagate = t.propagate
        /\ u.sinks = sinks /\ u.next = t.next + Len(c.sinks) + 1 /\ u.installed = t.installed \cup ids
    BY <2>5, Zenon
  <2>7. \A i \in ids : i \in Nat /\ t.next < i /\ i < t.next + Len(c.sinks) + 1 /\ i - t.next \in DOMAIN c.sinks
    BY <2>1 DEF IsTree
  <2>8. \A i \in DOMAIN t.sinks : i \notin ids
    BY <2>7 DEF IsTree
  <2>9. \A i \in ids : sinks[i].own
    BY <2>2, <2>7
  <2>10. DOMAIN sinks = DOMAIN t.sinks \cup ids
    BY <2>2
  <2>11. \A i \in DOMAIN sinks \cup u.installed : i \in Nat /\ i < u.next
    BY <2>6, <2>7, <2>10 DEF IsTree
  <2>12. sinks = [i \in DOMAIN sinks |-> sinks[i]]
    BY <2>2
  <2>13. IsTree(u)
    BY <2>5, <2>6, <2>11, <2>12 DEF IsTree
  <2>14. OursInstalled(u)
    BY <2>2, <2>6, <2>9, <2>10 DEF OursInstalled
  <2>15. SameApp(t, u, levels)
    BY <2>2, <2>6, <2>8, <2>10 DEF SameApp
  <2> QED BY <2>3, <2>13, <2>14, <2>15
<1> QED BY <1>1, <1>2

\* A handler of ours is none of the application's.
LEMMA HandlerIsOurs ==
    ASSUME NEW t, IsTree(t), OursInstalled(t), NEW c, NEW levels
    PROVE  IsTree(Logging!Handled(t, c)) /\ OursInstalled(Logging!Handled(t, c)) /\ SameApp(t, Logging!Handled(t, c), levels)
<1>1. PICK h : h = Logging!Handler(t.handlers, TRUE, c)
  OBVIOUS
<1>2. h.own = TRUE
  BY <1>1 DEF Logging!Handler
<1>3. PICK u : u = Logging!Handled(t, c)
  OBVIOUS
<1>4. u = [t EXCEPT !.handlers = t.handlers \cup {h}]
  BY <1>1, <1>3 DEF Logging!Handled
<1>5. u = [level |-> t.level, propagate |-> t.propagate, handlers |-> t.handlers \cup {h}, overridden |-> t.overridden,
           sinks |-> t.sinks, next |-> t.next, installed |-> t.installed]
  BY <1>4 DEF IsTree
<1>6. /\ u.level = t.level /\ u.handlers = t.handlers \cup {h} /\ u.sinks = t.sinks
      /\ u.overridden = t.overridden /\ u.propagate = t.propagate /\ u.next = t.next /\ u.installed = t.installed
  BY <1>5, Zenon
<1>7. IsTree(u) /\ OursInstalled(u)
  BY <1>5, <1>6 DEF IsTree, OursInstalled
<1>8. SameApp(t, u, levels)
  BY <1>2, <1>6 DEF SameApp
<1> QED BY <1>3, <1>7, <1>8

\* Whether a configuration can be applied or not.
LEMMA AppliedSpares ==
    ASSUME NEW t, IsTree(t), OursInstalled(t), NEW c, NEW levels,
           levels \subseteq LoggerNames \ (Logging!OwnRules(c) \cup t.overridden \cup {Logging!Root}),
           Len(c.sinks) \in Nat, DOMAIN c.sinks = 1..Len(c.sinks), \A i \in DOMAIN c.sinks : c.sinks[i].own
    PROVE  IsTree(Logging!Applied(t, c)) /\ OursInstalled(Logging!Applied(t, c)) /\ SameApp(t, Logging!Applied(t, c), levels)
<1>1. PICK u : u = Logging!Reset(t)
  OBVIOUS
<1>2. IsTree(u) /\ OursInstalled(u) /\ SameApp(t, u, levels)
  BY <1>1, ResetSpares
<1>3. PICK v : v = Logging!Levelled(u, c)
  OBVIOUS
<1>4. IsTree(v) /\ OursInstalled(v) /\ SameApp(u, v, levels) /\ v.overridden = Logging!OwnRules(c)
  BY <1>2, <1>3, LevelledSpares
<1>5. CASE Logging!CannotBuild(c)
  <2>1. PICK w : w = Logging!RemoveInstalled(v)
    OBVIOUS
  <2>2. IsTree(w) /\ OursInstalled(w) /\ SameApp(v, w, levels) /\ w.overridden = Logging!OwnRules(c)
    BY <1>4, <2>1, RemovesOurs
  <2>3. IsTree(Logging!Reset(w)) /\ OursInstalled(Logging!Reset(w)) /\ SameApp(w, Logging!Reset(w), levels)
    BY <2>2, ResetSpares
  <2>4. Logging!Applied(t, c) = Logging!Reset(w)
    BY <1>1, <1>3, <1>5, <2>1 DEF Logging!Applied
  <2> QED BY <1>2, <1>4, <2>2, <2>3, <2>4, SameAppTrans
<1>6. CASE ~Logging!CannotBuild(c)
  <2>1. PICK w : w = Logging!Installed(v, c)
    OBVIOUS
  <2>2. IsTree(w) /\ OursInstalled(w) /\ SameApp(v, w, levels)
    BY <1>4, <2>1, InstallsOurs
  <2>3. IsTree(Logging!Handled(w, c)) /\ OursInstalled(Logging!Handled(w, c)) /\ SameApp(w, Logging!Handled(w, c), levels)
    BY <2>2, HandlerIsOurs
  <2>4. Logging!Applied(t, c) = Logging!Handled(w, c)
    BY <1>1, <1>3, <1>6, <2>1 DEF Logging!Applied
  <2> QED BY <1>2, <1>4, <2>2, <2>3, <2>4, SameAppTrans
<1> QED BY <1>5, <1>6

\* What configure applies has the sinks of the configuration it is given.
LEMMA MergedSinks ==
    ASSUME Logging!LoggingAssumption, env \in LogEnvironments, NEW c \in LogConfigs
    PROVE  /\ Len(Logging!Merged(c).sinks) \in Nat /\ DOMAIN Logging!Merged(c).sinks = 1..Len(Logging!Merged(c).sinks)
           /\ \A i \in DOMAIN Logging!Merged(c).sinks : Logging!Merged(c).sinks[i].own
<1>1. Logging!Merged(c).sinks = c.sinks
  BY DEF Logging!LoggingAssumption, Logging!Merged
<1> QED BY <1>1 DEF Logging!LoggingAssumption

\* A configuration, applied or refused, leaves what is the application's.
LEMMA ConfigureSpares ==
    ASSUME Logging!LoggingAssumption, LogInv, NEW c \in LogConfigs, Logging!Configure(c)
    PROVE  LogInv' /\ Logging!AppKept(Logging!OwnRules(Logging!Merged(c)))
<1>1. PICK levels : levels = touched \ (Logging!OwnRules(Logging!Merged(c)) \cup tree.overridden \cup {Logging!Root})
  OBVIOUS
<1>2. levels \subseteq LoggerNames \ (Logging!OwnRules(Logging!Merged(c)) \cup tree.overridden \cup {Logging!Root})
  BY <1>1 DEF LogInv
<1>3. tree' = Logging!Applied(tree, Logging!Merged(c)) \/ tree' = tree
  BY DEF Logging!Configure
<1>4. IsTree(tree') /\ OursInstalled(tree') /\ SameApp(tree, tree', levels)
  <2>1. CASE tree' = tree
    BY <2>1 DEF LogInv, SameApp
  <2>2. CASE tree' = Logging!Applied(tree, Logging!Merged(c))
    BY <1>2, <2>2, MergedSinks, AppliedSpares DEF LogInv
  <2> QED BY <1>3, <2>1, <2>2
<1>5. env' = env /\ touched' = touched
  BY DEF Logging!Configure
<1>6. Logging!AppKept(Logging!OwnRules(Logging!Merged(c)))
  BY <1>1, <1>4 DEF SameApp, Logging!AppKept
<1>7. LogInv'
  BY <1>4, <1>5 DEF LogInv, IsTree, OursInstalled
<1> QED BY <1>6, <1>7

\* So does a reset.
LEMMA ResetLoggingSpares ==
    ASSUME LogInv, Logging!ResetLogging
    PROVE  LogInv' /\ Logging!AppKept({})
<1>1. PICK levels : levels = touched \ (tree.overridden \cup {Logging!Root})
  OBVIOUS
<1>2. levels \subseteq LoggerNames \ (tree.overridden \cup {Logging!Root})
  BY <1>1 DEF LogInv
<1>3. tree' = Logging!Reset(tree) /\ env' = env /\ touched' = touched
  BY DEF Logging!ResetLogging
<1>4. IsTree(tree') /\ OursInstalled(tree') /\ SameApp(tree, tree', levels)
  BY <1>2, <1>3, ResetSpares DEF LogInv
<1>5. Logging!AppKept({})
  BY <1>1, <1>4 DEF SameApp, Logging!AppKept
<1>6. LogInv'
  BY <1>3, <1>4 DEF LogInv, IsTree, OursInstalled
<1> QED BY <1>5, <1>6

\* What the application does to its own loggers and sinks.
LEMMA OwnDoings ==
    ASSUME LogInv,
           \/ Logging!AddHandler \/ Logging!AddSink
           \/ \E n \in LoggerNames, l \in {0, 1, 3} : Logging!SetLevel(n, l)
           \/ \E gone \in SUBSET (DOMAIN tree.sinks) : Logging!RemoveSinks(gone)
    PROVE  LogInv'
<1> USE DEF LogInv
<1>1. CASE Logging!AddHandler
  <2>1. PICK handlers : tree' = [tree EXCEPT !.handlers = handlers]
    BY <1>1 DEF Logging!AddHandler
  <2>2. tree' = [level |-> tree.level, propagate |-> tree.propagate, handlers |-> handlers, overridden |-> tree.overridden,
                 sinks |-> tree.sinks, next |-> tree.next, installed |-> tree.installed]
    BY <2>1 DEF IsTree
  <2>3. IsTree(tree') /\ OursInstalled(tree')
    BY <2>2 DEF IsTree, OursInstalled
  <2> QED BY <1>1, <2>3 DEF Logging!AddHandler, IsTree, OursInstalled
<1>2. CASE Logging!AddSink
  <2>1. PICK sinks : sinks = [i \in DOMAIN tree.sinks \cup {tree.next} |-> IF i = tree.next THEN Logging!ForeignSink ELSE tree.sinks[i]]
    OBVIOUS
  <2>2. tree' = [tree EXCEPT !.sinks = sinks, !.next = tree.next + 1]
    BY <1>2, <2>1 DEF Logging!AddSink
  <2>3. tree' = [level |-> tree.level, propagate |-> tree.propagate, handlers |-> tree.handlers, overridden |-> tree.overridden,
                 sinks |-> sinks, next |-> tree.next + 1, installed |-> tree.installed]
    BY <2>2 DEF IsTree
  <2>4. /\ tree'.level = tree.level /\ tree'.sinks = sinks /\ tree'.next = tree.next + 1 /\ tree'.installed = tree.installed
        /\ tree'.propagate = tree.propagate /\ tree'.handlers = tree.handlers /\ tree'.overridden = tree.overridden
    BY <2>3, Zenon
  <2>5. DOMAIN sinks = DOMAIN tree.sinks \cup {tree.next} /\ sinks = [i \in DOMAIN sinks |-> sinks[i]]
    BY <2>1
  <2>6. tree.next \notin DOMAIN tree.sinks \cup tree.installed
    BY DEF IsTree
  <2>7. \A i \in DOMAIN tree.sinks : sinks[i] = tree.sinks[i]
    BY <2>1, <2>6
  <2>8. IsTree(tree')
    BY <2>3, <2>4, <2>5 DEF IsTree
  <2>9. OursInstalled(tree')
    BY <2>4, <2>5, <2>6, <2>7 DEF OursInstalled
  <2> QED BY <1>2, <2>8, <2>9 DEF Logging!AddSink, IsTree, OursInstalled
<1>3. ASSUME NEW n \in LoggerNames, NEW l \in {0, 1, 3}, Logging!SetLevel(n, l) PROVE LogInv'
  <2>1. PICK level : level = [tree.level EXCEPT ![n] = l]
    OBVIOUS
  <2>2. tree' = [tree EXCEPT !.level = level]
    BY <1>3, <2>1 DEF Logging!SetLevel, IsTree
  <2>3. tree' = [level |-> level, propagate |-> tree.propagate, handlers |-> tree.handlers, overridden |-> tree.overridden,
                 sinks |-> tree.sinks, next |-> tree.next, installed |-> tree.installed]
    BY <2>2 DEF IsTree
  <2>4. IsTree(tree') /\ OursInstalled(tree')
    BY <2>1, <2>3 DEF IsTree, OursInstalled
  <2> QED BY <1>3, <2>4 DEF Logging!SetLevel, IsTree, OursInstalled
<1>4. ASSUME NEW gone \in SUBSET (DOMAIN tree.sinks), Logging!RemoveSinks(gone) PROVE LogInv'
  <2>1. PICK sinks : sinks = [i \in DOMAIN tree.sinks \ gone |-> tree.sinks[i]]
    OBVIOUS
  <2>2. tree' = [tree EXCEPT !.sinks = sinks]
    BY <1>4, <2>1 DEF Logging!RemoveSinks, Logging!Restrict
  <2>3. tree' = [level |-> tree.level, propagate |-> tree.propagate, handlers |-> tree.handlers, overridden |-> tree.overridden,
                 sinks |-> sinks, next |-> tree.next, installed |-> tree.installed]
    BY <2>2 DEF IsTree
  <2>4. DOMAIN sinks = DOMAIN tree.sinks \ gone /\ sinks = [i \in DOMAIN sinks |-> sinks[i]]
    BY <2>1
  <2>5. IsTree(tree') /\ OursInstalled(tree')
    BY <2>1, <2>3, <2>4 DEF IsTree, OursInstalled
  <2> QED BY <1>4, <2>5 DEF Logging!RemoveSinks, IsTree, OursInstalled
<1> QED BY <1>1, <1>2, <1>3, <1>4

\* Every step keeps what is known of the loggers.
LEMMA LogInvNext == Logging!LoggingAssumption /\ LogInv /\ [Logging!Next]_(Logging!vars) => LogInv'
<1> SUFFICES ASSUME Logging!LoggingAssumption, LogInv, [Logging!Next]_(Logging!vars) PROVE LogInv'
  OBVIOUS
<1>1. CASE UNCHANGED Logging!vars
  BY <1>1 DEF Logging!vars, LogInv, IsTree, OursInstalled
<1>2. ASSUME NEW c \in LogConfigs, Logging!Configure(c) PROVE LogInv'
  BY <1>2, ConfigureSpares
<1>3. ASSUME NEW c \in LogConfigs \cup {Nothing}, Logging!AutoConfigure(c) PROVE LogInv'
  BY <1>3, <1>2 DEF Logging!AutoConfigure
<1>4. ASSUME NEW i \in DOMAIN tree.sinks, Logging!RemoveSinks({i}) PROVE LogInv'
  BY <1>4, OwnDoings
<1> QED BY <1>1, <1>2, <1>3, <1>4, ResetLoggingSpares, OwnDoings DEF Logging!Next

\* At first there is one sink of the application's.
LEMMA LogInvInit == Logging!Init => LogInv
<1> SUFFICES ASSUME Logging!Init PROVE LogInv
  OBVIOUS
<1>1. PICK sinks : sinks = [i \in {0} |-> Logging!ForeignSink]
  OBVIOUS
<1>2. PICK level : level = [n \in LoggerNames |-> 0]
  OBVIOUS
<1>3. PICK handlers : tree = [level |-> level, propagate |-> TRUE, handlers |-> handlers, overridden |-> {},
                              sinks |-> sinks, next |-> 1, installed |-> {}]
  BY <1>1, <1>2 DEF Logging!Init
<1>4. IsTree(tree) /\ OursInstalled(tree)
  BY <1>1, <1>2, <1>3 DEF IsTree, OursInstalled
<1> QED BY <1>4 DEF Logging!Init, LogInv

\* Whatever is configured, however often, and wherever it fails.
THEOREM AppStaysUntouched == ASSUME Logging!LoggingAssumption PROVE Logging!Spec => Logging!AppUntouched
<1>1. LogInv /\ [Logging!Next]_(Logging!vars) =>
        [(\A c \in LogConfigs : Logging!Configure(c) => Logging!AppKept(Logging!OwnRules(Logging!Merged(c)))) /\ (Logging!ResetLogging => Logging!AppKept({}))]_(Logging!vars)
  BY ConfigureSpares, ResetLoggingSpares
<1> QED BY <1>1, LogInvInit, LogInvNext, PTL DEF Logging!Spec, Logging!AppUntouched
-----------------------------------------------------------------------------
\* What a session says of a skill, and the session and skill of a run.
SkillRecs == {Skills!Absent} \cup [there : {TRUE}, named : BOOLEAN, references : BOOLEAN, ran : {0, 1}]
TasksKnown ==
    /\ DOMAIN skillTask = SkillTasks
    /\ \A t \in SkillTasks : skillTask[t].at = "running" => skillTask[t].session \in SkillSessions /\ skillTask[t].skill \in Skills!SkillNames
SkillsInv ==
    /\ skills \in [SkillSessions -> [Skills!SkillNames -> SkillRecs]]
    /\ TasksKnown

\* What an entry keeps of an earlier one.
EntryKept(old, new) == (old.references => new.references) /\ old.ran <= new.ran
Remembers ==
    \A s \in SkillSessions, k \in Skills!SkillNames :
        \/ \A j \in Skills!SkillNames : skills'[s][j] = Skills!Absent
        \/ EntryKept(skills[s][k], skills'[s][k])

\* An entry that stays as it is keeps all.
LEMMA EntryKeepsItself == \A e \in SkillRecs : EntryKept(e, e)
<1> TAKE e \in SkillRecs
<1>1. e = Skills!Absent => e.ran = 0
  BY DEF Skills!Absent
<1>2. e \in [there : {TRUE}, named : BOOLEAN, references : BOOLEAN, ran : {0, 1}] => e.ran \in {0, 1}
  OBVIOUS
<1>3. e.ran \in {0, 1}
  BY <1>1, <1>2 DEF SkillRecs
<1> QED BY <1>3 DEF EntryKept

\* One entry is replaced by one that keeps what it said.
LEMMA OneEntry ==
    ASSUME SkillsInv, NEW s \in SkillSessions, NEW k \in Skills!SkillNames, NEW entry \in SkillRecs,
           EntryKept(skills[s][k], entry), skills' = [skills EXCEPT ![s][k] = entry]
    PROVE  skills' \in [SkillSessions -> [Skills!SkillNames -> SkillRecs]] /\ Remembers
<1>1. \A q \in SkillSessions, j \in Skills!SkillNames : skills'[q][j] = IF q = s /\ j = k THEN entry ELSE skills[q][j]
  BY DEF SkillsInv
<1>2. \A q \in SkillSessions, j \in Skills!SkillNames : skills[q][j] \in SkillRecs
  BY DEF SkillsInv
<1>3. Remembers
  BY <1>1, <1>2, EntryKeepsItself DEF Remembers
<1>4. skills' \in [SkillSessions -> [Skills!SkillNames -> SkillRecs]]
  BY DEF SkillsInv
<1> QED BY <1>3, <1>4

\* Nothing of the sessions changes.
LEMMA NoEntry ==
    ASSUME SkillsInv, UNCHANGED skills
    PROVE  skills' \in [SkillSessions -> [Skills!SkillNames -> SkillRecs]] /\ Remembers
<1>1. \A q \in SkillSessions, j \in Skills!SkillNames : skills[q][j] \in SkillRecs
  BY DEF SkillsInv
<1> QED BY <1>1, EntryKeepsItself DEF SkillsInv, Remembers

\* prepare_session adds entries and keeps those that are there.
LEMMA PrepareRemembers ==
    ASSUME SkillsInv, NEW s \in SkillSessions, Skills!Prepare(s)
    PROVE  skills' \in [SkillSessions -> [Skills!SkillNames -> SkillRecs]] /\ Remembers
<1>1. PICK noted : noted = [k \in Skills!SkillNames |-> IF k \in DOMAIN Skills!Discovered THEN Skills!Noted(skills[s][k]) ELSE skills[s][k]]
  OBVIOUS
<1>2. skills' = [skills EXCEPT ![s] = noted]
  BY <1>1 DEF Skills!Prepare, SkillsInv
<1>3. \A q \in SkillSessions, j \in Skills!SkillNames : skills[q][j] \in SkillRecs
  BY DEF SkillsInv
<1>4. \A k \in Skills!SkillNames : noted[k] \in SkillRecs /\ EntryKept(skills[s][k], noted[k])
  <2> TAKE k \in Skills!SkillNames
  <2>1. PICK fresh : fresh = [Skills!Blank EXCEPT !.named = TRUE]
    OBVIOUS
  <2>2. fresh = [there |-> TRUE, named |-> TRUE, references |-> FALSE, ran |-> 0]
    BY <2>1 DEF Skills!Blank, Skills!Absent
  <2>3. fresh \in SkillRecs
    BY <2>2 DEF SkillRecs
  <2>4. ~skills[s][k].there => skills[s][k] = Skills!Absent
    BY <1>3 DEF SkillRecs
  <2>5. EntryKept(Skills!Absent, fresh)
    BY <2>2 DEF EntryKept, Skills!Absent
  <2> QED BY <1>1, <1>3, <2>1, <2>3, <2>4, <2>5, EntryKeepsItself DEF Skills!Noted
<1>5. \A q \in SkillSessions, j \in Skills!SkillNames : skills'[q][j] = IF q = s THEN noted[j] ELSE skills[q][j]
  BY <1>2 DEF SkillsInv
<1>6. Remembers
  BY <1>3, <1>4, <1>5, EntryKeepsItself DEF Remembers
<1>7. noted \in [Skills!SkillNames -> SkillRecs]
  BY <1>1, <1>4
<1>8. skills' \in [SkillSessions -> [Skills!SkillNames -> SkillRecs]]
  BY <1>2, <1>7 DEF SkillsInv
<1> QED BY <1>6, <1>8

\* So does load_references.
LEMMA ReferencesRemember ==
    ASSUME SkillsInv, NEW s \in SkillSessions, NEW k \in Skills!SkillNames, Skills!LoadReferences(s, k)
    PROVE  skills' \in [SkillSessions -> [Skills!SkillNames -> SkillRecs]] /\ Remembers
<1>1. CASE skills' = [skills EXCEPT ![s][k].there = TRUE, ![s][k].references = TRUE]
  <2>1. PICK entry : entry = [skills[s][k] EXCEPT !.there = TRUE, !.references = TRUE]
    OBVIOUS
  <2>2. skills[s][k] \in SkillRecs
    BY DEF SkillsInv
  <2>3. entry \in SkillRecs /\ EntryKept(skills[s][k], entry)
    <3>1. CASE skills[s][k] = Skills!Absent
      <4>0. skills[s][k] = [there |-> FALSE, named |-> FALSE, references |-> FALSE, ran |-> 0]
        BY <3>1 DEF Skills!Absent
      <4>2. PICK e : e = skills[s][k]
        OBVIOUS
      <4>3. e = [there |-> FALSE, named |-> FALSE, references |-> FALSE, ran |-> 0]
        BY <4>0, <4>2
      <4>4. entry = [e EXCEPT !.there = TRUE, !.references = TRUE]
        BY <2>1, <4>2
      <4>1. entry = [there |-> TRUE, named |-> FALSE, references |-> TRUE, ran |-> 0]
        BY <4>3, <4>4
      <4> QED BY <3>1, <4>1 DEF SkillRecs, EntryKept, Skills!Absent
    <3>2. CASE skills[s][k] \in [there : {TRUE}, named : BOOLEAN, references : BOOLEAN, ran : {0, 1}]
      <4>1. PICK e : e = skills[s][k]
        OBVIOUS
      <4>2. entry = [there |-> TRUE, named |-> e.named, references |-> TRUE, ran |-> e.ran]
        BY <2>1, <3>2, <4>1
      <4>3. e.named \in BOOLEAN /\ e.ran \in {0, 1}
        BY <3>2, <4>1
      <4>4. entry.references = TRUE /\ entry.ran = e.ran
        BY <4>2
      <4> QED BY <4>1, <4>2, <4>3, <4>4 DEF SkillRecs, EntryKept
    <3> QED BY <2>2, <3>1, <3>2 DEF SkillRecs
  <2>4. skills' = [skills EXCEPT ![s][k] = entry]
    BY <1>1, <2>1 DEF SkillsInv
  <2> QED BY <2>3, <2>4, OneEntry
<1> QED BY <1>1, NoEntry DEF Skills!LoadReferences

\* A run that ends well is noted.
LEMMA FinishRemembers ==
    ASSUME SkillsInv, NEW t \in SkillTasks, NEW ok \in BOOLEAN, Skills!Finish(t, ok)
    PROVE  skills' \in [SkillSessions -> [Skills!SkillNames -> SkillRecs]] /\ Remembers
<1>1. PICK s, k : s = skillTask[t].session /\ k = skillTask[t].skill
  OBVIOUS
<1>2. s \in SkillSessions /\ k \in Skills!SkillNames
  BY <1>1 DEF Skills!Finish, SkillsInv, TasksKnown
<1>3. CASE ok
  <2>1. PICK entry : entry = [skills[s][k] EXCEPT !.there = TRUE, !.ran = 1]
    OBVIOUS
  <2>2. skills[s][k] \in SkillRecs
    BY <1>2 DEF SkillsInv
  <2>3. entry \in SkillRecs /\ EntryKept(skills[s][k], entry)
    <3>1. CASE skills[s][k] = Skills!Absent
      <4>0. skills[s][k] = [there |-> FALSE, named |-> FALSE, references |-> FALSE, ran |-> 0]
        BY <3>1 DEF Skills!Absent
      <4>2. PICK e : e = skills[s][k]
        OBVIOUS
      <4>3. e = [there |-> FALSE, named |-> FALSE, references |-> FALSE, ran |-> 0]
        BY <4>0, <4>2
      <4>4. entry = [e EXCEPT !.there = TRUE, !.ran = 1]
        BY <2>1, <4>2
      <4>1. entry = [there |-> TRUE, named |-> FALSE, references |-> FALSE, ran |-> 1]
        BY <4>3, <4>4
      <4> QED BY <3>1, <4>1 DEF SkillRecs, EntryKept, Skills!Absent
    <3>2. CASE skills[s][k] \in [there : {TRUE}, named : BOOLEAN, references : BOOLEAN, ran : {0, 1}]
      <4>1. PICK e : e = skills[s][k]
        OBVIOUS
      <4>2. entry = [there |-> TRUE, named |-> e.named, references |-> e.references, ran |-> 1]
        BY <2>1, <3>2, <4>1
      <4>3. e.named \in BOOLEAN /\ e.references \in BOOLEAN /\ e.ran \in {0, 1}
        BY <3>2, <4>1
      <4>4. entry.references = e.references /\ entry.ran = 1
        BY <4>2
      <4> QED BY <4>1, <4>2, <4>3, <4>4 DEF SkillRecs, EntryKept
    <3> QED BY <2>2, <3>1, <3>2 DEF SkillRecs
  <2>4. skills' = [skills EXCEPT ![s][k] = entry]
    BY <1>1, <1>3, <2>1 DEF Skills!Finish
  <2> QED BY <1>2, <2>3, <2>4, OneEntry
<1> QED BY <1>3, NoEntry DEF Skills!Finish

\* A session that is deleted is forgotten whole.
LEMMA DeleteRemembers ==
    ASSUME SkillsInv, NEW s \in SkillSessions, Skills!Delete(s)
    PROVE  skills' \in [SkillSessions -> [Skills!SkillNames -> SkillRecs]] /\ Remembers
<1>1. \A q \in SkillSessions, j \in Skills!SkillNames : skills'[q][j] = IF q = s THEN Skills!Absent ELSE skills[q][j]
  BY DEF Skills!Delete, SkillsInv
<1>2. \A q \in SkillSessions, j \in Skills!SkillNames : skills[q][j] \in SkillRecs
  BY DEF SkillsInv
<1>3. Remembers
  BY <1>1, <1>2, EntryKeepsItself DEF Remembers
<1>4. skills' \in [SkillSessions -> [Skills!SkillNames -> SkillRecs]]
  BY DEF Skills!Delete, SkillsInv, SkillRecs
<1> QED BY <1>3, <1>4

\* Every step remembers.
LEMMA SkillsInvNext == SkillsInv /\ [Skills!Next]_(Skills!vars) => SkillsInv' /\ Remembers
<1> SUFFICES ASSUME SkillsInv, [Skills!Next]_(Skills!vars) PROVE SkillsInv' /\ Remembers
  OBVIOUS
<1>1. skills' \in [SkillSessions -> [Skills!SkillNames -> SkillRecs]] /\ Remembers
  <2>1. CASE UNCHANGED Skills!vars
    BY <2>1, NoEntry DEF Skills!vars
  <2>2. ASSUME NEW t \in SkillTasks, NEW s \in SkillSessions, NEW k \in Skills!SkillNames, Skills!RunSkill(t, s, k)
        PROVE  skills' \in [SkillSessions -> [Skills!SkillNames -> SkillRecs]] /\ Remembers
    BY <2>2, NoEntry DEF Skills!RunSkill
  <2> QED BY <2>1, <2>2, PrepareRemembers, ReferencesRemember, FinishRemembers, DeleteRemembers DEF Skills!Next
<1>2. TasksKnown'
  <2>1. CASE UNCHANGED skillTask
    BY <2>1 DEF SkillsInv, TasksKnown
  <2>2. ASSUME NEW t \in SkillTasks, NEW s \in SkillSessions, NEW k \in Skills!SkillNames, Skills!RunSkill(t, s, k)
        PROVE  TasksKnown'
    <3>1. PICK added, code :
              skillTask' = [skillTask EXCEPT ![t] = [at |-> "running", session |-> s, skill |-> k, added |-> added, code |-> code]]
      BY <2>2 DEF Skills!RunSkill
    <3> QED BY <3>1 DEF SkillsInv, TasksKnown
  <2>3. ASSUME NEW t \in SkillTasks, NEW ok \in BOOLEAN, Skills!Finish(t, ok)
        PROVE  TasksKnown'
    BY <2>3 DEF SkillsInv, TasksKnown, Skills!Finish, Skills!Idle
  <2>4. UNCHANGED skillTask \/ (\E t \in SkillTasks : \/ \E s \in SkillSessions, k \in Skills!SkillNames : Skills!RunSkill(t, s, k)
                                           \/ \E ok \in BOOLEAN : Skills!Finish(t, ok))
    BY DEF Skills!vars, Skills!Next, Skills!Prepare, Skills!Delete, Skills!LoadReferences
  <2> QED BY <2>1, <2>2, <2>3, <2>4
<1> QED BY <1>1, <1>2 DEF SkillsInv

\* At first no session knows a skill, and none is run.
LEMMA SkillsInvInit == Skills!Init => SkillsInv
BY DEF Skills!Init, SkillsInv, TasksKnown, SkillRecs, Skills!Idle

\* However preparations, runs and loads of references meet.
THEOREM NoneForgets == Skills!Spec => Skills!SkillsRemembered
<1>1. SkillsInv /\ [Skills!Next]_(Skills!vars) =>
        [\A s \in SkillSessions, k \in Skills!SkillNames :
            \/ /\ skills[s][k].references => skills'[s][k].references
               /\ skills[s][k].ran <= skills'[s][k].ran
            \/ \A j \in Skills!SkillNames : skills'[s][j] = Skills!Absent]_(Skills!vars)
  BY SkillsInvNext DEF Remembers, EntryKept
<1> QED BY <1>1, SkillsInvInit, SkillsInvNext, PTL DEF Skills!Spec, Skills!SkillsRemembered
-----------------------------------------------------------------------------
\* What is in force is valid and has been heard of in order; a poll has no timer.
WatchInv ==
    /\ conf \in [n : Nat, state : {"valid", "broken", "absent"}]
    /\ inForce.state = "valid"
    /\ heard \in Nat /\ heard <= conf.n
    /\ timer \in [Slots -> {"free", "waiting", "loading"}]
    /\ \A t \in Slots : timer[t] = "waiting" => t = latest
    /\ mode = "polling" => fileEvents = 0 /\ \A t \in Slots : timer[t] = "free"
    /\ mode = "polling" /\ heard = conf.n /\ conf.state = "valid" => inForce = conf

\* A save is newer than what was heard of.
LEMMA SaveKeeps ==
    ASSUME WatchInv, NEW state \in {"valid", "broken", "absent"}, NEW replaced \in BOOLEAN, Dev!Save(state, replaced)
    PROVE  WatchInv'
<1>1. conf' = [n |-> conf.n + 1, state |-> state]
  BY DEF Dev!Save, Dev!Version
<1>2. conf' \in [n : Nat, state : {"valid", "broken", "absent"}] /\ conf'.n = conf.n + 1
  BY <1>1 DEF WatchInv
<1>3. UNCHANGED <<mode, inForce, heard, timer, latest>>
  BY DEF Dev!Save
<1>4. mode = "polling" => fileEvents' = 0
  BY DEF Dev!Save, WatchInv
<1>5. heard' < conf'.n
  BY <1>2, <1>3 DEF WatchInv
<1> QED BY <1>2, <1>3, <1>4, <1>5 DEF WatchInv

\* A poll, or the one reload, puts a file in place that is valid.
LEMMA ReloadKeeps ==
    ASSUME WatchInv, Dev!Poll \/ Dev!Once
    PROVE  WatchInv'
<1>1. UNCHANGED <<mode, conf, fileEvents, timer, latest>>
  BY DEF Dev!Poll, Dev!Once, Dev!timers
<1>2. inForce' = IF conf.state = "valid" THEN conf ELSE inForce
  BY DEF Dev!Poll, Dev!Once, Dev!Reload, Dev!Adopts
<1>3. CASE Dev!Poll
  BY <1>1, <1>2, <1>3 DEF Dev!Poll, WatchInv
<1>4. CASE Dev!Once
  BY <1>1, <1>2, <1>4 DEF Dev!Once, WatchInv
<1> QED BY <1>3, <1>4

\* A timer takes the place of the one that waits, and its reload comes later.
LEMMA TimerKeeps ==
    ASSUME WatchInv, NEW t \in Slots, Dev!Works(t)
    PROVE  WatchInv'
<1>1. CASE Dev!Schedule(t)
  <2>1. mode # "polling"
    BY <1>1 DEF Dev!Schedule, WatchInv
  <2>2. UNCHANGED <<mode, conf, inForce, heard>>
    BY <1>1 DEF Dev!Schedule, Dev!watched
  <2>3. timer' = [Dev!Cancelled EXCEPT ![t] = "waiting"] /\ latest' = t
    BY <1>1 DEF Dev!Schedule, Dev!Reset
  <2>4. \A u \in Slots : Dev!Cancelled[u] \in {"free", "loading"}
    BY DEF Dev!Cancelled, WatchInv
  <2>5. Dev!Cancelled \in [Slots -> {"free", "waiting", "loading"}]
    BY <2>4 DEF Dev!Cancelled
  <2>6. timer' \in [Slots -> {"free", "waiting", "loading"}] /\ \A u \in Slots : timer'[u] = "waiting" => u = t
    BY <2>3, <2>4, <2>5
  <2> QED BY <2>1, <2>2, <2>3, <2>6 DEF WatchInv
<1>2. CASE Dev!Fire(t)
  <2>1. mode # "polling"
    BY <1>2 DEF Dev!Fire, WatchInv
  <2>2. UNCHANGED <<mode, conf, inForce, latest>> /\ timer' = [timer EXCEPT ![t] = "loading"]
    BY <1>2 DEF Dev!Fire, Dev!watched
  <2>3. heard' \in Nat /\ heard' <= conf.n
    BY <1>2 DEF Dev!Fire, Dev!Most, WatchInv
  <2> QED BY <2>1, <2>2, <2>3 DEF WatchInv
<1>3. CASE Dev!Apply(t)
  <2>1. mode # "polling"
    BY <1>3 DEF Dev!Apply, WatchInv
  <2>2. UNCHANGED <<mode, conf, latest, heard>> /\ timer' = [timer EXCEPT ![t] = "free"]
    BY <1>3 DEF Dev!Apply
  <2>3. inForce' = (IF readBy[t].state = "valid" THEN readBy[t] ELSE inForce)
    BY <1>3 DEF Dev!Apply, Dev!Adopts
  <2> QED BY <2>1, <2>2, <2>3 DEF WatchInv
<1> QED BY <1>1, <1>2, <1>3 DEF Dev!Works

\* Every step keeps it.
LEMMA WatchInvNext == WatchInv /\ [Dev!Next]_(Dev!vars) => WatchInv'
<1> SUFFICES ASSUME WatchInv, [Dev!Next]_(Dev!vars) PROVE WatchInv'
  OBVIOUS
<1>1. CASE UNCHANGED Dev!vars \/ Dev!Watch \/ Dev!Close
  BY <1>1 DEF Dev!vars, Dev!watched, Dev!timers, Dev!Watch, Dev!Close, WatchInv
<1>2. CASE Dev!Interrupt
  BY <1>2 DEF Dev!watched, Dev!Interrupt, WatchInv
<1> QED BY <1>1, <1>2, SaveKeeps, ReloadKeeps, TimerKeeps DEF Dev!Next

\* What is loaded first is valid, and heard of.
LEMMA WatchInvInit == Dev!Init => WatchInv
<1> SUFFICES ASSUME Dev!Init PROVE WatchInv
  OBVIOUS
<1>1. conf = [n |-> 0, state |-> "valid"]
  BY DEF Dev!Init, Dev!Version
<1> QED BY <1>1 DEF Dev!Init, WatchInv

\* However saves, timers and threads meet: one timer waits, what is in force was
\* valid when it was loaded, and once a poll has seen the last save, that is it.
THEOREM WatchIsFaithful == Dev!Spec => []Dev!HotReloadFaithful
<1>1. WatchInv => Dev!HotReloadFaithful
  BY DEF WatchInv, Dev!HotReloadFaithful, Dev!Waiting
<1> QED BY <1>1, WatchInvInit, WatchInvNext, PTL DEF Dev!Spec
-----------------------------------------------------------------------------
\* What is known of the parts: of the one that is exercised and those that rest.
AppInv == StreamInv /\ DelegationInv /\ LoadedInv /\ SkillsInv /\ LogInv /\ WatchInv

\* A step of the application is a step of each of its parts, or leaves it alone.
LEMMA PartsStep ==
    [MCNext]_<<part, vars, streamVars, delegationVars, pluginVars, supportVars>> =>
        /\ [Stream!Next]_(Stream!vars)
        /\ [Delegated!Next]_(Delegated!vars)
        /\ [Plugins!Next]_(Plugins!vars)
        /\ [Skills!Next]_(Skills!vars)
        /\ [Logging!Next]_(Logging!vars)
        /\ [Dev!Next]_(Dev!vars)
<1> SUFFICES ASSUME [MCNext]_<<part, vars, streamVars, delegationVars, pluginVars, supportVars>>
             PROVE  /\ [Stream!Next]_(Stream!vars)
                    /\ [Delegated!Next]_(Delegated!vars)
                    /\ [Plugins!Next]_(Plugins!vars)
                    /\ [Skills!Next]_(Skills!vars)
                    /\ [Logging!Next]_(Logging!vars)
                    /\ [Dev!Next]_(Dev!vars)
  OBVIOUS
<1> USE DEF streamVars, delegationVars, pluginVars, supportVars, Stream!vars, Delegated!vars, Plugins!vars,
            skillVars, logVars, devVars, Skills!vars, Logging!vars, Dev!vars, Dev!watched, Dev!timers
<1>1. CASE UNCHANGED <<part, vars, streamVars, delegationVars, pluginVars, supportVars>>
  BY <1>1
<1>2. CASE part = "facade" /\ Next /\ UNCHANGED <<streamVars, delegationVars, pluginVars, supportVars>>
  BY <1>2
<1>3. CASE part = "stream" /\ Stream!Next /\ UNCHANGED <<vars, delegationVars, pluginVars, supportVars>>
  BY <1>3
<1>4. CASE part = "delegation" /\ Delegated!Next /\ UNCHANGED <<vars, streamVars, pluginVars, supportVars>>
  BY <1>4
<1>5. CASE part = "plugins" /\ Plugins!Next /\ UNCHANGED <<vars, streamVars, delegationVars, supportVars>>
  BY <1>5
<1>6. CASE SupportNext /\ UNCHANGED <<vars, streamVars, delegationVars, pluginVars>>
  BY <1>6 DEF SupportNext
<1> QED BY <1>1, <1>2, <1>3, <1>4, <1>5, <1>6 DEF MCNext

\* At first no stream is open, no run has begun, no agent is loaded, no skill
\* known, nothing configured and nothing saved.
LEMMA AppInvInit == MCInit => AppInv
<1> SUFFICES ASSUME MCInit PROVE AppInv
  OBVIOUS
<1>1. Stream!Init /\ Delegated!Init /\ Plugins!Init /\ Skills!Init /\ Logging!Init /\ Dev!Init
  BY DEF MCInit, IdleStream, IdleDelegation, SupportInit
<1>2. wrapped \in BOOLEAN
  BY <1>1, PartsAssumption DEF Stream!Init
<1>3. StreamInv
  BY <1>1, <1>2, StreamInvInit
<1>4. DelegationInv
  BY <1>1, PartsAssumption, DelegationInvInit
<1>5. LoadedInv
  BY <1>1 DEF Plugins!Init, LoadedInv
<1> QED BY <1>1, <1>3, <1>4, <1>5, SkillsInvInit, LogInvInit, WatchInvInit DEF AppInv

\* Each part keeps its own.
LEMMA AppInvNext ==
    AppInv /\ [MCNext]_<<part, vars, streamVars, delegationVars, pluginVars, supportVars>> => AppInv'
<1> SUFFICES ASSUME AppInv, [MCNext]_<<part, vars, streamVars, delegationVars, pluginVars, supportVars>> PROVE AppInv'
  OBVIOUS
<1>1. /\ [Stream!Next]_(Stream!vars) /\ [Delegated!Next]_(Delegated!vars) /\ [Plugins!Next]_(Plugins!vars)
      /\ [Skills!Next]_(Skills!vars) /\ [Logging!Next]_(Logging!vars) /\ [Dev!Next]_(Dev!vars)
  BY PartsStep
<1>2. StreamInv'
  BY <1>1, StreamInvNext DEF AppInv
<1>3. DelegationInv'
  BY <1>1, PartsAssumption, DelegationInvNext DEF AppInv
<1>4. LoadedInv'
  BY <1>1, PartsAssumption, LoadedInvNext DEF AppInv
<1>5. SkillsInv' /\ LogInv' /\ WatchInv'
  BY <1>1, PartsAssumption, SkillsInvNext, LogInvNext, WatchInvNext DEF AppInv
<1> QED BY <1>2, <1>3, <1>4, <1>5 DEF AppInv

\* What an application's runs are given, for any streams, limits and plugins:
\* events whole, in order and numbered; sessions, depths, copies and records
\* that can be relied on when runs delegate; plugins that are complete.
THEOREM RunsAreServed == MCSpec => []RunsServed
<1>1. AppInv => RunsServed
  BY PartsAssumption, StreamInvSound, DelegationInvSound, LoadedInvUsable, LoadedInvServes DEF AppInv, RunsServed
<1> QED BY <1>1, AppInvInit, AppInvNext, PTL DEF MCSpec

\* Whichever part is exercised, what was there before stays: a builtin name means
\* what it meant, a session knows of its skills what it knew, and the handlers,
\* sinks and levels that the application has set up are as they were.
THEOREM AppIsLeftAsFound == MCSpec => LeftAsFound
<1>1. (\A k \in Plugins!Kinds : \A t \in DOMAIN Shipped[k] : Plugins!Lookup(k, t) = Shipped[k][t])'
  BY BuiltinFirst, PTL
<1>2. \A k \in Plugins!Kinds : \A t \in DOMAIN Shipped[k] : Plugins!Lookup(k, t)' = Plugins!Lookup(k, t)
  BY <1>1, BuiltinFirst
<1>3. AppInv /\ [Skills!Next]_(Skills!vars) =>
        [\A s \in SkillSessions, k \in Skills!SkillNames :
            \/ /\ skills[s][k].references => skills'[s][k].references
               /\ skills[s][k].ran <= skills'[s][k].ran
            \/ \A j \in Skills!SkillNames : skills'[s][j] = Skills!Absent]_(Skills!vars)
  BY SkillsInvNext DEF AppInv, Remembers, EntryKept
<1>4. AppInv /\ [Logging!Next]_(Logging!vars) =>
        [/\ \A c \in LogConfigs : Logging!Configure(c) => Logging!AppKept(Logging!OwnRules(Logging!Merged(c)))
         /\ Logging!ResetLogging => Logging!AppKept({})]_(Logging!vars)
  BY PartsAssumption, ConfigureSpares, ResetLoggingSpares DEF AppInv
<1> QED
  BY <1>2, <1>3, <1>4, PartsStep, AppInvInit, AppInvNext, PTL
  DEF MCSpec, LeftAsFound, Plugins!BuiltinsUnmoved, Skills!SkillsRemembered, Logging!AppUntouched
=============================================================================
