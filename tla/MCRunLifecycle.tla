--------------------------- MODULE MCRunLifecycle ---------------------------
(* Two instances of RunLifecycle, one of which is initially chosen: two runs *)
(* of one agent on one session, on a backend that suspends and may fail; or  *)
(* a run that delegates another in its session, with a third waiting for the *)
(* session, on a backend that does not suspend.                              *)
EXTENDS RunLifecycle

CONSTANTS r1, r2, r3, s1, a1, a2

VARIABLES part, dpc, dverdict, dresult, dinside, dtranscript, dlast, dcontext, dhandlers, dseen,
          dreported, dsnapshot, dmemory, dannounced, ddepth

Pair == {r1, r2}
PairSession == [r \in Pair |-> s1]
PairAgent == [r \in Pair |-> a1]
PairRoots == [r \in Pair |-> NoRun]

Trio == {r1, r2, r3}
Delegation == INSTANCE RunLifecycle WITH
    Runs <- Trio,
    Session <- [r \in Trio |-> s1],
    Agent <- [r \in Trio |-> IF r = r2 THEN a2 ELSE a1],
    Parent <- [r \in Trio |-> IF r = r2 THEN r1 ELSE NoRun],
    Suspends <- FALSE, StoreMayFail <- FALSE, Diagnosed <- FALSE,
    pc <- dpc, verdict <- dverdict, result <- dresult, inside <- dinside, transcript <- dtranscript,
    last <- dlast, context <- dcontext, handlers <- dhandlers, seen <- dseen, reported <- dreported,
    snapshot <- dsnapshot, memory <- dmemory, announced <- dannounced, depth <- ddepth

dvars == <<dpc, dverdict, dresult, dinside, dtranscript, dlast, dcontext, dhandlers, dseen,
           dreported, dsnapshot, dmemory, dannounced, ddepth>>

MCInit == part \in {"runs", "delegation"} /\ Init /\ Delegation!Init

MCNext ==
    /\ UNCHANGED part
    /\ \/ part = "runs" /\ Next /\ UNCHANGED dvars
       \/ part = "delegation" /\ Delegation!Next /\ UNCHANGED vars

MCSpec ==
    /\ MCInit
    /\ [][MCNext]_<<part, vars, dvars>>
    /\ \A r \in Trio : WF_dvars(part = "delegation" /\ Delegation!Progress(r))

\* RunLifecycle: delegations are chains, and turns whole.
DelegationChain == Delegation!ChainInside /\ Delegation!TurnsWhole
\* RunLifecycle: every run ends.
EveryRunEndsHere == <>[](\A r \in Trio : dpc[r] \in {"new", "done"})
=============================================================================
