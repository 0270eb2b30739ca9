------------------------ MODULE SqliteSessionProofs ------------------------
(***************************************************************************)
(* Proofs about SqliteSession, for any number of sessions, clients, faults *)
(* and restarts, when applications work inside session() and use the target *)
(* of a fork after it (Apart): what a session shows is what its rows say,  *)
(* a fork writes into an empty session, and the rows are an atomic store.  *)
(*                                                                         *)
(* The dict of a session is compared with its rows while a client is       *)
(* between two steps, so the invariant says what each step of a client     *)
(* knows (Knows): the lock it holds, the dict it found, the rows it read   *)
(* and the row it is about to write.  Transcripts are compared as          *)
(* sequences of the indices that stay, so the first lemmas are about the   *)
(* n-th of a set of indices (Nth).                                         *)
(*                                                                         *)
(* Then the other backend that persists, JsonlSession (Files): what deaths *)
(* in the middle of writes cost a session, and that forks replace nothing. *)
(***************************************************************************)
EXTENDS SqliteSession, FiniteSetTheorems, FunctionTheorems, SequenceTheorems, TLAPS

\* An application that works inside session() and uses the target of a fork,
\* also for another fork, only when that fork has ended.
Apart ==
    /\ Locked
    /\ \A f, c \in Clients : Forks(f) /\ On[c] = Target[f] => f \in After[c]
    /\ \A f, g \in Clients : Forks(f) /\ Forks(g) /\ f # g /\ Target[f] = Target[g] => f \in After[g] \/ g \in After[f]

Rows == [kind : {"transcript"}, by : Clients] \cup [kind : {"state"}, fields : [Keys -> Clients \cup {Absent}]]
            \cup {Bad}

Sorts ==
    /\ pc \in [Clients -> Stages]
    /\ db \in [Sessions -> Seq(Rows)]
    /\ states \in [Sessions -> Dicts \cup {None}]
    /\ heap \in [Dicts -> Contents]
    /\ loaded \subseteq Sessions
    /\ lock \in [Sessions -> Clients \cup {None}]
    /\ dict \in [Clients -> Dicts \cup {None}]
    /\ rows \in [Clients -> Seq(Rows)]
    /\ answer \in [Clients -> [msgs : Seq(Clients), read : BOOLEAN]]

Under(c) == ~At(c, "idle") /\ ~Ended(c)

\* A client under way holds the lock of its session, and began when those it
\* comes after had ended.
Ordered == \A c \in Clients :
    /\ Under(c) => lock[On[c]] = c
    /\ ~At(c, "idle") => \A b \in After[c] : Ended(b)

\* A dict is of one session, filled when its session is loaded, and fresh
\* before its client begins.
OwnedAt(s) ==
    /\ \A c \in Clients :
          /\ states[s] = <<c, "own">> => On[c] = s /\ ~At(c, "idle")
          /\ states[s] = <<c, "copy">> => Target[c] = s /\ At(c, "ok") /\ Forks(c)
    /\ s \in loaded => states[s] # None
    /\ s \notin loaded /\ states[s] # None => heap[states[s]] = Empty
Owned ==
    /\ \A s \in Sessions : OwnedAt(s)
    /\ \A c \in Clients : At(c, "idle") => heap[<<c, "own">>] = Empty

\* What a client that waits for the database knows of its session.
Knows(c) ==
    /\ At(c, "selecting") \/ At(c, "applying") =>
          /\ Loads(c) /\ On[c] \notin loaded
          /\ dict[c] = states[On[c]] /\ states[On[c]] # None
    /\ At(c, "applying") => rows[c] = db[On[c]]
    /\ At(c, "inserting") =>
          /\ Kind[c] \in {"append", "note", "drop"}
          /\ On[c] \in loaded /\ dict[c] = states[On[c]]
          /\ rows[c] = IF Kind[c] = "append" THEN <<Message(c)>> ELSE <<State(heap[states[On[c]]].fields)>>
          /\ Kind[c] = "note" => heap[states[On[c]]].fields[Key[c]] = c
          /\ Kind[c] = "drop" => heap[states[On[c]]].fields[Key[c]] = Absent
    /\ At(c, "checking") \/ At(c, "copying") \/ At(c, "mirroring") => Forks(c) /\ On[c] \in loaded
    /\ At(c, "copying") => Free(Target[c])
    /\ At(c, "mirroring") => db[Target[c]] = db[On[c]] /\ states[Target[c]] = None
    /\ At(c, "deleting") => Kind[c] = "delete" /\ states[On[c]] = None

\* Messages whose operation is over.
Settled(msgs) == \A i \in DOMAIN msgs : pc[msgs[i]] \in {"ok", "failed"}
Done(f) == pc[f] \in {"ok", "failed"} /\ (Failed(f) => "insert" \in Faults)
\* Rows of clients that have returned, with fields that were set by clients
\* that have ended.
Written(log) == \A i \in DOMAIN log :
    /\ log[i].kind = "transcript" => pc[log[i].by] = "ok"
    /\ log[i].kind = "state" => \A k \in Keys : log[i].fields[k] # Absent => Done(log[i].fields[k])

Writing(c, s) == At(c, "inserting") /\ On[c] = s

Agrees(field, log, k) ==
    \/ field = Stored(log).fields[k]
    \/ Failed(field)
    \/ field = Absent /\ Removed(k)

\* The dict shows what is stored, but for what is being inserted.
Shows(s, base) ==
    /\ Settled(base) /\ Unfailed(base) = Transcript(db[s])
    /\ (\A c \in Clients : Writing(c, s) => Kind[c] # "append") => heap[states[s]].msgs = base
    /\ \A c \in Clients : Writing(c, s) /\ Kind[c] = "append" => heap[states[s]].msgs = Append(base, c)
    /\ \A k \in Keys : \/ Agrees(heap[states[s]].fields[k], db[s], k)
                       \/ \E c \in Clients : Writing(c, s) /\ Kind[c] # "append" /\ Key[c] = k
Shown(s) == s \in loaded => \E base \in Seq(Clients) : Shows(s, base)

\* The fields of a dict were set by clients that have ended, or by the one
\* that is inserting.
Inserting(f, s) == At(f, "inserting") /\ On[f] = s
FieldedAt(s) == \A k \in Keys :
    states[s] # None /\ heap[states[s]].fields[k] # Absent =>
        Done(heap[states[s]].fields[k]) \/ Inserting(heap[states[s]].fields[k], s)

Inv ==
    /\ Sorts /\ Ordered /\ Owned
    /\ \A c \in Clients : Knows(c) /\ Settled(answer[c].msgs)
    /\ \A s \in Sessions : FieldedAt(s) /\ Written(db[s]) /\ Shown(s)

(***************************************************************************)
(* Subsequences: the indices of a finite set have one place each.          *)
(***************************************************************************)
Place(I, i) == Cardinality({j \in I : j <= i})

\* A place is a number up to the size of the set.
LEMMA PlaceBounded ==
    ASSUME NEW I \in SUBSET Nat, IsFiniteSet(I), NEW i \in I
    PROVE  IsFiniteSet({j \in I : j <= i}) /\ Place(I, i) \in 1 .. Cardinality(I) /\ Cardinality(I) \in Nat
<1> DEFINE S == {j \in I : j <= i}
<1>1. S \in SUBSET I /\ i \in S
  OBVIOUS
<1>2. IsFiniteSet(S) /\ Cardinality(S) <= Cardinality(I)
  BY <1>1, FS_Subset
<1>3. Cardinality(S) \in Nat /\ Cardinality(I) \in Nat
  BY <1>2, FS_CardinalityType
<1>4. Cardinality(S) # 0
  BY <1>1, <1>2, FS_EmptySet
<1> QED BY <1>2, <1>3, <1>4 DEF Place

\* Two indices have two places.
LEMMA PlacesDiffer ==
    ASSUME NEW I \in SUBSET Nat, IsFiniteSet(I), NEW i \in I, NEW k \in I, Place(I, i) = Place(I, k)
    PROVE  i = k
<1>1. \A a, b \in I : a < b => Place(I, a) # Place(I, b)
  <2> SUFFICES ASSUME NEW a \in I, NEW b \in I, a < b, Place(I, a) = Place(I, b) PROVE FALSE
    OBVIOUS
  <2> DEFINE S == {j \in I : j <= a}
             T == {j \in I : j <= b}
  <2>0. a \in Nat /\ b \in Nat /\ \A j \in I : j \in Nat
    OBVIOUS
  <2>1. S \in SUBSET T /\ b \in T /\ b \notin S
    <3>1. \A j \in I : j <= a => j <= b
      BY <2>0
    <3>2. ~(b <= a) /\ b <= b
      BY <2>0
    <3> QED BY <3>1, <3>2
  <2>2. IsFiniteSet(T) /\ Cardinality(S) = Cardinality(T)
    BY PlaceBounded DEF Place
  <2>3. S = T
    BY <2>1, <2>2, FS_Subset
  <2> QED BY <2>1, <2>3
<1>2. i < k \/ k < i \/ i = k
  OBVIOUS
<1> QED BY <1>1, <1>2

\* The index at a place is found by it.
LEMMA NthIs ==
    ASSUME NEW I \in SUBSET Nat, IsFiniteSet(I), NEW i \in I
    PROVE  Nth(I, Place(I, i)) = i
<1>1. \A k \in I : Cardinality({j \in I : j <= k}) = Place(I, i) => k = i
  BY PlacesDiffer DEF Place
<1>2. Cardinality({j \in I : j <= i}) = Place(I, i)
  BY DEF Place
<1> HIDE DEF Place
<1> QED BY <1>1, <1>2 DEF Nth

\* There is an index at every place.
LEMMA NthHasPlace ==
    ASSUME NEW I \in SUBSET Nat, IsFiniteSet(I), NEW n \in 1 .. Cardinality(I)
    PROVE  Nth(I, n) \in I /\ Place(I, Nth(I, n)) = n
<1> DEFINE T == 1 .. Cardinality(I)
           f == [i \in I |-> Place(I, i)]
<1>1. Cardinality(I) \in Nat /\ IsFiniteSet(T) /\ Cardinality(T) = Cardinality(I)
  BY FS_CardinalityType, FS_Interval
<1>2. f \in [I -> T]
  BY PlaceBounded
<1>3. f \in Injection(I, T)
  BY <1>2, PlacesDiffer DEF Injection, IsInjective
<1>4. f \in Surjection(I, T)
  BY <1>1, <1>3, FS_Injection
<1>5. PICK i \in I : Place(I, i) = n
  BY <1>4 DEF Surjection
<1> QED BY <1>5, NthIs

\* An index above the others comes last.
LEMMA NthOfMore ==
    ASSUME NEW m \in Nat, NEW I \in SUBSET (1 .. m)
    PROVE  /\ IsFiniteSet(I) /\ Cardinality(I) \in Nat
           /\ Cardinality(I \cup {m + 1}) = Cardinality(I) + 1
           /\ \A n \in 1 .. Cardinality(I) : Nth(I \cup {m + 1}, n) = Nth(I, n) /\ Nth(I, n) \in I
           /\ Nth(I \cup {m + 1}, Cardinality(I) + 1) = m + 1
<1> DEFINE J == I \cup {m + 1}
<1>0. m \in Nat /\ 1 \in Int /\ m \in Int /\ \A j \in I : j \in Nat /\ j <= m
  OBVIOUS
<1>1. IsFiniteSet(I) /\ Cardinality(I) \in Nat
  <2>1. IsFiniteSet(1 .. m)
    BY <1>0, FS_Interval
  <2> QED BY <2>1, FS_Subset, FS_CardinalityType
<1>2. IsFiniteSet(J) /\ Cardinality(J) = Cardinality(I) + 1 /\ m + 1 \notin I
  BY <1>1, FS_AddElement
<1>3. I \in SUBSET Nat /\ J \in SUBSET Nat
  OBVIOUS
<1>4. ASSUME NEW n \in 1 .. Cardinality(I) PROVE Nth(J, n) = Nth(I, n) /\ Nth(I, n) \in I
  <2>1. Nth(I, n) \in I /\ Place(I, Nth(I, n)) = n
    BY <1>1, <1>3, NthHasPlace
  <2>2. {j \in J : j <= Nth(I, n)} = {j \in I : j <= Nth(I, n)}
    <3>1. Nth(I, n) \in Nat /\ Nth(I, n) <= m
      BY <2>1, <1>0
    <3>2. ~(m + 1 <= Nth(I, n))
      BY <3>1
    <3> QED BY <3>2
  <2>3. Place(J, Nth(I, n)) = n
    BY <2>1, <2>2 DEF Place
  <2> HIDE DEF J
  <2>4. Nth(I, n) \in J
    BY <2>1 DEF J
  <2>5. Nth(J, Place(J, Nth(I, n))) = Nth(I, n)
    BY <2>4, <1>2, <1>3, NthIs
  <2> QED BY <2>1, <2>3, <2>5
<1>5. Nth(J, Cardinality(I) + 1) = m + 1
  <2>0. \A j \in J : j <= m + 1
    BY <1>0
  <2>1. {j \in J : j <= m + 1} = J
    BY <2>0
  <2>2. Place(J, m + 1) = Cardinality(I) + 1
    BY <2>1, <1>2 DEF Place
  <2> HIDE DEF J
  <2>3. m + 1 \in J
    BY DEF J
  <2>4. Nth(J, Place(J, m + 1)) = m + 1
    BY <2>3, <1>2, <1>3, NthIs
  <2> QED BY <2>2, <2>4
<1> QED BY <1>1, <1>2, <1>4, <1>5

(***************************************************************************)
(* What one more row does to the replay of a log.                          *)
(***************************************************************************)
\* The rows of a log that holds one more.
LEMMA OneMore ==
    ASSUME NEW S, NEW log \in Seq(S), NEW e \in S
    PROVE  /\ log \o <<e>> \in Seq(S)
           /\ Len(log) \in Nat /\ DOMAIN log = 1 .. Len(log)
           /\ DOMAIN (log \o <<e>>) = 1 .. (Len(log) + 1)
           /\ \A i \in 1 .. Len(log) : (log \o <<e>>)[i] = log[i] /\ log[i] \in S
           /\ (log \o <<e>>)[Len(log) + 1] = e
           /\ Append(log, e) = log \o <<e>>
OBVIOUS

\* The kinds of rows.
LEMMA RowKinds ==
    ASSUME NEW e \in Rows
    PROVE  /\ e.kind \in {"transcript", "state", "bad"}
           /\ e.kind = "transcript" => e.by \in Clients
           /\ e.kind = "state" => e.fields \in [Keys -> Clients \cup {Absent}]
BY DEF Rows, Bad

\* A transcript is of clients.
LEMMA TranscriptType ==
    ASSUME NEW log \in Seq(Rows)
    PROVE  /\ Transcript(log) \in Seq(Clients)
           /\ TranscriptRows(log) \in SUBSET (1 .. Len(log)) /\ IsFiniteSet(TranscriptRows(log))
           /\ Cardinality(TranscriptRows(log)) \in Nat
           /\ \A n \in 1 .. Cardinality(TranscriptRows(log)) :
                 Nth(TranscriptRows(log), n) \in DOMAIN log /\ log[Nth(TranscriptRows(log), n)].kind = "transcript"
<1> DEFINE I == TranscriptRows(log)
<1>1. Len(log) \in Nat /\ DOMAIN log = 1 .. Len(log) /\ I \in SUBSET (1 .. Len(log))
  BY DEF TranscriptRows
<1>2. IsFiniteSet(I) /\ Cardinality(I) \in Nat /\ \A n \in 1 .. Cardinality(I) : Nth(I, n) \in I
  BY <1>1, NthOfMore
<1>3. \A n \in 1 .. Cardinality(I) : Nth(I, n) \in DOMAIN log /\ log[Nth(I, n)].kind = "transcript"
  BY <1>2 DEF TranscriptRows
<1>4. \A n \in 1 .. Cardinality(I) : log[Nth(I, n)].by \in Clients
  <2> TAKE n \in 1 .. Cardinality(I)
  <2>1. log[Nth(I, n)] \in Rows
    BY <1>3
  <2> QED BY <2>1, <1>3, RowKinds
<1> HIDE DEF I
<1>5. Transcript(log) \in [1 .. Cardinality(I) -> Clients]
  BY <1>4 DEF Transcript, I
<1>6. Transcript(log) \in Seq(Clients)
  BY <1>2, <1>5
<1>7. /\ TranscriptRows(log) \in SUBSET (1 .. Len(log)) /\ IsFiniteSet(TranscriptRows(log))
      /\ Cardinality(TranscriptRows(log)) \in Nat
  BY <1>1, <1>2 DEF I
<1>8. \A n \in 1 .. Cardinality(TranscriptRows(log)) :
         Nth(TranscriptRows(log), n) \in DOMAIN log /\ log[Nth(TranscriptRows(log), n)].kind = "transcript"
  BY <1>3 DEF I
<1> QED BY <1>6, <1>7, <1>8

\* An empty log has an empty transcript.
LEMMA TranscriptOfNone == Transcript(<<>>) = <<>>
<1>1. TranscriptRows(<<>>) = {}
  BY DEF TranscriptRows
<1>2. Cardinality({}) = 0
  BY FS_EmptySet
<1>3. <<>> \in Seq(Rows)
  OBVIOUS
<1>4. Transcript(<<>>) \in Seq(Clients)
  BY <1>3, TranscriptType
<1>5. DOMAIN Transcript(<<>>) = 1 .. 0
  BY <1>1, <1>2 DEF Transcript
<1>6. Len(Transcript(<<>>)) = 0
  BY <1>4, <1>5
<1> QED BY <1>4, <1>6, EmptySeq

\* A message is added at the end, a state is not.
LEMMA TranscriptOfMore ==
    ASSUME NEW log \in Seq(Rows), NEW e \in Rows
    PROVE  Transcript(log \o <<e>>) =
               IF e.kind = "transcript" THEN Append(Transcript(log), e.by) ELSE Transcript(log)
<1> DEFINE t == log \o <<e>>
           I == TranscriptRows(log)
           m == Len(log)
<1>1. /\ m \in Nat /\ DOMAIN log = 1 .. m /\ DOMAIN t = 1 .. (m + 1)
      /\ \A i \in 1 .. m : t[i] = log[i]
      /\ t[m + 1] = e
  BY OneMore
<1>2. I \in SUBSET (1 .. m) /\ Cardinality(I) \in Nat /\ Transcript(log) \in Seq(Clients)
  BY TranscriptType
<1>3. \A n \in 1 .. Cardinality(I) : Nth(I, n) \in 1 .. m
  BY <1>1, TranscriptType
<1>4. CASE e.kind = "transcript"
  <2>1. TranscriptRows(t) = I \cup {m + 1}
    BY <1>1, <1>4 DEF TranscriptRows
  <2>2. /\ Cardinality(I \cup {m + 1}) = Cardinality(I) + 1
        /\ \A n \in 1 .. Cardinality(I) : Nth(I \cup {m + 1}, n) = Nth(I, n)
        /\ Nth(I \cup {m + 1}, Cardinality(I) + 1) = m + 1
    BY <1>1, <1>2, NthOfMore
  <2> HIDE DEF t, I, m
  <2>3. Transcript(t) = [n \in 1 .. (Cardinality(I) + 1) |-> t[Nth(I \cup {m + 1}, n)].by]
    BY <2>1, <2>2 DEF Transcript
  <2>4. Transcript(log) = [n \in 1 .. Cardinality(I) |-> log[Nth(I, n)].by]
    BY DEF Transcript, I
  <2>5. e.by \in Clients
    BY <1>4, RowKinds
  <2>6. Len(Transcript(log)) = Cardinality(I)
    BY <2>4, <1>2
  <2>7. Transcript(t) \in [1 .. (Cardinality(I) + 1) -> Clients]
    <3> SUFFICES ASSUME NEW n \in 1 .. (Cardinality(I) + 1) PROVE t[Nth(I \cup {m + 1}, n)].by \in Clients
      BY <2>3
    <3>1. CASE n \in 1 .. Cardinality(I)
      <4>1. t[Nth(I \cup {m + 1}, n)].by = Transcript(log)[n]
        BY <3>1, <2>2, <2>4, <1>1, <1>3
      <4> QED BY <4>1, <3>1, <1>2, <2>6
    <3>2. CASE n = Cardinality(I) + 1
      BY <3>2, <2>2, <2>5, <1>1
    <3> QED BY <3>1, <3>2, <1>2
  <2>8. \A n \in 1 .. (Cardinality(I) + 1) : Transcript(t)[n] = Append(Transcript(log), e.by)[n]
    <3> TAKE n \in 1 .. (Cardinality(I) + 1)
    <3>1. CASE n \in 1 .. Cardinality(I)
      <4>1. Transcript(t)[n] = log[Nth(I, n)].by
        BY <3>1, <2>2, <2>3, <1>1, <1>3
      <4>2. Transcript(log)[n] = log[Nth(I, n)].by
        BY <3>1, <2>4
      <4>3. Append(Transcript(log), e.by)[n] = Transcript(log)[n]
        BY <3>1, <2>5, <2>6, <1>2
      <4> QED BY <4>1, <4>2, <4>3
    <3>2. CASE n = Cardinality(I) + 1
      BY <3>2, <2>2, <2>3, <2>5, <2>6, <1>1, <1>2
    <3>3. n \in 1 .. Cardinality(I) \/ n = Cardinality(I) + 1
      BY <1>2
    <3> QED BY <3>1, <3>2, <3>3
  <2>9. Transcript(t) \in Seq(Clients) /\ Len(Transcript(t)) = Cardinality(I) + 1
    BY <2>7, <1>2
  <2>10. Append(Transcript(log), e.by) \in Seq(Clients) /\ Len(Append(Transcript(log), e.by)) = Cardinality(I) + 1
    BY <2>5, <2>6, <1>2
  <2> HIDE <2>3, <2>4
  <2>11. Transcript(t) = Append(Transcript(log), e.by)
    BY <2>8, <2>9, <2>10, SeqEqual
  <2> QED BY <2>11, <1>4 DEF t
<1>5. CASE e.kind # "transcript"
  <2>1. TranscriptRows(t) = I
    BY <1>1, <1>5 DEF TranscriptRows
  <2>2. \A n \in 1 .. Cardinality(I) : t[Nth(I, n)] = log[Nth(I, n)]
    BY <1>1, <1>3
  <2> HIDE DEF t, I, m
  <2>3. Transcript(t) = [n \in 1 .. Cardinality(I) |-> t[Nth(I, n)].by]
    BY <2>1 DEF Transcript
  <2>4. Transcript(log) = [n \in 1 .. Cardinality(I) |-> log[Nth(I, n)].by]
    BY DEF Transcript, I
  <2>5. Transcript(t) = Transcript(log)
    BY <2>2, <2>3, <2>4
  <2> QED BY <2>5, <1>5 DEF t
<1> QED BY <1>4, <1>5

(***************************************************************************)
(* The same for what is left of messages without the failed ones.          *)
(***************************************************************************)
\* What is left are clients.
LEMMA UnfailedType ==
    ASSUME NEW msgs \in Seq(Clients)
    PROVE  /\ Unfailed(msgs) \in Seq(Clients)
           /\ Lasting(msgs) \in SUBSET (1 .. Len(msgs)) /\ Cardinality(Lasting(msgs)) \in Nat
           /\ \A n \in 1 .. Cardinality(Lasting(msgs)) : Nth(Lasting(msgs), n) \in 1 .. Len(msgs)
<1> DEFINE I == Lasting(msgs)
<1>1. Len(msgs) \in Nat /\ DOMAIN msgs = 1 .. Len(msgs) /\ I \in SUBSET (1 .. Len(msgs))
  BY DEF Lasting
<1>2. Cardinality(I) \in Nat /\ \A n \in 1 .. Cardinality(I) : Nth(I, n) \in I
  BY <1>1, NthOfMore
<1>3. \A n \in 1 .. Cardinality(I) : msgs[Nth(I, n)] \in Clients
  BY <1>1, <1>2
<1> HIDE DEF I
<1>4. Unfailed(msgs) \in [1 .. Cardinality(I) -> Clients]
  BY <1>3 DEF Unfailed, I
<1> QED BY <1>1, <1>2, <1>4 DEF I

\* Nothing is left of nothing.
LEMMA UnfailedOfNone == Unfailed(<<>>) = <<>>
<1>1. Lasting(<<>>) = {} /\ Cardinality({}) = 0
  BY FS_EmptySet DEF Lasting
<1>2. <<>> \in Seq(Clients)
  OBVIOUS
<1>3. Unfailed(<<>>) \in Seq(Clients) /\ DOMAIN Unfailed(<<>>) = 1 .. 0
  BY <1>1, <1>2, UnfailedType DEF Unfailed
<1>4. Len(Unfailed(<<>>)) = 0
  BY <1>3
<1> QED BY <1>3, <1>4, EmptySeq

\* Where nothing has failed, all is left.
LEMMA UnfailedOfAll ==
    ASSUME NEW msgs \in Seq(Clients), \A i \in DOMAIN msgs : ~Failed(msgs[i])
    PROVE  Unfailed(msgs) = msgs
<1> DEFINE m == Len(msgs)
<1>1. m \in Nat /\ DOMAIN msgs = 1 .. m /\ Lasting(msgs) = 1 .. m
  BY DEF Lasting
<1>2. IsFiniteSet(1 .. m) /\ Cardinality(1 .. m) = m
  BY <1>1, FS_Interval
<1>3. ASSUME NEW n \in 1 .. m PROVE Nth(1 .. m, n) = n
  <2>0. n \in Nat /\ n >= 1 /\ n <= m /\ 1 \in Int
    BY <1>1
  <2>1. {j \in 1 .. m : j <= n} = 1 .. n
    <3>1. \A j \in 1 .. m : j <= n => j \in 1 .. n
      BY <1>1, <2>0
    <3>2. \A j \in 1 .. n : j \in 1 .. m /\ j <= n
      BY <1>1, <2>0
    <3> HIDE DEF m
    <3> QED BY <3>1, <3>2
  <2>2. Cardinality(1 .. n) = n
    <3>1. Cardinality(1 .. n) = IF 1 > n THEN 0 ELSE n - 1 + 1
      BY <2>0, FS_Interval
    <3> QED BY <2>0, <3>1
  <2>3. Place(1 .. m, n) = n
    BY <2>1, <2>2 DEF Place
  <2>5. (1 .. m) \in SUBSET Nat
    BY <1>1
  <2>4. Nth(1 .. m, Place(1 .. m, n)) = n
    BY <2>5, <1>2, NthIs
  <2> QED BY <2>3, <2>4
<1> HIDE DEF m
<1>4. Unfailed(msgs) = [n \in 1 .. m |-> msgs[Nth(1 .. m, n)]]
  BY <1>1, <1>2 DEF Unfailed
<1>5. Unfailed(msgs) \in Seq(Clients) /\ Len(Unfailed(msgs)) = m
  BY <1>1, <1>4, UnfailedType
<1>6. \A n \in 1 .. m : Unfailed(msgs)[n] = msgs[n]
  BY <1>3, <1>4
<1> QED BY <1>5, <1>6, SeqEqual DEF m

\* One more message is left at the end, unless it failed.
LEMMA UnfailedOfMore ==
    ASSUME NEW msgs \in Seq(Clients), NEW c \in Clients
    PROVE  Unfailed(Append(msgs, c)) = IF Failed(c) THEN Unfailed(msgs) ELSE Append(Unfailed(msgs), c)
<1> DEFINE t == Append(msgs, c)
           I == Lasting(msgs)
           m == Len(msgs)
<1>1. /\ m \in Nat /\ DOMAIN msgs = 1 .. m /\ DOMAIN t = 1 .. (m + 1)
      /\ \A i \in 1 .. m : t[i] = msgs[i]
      /\ t[m + 1] = c /\ t \in Seq(Clients)
  OBVIOUS
<1>2. /\ I \in SUBSET (1 .. m) /\ Cardinality(I) \in Nat /\ Unfailed(msgs) \in Seq(Clients)
      /\ \A n \in 1 .. Cardinality(I) : Nth(I, n) \in 1 .. m
  BY UnfailedType
<1>3. Unfailed(t) \in Seq(Clients)
  BY <1>1, UnfailedType
<1>4. CASE ~Failed(c)
  <2>1. Lasting(t) = I \cup {m + 1}
    BY <1>1, <1>4 DEF Lasting
  <2>2. /\ Cardinality(I \cup {m + 1}) = Cardinality(I) + 1
        /\ \A n \in 1 .. Cardinality(I) : Nth(I \cup {m + 1}, n) = Nth(I, n)
        /\ Nth(I \cup {m + 1}, Cardinality(I) + 1) = m + 1
    BY <1>1, <1>2, NthOfMore
  <2> HIDE DEF t, I, m
  <2>3. Unfailed(t) = [n \in 1 .. (Cardinality(I) + 1) |-> t[Nth(I \cup {m + 1}, n)]]
    BY <2>1, <2>2 DEF Unfailed
  <2>4. Unfailed(msgs) = [n \in 1 .. Cardinality(I) |-> msgs[Nth(I, n)]]
    BY DEF Unfailed, I
  <2>5. Len(Unfailed(msgs)) = Cardinality(I) /\ Len(Unfailed(t)) = Cardinality(I) + 1
    BY <2>3, <2>4, <1>2, <1>3
  <2>6. \A n \in 1 .. (Cardinality(I) + 1) : Unfailed(t)[n] = Append(Unfailed(msgs), c)[n]
    <3> TAKE n \in 1 .. (Cardinality(I) + 1)
    <3>1. CASE n \in 1 .. Cardinality(I)
      <4>1. Unfailed(t)[n] = msgs[Nth(I, n)]
        BY <3>1, <2>2, <2>3, <1>1, <1>2
      <4>2. Unfailed(msgs)[n] = msgs[Nth(I, n)]
        BY <3>1, <2>4
      <4>3. Append(Unfailed(msgs), c)[n] = Unfailed(msgs)[n]
        BY <3>1, <2>5, <1>2
      <4> QED BY <4>1, <4>2, <4>3
    <3>2. CASE n = Cardinality(I) + 1
      BY <3>2, <2>2, <2>3, <2>5, <1>1, <1>2
    <3>3. n \in 1 .. Cardinality(I) \/ n = Cardinality(I) + 1
      BY <1>2
    <3> QED BY <3>1, <3>2, <3>3
  <2>7. Append(Unfailed(msgs), c) \in Seq(Clients) /\ Len(Append(Unfailed(msgs), c)) = Cardinality(I) + 1
    BY <2>5, <1>2
  <2> HIDE <2>3, <2>4
  <2>8. Unfailed(t) = Append(Unfailed(msgs), c)
    BY <2>5, <2>6, <2>7, <1>3, SeqEqual
  <2> QED BY <2>8, <1>4 DEF t
<1>5. CASE Failed(c)
  <2>1. Lasting(t) = I
    BY <1>1, <1>5 DEF Lasting
  <2>2. \A n \in 1 .. Cardinality(I) : t[Nth(I, n)] = msgs[Nth(I, n)]
    BY <1>1, <1>2
  <2> HIDE DEF t, I, m
  <2>3. Unfailed(t) = [n \in 1 .. Cardinality(I) |-> t[Nth(I, n)]]
    BY <2>1 DEF Unfailed
  <2>4. Unfailed(msgs) = [n \in 1 .. Cardinality(I) |-> msgs[Nth(I, n)]]
    BY DEF Unfailed, I
  <2>5. Unfailed(t) = Unfailed(msgs)
    BY <2>2, <2>3, <2>4
  <2> QED BY <2>5, <1>5 DEF t
<1> QED BY <1>4, <1>5

(***************************************************************************)
(* The fields of the replay.                                               *)
(***************************************************************************)
\* A set of numbers that is finite and not empty has a last one.
LEMMA LatestIs ==
    ASSUME NEW m \in Nat, NEW I \in SUBSET (1 .. m), I # {}
    PROVE  Latest(I) \in I /\ \A j \in I : j <= Latest(I)
<1>0. I \in SUBSET Nat
  OBVIOUS
<1>1. IsFiniteSet(I) /\ Cardinality(I) \in Nat
  BY NthOfMore
<1>2. Cardinality(I) # 0
  BY <1>1, FS_EmptySet
<1> DEFINE last == Nth(I, Cardinality(I))
<1>3. last \in I /\ Place(I, last) = Cardinality(I)
  <2>1. Cardinality(I) \in 1 .. Cardinality(I)
    BY <1>1, <1>2
  <2> QED BY <2>1, <1>0, <1>1, NthHasPlace
<1> HIDE DEF last
<1>4. {j \in I : j <= last} = I
  <2>1. {j \in I : j <= last} \in SUBSET I
    OBVIOUS
  <2> QED BY <2>1, <1>1, <1>3, FS_Subset DEF Place
<1>5. \E i \in I : \A j \in I : j <= i
  BY <1>3, <1>4
<1> QED BY <1>5 DEF Latest

\* The last of a set with a number above the others.
LEMMA LatestOfMore ==
    ASSUME NEW m \in Nat, NEW I \in SUBSET (1 .. m)
    PROVE  Latest(I \cup {m + 1}) = m + 1
<1> DEFINE J == I \cup {m + 1}
<1>1. J \in SUBSET (1 .. (m + 1)) /\ J # {} /\ m + 1 \in Nat
  OBVIOUS
<1>2. Latest(J) \in J /\ m + 1 <= Latest(J)
  BY <1>1, LatestIs
<1>3. \A j \in J : j <= m + 1 /\ j \in Nat
  OBVIOUS
<1> HIDE DEF J
<1>4. Latest(J) \in Nat /\ Latest(J) <= m + 1
  BY <1>2, <1>3
<1>5. Latest(J) = m + 1
  BY <1>2, <1>4
<1> QED BY <1>5 DEF J

\* A field that is written is what the last row with a value for it says.
LEMMA StoredFields ==
    ASSUME NEW log \in Seq(Rows), NEW k \in Keys
    PROVE  /\ Writes(log, k) \in SUBSET (1 .. Len(log))
           /\ Writes(log, k) = {} => Stored(log).fields[k] = Absent
           /\ Writes(log, k) # {} =>
                 /\ Latest(Writes(log, k)) \in Writes(log, k)
                 /\ Stored(log).fields[k] = log[Latest(Writes(log, k))].fields[k]
           /\ Stored(log).fields[k] \in Clients \cup {Absent}
<1>1. Writes(log, k) \in SUBSET (1 .. Len(log)) /\ Len(log) \in Nat
  BY DEF Writes
<1>2. Writes(log, k) = {} => Stored(log).fields[k] = Absent
  BY DEF Stored, Replayed, Empty
<1>3. ASSUME Writes(log, k) # {}
      PROVE  /\ Latest(Writes(log, k)) \in Writes(log, k)
             /\ Stored(log).fields[k] = log[Latest(Writes(log, k))].fields[k]
             /\ Stored(log).fields[k] \in Clients \cup {Absent}
  <2>1. Latest(Writes(log, k)) \in Writes(log, k)
    BY <1>1, <1>3, LatestIs
  <2>2. Stored(log).fields[k] = log[Latest(Writes(log, k))].fields[k]
    BY <1>3 DEF Stored, Replayed
  <2>3. log[Latest(Writes(log, k))] \in Rows /\ log[Latest(Writes(log, k))].kind = "state"
    BY <2>1 DEF Writes
  <2>4. log[Latest(Writes(log, k))].fields \in [Keys -> Clients \cup {Absent}]
    BY <2>3, RowKinds
  <2> QED BY <2>1, <2>2, <2>4
<1> QED BY <1>1, <1>2, <1>3

\* One more row sets the fields it has a value for.
LEMMA FieldsOfMore ==
    ASSUME NEW log \in Seq(Rows), NEW e \in Rows, NEW k \in Keys
    PROVE  Stored(log \o <<e>>).fields[k] =
               IF e.kind = "state" /\ e.fields[k] # Absent THEN e.fields[k] ELSE Stored(log).fields[k]
<1> DEFINE t == log \o <<e>>
           I == Writes(log, k)
           m == Len(log)
<1>1. /\ m \in Nat /\ DOMAIN log = 1 .. m /\ DOMAIN t = 1 .. (m + 1)
      /\ \A i \in 1 .. m : t[i] = log[i]
      /\ t[m + 1] = e /\ t \in Seq(Rows)
  BY OneMore
<1>2. I \in SUBSET (1 .. m)
  BY StoredFields
<1>3. CASE e.kind = "state" /\ e.fields[k] # Absent
  <2>1. Writes(t, k) = I \cup {m + 1}
    BY <1>1, <1>3 DEF Writes
  <2>2. Latest(I \cup {m + 1}) = m + 1
    BY <1>1, <1>2, LatestOfMore
  <2> HIDE DEF t, I, m
  <2>3. Stored(t).fields[k] = t[m + 1].fields[k]
    <3>1. Writes(t, k) # {}
      BY <2>1
    <3>2. Stored(t).fields[k] = t[Latest(Writes(t, k))].fields[k]
      BY <3>1, <1>1, StoredFields
    <3>3. Latest(Writes(t, k)) = m + 1
      BY <2>1, <2>2
    <3> QED BY <3>2, <3>3
  <2> QED BY <2>3, <1>1, <1>3 DEF t
<1>4. CASE ~(e.kind = "state" /\ e.fields[k] # Absent)
  <2>1. Writes(t, k) = I
    BY <1>1, <1>4 DEF Writes
  <2> HIDE DEF t, m
  <2>2. CASE I = {}
    BY <2>1, <2>2, <1>1, <1>4, StoredFields DEF t
  <2>3. CASE I # {}
    <3>1. Latest(I) \in 1 .. m /\ Stored(log).fields[k] = log[Latest(I)].fields[k]
      BY <2>3, <1>2, StoredFields
    <3>2. Stored(t).fields[k] = t[Latest(I)].fields[k]
      BY <2>1, <2>3, <1>1, StoredFields
    <3> QED BY <3>1, <3>2, <1>1, <1>4 DEF t
  <2> QED BY <2>2, <2>3
<1> QED BY <1>3, <1>4

(***************************************************************************)
(* A step of one client and the others.                                    *)
(***************************************************************************)
\* The sessions a client works on.
Mine(c) == {On[c]} \cup (IF Forks(c) THEN {Target[c]} ELSE {})

Acts(c) == Under(c) \/ MayBegin(c)

\* A session that a step leaves as it is.
Same(s) ==
    /\ db'[s] = db[s] /\ states'[s] = states[s] /\ (s \in loaded' <=> s \in loaded)
    /\ states[s] # None => heap'[states[s]] = heap[states[s]]

\* What a step of c leaves to the others.
Local(c) ==
    /\ \A b \in Clients \ {c} : pc'[b] = pc[b] /\ rows'[b] = rows[b] /\ dict'[b] = dict[b]
    /\ \A s \in Sessions \ Mine(c) : Same(s)
    /\ \A b \in Clients \ {c} : At(b, "idle") => heap'[<<b, "own">>] = heap[<<b, "own">>]

\* A client is alone on its sessions.
LEMMA Alone ==
    ASSUME Apart, Sorts, Ordered, NEW c \in Clients, Acts(c)
    PROVE  /\ \A b \in Clients \ {c} : Under(b) => On[b] \notin Mine(c) /\ (Forks(b) => Target[b] \notin Mine(c))
           /\ Forks(c) => \A b \in Clients : On[b] = Target[c] => At(b, "idle")
           /\ \A f \in Clients : Forks(f) /\ Target[f] = On[c] => Ended(f)
           /\ ~Ended(c)
<1>0. ~Ended(c)
  BY DEF Acts, Under, MayBegin, Ended, At
<1>1. \A b \in Clients : c \in After[b] => At(b, "idle")
  BY <1>0 DEF Ordered
<1>2. \A b \in After[c] : Ended(b)
  BY DEF Acts, MayBegin, Ordered, Under
<1>3. ASSUME NEW b \in Clients \ {c}, Under(b) PROVE On[b] # On[c]
  <2>1. lock[On[b]] = b
    BY <1>3 DEF Ordered
  <2>2. CASE Under(c)
    BY <2>1, <2>2 DEF Ordered
  <2>3. CASE MayBegin(c)
    BY <2>1, <2>3, SqliteAssumption DEF MayBegin, Takes, Apart
  <2> QED BY <2>2, <2>3 DEF Acts
<1>4. \A b \in Clients : Under(b) => ~At(b, "idle") /\ ~Ended(b)
  BY DEF Under
<1>5. Forks(c) => \A b \in Clients : On[b] = Target[c] => At(b, "idle")
  BY <1>1 DEF Apart
<1>6. \A f \in Clients : Forks(f) /\ Target[f] = On[c] => Ended(f)
  BY <1>2 DEF Apart
<1>7. ASSUME NEW b \in Clients \ {c}, Under(b) PROVE On[b] \notin Mine(c) /\ (Forks(b) => Target[b] \notin Mine(c))
  <2>1. On[b] # On[c] /\ (Forks(c) => On[b] # Target[c])
    BY <1>3, <1>4, <1>5, <1>7
  <2>2. Forks(b) => Target[b] # On[c]
    BY <1>4, <1>6, <1>7
  <2>3. Forks(b) /\ Forks(c) => Target[b] # Target[c]
    BY <1>1, <1>2, <1>4, <1>7 DEF Apart
  <2> QED BY <2>1, <2>2, <2>3 DEF Mine
<1> QED BY <1>0, <1>5, <1>6, <1>7

\* Locks and the order of clients when c goes on to another stage.
LEMMA OrderedKept ==
    ASSUME Apart, Sorts, Ordered, NEW c \in Clients, Acts(c),
           NEW stage \in Stages \ {"idle"}, pc' = [pc EXCEPT ![c] = stage],
           \A b \in Clients \ {c} : lock[On[b]] = b => lock'[On[b]] = b,
           stage \notin {"ok", "failed", "lost"} => lock'[On[c]] = c
    PROVE  Ordered'
<1>1. ~Ended(c) /\ \A b \in After[c] : Ended(b)
  BY Alone DEF Acts, MayBegin, Ordered, Under
<1>2. \A b \in Clients \ {c} : pc'[b] = pc[b]
  BY DEF Sorts
<1>3. pc'[c] = stage
  BY DEF Sorts
<1>4. After \in [Clients -> SUBSET Clients]
  BY SqliteAssumption
<1>5. \A a \in Clients : Ended(a) => Ended(a)'
  BY <1>1, <1>2 DEF Ended
<1>6. ASSUME NEW b \in Clients, Under(b)' PROVE lock'[On[b]] = b
  <2>1. CASE b = c
    BY <2>1, <1>3, <1>6 DEF Under, Ended
  <2>2. CASE b # c
    BY <2>2, <1>2, <1>6 DEF Under, Ended, At, Ordered
  <2> QED BY <2>1, <2>2
<1>7. ASSUME NEW b \in Clients, ~At(b, "idle")' PROVE \A a \in After[b] : Ended(a)'
  <2>1. CASE b = c
    BY <2>1, <1>1, <1>4, <1>5
  <2>2. CASE b # c
    BY <2>2, <1>2, <1>4, <1>5, <1>7 DEF At, Ordered
  <2> QED BY <2>1, <2>2
<1> QED BY <1>6, <1>7 DEF Ordered

\* What the others know stays so.
LEMMA KnowsKept ==
    ASSUME Apart, Sorts, Ordered, Owned, NEW c \in Clients, Acts(c), Local(c), NEW b \in Clients \ {c}, Knows(b)
    PROVE  Knows(b)'
<1>1. pc'[b] = pc[b] /\ rows'[b] = rows[b] /\ dict'[b] = dict[b]
  BY DEF Local
<1>2. CASE ~Under(b)
  BY <1>1, <1>2 DEF Knows, Under, Ended, At
<1>3. CASE Under(b)
  <2>1. On[b] \notin Mine(c) /\ (Forks(b) => Target[b] \notin Mine(c))
    BY <1>3, Alone
  <2>2. On[b] \in Sessions /\ (Forks(b) => Target[b] \in Sessions)
    BY SqliteAssumption
  <2>3. /\ db'[On[b]] = db[On[b]] /\ states'[On[b]] = states[On[b]]
        /\ (On[b] \in loaded' <=> On[b] \in loaded)
        /\ states[On[b]] # None => heap'[states[On[b]]] = heap[states[On[b]]]
    BY <2>1, <2>2 DEF Local, Same
  <2>4. Forks(b) => db'[Target[b]] = db[Target[b]] /\ states'[Target[b]] = states[Target[b]]
    BY <2>1, <2>2 DEF Local, Same
  <2>5. At(b, "inserting") => states[On[b]] # None
    BY <2>2 DEF Knows, Owned, OwnedAt
  <2> QED BY <1>1, <2>3, <2>4, <2>5 DEF Knows, At, Free, Loads
<1> QED BY <1>2, <1>3

\* Sessions left as they are keep their dicts, and other clients' dicts are
\* fresh until they begin.
LEMMA OwnedKept ==
    ASSUME Apart, Sorts, Ordered, Owned, NEW c \in Clients, Acts(c), Local(c),
           NEW stage \in Stages \ {"idle"}, pc' = [pc EXCEPT ![c] = stage],
           \A s \in Sessions : Same(s) \/ OwnedAt(s)'
    PROVE  Owned'
<1>1. ~Ended(c) /\ pc'[c] = stage /\ \A b \in Clients \ {c} : pc'[b] = pc[b]
  BY Alone DEF Sorts
<1>2. ASSUME NEW s \in Sessions, Same(s) PROVE OwnedAt(s)'
  <2>1. OwnedAt(s)
    BY DEF Owned
  <2>2. /\ states'[s] = states[s] /\ (s \in loaded' <=> s \in loaded)
        /\ states[s] # None => heap'[states[s]] = heap[states[s]]
    BY <1>2 DEF Same
  <2>3. ASSUME NEW b \in Clients, states'[s] = <<b, "own">> PROVE On[b] = s /\ ~At(b, "idle")'
    <3>1. On[b] = s /\ ~At(b, "idle")
      BY <2>1, <2>2, <2>3 DEF OwnedAt
    <3> QED BY <3>1, <1>1 DEF At
  <2>4. ASSUME NEW b \in Clients, states'[s] = <<b, "copy">> PROVE Target[b] = s /\ At(b, "ok")' /\ Forks(b)
    <3>1. Target[b] = s /\ At(b, "ok") /\ Forks(b)
      BY <2>1, <2>2, <2>4 DEF OwnedAt
    <3> QED BY <3>1, <1>1 DEF At, Ended
  <2> QED BY <2>1, <2>2, <2>3, <2>4 DEF OwnedAt
<1>3. ASSUME NEW b \in Clients, At(b, "idle")' PROVE heap'[<<b, "own">>] = Empty
  <2>1. b # c /\ At(b, "idle")
    BY <1>1, <1>3 DEF At
  <2> QED BY <2>1 DEF Local, Owned
<1> QED BY <1>2, <1>3 DEF Owned

\* A client that has ended has done so for good, and so has one that inserts
\* when its insertion ends.
LEMMA DoneKept ==
    ASSUME Sorts, NEW c \in Clients, ~Ended(c), NEW stage \in Stages, pc' = [pc EXCEPT ![c] = stage],
           NEW f \in Clients
    PROVE  /\ Done(f) => f # c /\ Done(f)'
           /\ f # c => (At(f, "inserting") <=> At(f, "inserting")')
           /\ stage \in {"ok", "failed"} /\ (stage = "failed" => "insert" \in Faults) => Done(c)'
<1>1. pc'[c] = stage /\ \A b \in Clients \ {c} : pc'[b] = pc[b]
  BY DEF Sorts
<1> QED BY <1>1 DEF Done, Failed, At, Ended

\* Their fields were set by clients that have done so.
LEMMA FieldedKept ==
    ASSUME Apart, Sorts, Ordered, NEW c \in Clients, Acts(c), Local(c),
           NEW stage \in Stages, pc' = [pc EXCEPT ![c] = stage],
           At(c, "inserting") => stage \in {"ok", "failed"} /\ (stage = "failed" => "insert" \in Faults),
           NEW s \in Sessions, Same(s), FieldedAt(s)
    PROVE  FieldedAt(s)'
<1>1. ~Ended(c)
  BY Alone
<1>2. states'[s] = states[s] /\ (states[s] # None => heap'[states[s]] = heap[states[s]])
  BY DEF Same
<1> SUFFICES ASSUME NEW k \in Keys, states'[s] # None, heap'[states'[s]].fields[k] # Absent,
                    NEW f, f = heap'[states'[s]].fields[k]
             PROVE  Done(f)' \/ Inserting(f, s)'
  BY DEF FieldedAt, Done, Failed, Inserting, At
<1>3. f = heap[states[s]].fields[k]
  BY <1>2
<1>4. f \in Clients
  BY <1>2, <1>3 DEF Sorts, Contents
<1>5. Done(f) \/ Inserting(f, s)
  BY <1>2, <1>3 DEF FieldedAt
<1> QED BY <1>1, <1>4, <1>5, DoneKept DEF Inserting

\* Messages whose operation is over stay so.
LEMMA SettledKept ==
    ASSUME Sorts, NEW c \in Clients, ~Ended(c), NEW stage \in Stages, pc' = [pc EXCEPT ![c] = stage],
           NEW base \in Seq(Clients), Settled(base)
    PROVE  Settled(base)' /\ Unfailed(base)' = Unfailed(base)
<1>1. /\ pc'[c] = stage /\ \A b \in Clients \ {c} : pc'[b] = pc[b]
      /\ pc[c] \notin {"ok", "failed"}
  BY DEF Sorts, Ended
<1>2. \A i \in DOMAIN base : base[i] \in Clients /\ pc[base[i]] \in {"ok", "failed"}
  BY DEF Settled
<1>3. \A i \in DOMAIN base : pc'[base[i]] = pc[base[i]]
  BY <1>1, <1>2
<1>4. Settled(base)'
  BY <1>2, <1>3 DEF Settled
<1>5. \A i \in DOMAIN base : Failed(base[i])' <=> Failed(base[i])
  BY <1>3 DEF Failed, At
<1>6. Lasting(base)' = Lasting(base)
  BY <1>5 DEF Lasting
<1>7. Unfailed(base)' = Unfailed(base)
  BY <1>6 DEF Unfailed
<1> QED BY <1>4, <1>7

\* So do rows of clients that have returned.
LEMMA WrittenKept ==
    ASSUME Sorts, NEW c \in Clients, ~Ended(c), NEW stage \in Stages, pc' = [pc EXCEPT ![c] = stage],
           NEW log \in Seq(Rows), Written(log)
    PROVE  Written(log)'
<1>1. \A b \in Clients \ {c} : pc'[b] = pc[b]
  BY DEF Sorts
<1> SUFFICES ASSUME NEW i \in DOMAIN log
             PROVE  /\ log[i].kind = "transcript" => pc'[log[i].by] = "ok"
                    /\ log[i].kind = "state" => \A k \in Keys : log[i].fields[k] # Absent => Done(log[i].fields[k])'
  BY DEF Written
<1>2. log[i] \in Rows
  OBVIOUS
<1>3. ASSUME log[i].kind = "transcript" PROVE pc'[log[i].by] = "ok"
  BY <1>1, <1>2, <1>3, RowKinds DEF Written, Ended
<1>4. ASSUME log[i].kind = "state", NEW k \in Keys, log[i].fields[k] # Absent PROVE Done(log[i].fields[k])'
  <2>1. log[i].fields[k] \in Clients /\ Done(log[i].fields[k])
    BY <1>2, <1>4, RowKinds DEF Written
  <2> QED BY <2>1, DoneKept
<1> QED BY <1>3, <1>4

\* What was excused stays excused.
LEMMA AgreesKept ==
    ASSUME Sorts, NEW c \in Clients, ~Ended(c), NEW stage \in Stages, pc' = [pc EXCEPT ![c] = stage],
           NEW field \in Clients \cup {Absent}, NEW log, NEW k \in Keys, Agrees(field, log, k)
    PROVE  Agrees(field, log, k)'
<1>1. (\A b \in Clients \ {c} : pc'[b] = pc[b]) /\ pc[c] \notin {"ok", "failed"}
  BY DEF Sorts, Ended
<1>2. Failed(field) => Failed(field)'
  BY <1>1 DEF Failed, At
<1>3. Removed(k) => Removed(k)'
  BY <1>1 DEF Removed
<1> QED BY <1>2, <1>3 DEF Agrees

\* A loaded session left as it is shows what it showed, when no insertion into
\* it begins or ends.
LEMMA ShownKept ==
    ASSUME Apart, Sorts, Ordered, Owned, NEW c \in Clients, Acts(c), Local(c),
           NEW stage \in Stages, pc' = [pc EXCEPT ![c] = stage],
           NEW s \in Sessions, Same(s), Shown(s), On[c] = s => ~At(c, "inserting") /\ stage # "inserting"
    PROVE  Shown(s)'
<1> SUFFICES ASSUME s \in loaded' PROVE \E base \in Seq(Clients) : Shows(s, base)'
  BY DEF Shown
<1>1. ~Ended(c) /\ pc'[c] = stage /\ \A b \in Clients \ {c} : pc'[b] = pc[b]
  BY Alone DEF Sorts
<1>2. /\ db'[s] = db[s] /\ states'[s] = states[s] /\ s \in loaded
      /\ heap'[states[s]] = heap[states[s]] /\ states[s] \in Dicts
  BY DEF Same, Owned, OwnedAt, Sorts
<1>3. PICK base \in Seq(Clients) : Shows(s, base)
  BY <1>2 DEF Shown
<1>4. \A b \in Clients : Writing(b, s)' <=> Writing(b, s)
  BY <1>1 DEF Writing, At
<1>5. Settled(base)' /\ Unfailed(base)' = Unfailed(base)
  BY <1>1, <1>3, SettledKept DEF Shows
<1>6. ASSUME NEW k \in Keys, Agrees(heap[states[s]].fields[k], db[s], k)
      PROVE  Agrees(heap[states[s]].fields[k], db[s], k)'
  <2>1. heap[states[s]].fields[k] \in Clients \cup {Absent}
    BY <1>2 DEF Sorts, Contents
  <2>2. PICK field \in Clients \cup {Absent}, log \in {db[s]} : field = heap[states[s]].fields[k] /\ log = db[s]
    BY <2>1
  <2>3. Agrees(field, log, k)'
    BY <1>1, <1>6, <2>2, AgreesKept
  <2>4. field = heap'[states'[s]].fields[k] /\ log = db'[s]
    BY <1>2, <2>2
  <2> QED BY <2>3, <2>4 DEF Agrees, Failed, At
<1>7. Shows(s, base)'
  BY <1>2, <1>3, <1>4, <1>5, <1>6 DEF Shows
<1> QED BY <1>7

\* What holds of a session.
Held(s) == OwnedAt(s) /\ FieldedAt(s) /\ Written(db[s]) /\ Shown(s)

\* What a step of one client has to be shown to do.
LEMMA StepKeeps ==
    ASSUME Apart, Inv, NEW c \in Clients, Acts(c), Local(c), Sorts',
           NEW stage \in Stages \ {"idle"}, pc' = [pc EXCEPT ![c] = stage],
           \A b \in Clients \ {c} : lock[On[b]] = b => lock'[On[b]] = b,
           stage \notin {"ok", "failed", "lost"} => lock'[On[c]] = c,
           At(c, "inserting") => stage \in {"ok", "failed"} /\ (stage = "failed" => "insert" \in Faults),
           \A s \in Sessions : \/ Same(s) /\ (On[c] = s => ~At(c, "inserting") /\ stage # "inserting")
                               \/ Held(s)',
           Knows(c)',
           \A b \in Clients : answer'[b] = answer[b] \/ Settled(answer[b].msgs)'
    PROVE  Inv'
<1> USE DEF Inv
<1>0. ~Ended(c)
  BY Alone
<1>1. Ordered'
  BY OrderedKept
<1>2. Owned'
  BY OwnedKept DEF Held
<1>3. ASSUME NEW b \in Clients PROVE Knows(b)'
  BY KnowsKept
<1>4. ASSUME NEW b \in Clients PROVE Settled(answer[b].msgs)'
  <2>1. CASE answer'[b] = answer[b]
    <3>1. PICK base \in Seq(Clients) : base = answer[b].msgs
      BY DEF Sorts
    <3>2. Settled(base)'
      BY <1>0, <3>1, SettledKept
    <3> QED BY <2>1, <3>1, <3>2 DEF Settled
  <2> QED BY <2>1
<1>5. ASSUME NEW s \in Sessions, Same(s), On[c] = s => ~At(c, "inserting") /\ stage # "inserting"
      PROVE  FieldedAt(s)' /\ Written(db[s])' /\ Shown(s)'
  <2>1. FieldedAt(s)'
    BY <1>5, FieldedKept
  <2>2. Shown(s)'
    BY <1>5, ShownKept
  <2>3. PICK log \in Seq(Rows) : log = db[s]
    BY DEF Sorts
  <2>4. Written(log)'
    BY <1>0, <2>3, WrittenKept
  <2>5. Written(db[s])'
    BY <1>5, <2>3, <2>4 DEF Written, Same
  <2> QED BY <2>1, <2>2, <2>5
<1> QED BY <1>1, <1>2, <1>3, <1>4, <1>5 DEF Held

(***************************************************************************)
(* The steps.                                                              *)
(***************************************************************************)
\* The constants.
LEMMA Constants ==
    ASSUME NEW c \in Clients
    PROVE  /\ On[c] \in Sessions /\ Key[c] \in Keys /\ None \notin Clients /\ Absent \notin Clients
           /\ Forks(c) => Target[c] \in Sessions /\ Target[c] # On[c]
           /\ On[c] \in Mine(c) /\ (Forks(c) => Target[c] \in Mine(c)) /\ Mine(c) \in SUBSET Sessions
BY SqliteAssumption DEF Mine

\* A client that ends gives up its own lock.
LEMMA Ending ==
    ASSUME Sorts, NEW l, l \in [Sessions -> Clients \cup {None}], NEW c \in Clients
    PROVE  /\ Without(l, c) \in [Sessions -> Clients \cup {None}]
           /\ \A b \in Clients \ {c} : l[On[b]] = b => Without(l, c)[On[b]] = b
BY Constants DEF Without

\* A client that has ended knows nothing.
LEMMA EndedKnows ==
    ASSUME NEW c \in Clients, pc'[c] \in {"ok", "failed", "lost"}
    PROVE  Knows(c)'
BY DEF Knows, At

\* An access that raises while no insertion is under way.
LEMMA RaiseKeeps ==
    ASSUME Apart, Inv, NEW c \in Clients, pc[c] \in {"selecting", "checking", "copying", "deleting"},
           End(c, "failed"), UNCHANGED <<db, states, heap, loaded, dict, rows, answer, restarts>>
    PROVE  Inv'
<1>1. Under(c) /\ ~At(c, "inserting")
  BY DEF Under, Ended, At
<1>2. lock' = Without(lock, c) /\ pc' = [pc EXCEPT ![c] = "failed"] /\ pc'[c] = "failed"
  BY DEF End, Inv, Sorts
<1>3. /\ lock' \in [Sessions -> Clients \cup {None}]
      /\ \A b \in Clients \ {c} : lock[On[b]] = b => lock'[On[b]] = b
  BY <1>2, Ending DEF Inv, Sorts
<1>4. Sorts'
  BY <1>2, <1>3 DEF Inv, Sorts, Stages
<1>5. (\A s \in Sessions : Same(s)) /\ Local(c)
  BY <1>2 DEF Same, Local, Inv, Sorts
<1>6. Knows(c)'
  BY <1>2, EndedKnows
<1> QED BY <1>1, <1>2, <1>3, <1>4, <1>5, <1>6, StepKeeps DEF Acts, Stages

\* The rows are read.
LEMMA SelectKeeps == ASSUME Apart, Inv, NEW c \in Clients, Select(c) PROVE Inv'
<1>1. Under(c) /\ ~At(c, "inserting") /\ At(c, "selecting")
  BY DEF Under, Ended, At, Select
<1>2. pc' = [pc EXCEPT ![c] = "applying"] /\ pc'[c] = "applying" /\ rows' = [rows EXCEPT ![c] = db[On[c]]]
  BY DEF Select, Inv, Sorts
<1>3. lock' = lock /\ lock[On[c]] = c
  BY <1>1 DEF Select, Inv, Ordered
<1>4. Sorts'
  BY <1>2, Constants DEF Inv, Sorts, Stages, Select
<1>5. (\A s \in Sessions : Same(s)) /\ Local(c)
  BY <1>2 DEF Same, Local, Inv, Sorts, Select
<1>6. Knows(c)'
  BY <1>1, <1>2 DEF Knows, At, Loads, Select, Inv, Sorts
<1> QED BY <1>1, <1>2, <1>3, <1>4, <1>5, <1>6, StepKeeps DEF Acts, Stages, Select

\* A load begins.
LEMMA BeginLoadKeeps == ASSUME Apart, Inv, NEW c \in Clients, BeginLoad(c) PROVE Inv'
<1> USE DEF BeginLoad
<1>1. Acts(c) /\ At(c, "idle") /\ ~At(c, "inserting") /\ On[c] \in Sessions
  BY Constants DEF Acts, MayBegin, At
<1>2. pc' = [pc EXCEPT ![c] = "selecting"] /\ pc'[c] = "selecting"
  BY DEF Inv, Sorts
<1>3. lock[On[c]] = None /\ lock' = [lock EXCEPT ![On[c]] = c] /\ None \notin Clients
  BY Constants DEF MayBegin, Takes, Acquired, Apart
<1>4. (\A b \in Clients \ {c} : lock[On[b]] = b => lock'[On[b]] = b) /\ lock'[On[c]] = c
  BY <1>1, <1>3, Constants DEF Inv, Sorts
<1>5. DictOf(c) \in Dicts
  BY <1>1 DEF DictOf, Dicts, Inv, Sorts
<1>6. Sorts'
  BY <1>1, <1>2, <1>3, <1>5 DEF Inv, Sorts, Stages
<1>7. states'[On[c]] = DictOf(c) /\ \A s \in Sessions \ {On[c]} : states'[s] = states[s]
  BY <1>1 DEF Inv, Sorts
<1>8. (\A s \in Sessions \ {On[c]} : Same(s)) /\ Local(c)
  BY <1>2, <1>7, Constants DEF Same, Local, Inv, Sorts, Mine
<1>9. Knows(c)'
  BY <1>1, <1>2, <1>5, <1>7, SqliteAssumption DEF Knows, At, Loads, Inv, Sorts, Dicts
<1>10. heap[DictOf(c)] = Empty
  BY <1>1 DEF DictOf, Inv, Owned, OwnedAt
<1>11. Held(On[c])'
  <2>1. OwnedAt(On[c])'
    <3>1. \A b \in Clients : DictOf(c) = <<b, "own">> => On[b] = On[c] /\ (b = c \/ ~At(b, "idle"))
      BY <1>1 DEF DictOf, Inv, Owned, OwnedAt
    <3>2. \A b \in Clients : DictOf(c) = <<b, "copy">> => Target[b] = On[c] /\ At(b, "ok") /\ Forks(b)
      BY <1>1 DEF DictOf, Inv, Owned, OwnedAt
    <3>3. \A b \in Clients : (At(b, "ok") => At(b, "ok")') /\ (b = c \/ ~At(b, "idle") => ~At(b, "idle")')
      BY <1>1, <1>2 DEF At, Inv, Sorts
    <3> QED BY <1>5, <1>7, <1>10, <3>1, <3>2, <3>3 DEF OwnedAt
  <2>2. FieldedAt(On[c])'
    BY <1>7, <1>10 DEF FieldedAt, Empty
  <2>3. PICK log \in Seq(Rows) : log = db[On[c]]
    BY <1>1 DEF Inv, Sorts
  <2>4. Written(log)'
    BY <1>1, <1>2, <2>3, WrittenKept, Alone DEF Inv, Stages
  <2>5. Written(db[On[c]])'
    BY <2>3, <2>4 DEF Written
  <2>6. Shown(On[c])'
    BY DEF Shown
  <2> QED BY <2>1, <2>2, <2>5, <2>6 DEF Held
<1> QED BY <1>1, <1>2, <1>4, <1>6, <1>8, <1>9, <1>11, StepKeeps DEF Stages

\* A fork looks at its target.
LEMMA CheckKeeps == ASSUME Apart, Inv, NEW c \in Clients, Check(c) PROVE Inv'
<1>1. Under(c) /\ At(c, "checking") /\ ~At(c, "inserting")
  BY DEF Check, Under, Ended, At
<1>2. CASE Free(Target[c])
  <2>1. /\ pc' = [pc EXCEPT ![c] = "copying"] /\ pc'[c] = "copying"
        /\ UNCHANGED <<db, states, heap, loaded, lock, dict, rows, answer, restarts>>
    BY <1>2 DEF Check, Inv, Sorts
  <2>2. lock[On[c]] = c
    BY <1>1 DEF Inv, Ordered
  <2>3. Sorts'
    BY <2>1 DEF Inv, Sorts, Stages
  <2>4. (\A s \in Sessions : Same(s)) /\ Local(c)
    BY <2>1 DEF Same, Local, Inv, Sorts
  <2>5. Knows(c)'
    BY <1>1, <1>2, <2>1 DEF Knows, At, Free, Inv, Sorts
  <2> QED BY <1>1, <2>1, <2>2, <2>3, <2>4, <2>5, StepKeeps DEF Acts, Stages
<1>3. CASE ~Free(Target[c])
  BY <1>1, <1>3, RaiseKeeps DEF Check, At
<1> QED BY <1>2, <1>3

\* A fork copies the rows.
LEMMA CopyKeeps == ASSUME Apart, Inv, NEW c \in Clients, Copy(c) PROVE Inv'
<1> USE DEF Copy
<1>1. Under(c) /\ At(c, "copying") /\ ~At(c, "inserting") /\ lock[On[c]] = c
  BY DEF Under, Ended, At, Inv, Ordered
<1>2. Forks(c) /\ On[c] \in Sessions /\ Target[c] \in Sessions /\ Target[c] # On[c] /\ Free(Target[c])
  BY <1>1, Constants DEF Inv, Knows
<1>3. pc' = [pc EXCEPT ![c] = "mirroring"] /\ pc'[c] = "mirroring"
  BY DEF Inv, Sorts
<1>4. db[On[c]] \in Seq(Rows) /\ db[Target[c]] = <<>> /\ states[Target[c]] = None
  BY <1>2 DEF Free, Inv, Sorts
<1>5. db[Target[c]] \o db[On[c]] = db[On[c]]
  BY <1>4
<1>6. db'[Target[c]] = db[On[c]] /\ db' \in [Sessions -> Seq(Rows)] /\ \A s \in Sessions \ {Target[c]} : db'[s] = db[s]
  BY <1>2, <1>4, <1>5 DEF Inv, Sorts
<1>7. Sorts'
  BY <1>3, <1>6 DEF Inv, Sorts, Stages
<1>8. (\A s \in Sessions \ {Target[c]} : Same(s)) /\ Local(c)
  BY <1>2, <1>3, <1>6 DEF Same, Local, Inv, Sorts, Mine
<1>9. Knows(c)'
  BY <1>1, <1>2, <1>3, <1>4, <1>6 DEF Knows, At, Inv, Sorts
<1>10. Held(Target[c])'
  <2>1. Target[c] \notin loaded
    BY <1>2, <1>4 DEF Inv, Owned, OwnedAt
  <2>2. OwnedAt(Target[c])' /\ FieldedAt(Target[c])' /\ Shown(Target[c])'
    BY <1>2, <1>4, <2>1, SqliteAssumption DEF OwnedAt, FieldedAt, Shown, Dicts
  <2>3. PICK log \in Seq(Rows) : log = db[On[c]]
    BY <1>4
  <2>4. Written(log)
    BY <1>2, <2>3 DEF Inv
  <2>5. Written(log)'
    BY <1>1, <1>3, <2>4, WrittenKept DEF Inv, Stages, Under
  <2>6. Written(db[Target[c]])'
    <3>1. log = db'[Target[c]]
      BY <1>6, <2>3
    <3> QED BY <2>5, <3>1, ZenonT(60) DEF Written, Done
  <2> QED BY <2>2, <2>6 DEF Held
<1> QED BY <1>1, <1>3, <1>7, <1>8, <1>9, <1>10, StepKeeps DEF Acts, Stages

\* A fork installs a copy of the dict.
LEMMA MirrorKeeps == ASSUME Apart, Inv, NEW c \in Clients, Mirror(c) PROVE Inv'
<1> USE DEF Mirror
<1>1. Under(c) /\ At(c, "mirroring") /\ ~At(c, "inserting") /\ ~Ended(c)
  BY DEF Under, Ended, At, Inv, Ordered
<1>2. /\ Forks(c) /\ On[c] \in Sessions /\ Target[c] \in Sessions /\ Target[c] # On[c] /\ On[c] \in loaded
      /\ db[Target[c]] = db[On[c]] /\ states[Target[c]] = None
  BY <1>1, Constants DEF Inv, Knows
<1>3. pc' = [pc EXCEPT ![c] = "ok"] /\ pc'[c] = "ok" /\ \A b \in Clients \ {c} : pc'[b] = pc[b]
  BY DEF Inv, Sorts, End
<1>4. /\ lock' \in [Sessions -> Clients \cup {None}]
      /\ \A b \in Clients \ {c} : lock[On[b]] = b => lock'[On[b]] = b
  BY Ending DEF Inv, Sorts, End
<1> DEFINE new == <<c, "copy">>
           d == states[On[c]]
<1>5. d \in Dicts /\ d # None /\ Mirrored(c) = heap[d] /\ heap[d] \in Contents /\ new \in Dicts
  BY <1>2, SqliteAssumption DEF Inv, Sorts, Owned, OwnedAt, Mirrored, Dicts
<1>6. /\ heap' = [heap EXCEPT ![new] = heap[d]] /\ heap' \in [Dicts -> Contents]
      /\ heap'[new] = heap[d] /\ \A e \in Dicts \ {new} : heap'[e] = heap[e]
  BY <1>5 DEF Inv, Sorts
<1>7. /\ states' \in [Sessions -> Dicts \cup {None}]
      /\ states'[Target[c]] = new /\ \A s \in Sessions \ {Target[c]} : states'[s] = states[s]
  BY <1>2, <1>5 DEF Inv, Sorts, CopyOf
<1>8. \A s \in Sessions : states[s] # new
  BY <1>1 DEF Inv, Owned, OwnedAt, At
<1>9. Sorts'
  BY <1>2, <1>3, <1>4, <1>6, <1>7 DEF Inv, Sorts, Stages
<1>10. \A s \in Sessions \ {Target[c]} : Same(s)
  BY <1>2, <1>6, <1>7, <1>8 DEF Same, Inv, Sorts
<1>11. Local(c)
  BY <1>2, <1>3, <1>6, <1>10 DEF Local, Mine, Dicts
<1>12. Knows(c)'
  BY <1>3, EndedKnows
<1>13. OwnedAt(Target[c])'
  <2>1. new # None
    BY <1>5, SqliteAssumption
  <2>2. \A b \in Clients : new # <<b, "own">> /\ (new = <<b, "copy">> => b = c)
    OBVIOUS
  <2>3. Target[c] \in loaded' /\ states'[Target[c]] = new
    BY <1>7
  <2> HIDE DEF new
  <2> QED BY <1>2, <1>3, <2>1, <2>2, <2>3 DEF OwnedAt, At
<1>14. FieldedAt(Target[c])'
  <2> SUFFICES ASSUME NEW k \in Keys, NEW f, f = heap[d].fields[k], f # Absent PROVE Done(f)'
    BY <1>6, <1>7 DEF FieldedAt, Done, Failed, At
  <2>1. f \in Clients /\ (Done(f) \/ Inserting(f, On[c]))
    BY <1>2, <1>5 DEF Inv, FieldedAt, Contents
  <2>2. ~Inserting(f, On[c])
    BY <1>1, <2>1, Alone, Constants DEF Inserting, Inv, Acts, Under, Ended, At
  <2> QED BY <1>1, <1>3, <2>1, <2>2, DoneKept DEF Inv, Stages
<1>15. Written(db[Target[c]])'
  <2>1. PICK log \in Seq(Rows) : log = db[Target[c]]
    BY <1>2 DEF Inv, Sorts
  <2>2. Written(log)'
    BY <1>1, <1>2, <1>3, <2>1, WrittenKept DEF Inv, Stages
  <2> QED BY <2>1, <2>2 DEF Written
<1>16. Shown(Target[c])'
  <2>1. PICK base \in Seq(Clients) : Shows(On[c], base)
    BY <1>2 DEF Inv, Shown
  <2>2. \A b \in Clients : ~Writing(b, On[c]) /\ ~Writing(b, Target[c])'
    <3>1. \A b \in Clients \ {c} : Under(b) => On[b] \notin Mine(c)
      BY <1>1, Alone DEF Inv, Acts
    <3>2. \A b \in Clients \ {c} : On[b] \in Mine(c) => ~At(b, "inserting")
      BY <3>1 DEF Under, Ended, At
    <3> QED BY <1>1, <1>2, <1>3, <3>2, Constants DEF Writing, At
  <2>3. Settled(base)' /\ Unfailed(base)' = Unfailed(base)
    BY <1>1, <1>3, <2>1, SettledKept DEF Shows, Inv, Stages
  <2>4. ASSUME NEW k \in Keys PROVE Agrees(heap[states[Target[c]]].fields[k], db[Target[c]], k)'
    <3>1. PICK field \in Clients \cup {Absent}, log \in {db[On[c]]} : field = heap[d].fields[k] /\ log = db[On[c]]
      BY <1>5 DEF Contents
    <3>2. Agrees(heap[d].fields[k], db[On[c]], k)
      BY <2>1, <2>2 DEF Shows
    <3>3. Agrees(field, log, k)'
      BY <1>1, <1>3, <3>1, <3>2, AgreesKept DEF Inv, Stages
    <3>4. field = heap'[states'[Target[c]]].fields[k] /\ log = db'[Target[c]]
      BY <1>2, <1>6, <1>7, <3>1
    <3> QED BY <3>3, <3>4 DEF Agrees, Failed, At
  <2>5. Shows(Target[c], base)'
    BY <1>2, <1>6, <1>7, <2>1, <2>2, <2>3, <2>4 DEF Shows
  <2> QED BY <2>5 DEF Shown
<1> QED BY <1>1, <1>3, <1>4, <1>9, <1>10, <1>11, <1>12, <1>13, <1>14, <1>15, <1>16, StepKeeps DEF Acts, Stages, Held

\* A delete forgets the dict.
LEMMA BeginDeleteKeeps == ASSUME Apart, Inv, NEW c \in Clients, BeginDelete(c) PROVE Inv'
<1> USE DEF BeginDelete
<1>1. Acts(c) /\ At(c, "idle") /\ ~At(c, "inserting") /\ On[c] \in Sessions /\ Kind[c] = "delete"
  BY Constants DEF Acts, MayBegin, At
<1>2. pc' = [pc EXCEPT ![c] = "deleting"] /\ pc'[c] = "deleting"
  BY DEF Inv, Sorts
<1>3. lock[On[c]] = None /\ lock' = [lock EXCEPT ![On[c]] = c] /\ None \notin Clients
  BY Constants DEF MayBegin, Takes, Acquired, Apart
<1>4. (\A b \in Clients \ {c} : lock[On[b]] = b => lock'[On[b]] = b) /\ lock'[On[c]] = c
  BY <1>1, <1>3, Constants DEF Inv, Sorts
<1>5. Sorts'
  BY <1>1, <1>2, <1>3 DEF Inv, Sorts, Stages, Unloaded
<1>6. states'[On[c]] = None /\ On[c] \notin loaded' /\ \A s \in Sessions \ {On[c]} : states'[s] = states[s] /\ (s \in loaded' <=> s \in loaded)
  BY <1>1 DEF Inv, Sorts, Unloaded
<1>7. (\A s \in Sessions \ {On[c]} : Same(s)) /\ Local(c)
  BY <1>2, <1>6, Constants DEF Same, Local, Inv, Sorts, Mine
<1>8. Knows(c)'
  BY <1>1, <1>2, <1>6 DEF Knows, At
<1>9. Held(On[c])'
  <2>0. \A b \in Clients : <<b, "own">> # None /\ <<b, "copy">> # None
    BY SqliteAssumption DEF Dicts
  <2>1. OwnedAt(On[c])' /\ FieldedAt(On[c])' /\ Shown(On[c])'
    BY <1>6, <2>0 DEF OwnedAt, FieldedAt, Shown
  <2>2. PICK log \in Seq(Rows) : log = db[On[c]]
    BY <1>1 DEF Inv, Sorts
  <2>3. Written(log)'
    BY <1>1, <1>2, <2>2, WrittenKept, Alone DEF Inv, Stages
  <2>4. Written(db[On[c]])'
    BY <2>2, <2>3 DEF Written
  <2> QED BY <2>1, <2>4 DEF Held
<1> QED BY <1>1, <1>2, <1>4, <1>5, <1>7, <1>8, <1>9, StepKeeps DEF Stages

\* A delete removes the rows.
LEMMA DeleteKeeps == ASSUME Apart, Inv, NEW c \in Clients, Delete(c) PROVE Inv'
<1> USE DEF Delete
<1>1. Under(c) /\ At(c, "deleting") /\ ~At(c, "inserting") /\ On[c] \in Sessions /\ states[On[c]] = None
  BY Constants DEF Under, Ended, At, Inv, Knows
<1>2. pc' = [pc EXCEPT ![c] = "ok"] /\ pc'[c] = "ok"
  BY DEF Inv, Sorts, End
<1>3. /\ lock' \in [Sessions -> Clients \cup {None}]
      /\ \A b \in Clients \ {c} : lock[On[b]] = b => lock'[On[b]] = b
  BY Ending DEF Inv, Sorts, End
<1>4. db' = [db EXCEPT ![On[c]] = <<>>] /\ db' \in [Sessions -> Seq(Rows)] /\ db'[On[c]] = <<>>
  BY <1>1 DEF Inv, Sorts
<1>5. Sorts'
  BY <1>1, <1>2, <1>3, <1>4 DEF Inv, Sorts, Stages
<1>6. (\A s \in Sessions \ {On[c]} : Same(s)) /\ Local(c)
  BY <1>2, <1>4, Constants DEF Same, Local, Inv, Sorts, Mine
<1>7. Knows(c)'
  BY <1>2, EndedKnows
<1>8. Held(On[c])'
  <2>1. On[c] \notin loaded
    BY <1>1 DEF Inv, Owned, OwnedAt
  <2>2. OwnedAt(On[c])' /\ FieldedAt(On[c])' /\ Shown(On[c])'
    BY <1>1, <2>1, SqliteAssumption DEF OwnedAt, FieldedAt, Shown, Dicts
  <2>3. Written(db[On[c]])'
    BY <1>4 DEF Written
  <2> QED BY <2>2, <2>3 DEF Held
<1> QED BY <1>1, <1>2, <1>3, <1>5, <1>6, <1>7, <1>8, StepKeeps DEF Acts, Stages

\* What is learnt of a session while its client inserts.
LEMMA InsertingShows ==
    ASSUME Apart, Inv, NEW c \in Clients, At(c, "inserting")
    PROVE  /\ Under(c) /\ On[c] \in Sessions /\ On[c] \in loaded /\ lock[On[c]] = c
           /\ states[On[c]] \in Dicts /\ heap[states[On[c]]] \in Contents
           /\ \A b \in Clients : Writing(b, On[c]) => b = c
           /\ Writing(c, On[c]) /\ ~Ended(c)
           /\ Kind[c] \in {"append", "note", "drop"}
           /\ \E base \in Seq(Clients) : Shows(On[c], base)
<1>1. Under(c) /\ On[c] \in Sessions /\ On[c] \in loaded /\ lock[On[c]] = c /\ ~Ended(c)
  BY Constants DEF Under, Ended, At, Inv, Ordered, Knows
<1>2. states[On[c]] \in Dicts /\ heap[states[On[c]]] \in Contents
  BY <1>1 DEF Inv, Sorts, Owned, OwnedAt
<1>3. \A b \in Clients : Writing(b, On[c]) => b = c
  BY <1>1 DEF Writing, Inv, Ordered, Under, Ended, At
<1>4. \E base \in Seq(Clients) : Shows(On[c], base)
  BY <1>1 DEF Inv, Shown
<1> QED BY <1>1, <1>2, <1>3, <1>4 DEF Writing, Inv, Knows

\* The lemma on one more message, of any state.
LEMMA UnfailedAppend ==
    \A msgs \in Seq(Clients), b \in Clients :
        Unfailed(Append(msgs, b)) = IF Failed(b) THEN Unfailed(msgs) ELSE Append(Unfailed(msgs), b)
BY UnfailedOfMore

\* An appended message that has ended shows as the insertion did.
LEMMA BaseEnds ==
    ASSUME Inv, NEW c \in Clients, ~Ended(c), NEW stage \in {"ok", "failed"}, pc' = [pc EXCEPT ![c] = stage],
           NEW base \in Seq(Clients), Settled(base)
    PROVE  /\ Append(base, c) \in Seq(Clients)
           /\ Settled(Append(base, c))'
           /\ Unfailed(Append(base, c))' = IF stage = "failed" THEN Unfailed(base) ELSE Append(Unfailed(base), c)
<1>1. stage \in Stages /\ pc'[c] = stage
  BY DEF Stages, Inv, Sorts
<1>2. Settled(base)' /\ Unfailed(base)' = Unfailed(base)
  BY <1>1, SettledKept DEF Inv
<1>3. (\A msgs \in Seq(Clients), b \in Clients :
         Unfailed(Append(msgs, b)) = IF Failed(b) THEN Unfailed(msgs) ELSE Append(Unfailed(msgs), b))'
  BY UnfailedAppend, PTL
<1>4. Failed(c)' <=> stage = "failed"
  BY <1>1 DEF Failed, At
<1>5. Unfailed(Append(base, c))' = IF stage = "failed" THEN Unfailed(base) ELSE Append(Unfailed(base), c)
  BY <1>2, <1>3, <1>4
<1>6. Settled(Append(base, c))'
  <2>1. \A i \in DOMAIN Append(base, c) : (i \in DOMAIN base /\ Append(base, c)[i] = base[i]) \/ Append(base, c)[i] = c
    OBVIOUS
  <2> QED BY <1>1, <1>2, <2>1 DEF Settled
<1> QED BY <1>5, <1>6

\* The inserted row.
LEMMA InsertedRow ==
    ASSUME Apart, Inv, NEW c \in Clients, At(c, "inserting")
    PROVE  \E row \in Rows :
              /\ rows[c] = <<row>>
              /\ Kind[c] = "append" => row = Message(c)
              /\ Kind[c] # "append" => row = State(heap[states[On[c]]].fields)
<1>1. heap[states[On[c]]] \in Contents
  BY InsertingShows
<1>2. rows[c] = IF Kind[c] = "append" THEN <<Message(c)>> ELSE <<State(heap[states[On[c]]].fields)>>
  BY DEF Inv, Knows
<1>3. Message(c) \in Rows
  BY DEF Rows, Message
<1>4. State(heap[states[On[c]]].fields) \in Rows
  BY <1>1 DEF Rows, State, Contents
<1> QED BY <1>2, <1>3, <1>4

\* The session when its insertion has ended, well or not: the rows are log.
LEMMA EndedShows ==
    ASSUME Apart, Inv, NEW c \in Clients, At(c, "inserting"),
           NEW stage \in {"ok", "failed"}, pc' = [pc EXCEPT ![c] = stage],
           UNCHANGED <<states, heap, loaded>>,
           NEW log \in Seq(Rows), db'[On[c]] = log,
           Transcript(log) = IF stage = "ok" /\ Kind[c] = "append" THEN Append(Transcript(db[On[c]]), c)
                             ELSE Transcript(db[On[c]]),
           \A k \in Keys : Stored(log).fields[k] =
               IF stage = "ok" /\ Kind[c] # "append" /\ heap[states[On[c]]].fields[k] # Absent
               THEN heap[states[On[c]]].fields[k] ELSE Stored(db[On[c]]).fields[k]
    PROVE  Shown(On[c])'
<1> DEFINE s == On[c]
           h == heap[states[s]]
<1>0. /\ s \in Sessions /\ s \in loaded /\ ~Ended(c) /\ h \in Contents
      /\ Writing(c, s) /\ \A b \in Clients : Writing(b, s) => b = c
  BY InsertingShows
<1>1. Kind[c] \in {"append", "note", "drop"}
  BY InsertingShows
<1>2. PICK base \in Seq(Clients) : Shows(s, base)
  BY InsertingShows
<1>3. pc'[c] = stage /\ (\A b \in Clients \ {c} : pc'[b] = pc[b]) /\ stage \in Stages
  BY DEF Inv, Sorts, Stages
<1>4. \A b \in Clients : ~Writing(b, s)'
  BY <1>0, <1>3 DEF Writing, At
<1>5. /\ Settled(base) /\ Unfailed(base) = Transcript(db[s])
      /\ Settled(base)' /\ Unfailed(base)' = Unfailed(base)
  BY <1>0, <1>2, <1>3, SettledKept DEF Shows, Inv
<1>6. \A k \in Keys : h.fields[k] \in Clients \cup {Absent}
  BY <1>0 DEF Contents
<1>7. ASSUME NEW k \in Keys, Agrees(h.fields[k], db[s], k)
      PROVE  \/ h.fields[k] = Stored(db[s]).fields[k]
             \/ Failed(h.fields[k])'
             \/ h.fields[k] = Absent /\ Removed(k)'
  <2>1. PICK field \in Clients \cup {Absent}, l \in {db[s]} : field = h.fields[k] /\ l = db[s]
    BY <1>6
  <2>2. Agrees(field, l, k)'
    BY <1>0, <1>3, <1>7, <2>1, AgreesKept DEF Inv
  <2> QED BY <2>1, <2>2 DEF Agrees, Failed, At
<1>8. \A k \in Keys : Agrees(h.fields[k], db[s], k) \/ (Kind[c] # "append" /\ Key[c] = k)
  BY <1>0, <1>2 DEF Shows
<1>9. /\ Kind[c] = "note" => h.fields[Key[c]] = c
      /\ Kind[c] = "drop" => h.fields[Key[c]] = Absent
  BY DEF Inv, Knows
<1>10. Absent \notin Clients /\ Key[c] \in Keys
  BY Constants
<1>11. ASSUME NEW k \in Keys PROVE Agrees(heap[states[s]].fields[k], db[s], k)'
  <2>1. \/ h.fields[k] = Stored(log).fields[k]
        \/ Failed(h.fields[k])'
        \/ h.fields[k] = Absent /\ Removed(k)'
    <3>1. CASE Agrees(h.fields[k], db[s], k)
      <4>1. CASE stage = "ok" /\ Kind[c] # "append" /\ h.fields[k] # Absent
        BY <4>1
      <4>2. CASE ~(stage = "ok" /\ Kind[c] # "append" /\ h.fields[k] # Absent)
        BY <3>1, <4>2, <1>7
      <4> QED BY <4>1, <4>2
    <3>2. CASE Kind[c] = "note" /\ Key[c] = k
      <4>1. h.fields[k] = c /\ c # Absent
        BY <3>2, <1>9, <1>10
      <4>2. CASE stage = "ok"
        BY <3>2, <4>1, <4>2
      <4>3. CASE stage = "failed"
        BY <4>1, <4>3, <1>3 DEF Failed, At
      <4> QED BY <4>2, <4>3
    <3>3. CASE Kind[c] = "drop" /\ Key[c] = k
      BY <3>3, <1>3, <1>9 DEF Removed
    <3> QED BY <3>1, <3>2, <3>3, <1>1, <1>8
  <2> QED BY <2>1 DEF Agrees, Failed, At
<1>12. CASE Kind[c] # "append"
  <2>1. h.msgs = base
    BY <1>0, <1>2, <1>12 DEF Shows
  <2>2. Transcript(log) = Transcript(db[s])
    BY <1>12
  <2>3. Shows(s, base)'
    BY <1>4, <1>5, <1>11, <2>1, <2>2 DEF Shows
  <2> QED BY <2>3 DEF Shown
<1>13. CASE Kind[c] = "append"
  <2>1. h.msgs = Append(base, c)
    BY <1>0, <1>2, <1>13 DEF Shows
  <2> DEFINE more == Append(base, c)
  <2>2. more \in Seq(Clients) /\ Settled(more)' /\ Unfailed(more)' = Transcript(log)
    <3>1. /\ more \in Seq(Clients) /\ Settled(more)'
          /\ Unfailed(more)' = IF stage = "failed" THEN Unfailed(base) ELSE Append(Unfailed(base), c)
      BY <1>0, <1>5, BaseEnds
    <3> QED BY <3>1, <1>5, <1>13
  <2> HIDE DEF more
  <2>3. h.msgs = more
    BY <2>1 DEF more
  <2>4. Shows(s, more)'
    BY <1>4, <1>11, <2>2, <2>3 DEF Shows
  <2> QED BY <2>2, <2>4 DEF Shown
<1> QED BY <1>12, <1>13

\* What a row does to the rows of its session.
LEMMA RowAdded ==
    ASSUME Apart, Inv, NEW c \in Clients, At(c, "inserting")
    PROVE  /\ Inserted(c) \in Seq(Rows)
           /\ Transcript(Inserted(c)) = IF Kind[c] = "append" THEN Append(Transcript(db[On[c]]), c)
                                        ELSE Transcript(db[On[c]])
           /\ \A k \in Keys : Stored(Inserted(c)).fields[k] =
                 IF Kind[c] # "append" /\ heap[states[On[c]]].fields[k] # Absent
                 THEN heap[states[On[c]]].fields[k] ELSE Stored(db[On[c]]).fields[k]
           /\ \A i \in DOMAIN Inserted(c) :
                 \/ i \in DOMAIN db[On[c]] /\ Inserted(c)[i] = db[On[c]][i]
                 \/ Inserted(c)[i].kind = "transcript" /\ Inserted(c)[i].by = c
                 \/ Inserted(c)[i].kind = "state" /\ Inserted(c)[i].fields = heap[states[On[c]]].fields
<1>1. PICK row \in Rows :
         /\ rows[c] = <<row>>
         /\ Kind[c] = "append" => row = Message(c)
         /\ Kind[c] # "append" => row = State(heap[states[On[c]]].fields)
  BY InsertedRow
<1>2. PICK log \in Seq(Rows) : log = db[On[c]]
  BY Constants DEF Inv, Sorts
<1>3. Inserted(c) = log \o <<row>>
  BY <1>1, <1>2 DEF Inserted
<1>4. /\ Kind[c] = "append" => row.kind = "transcript" /\ row.by = c
      /\ Kind[c] # "append" => row.kind = "state" /\ row.fields = heap[states[On[c]]].fields
  BY <1>1 DEF Message, State
<1>5. Transcript(log \o <<row>>) =
         IF row.kind = "transcript" THEN Append(Transcript(log), row.by) ELSE Transcript(log)
  BY TranscriptOfMore
<1>6. \A k \in Keys : Stored(log \o <<row>>).fields[k] =
         IF row.kind = "state" /\ row.fields[k] # Absent THEN row.fields[k] ELSE Stored(log).fields[k]
  BY FieldsOfMore
<1>7. /\ log \o <<row>> \in Seq(Rows) /\ DOMAIN log = 1 .. Len(log) /\ Len(log) \in Nat
      /\ DOMAIN (log \o <<row>>) = 1 .. (Len(log) + 1)
      /\ \A i \in 1 .. Len(log) : (log \o <<row>>)[i] = log[i]
      /\ (log \o <<row>>)[Len(log) + 1] = row
  BY OneMore
<1>8. \A i \in DOMAIN (log \o <<row>>) :
         (log \o <<row>>)[i] = row \/ (i \in DOMAIN log /\ (log \o <<row>>)[i] = log[i])
  BY <1>7
<1>9. \/ row.kind = "transcript" /\ row.by = c
      \/ row.kind = "state" /\ row.fields = heap[states[On[c]]].fields
  BY <1>4
<1> DEFINE t == log \o <<row>>
<1> HIDE DEF t
<1>10. Inserted(c) = t
  BY <1>3 DEF t
<1>11. \A i \in DOMAIN t :
          \/ i \in DOMAIN log /\ t[i] = log[i]
          \/ t[i].kind = "transcript" /\ t[i].by = c
          \/ t[i].kind = "state" /\ t[i].fields = heap[states[On[c]]].fields
  BY <1>8, <1>9 DEF t
<1>12. t \in Seq(Rows)
  BY <1>7 DEF t
<1>13. Transcript(t) = IF Kind[c] = "append" THEN Append(Transcript(log), c) ELSE Transcript(log)
  BY <1>4, <1>5 DEF t
<1>14. \A k \in Keys : Stored(t).fields[k] =
          IF Kind[c] # "append" /\ heap[states[On[c]]].fields[k] # Absent
          THEN heap[states[On[c]]].fields[k] ELSE Stored(log).fields[k]
  BY <1>4, <1>6 DEF t
<1> QED BY <1>2, <1>10, <1>11, <1>12, <1>13, <1>14

\* The fields of the session whose insertion ends.
LEMMA EndedFields ==
    ASSUME Apart, Inv, NEW c \in Clients, At(c, "inserting"),
           NEW stage \in {"ok", "failed"}, stage = "failed" => "insert" \in Faults, pc' = [pc EXCEPT ![c] = stage],
           UNCHANGED <<states, heap, loaded>>
    PROVE  OwnedAt(On[c])' /\ FieldedAt(On[c])'
<1>0. /\ On[c] \in Sessions /\ On[c] \in loaded /\ ~Ended(c) /\ heap[states[On[c]]] \in Contents
  BY InsertingShows
<1>1. pc'[c] = stage /\ (\A b \in Clients \ {c} : pc'[b] = pc[b])
  BY DEF Inv, Sorts
<1>2. OwnedAt(On[c])'
  <2>1. OwnedAt(On[c])
    BY <1>0 DEF Inv, Owned
  <2>2. \A b \in Clients : (At(b, "ok") => At(b, "ok")') /\ (~At(b, "idle") => ~At(b, "idle")')
    BY <1>0, <1>1 DEF At, Ended
  <2> QED BY <2>1, <2>2 DEF OwnedAt
<1>3. FieldedAt(On[c])'
  <2> SUFFICES ASSUME NEW k \in Keys, NEW f, f = heap[states[On[c]]].fields[k], f # Absent
               PROVE  Done(f)' \/ Inserting(f, On[c])'
    BY DEF FieldedAt, Done, Failed, Inserting, At
  <2>1. states[On[c]] # None
    BY <1>0 DEF Inv, Owned, OwnedAt
  <2>2. f \in Clients /\ (Done(f) \/ Inserting(f, On[c]))
    BY <1>0, <2>1 DEF Inv, FieldedAt, Contents
  <2>3. CASE f = c
    BY <1>1, <2>3 DEF Done, Failed, At
  <2>4. CASE f # c
    <3>1. pc'[f] = pc[f]
      BY <1>1, <2>2, <2>4
    <3> QED BY <2>2, <3>1 DEF Done, Failed, Inserting, At
  <2> QED BY <2>3, <2>4
<1> QED BY <1>2, <1>3

\* A row is inserted.
LEMMA InsertKeeps == ASSUME Apart, Inv, NEW c \in Clients, Insert(c) PROVE Inv'
<1> USE DEF Insert
<1>1. At(c, "inserting")
  OBVIOUS
<1>2. Under(c) /\ On[c] \in Sessions /\ ~Ended(c)
  BY <1>1, InsertingShows
<1>3. pc' = [pc EXCEPT ![c] = "ok"] /\ pc'[c] = "ok" /\ \A b \in Clients \ {c} : pc'[b] = pc[b]
  BY DEF Inv, Sorts, End
<1>4. /\ lock' \in [Sessions -> Clients \cup {None}]
      /\ \A b \in Clients \ {c} : lock[On[b]] = b => lock'[On[b]] = b
  BY Ending DEF Inv, Sorts, End
<1>5. PICK log \in Seq(Rows) : log = Inserted(c)
  BY <1>1, RowAdded
<1>6. db' = [db EXCEPT ![On[c]] = log] /\ db' \in [Sessions -> Seq(Rows)] /\ db'[On[c]] = log
  BY <1>2, <1>5 DEF Inv, Sorts
<1>7. Sorts'
  BY <1>2, <1>3, <1>4, <1>6 DEF Inv, Sorts, Stages
<1>8. (\A s \in Sessions \ {On[c]} : Same(s)) /\ Local(c)
  BY <1>3, <1>6, Constants DEF Same, Local, Inv, Sorts, Mine
<1>9. Knows(c)'
  BY <1>3, EndedKnows
<1>10. OwnedAt(On[c])' /\ FieldedAt(On[c])'
  BY <1>1, <1>3, EndedFields
<1>11. Written(db[On[c]])'
  <2>1. /\ Written(db[On[c]]) /\ states[On[c]] # None /\ FieldedAt(On[c])
        /\ heap[states[On[c]]] \in Contents /\ \A b \in Clients : Writing(b, On[c]) => b = c
    BY <1>1, <1>2, InsertingShows, SqliteAssumption DEF Inv
  <2>2. PICK old \in Seq(Rows) : old = db[On[c]]
    BY <1>2 DEF Inv, Sorts
  <2>3. Written(old)'
    BY <1>2, <1>3, <2>1, <2>2, WrittenKept DEF Inv, Stages
  <2>4. \A f \in Clients : Done(f) \/ Inserting(f, On[c]) => Done(f)'
    <3>1. \A f \in Clients : Done(f) => Done(f)'
      BY <1>2, <1>3, DoneKept DEF Inv, Stages
    <3>2. Done(c)'
      BY <1>3 DEF Done, Failed, At
    <3> QED BY <2>1, <3>1, <3>2 DEF Inserting, Writing
  <2>5. \A k \in Keys : heap[states[On[c]]].fields[k] # Absent => Done(heap[states[On[c]]].fields[k])'
    <3> SUFFICES ASSUME NEW k \in Keys, NEW f, f = heap[states[On[c]]].fields[k], f # Absent PROVE Done(f)'
      BY DEF Done, Failed, At
    <3>1. f \in Clients
      BY <2>1 DEF Contents
    <3> QED BY <2>1, <2>4, <3>1 DEF FieldedAt
  <2>6. ASSUME NEW i \in DOMAIN log
        PROVE  /\ log[i].kind = "transcript" => pc'[log[i].by] = "ok"
               /\ log[i].kind = "state" => \A k \in Keys : log[i].fields[k] # Absent => Done(log[i].fields[k])'
    <3>1. \/ i \in DOMAIN old /\ log[i] = old[i]
          \/ log[i].kind = "transcript" /\ log[i].by = c
          \/ log[i].kind = "state" /\ log[i].fields = heap[states[On[c]]].fields
      BY <1>1, <1>5, <2>2, RowAdded
    <3>2. CASE i \in DOMAIN old /\ log[i] = old[i]
      BY <3>2, <2>3 DEF Written
    <3>3. CASE log[i].kind = "transcript" /\ log[i].by = c
      BY <3>3, <1>3
    <3>4. CASE log[i].kind = "state" /\ log[i].fields = heap[states[On[c]]].fields
      BY <3>4, <2>5 DEF Done, Failed, At
    <3> QED BY <3>1, <3>2, <3>3, <3>4
  <2>7. Written(log)'
    BY <2>6 DEF Written
  <2> QED BY <1>6, <2>7 DEF Written
<1>12. Shown(On[c])'
  <2>1. Transcript(log) = IF Kind[c] = "append" THEN Append(Transcript(db[On[c]]), c) ELSE Transcript(db[On[c]])
    BY <1>1, <1>5, RowAdded
  <2>2. \A k \in Keys : Stored(log).fields[k] =
           IF Kind[c] # "append" /\ heap[states[On[c]]].fields[k] # Absent
           THEN heap[states[On[c]]].fields[k] ELSE Stored(db[On[c]]).fields[k]
    BY <1>1, <1>5, RowAdded
  <2>3. PICK stage \in {"ok"} : stage = "ok"
    OBVIOUS
  <2>4. Transcript(log) = IF stage = "ok" /\ Kind[c] = "append" THEN Append(Transcript(db[On[c]]), c)
                          ELSE Transcript(db[On[c]])
    BY <2>1, <2>3
  <2>5. \A k \in Keys : Stored(log).fields[k] =
           IF stage = "ok" /\ Kind[c] # "append" /\ heap[states[On[c]]].fields[k] # Absent
           THEN heap[states[On[c]]].fields[k] ELSE Stored(db[On[c]]).fields[k]
    BY <2>2, <2>3
  <2>6. stage \in {"ok", "failed"} /\ pc' = [pc EXCEPT ![c] = stage] /\ UNCHANGED <<states, heap, loaded>>
    BY <1>3, <2>3
  <2> HIDE DEF Insert
  <2> QED BY <1>1, <1>6, <2>4, <2>5, <2>6, EndedShows
<1> QED BY <1>2, <1>3, <1>4, <1>7, <1>8, <1>9, <1>10, <1>11, <1>12, StepKeeps DEF Acts, Stages, Held

\* An insertion raises.
LEMMA InsertFailsKeeps == ASSUME Apart, Inv, NEW c \in Clients, InsertFails(c) PROVE Inv'
<1> USE DEF InsertFails, Raise
<1>1. At(c, "inserting") /\ "insert" \in Faults
  OBVIOUS
<1>2. Under(c) /\ On[c] \in Sessions /\ ~Ended(c)
  BY <1>1, InsertingShows
<1>3. pc' = [pc EXCEPT ![c] = "failed"] /\ pc'[c] = "failed" /\ \A b \in Clients \ {c} : pc'[b] = pc[b]
  BY DEF Inv, Sorts, End
<1>4. /\ lock' \in [Sessions -> Clients \cup {None}]
      /\ \A b \in Clients \ {c} : lock[On[b]] = b => lock'[On[b]] = b
  BY Ending DEF Inv, Sorts, End
<1>5. PICK log \in Seq(Rows) : log = db[On[c]]
  BY <1>2 DEF Inv, Sorts
<1>6. Sorts'
  BY <1>3, <1>4 DEF Inv, Sorts, Stages
<1>7. (\A s \in Sessions : Same(s)) /\ Local(c)
  BY <1>3 DEF Same, Local, Inv, Sorts
<1>8. Knows(c)'
  BY <1>3, EndedKnows
<1>9. OwnedAt(On[c])' /\ FieldedAt(On[c])'
  BY <1>1, <1>3, EndedFields
<1>10. Written(db[On[c]])'
  <2>1. Written(log)
    BY <1>2, <1>5 DEF Inv
  <2>2. Written(log)'
    BY <1>2, <1>3, <2>1, WrittenKept DEF Inv, Stages
  <2> QED BY <1>5, <2>2 DEF Written
<1>11. Shown(On[c])'
  BY <1>1, <1>3, <1>5, EndedShows
<1> QED BY <1>1, <1>2, <1>3, <1>4, <1>6, <1>7, <1>8, <1>9, <1>10, <1>11, StepKeeps DEF Acts, Stages, Held

\* What an operation has done to its dict once its session is loaded.
WorkDone(c, d, h) ==
    /\ StageAfter(c, d, h) \in {"ok", "checking", "inserting"}
    /\ Shown(On[c])'
    /\ heap' \in [Dicts -> Contents] /\ \A e \in Dicts \ {d} : heap'[e] = h[e]
    /\ \A k \in Keys : heap'[d].fields[k] \in {c, Absent, h[d].fields[k]}
    /\ \A k \in Keys : heap'[d].fields[k] = c /\ h[d].fields[k] # c => StageAfter(c, d, h) = "inserting"
    /\ StageAfter(c, d, h) = "inserting" =>
          /\ Kind[c] \in {"append", "note", "drop"}
          /\ Row(c, d, h) = IF Kind[c] = "append" THEN <<Message(c)>> ELSE <<State(heap'[d].fields)>>
          /\ Kind[c] = "note" => heap'[d].fields[Key[c]] = c
          /\ Kind[c] = "drop" => heap'[d].fields[Key[c]] = Absent
    /\ StageAfter(c, d, h) = "checking" => Forks(c)
    /\ StageAfter(c, d, h) # "inserting" => Row(c, d, h) = <<>>
    /\ Row(c, d, h) \in Seq(Rows)

\* What an operation does to its dict once its session is loaded: h holds base
\* for its session, and nobody inserts into it.
LEMMA WorkShows ==
    ASSUME Apart, Inv, NEW c \in Clients, Acts(c), Loads(c), pc[c] # "inserting",
           NEW d \in Dicts, NEW h \in [Dicts -> Contents],
           heap' = Worked(c, d, h), pc' = [pc EXCEPT ![c] = StageAfter(c, d, h)],
           db' = db, states'[On[c]] = d,
           NEW base \in Seq(Clients), Settled(base), Unfailed(base) = Transcript(db[On[c]]), h[d].msgs = base,
           \A k \in Keys : Agrees(h[d].fields[k], db[On[c]], k)
    PROVE  WorkDone(c, d, h)
<1> DEFINE s == On[c]
           stage == StageAfter(c, d, h)
<1>0. /\ s \in Sessions /\ Key[c] \in Keys /\ Absent \notin Clients
      /\ Kind[c] \in {"append", "read", "note", "drop", "delegate"}
  BY Constants, SqliteAssumption DEF Loads
<1>1. /\ ~Ended(c)
      /\ \A b \in Clients \ {c} : ~Writing(b, s)
  BY Alone DEF Inv, Writing, Mine, Under, At, Ended
<1>2. stage \in {"ok", "checking", "inserting"}
  BY DEF StageAfter
<1>3. pc'[c] = stage /\ (\A b \in Clients \ {c} : pc'[b] = pc[b]) /\ stage \in Stages
  BY <1>2 DEF Inv, Sorts, Stages
<1>4. Settled(base)' /\ Unfailed(base)' = Transcript(db'[s])
  BY <1>1, <1>3, SettledKept DEF Inv
<1>5. \A k \in Keys : h[d].fields[k] \in Clients \cup {Absent}
  BY DEF Contents
<1>6. ASSUME NEW k \in Keys
      PROVE  \/ h[d].fields[k] = Stored(db[s]).fields[k]
             \/ Failed(h[d].fields[k])'
             \/ h[d].fields[k] = Absent /\ Removed(k)'
  <2>1. PICK field \in Clients \cup {Absent}, l \in {db[s]} : field = h[d].fields[k] /\ l = db[s]
    BY <1>5
  <2>2. Agrees(field, l, k)
    BY <2>1
  <2>3. Agrees(field, l, k)'
    BY <1>1, <1>3, <2>2, AgreesKept DEF Inv
  <2> QED BY <2>1, <2>3 DEF Agrees, Failed, At
<1>7. h[d] \in Contents /\ c \in Clients
  OBVIOUS
<1>8. CASE Kind[c] = "append"
  <2>1. ~Forks(c)
    BY <1>8 DEF Forks
  <2>2. stage = "inserting" /\ Row(c, d, h) = <<Message(c)>>
    BY <1>8, <2>1 DEF StageAfter, Row
  <2>3. heap' = [h EXCEPT ![d].msgs = Append(@, c)]
    BY <1>8 DEF Worked
  <2>4. heap'[d].msgs = Append(base, c) /\ heap'[d].fields = h[d].fields /\ heap' \in [Dicts -> Contents]
    <3>1. heap'[d] = [h[d] EXCEPT !.msgs = Append(base, c)]
      BY <2>3
    <3>2. Append(base, c) \in Seq(Clients)
      OBVIOUS
    <3>3. heap'[d].msgs = Append(base, c) /\ heap'[d].fields = h[d].fields /\ heap'[d] \in Contents
      BY <3>1, <3>2, <1>7 DEF Contents
    <3>4. DOMAIN heap' = Dicts /\ heap' = [e \in Dicts |-> heap'[e]] /\ \A e \in Dicts \ {d} : heap'[e] = h[e]
      BY <2>3
    <3> QED BY <3>3, <3>4
  <2>5. \A e \in Dicts \ {d} : heap'[e] = h[e]
    BY <2>3
  <2>6. Message(c) \in Rows
    BY DEF Rows, Message
  <2>7. \A k \in Keys : Agrees(heap[states[s]].fields[k], db[s], k)'
    BY <1>6, <2>4 DEF Agrees, Failed, At
  <2>8. \A b \in Clients : Writing(b, s)' <=> b = c
    BY <1>1, <1>3, <2>2 DEF Writing, At
  <2>9. Shows(s, base)'
    BY <1>4, <1>8, <2>4, <2>7, <2>8 DEF Shows
  <2> HIDE DEF stage
  <2>10. Row(c, d, h) \in Seq(Rows)
    BY <2>2, <2>6
  <2> QED BY <1>2, <1>5, <1>8, <2>2, <2>4, <2>5, <2>9, <2>10 DEF stage, Shown, WorkDone
<1>9. CASE Kind[c] \in {"read", "delegate"}
  <2>1. heap' = h /\ stage \in {"ok", "checking"} /\ (stage = "checking" => Forks(c)) /\ Row(c, d, h) = <<>>
    BY <1>9 DEF Worked, StageAfter, Row, Forks
  <2>2. \A k \in Keys : Agrees(heap[states[s]].fields[k], db[s], k)'
    BY <1>6, <2>1 DEF Agrees, Failed, At
  <2>3. \A b \in Clients : ~Writing(b, s)'
    BY <1>1, <1>3, <2>1 DEF Writing, At
  <2>4. Shows(s, base)'
    BY <1>4, <2>1, <2>2, <2>3 DEF Shows
  <2> HIDE DEF stage
  <2> QED BY <1>2, <1>5, <2>1, <2>4 DEF stage, Shown, WorkDone
<1>10. CASE Kind[c] \in {"note", "drop"}
  <2> DEFINE new == IF Kind[c] = "note" THEN c ELSE Absent
  <2>0. ~Forks(c) /\ Kind[c] # "append" /\ Kind[c] # "read"
    BY <1>10 DEF Forks
  <2>1. heap' = [h EXCEPT ![d].fields[Key[c]] = new]
    BY <1>10 DEF Worked
  <2>2. /\ heap'[d].msgs = base /\ heap'[d].fields = [h[d].fields EXCEPT ![Key[c]] = new]
        /\ heap' \in [Dicts -> Contents]
    <3>1. heap'[d] = [h[d] EXCEPT !.fields[Key[c]] = new]
      BY <2>1
    <3>2. [h[d].fields EXCEPT ![Key[c]] = new] \in [Keys -> Clients \cup {Absent}]
      BY <1>0, <1>7 DEF Contents
    <3>3. /\ heap'[d].msgs = base /\ heap'[d].fields = [h[d].fields EXCEPT ![Key[c]] = new]
          /\ heap'[d] \in Contents
      BY <3>1, <3>2, <1>7 DEF Contents
    <3>4. DOMAIN heap' = Dicts /\ heap' = [e \in Dicts |-> heap'[e]] /\ \A e \in Dicts \ {d} : heap'[e] = h[e]
      BY <2>1
    <3> QED BY <3>3, <3>4
  <2>3. \A e \in Dicts \ {d} : heap'[e] = h[e]
    BY <2>1
  <2>4. heap'[d].fields[Key[c]] = new /\ \A k \in Keys \ {Key[c]} : heap'[d].fields[k] = h[d].fields[k]
    BY <2>2, <1>0, <1>7 DEF Contents
  <2>5. stage = IF heap'[d].fields = Empty.fields THEN "ok" ELSE "inserting"
    BY <2>0 DEF StageAfter
  <2>6. Kind[c] = "note" => stage = "inserting"
    BY <1>0, <2>4, <2>5 DEF Empty
  <2>7. Row(c, d, h) = IF stage = "inserting" THEN <<State(heap'[d].fields)>> ELSE <<>>
    BY <2>0 DEF Row
  <2>8. State(heap'[d].fields) \in Rows
    BY <2>2 DEF Rows, State, Contents
  <2>9. ASSUME NEW k \in Keys \ {Key[c]} PROVE Agrees(heap[states[s]].fields[k], db[s], k)'
    BY <1>6, <2>4 DEF Agrees, Failed, At
  <2>10. \A b \in Clients : Writing(b, s)' <=> b = c /\ stage = "inserting"
    BY <1>1, <1>3 DEF Writing, At
  <2>11. stage = "ok" => Agrees(heap[states[s]].fields[Key[c]], db[s], Key[c])'
    <3>1. ASSUME stage = "ok" PROVE heap'[d].fields[Key[c]] = Absent /\ Removed(Key[c])'
      <4>1. Kind[c] = "drop"
        BY <3>1, <2>6, <1>10
      <4> QED BY <3>1, <4>1, <1>3, <2>4 DEF Removed
    <3> QED BY <3>1 DEF Agrees
  <2>12. stage = "ok" \/ stage = "inserting"
    BY <2>5
  <2> HIDE DEF stage, new
  <2>13. Shows(s, base)'
    BY <1>4, <2>0, <2>2, <2>9, <2>10, <2>11, <2>12 DEF Shows
  <2>14. Row(c, d, h) \in Seq(Rows)
    BY <2>7, <2>8
  <2>15. \A k \in Keys : heap'[d].fields[k] \in {c, Absent, h[d].fields[k]}
    BY <2>4 DEF new
  <2>16. \A k \in Keys : heap'[d].fields[k] = c /\ h[d].fields[k] # c => stage = "inserting"
    BY <1>0, <2>4, <2>6 DEF new
  <2>17. stage = "inserting" =>
            /\ Row(c, d, h) = <<State(heap'[d].fields)>>
            /\ Kind[c] = "note" => heap'[d].fields[Key[c]] = c
            /\ Kind[c] = "drop" => heap'[d].fields[Key[c]] = Absent
    BY <2>4, <2>7 DEF new
  <2> QED BY <1>10, <2>0, <2>2, <2>3, <2>7, <2>12, <2>13, <2>14, <2>15, <2>16, <2>17 DEF stage, Shown, WorkDone
<1> QED BY <1>0, <1>8, <1>9, <1>10

\* An operation on a loaded session, whether it has just been loaded or not.
LEMMA WorkKeeps ==
    ASSUME Apart, Inv, NEW c \in Clients, Acts(c), Loads(c), pc[c] # "inserting",
           NEW d \in Dicts, d = states[On[c]], NEW h \in [Dicts -> Contents], \A e \in Dicts \ {d} : h[e] = heap[e],
           NEW l \in [Sessions -> Clients \cup {None}], l[On[c]] = c,
           \A b \in Clients \ {c} : lock[On[b]] = b => l[On[b]] = b,
           Work(c, d, h, l, states), loaded' = loaded \cup {On[c]}, UNCHANGED <<db, restarts>>,
           NEW base \in Seq(Clients), Settled(base), Unfailed(base) = Transcript(db[On[c]]), h[d].msgs = base,
           \A k \in Keys : Agrees(h[d].fields[k], db[On[c]], k),
           \A k \in Keys : h[d].fields[k] # Absent => Done(h[d].fields[k])
    PROVE  Inv'
<1> DEFINE s == On[c]
<1>0. s \in Sessions /\ Absent \notin Clients /\ d # None
  BY Constants, SqliteAssumption
<1>1. /\ heap' = Worked(c, d, h) /\ pc' = [pc EXCEPT ![c] = StageAfter(c, d, h)]
      /\ rows' = [rows EXCEPT ![c] = Row(c, d, h)] /\ dict' = [dict EXCEPT ![c] = d]
      /\ lock' = IF StageAfter(c, d, h) = "ok" THEN Without(l, c) ELSE l
  BY DEF Work
<1>2. states' = states
  <2>1. [states EXCEPT ![s] = d] = states
    BY DEF Inv, Sorts
  <2> QED BY <2>1 DEF Work
<1>3. WorkDone(c, d, h)
  <2>1. states'[On[c]] = d /\ db' = db
    BY <1>2
  <2> HIDE DEF s
  <2> QED BY <1>1, <2>1, WorkShows
<1>4. PICK stage \in {"ok", "checking", "inserting"}, row \in Seq(Rows) :
         stage = StageAfter(c, d, h) /\ row = Row(c, d, h)
  BY <1>3 DEF WorkDone
<1>5. /\ Shown(s)'
      /\ heap' \in [Dicts -> Contents] /\ \A e \in Dicts \ {d} : heap'[e] = h[e]
      /\ \A k \in Keys : heap'[d].fields[k] \in {c, Absent, h[d].fields[k]}
      /\ \A k \in Keys : heap'[d].fields[k] = c /\ h[d].fields[k] # c => stage = "inserting"
      /\ stage = "inserting" =>
            /\ Kind[c] \in {"append", "note", "drop"}
            /\ row = IF Kind[c] = "append" THEN <<Message(c)>> ELSE <<State(heap'[d].fields)>>
            /\ Kind[c] = "note" => heap'[d].fields[Key[c]] = c
            /\ Kind[c] = "drop" => heap'[d].fields[Key[c]] = Absent
      /\ stage = "checking" => Forks(c)
  BY <1>3, <1>4 DEF WorkDone
<1>6. /\ pc' = [pc EXCEPT ![c] = stage] /\ pc'[c] = stage /\ \A b \in Clients \ {c} : pc'[b] = pc[b]
      /\ rows' = [rows EXCEPT ![c] = row] /\ rows'[c] = row /\ dict'[c] = d
      /\ stage \in Stages \ {"idle"}
  BY <1>1, <1>4 DEF Inv, Sorts, Stages
<1>7. ~Ended(c) /\ ~At(c, "inserting")
  BY Alone DEF Inv, At
<1>8. /\ lock' \in [Sessions -> Clients \cup {None}]
      /\ \A b \in Clients \ {c} : lock[On[b]] = b => lock'[On[b]] = b
      /\ stage # "ok" => lock'[s] = c
  <2>1. CASE stage = "ok"
    <3>1. lock' = Without(l, c)
      BY <1>1, <1>4, <2>1
    <3>2. /\ Without(l, c) \in [Sessions -> Clients \cup {None}]
          /\ \A b \in Clients \ {c} : l[On[b]] = b => Without(l, c)[On[b]] = b
      BY Ending DEF Inv
    <3> QED BY <2>1, <3>1, <3>2
  <2>2. CASE stage # "ok"
    BY <1>1, <1>4, <2>2
  <2> QED BY <2>1, <2>2
<1>9. Settled(base)'
  BY <1>6, <1>7, SettledKept DEF Inv
<1>10. /\ answer' \in [Clients -> [msgs : Seq(Clients), read : BOOLEAN]]
       /\ \A b \in Clients : answer'[b] = answer[b] \/ Settled(answer[b].msgs)'
  <2>1. CASE Kind[c] = "read"
    <3>1. answer' = [answer EXCEPT ![c] = [msgs |-> base, read |-> TRUE]]
      BY <2>1 DEF Work, Seen
    <3>2. /\ answer' \in [Clients -> [msgs : Seq(Clients), read : BOOLEAN]]
          /\ answer'[c].msgs = base /\ \A b \in Clients \ {c} : answer'[b] = answer[b]
      BY <3>1 DEF Inv, Sorts
    <3>3. Settled(answer[c].msgs)'
      BY <1>9, <3>2 DEF Settled
    <3> QED BY <3>2, <3>3
  <2>2. CASE Kind[c] # "read"
    BY <2>2 DEF Work, Inv, Sorts
  <2> QED BY <2>1, <2>2
<1>11. Sorts'
  <2>1. pc' \in [Clients -> Stages] /\ rows' \in [Clients -> Seq(Rows)] /\ dict' \in [Clients -> Dicts \cup {None}]
    BY <1>1, <1>4, <1>6 DEF Inv, Sorts
  <2>2. loaded' \subseteq Sessions /\ states' \in [Sessions -> Dicts \cup {None}] /\ db' \in [Sessions -> Seq(Rows)]
    BY <1>0, <1>2 DEF Inv, Sorts
  <2> QED BY <1>5, <1>8, <1>10, <2>1, <2>2 DEF Sorts
<1>12. \A b \in Clients : d = <<b, "own">> => On[b] = s /\ ~At(b, "idle")
  BY <1>0 DEF Inv, Owned, OwnedAt
<1>13. \A b \in Clients : d = <<b, "copy">> => Target[b] = s /\ At(b, "ok") /\ Forks(b)
  BY <1>0 DEF Inv, Owned, OwnedAt
<1>14. \A t \in Sessions \ {s} : states[t] # d
  <2> SUFFICES ASSUME NEW t \in Sessions \ {s}, states[t] = d PROVE FALSE
    OBVIOUS
  <2>1. PICK b \in Clients : d = <<b, "own">> \/ d = <<b, "copy">>
    <3>1. d = <<d[1], d[2]>> /\ d[1] \in Clients /\ d[2] \in {"own", "copy"}
      BY DEF Dicts
    <3> QED BY <3>1
  <2>2. OwnedAt(t)
    BY DEF Inv, Owned
  <2>3. \A a \in Clients : (d = <<a, "own">> => On[a] = t) /\ (d = <<a, "copy">> => Target[a] = t)
    BY <2>2 DEF OwnedAt
  <2> QED BY <1>12, <1>13, <2>1, <2>3
<1>15. \A t \in Sessions \ {s} : Same(t)
  BY <1>2, <1>5, <1>14 DEF Same, Inv, Sorts
<1>16. Local(c)
  <2>1. \A b \in Clients \ {c} : pc'[b] = pc[b] /\ rows'[b] = rows[b] /\ dict'[b] = dict[b]
    BY <1>1, <1>6 DEF Inv, Sorts
  <2>2. \A b \in Clients \ {c} : At(b, "idle") => heap'[<<b, "own">>] = heap[<<b, "own">>]
    BY <1>5, <1>12 DEF Dicts
  <2> QED BY <1>15, <2>1, <2>2, Constants DEF Local
<1>17. OwnedAt(s)'
  <2>1. \A b \in Clients : (At(b, "ok") => At(b, "ok")') /\ (~At(b, "idle") => ~At(b, "idle")')
    BY <1>6, <1>7 DEF At, Ended
  <2> QED BY <1>0, <1>2, <1>12, <1>13, <2>1, SMTT(30) DEF OwnedAt
<1>18. FieldedAt(s)'
  <2> SUFFICES ASSUME NEW k \in Keys, NEW f, f = heap'[d].fields[k], f # Absent
               PROVE  Done(f)' \/ Inserting(f, s)'
    BY <1>2 DEF FieldedAt, Done, Failed, Inserting, At
  <2>1. CASE f = c /\ h[d].fields[k] # c
    BY <1>5, <1>6, <2>1 DEF Inserting, At
  <2>2. CASE f = h[d].fields[k]
    <3>1. f \in Clients
      BY <2>2 DEF Contents
    <3>2. Done(f) /\ ~Ended(c) /\ stage \in Stages /\ pc' = [pc EXCEPT ![c] = stage] /\ Sorts
      BY <1>6, <1>7, <2>2 DEF Inv
    <3> QED BY <3>1, <3>2, DoneKept
  <2>3. f \in {c, h[d].fields[k]}
    BY <1>5
  <2> QED BY <2>1, <2>2, <2>3
<1>19. Written(db[s])'
  <2>1. PICK log \in Seq(Rows) : log = db[s]
    BY <1>0 DEF Inv, Sorts
  <2>2. Written(log)
    BY <1>0, <2>1 DEF Inv
  <2>3. Written(log)'
    BY <1>6, <1>7, <2>2, WrittenKept DEF Inv
  <2> QED BY <2>1, <2>3 DEF Written
<1>20. Knows(c)'
  <2>1. s \in loaded' /\ states'[s] = d
    BY <1>2
  <2> QED BY <1>4, <1>5, <1>6, <2>1 DEF Knows, At
<1>21. Held(s)'
  BY <1>5, <1>17, <1>18, <1>19 DEF Held
<1>22. \A t \in Sessions : (Same(t) /\ On[c] # t) \/ Held(t)'
  BY <1>15, <1>21
<1> HIDE DEF s
<1>23. stage \notin {"ok", "failed", "lost"} => lock'[On[c]] = c
  BY <1>8 DEF s
<1> QED BY <1>6, <1>7, <1>8, <1>10, <1>11, <1>16, <1>20, <1>22, <1>23, StepKeeps

\* An operation on a loaded session.
LEMMA BeginLoadedKeeps == ASSUME Apart, Inv, NEW c \in Clients, BeginLoaded(c) PROVE Inv'
<1> USE DEF BeginLoaded
<1>1. Acts(c) /\ At(c, "idle") /\ On[c] \in Sessions /\ Loads(c) /\ On[c] \in loaded /\ pc[c] # "inserting"
  BY Constants DEF Acts, MayBegin, At
<1>2. states[On[c]] \in Dicts /\ DictOf(c) = states[On[c]] /\ states[On[c]] # None
  BY <1>1 DEF DictOf, Inv, Sorts, Owned, OwnedAt
<1>3. [states EXCEPT ![On[c]] = DictOf(c)] = states
  BY <1>2 DEF Inv, Sorts
<1>4. lock[On[c]] = None /\ Acquired(c) = [lock EXCEPT ![On[c]] = c] /\ None \notin Clients
  BY Constants DEF MayBegin, Takes, Acquired, Apart
<1>5. /\ Acquired(c) \in [Sessions -> Clients \cup {None}] /\ Acquired(c)[On[c]] = c
      /\ \A b \in Clients \ {c} : lock[On[b]] = b => Acquired(c)[On[b]] = b
  BY <1>1, <1>4, Constants DEF Inv, Sorts
<1>6. PICK d \in Dicts : d = states[On[c]]
  BY <1>2
<1>7. PICK l \in [Sessions -> Clients \cup {None}] : l = Acquired(c)
  BY <1>5
<1>8. PICK h \in [Dicts -> Contents] : h = heap
  BY DEF Inv, Sorts
<1>9. Work(c, d, h, l, states) /\ loaded' = loaded \cup {On[c]} /\ UNCHANGED <<db, restarts>>
  BY <1>1, <1>2, <1>3, <1>6, <1>7, <1>8
<1>10. PICK base \in Seq(Clients) : Shows(On[c], base)
  BY <1>1 DEF Inv, Shown
<1>11. \A b \in Clients : ~Writing(b, On[c])
  BY <1>1, <1>4 DEF Writing, Inv, Ordered, Under, Ended, At
<1>12. Settled(base) /\ Unfailed(base) = Transcript(db[On[c]]) /\ h[d].msgs = base
  BY <1>6, <1>8, <1>10, <1>11 DEF Shows
<1>13. \A k \in Keys : Agrees(h[d].fields[k], db[On[c]], k)
  BY <1>6, <1>8, <1>10, <1>11 DEF Shows
<1>14. ASSUME NEW k \in Keys, h[d].fields[k] # Absent PROVE Done(h[d].fields[k])
  <2>1. Done(h[d].fields[k]) \/ Inserting(h[d].fields[k], On[c])
    BY <1>1, <1>2, <1>6, <1>8, <1>14 DEF Inv, FieldedAt
  <2>2. h[d].fields[k] \in Clients
    BY <1>14 DEF Contents
  <2> QED BY <1>11, <2>1, <2>2 DEF Inserting, Writing
<1> HIDE DEF BeginLoaded
<1> QED BY <1>1, <1>5, <1>6, <1>7, <1>8, <1>9, <1>12, <1>13, <1>14, WorkKeeps

\* The rows of a written log, as messages.
LEMMA TranscriptSettled ==
    ASSUME NEW log \in Seq(Rows), Written(log)
    PROVE  Settled(Transcript(log)) /\ Unfailed(Transcript(log)) = Transcript(log)
<1> DEFINE I == TranscriptRows(log)
<1>1. /\ Transcript(log) \in Seq(Clients)
      /\ \A n \in 1 .. Cardinality(I) : Nth(I, n) \in DOMAIN log /\ log[Nth(I, n)].kind = "transcript"
  BY TranscriptType
<1>2. DOMAIN Transcript(log) = 1 .. Cardinality(I) /\ \A n \in 1 .. Cardinality(I) : Transcript(log)[n] = log[Nth(I, n)].by
  BY DEF Transcript
<1>3. \A n \in DOMAIN Transcript(log) : pc[Transcript(log)[n]] = "ok"
  BY <1>1, <1>2 DEF Written
<1>4. \A n \in DOMAIN Transcript(log) : ~Failed(Transcript(log)[n])
  BY <1>3 DEF Failed, At
<1> QED BY <1>1, <1>3, <1>4, UnfailedOfAll DEF Settled

\* The rows read are applied to the dict, and the operation goes on with it.
LEMMA ApplyKeeps == ASSUME Apart, Inv, NEW c \in Clients, Apply(c) PROVE Inv'
<1> USE DEF Apply
<1>1. At(c, "applying") /\ Under(c) /\ Acts(c) /\ On[c] \in Sessions /\ pc[c] # "inserting"
  BY Constants DEF Under, Ended, At, Acts
<1>2. /\ Loads(c) /\ On[c] \notin loaded /\ dict[c] = states[On[c]] /\ states[On[c]] # None
      /\ rows[c] = db[On[c]]
  BY <1>1 DEF Inv, Knows
<1>3. PICK d \in Dicts : d = states[On[c]]
  BY <1>1, <1>2 DEF Inv, Sorts
<1>4. heap[d] = Empty
  BY <1>1, <1>2, <1>3 DEF Inv, Owned, OwnedAt
<1>5. PICK log \in Seq(Rows) : log = db[On[c]]
  BY <1>1 DEF Inv, Sorts
<1>6. Transcript(log) \in Seq(Clients) /\ Settled(Transcript(log)) /\ Unfailed(Transcript(log)) = Transcript(log)
  BY <1>1, <1>5, TranscriptType, TranscriptSettled DEF Inv
<1>7. Stored(log).msgs = Transcript(log)
  BY <1>6 DEF Stored, Replayed, Empty
<1>8. \A k \in Keys : Stored(log).fields[k] \in Clients \cup {Absent}
  BY StoredFields
<1>9. Stored(log) \in Contents
  BY <1>6, <1>7, <1>8 DEF Stored, Replayed, Contents
<1>10. Applied(c) = [heap EXCEPT ![d] = Stored(log)]
  BY <1>2, <1>3, <1>4, <1>5 DEF Applied, Stored
<1>11. PICK h \in [Dicts -> Contents] : h = Applied(c)
  BY <1>9, <1>10 DEF Inv, Sorts
<1>12. h[d] = Stored(log) /\ \A e \in Dicts \ {d} : h[e] = heap[e]
  BY <1>10, <1>11 DEF Inv, Sorts
<1>13. PICK l \in [Sessions -> Clients \cup {None}] : l = lock
  BY DEF Inv, Sorts
<1>14. l[On[c]] = c /\ \A b \in Clients \ {c} : lock[On[b]] = b => l[On[b]] = b
  BY <1>1, <1>13 DEF Inv, Ordered
<1>15. Work(c, d, h, l, states) /\ loaded' = loaded \cup {On[c]} /\ UNCHANGED <<db, restarts>>
  BY <1>2, <1>3, <1>11, <1>13 DEF LoadedAfter
<1>16. \A k \in Keys : Agrees(h[d].fields[k], db[On[c]], k)
  BY <1>5, <1>12 DEF Agrees
<1>17. ASSUME NEW k \in Keys, h[d].fields[k] # Absent PROVE Done(h[d].fields[k])
  <2>1. Writes(log, k) # {}
    BY <1>12, <1>17, StoredFields
  <2>2. PICK i \in DOMAIN log : log[i].kind = "state" /\ h[d].fields[k] = log[i].fields[k]
    <3>1. /\ Latest(Writes(log, k)) \in Writes(log, k)
          /\ Stored(log).fields[k] = log[Latest(Writes(log, k))].fields[k]
      BY <2>1, StoredFields
    <3>2. h[d].fields[k] = Stored(log).fields[k]
      BY <1>12
    <3> QED BY <3>1, <3>2 DEF Writes
  <2>3. Written(log)
    BY <1>1, <1>5 DEF Inv
  <2> QED BY <1>17, <2>2, <2>3 DEF Written
<1> HIDE DEF Apply
<1> QED BY <1>1, <1>2, <1>3, <1>6, <1>5, <1>7, <1>12, <1>13, <1>14, <1>15, <1>16, <1>17, WorkKeeps

\* The process ends: the rows are left, and messages and answers whose
\* operation was over.
LEMMA RestartKeeps == ASSUME Apart, Inv, Restart PROVE Inv'
<1> USE DEF Restart
<1>1. \A c \in Clients : pc'[c] = IF Ended(c) \/ At(c, "idle") THEN pc[c] ELSE "lost"
  OBVIOUS
<1>2. \A c \in Clients : (Ended(c) => pc'[c] = pc[c]) /\ ~Under(c)' /\ (At(c, "idle")' => At(c, "idle"))
  BY <1>1 DEF Ended, At, Under
<1>3. Sorts'
  <2>1. pc' \in [Clients -> Stages]
    BY DEF Inv, Sorts, Stages
  <2>2. Empty \in Contents
    BY DEF Empty, Contents
  <2> QED BY <2>1, <2>2 DEF Inv, Sorts
<1>4. Ordered'
  <2> SUFFICES ASSUME NEW c \in Clients, ~At(c, "idle"), NEW b \in After[c] PROVE Ended(b)'
    BY <1>2 DEF Ordered, At
  <2>1. b \in Clients /\ Ended(b)
    BY SqliteAssumption DEF Inv, Ordered
  <2> QED BY <2>1, <1>2 DEF Ended
<1>5. \A s \in Sessions : states'[s] = None /\ s \notin loaded'
  OBVIOUS
<1>6. Owned'
  <2>1. \A c \in Clients : <<c, "own">> # None /\ <<c, "copy">> # None /\ <<c, "own">> \in Dicts
    BY SqliteAssumption DEF Dicts
  <2> QED BY <1>5, <2>1 DEF Owned, OwnedAt
<1>7. ASSUME NEW c \in Clients PROVE Knows(c)'
  BY <1>2 DEF Knows, Under, Ended, At
<1>8. ASSUME NEW c \in Clients PROVE Settled(answer[c].msgs)'
  <2>1. answer[c].msgs \in Seq(Clients) /\ Settled(answer[c].msgs)
    BY DEF Inv, Sorts
  <2> QED BY <1>2, <2>1 DEF Settled, Ended
<1>9. ASSUME NEW s \in Sessions PROVE FieldedAt(s)' /\ Shown(s)' /\ Written(db[s])'
  <2>1. FieldedAt(s)' /\ Shown(s)'
    BY <1>5 DEF FieldedAt, Shown
  <2>2. PICK log \in Seq(Rows) : log = db[s]
    BY DEF Inv, Sorts
  <2>3. Written(log)
    BY <2>2 DEF Inv
  <2>4. ASSUME NEW i \in DOMAIN log, log[i].kind = "transcript" PROVE pc'[log[i].by] = "ok"
    <3>1. log[i] \in Rows
      OBVIOUS
    <3>2. log[i].by \in Clients /\ pc[log[i].by] = "ok"
      BY <2>3, <2>4, <3>1, RowKinds DEF Written
    <3> QED BY <1>2, <3>2 DEF Ended
  <2>5. ASSUME NEW i \in DOMAIN log, log[i].kind = "state", NEW k \in Keys, log[i].fields[k] # Absent
        PROVE  Done(log[i].fields[k])'
    <3>1. log[i] \in Rows
      OBVIOUS
    <3>2. log[i].fields[k] \in Clients /\ Done(log[i].fields[k])
      BY <2>3, <2>5, <3>1, RowKinds DEF Written
    <3> QED BY <1>2, <3>2 DEF Ended, Done, Failed, At
  <2>6. Written(log)'
    BY <2>4, <2>5 DEF Written
  <2>7. log = db'[s]
    BY <2>2
  <2> HIDE DEF Restart
  <2>8. Written(db[s])'
    BY <2>6, <2>7 DEF Written, Done, Failed, At
  <2> QED BY <2>1, <2>8
<1> QED BY <1>3, <1>4, <1>6, <1>7, <1>8, <1>9 DEF Inv

\* The database is empty at first.
LEMMA InitHolds == Init => Inv
<1> SUFFICES ASSUME Init PROVE Inv
  OBVIOUS
<1> USE DEF Init
<1>1. \A c \in Clients : <<c, "own">> # None /\ <<c, "copy">> # None /\ <<c, "own">> \in Dicts
  BY SqliteAssumption DEF Dicts
<1>2. Empty \in Contents /\ <<>> \in Seq(Clients) /\ <<>> \in Seq(Rows) /\ DOMAIN <<>> = {}
  BY DEF Empty, Contents
<1>3. Sorts
  BY <1>2 DEF Sorts, Stages, Unread
<1>4. Ordered
  BY DEF Ordered, Under, At
<1>5. Owned
  BY <1>1 DEF Owned, OwnedAt
<1>6. ASSUME NEW c \in Clients PROVE Knows(c) /\ Settled(answer[c].msgs)
  BY <1>2 DEF Knows, Settled, At, Unread
<1>7. ASSUME NEW s \in Sessions PROVE FieldedAt(s) /\ Written(db[s]) /\ Shown(s)
  BY <1>2 DEF FieldedAt, Written, Shown
<1> QED BY <1>3, <1>4, <1>5, <1>6, <1>7 DEF Inv

\* Every step keeps the invariant.
LEMMA NextKeeps == ASSUME Apart, Inv, [Next]_vars PROVE Inv'
<1>1. CASE Restart
  BY <1>1, RestartKeeps
<1>2. ASSUME NEW c \in Clients, Step(c) PROVE Inv'
  <2>1. CASE BeginLoaded(c) \/ BeginLoad(c) \/ Select(c) \/ Apply(c)
    BY <2>1, BeginLoadedKeeps, BeginLoadKeeps, SelectKeeps, ApplyKeeps
  <2>2. CASE Insert(c) \/ InsertFails(c) \/ Check(c) \/ Copy(c) \/ Mirror(c)
    BY <2>2, InsertKeeps, InsertFailsKeeps, CheckKeeps, CopyKeeps, MirrorKeeps
  <2>3. CASE BeginDelete(c) \/ Delete(c)
    BY <2>3, BeginDeleteKeeps, DeleteKeeps
  <2>4. CASE SelectFails(c) \/ CopyFails(c) \/ DeleteFails(c)
    BY <2>4, RaiseKeeps DEF SelectFails, CopyFails, DeleteFails, Raise, At
  <2> QED BY <1>2, <2>1, <2>2, <2>3, <2>4 DEF Step
<1>3. CASE UNCHANGED vars
  <2> USE <1>3 DEF vars
  <2>1. Sorts' /\ Ordered' /\ Owned'
    BY DEF Inv, Sorts, Ordered, Under, Ended, At, Owned, OwnedAt
  <2>2. ASSUME NEW c \in Clients PROVE Knows(c)' /\ Settled(answer[c].msgs)'
    BY DEF Inv, Knows, Free, At, Settled
  <2>3. ASSUME NEW s \in Sessions PROVE FieldedAt(s)' /\ Written(db[s])' /\ Shown(s)'
    <3>1. FieldedAt(s)'
      BY DEF Inv, FieldedAt, Done, Inserting, Failed, At
    <3>2. Written(db[s])'
      BY DEF Inv, Written, Done, Failed, At
    <3>3. ASSUME s \in loaded PROVE \E base \in Seq(Clients) : Shows(s, base)'
      <4>1. PICK base \in Seq(Clients) : Shows(s, base)
        BY <3>3 DEF Inv, Shown
      <4>2. Unfailed(base)' = Unfailed(base)
        BY DEF Unfailed, Lasting, Failed, At
      <4>3. Shows(s, base)'
        BY <4>1, <4>2 DEF Shows, Settled, Writing, Agrees, Failed, Removed, At
      <4> QED BY <4>3
    <3>4. Shown(s)'
      BY <3>3 DEF Shown
    <3> QED BY <3>1, <3>2, <3>4
  <2> QED BY <2>1, <2>2, <2>3 DEF Inv
<1> QED BY <1>1, <1>2, <1>3 DEF Next

\* A loaded session that nobody mutates holds what its rows replay to.
LEMMA InvMirrors == Inv => MirrorsRows
<1> SUFFICES ASSUME Inv, NEW s \in loaded, Quiet(s), states[s] # None
             PROVE  /\ Unfailed(heap[states[s]].msgs) = Stored(db[s]).msgs
                    /\ \A k \in Keys : \/ heap[states[s]].fields[k] = Stored(db[s]).fields[k]
                                        \/ Failed(heap[states[s]].fields[k])
                                        \/ (heap[states[s]].fields[k] = Absent /\ Removed(k))
  BY DEF MirrorsRows
<1>1. s \in Sessions
  BY DEF Inv, Sorts
<1>2. PICK base \in Seq(Clients) : Shows(s, base)
  BY <1>1 DEF Inv, Shown
<1>3. \A c \in Clients : ~Writing(c, s)
  BY DEF Quiet, Writing, At
<1>4. heap[states[s]].msgs = base /\ Unfailed(base) = Transcript(db[s])
  BY <1>2, <1>3 DEF Shows
<1>5. \A k \in Keys : Agrees(heap[states[s]].fields[k], db[s], k)
  BY <1>2, <1>3 DEF Shows
<1>6. db[s] \in Seq(Rows)
  BY <1>1 DEF Inv, Sorts
<1>7. Stored(db[s]).msgs = Transcript(db[s])
  BY <1>6, TranscriptType DEF Stored, Replayed, Empty
<1> QED BY <1>4, <1>5, <1>7 DEF Agrees

\* Work done inside session(): a loaded session that no mutation is working on
\* holds what a restart would replay.
THEOREM RowsAreMirrored == ASSUME Apart PROVE Spec => []MirrorsRows
<1>1. Init => Inv
  BY InitHolds
<1>2. Inv /\ [Next]_vars => Inv'
  BY NextKeeps
<1>3. Inv => MirrorsRows
  BY InvMirrors
<1> QED BY <1>1, <1>2, <1>3, PTL DEF Spec

\* A fork writes to a session that does not exist.
THEOREM ForksAreFresh == ASSUME Apart PROVE Spec => ForksFresh
<1>1. Init => Inv
  BY InitHolds
<1>2. Inv /\ [Next]_vars => Inv'
  BY NextKeeps
<1>3. Inv => \A c \in Clients : At(c, "copying") => db[Target[c]] = <<>> /\ states[Target[c]] = None
  BY DEF Inv, Knows, Free
<1>4. Inv /\ [Next]_vars =>
         [\A c \in Clients : At(c, "copying") /\ pc'[c] = "mirroring" =>
             db[Target[c]] = <<>> /\ states[Target[c]] = None]_vars
  BY <1>3
<1> QED BY <1>1, <1>2, <1>4, PTL DEF Spec, ForksFresh

(***************************************************************************)
(* The store that the rows and the answers implement.                      *)
(***************************************************************************)
Stores == [s \in Sessions |-> Stored(db[s])]
Answers == [c \in Clients |-> [answer[c] EXCEPT !.msgs = Unfailed(@)]]

\* What is stored is its messages and its fields.
LEMMA StoredForm ==
    ASSUME NEW log \in Seq(Rows)
    PROVE  /\ Stored(log) = [msgs |-> Transcript(log), fields |-> [k \in Keys |-> Stored(log).fields[k]]]
           /\ Stored(log).msgs = Transcript(log) /\ Transcript(log) \in Seq(Clients)
<1>1. Transcript(log) \in Seq(Clients)
  BY TranscriptType
<1>2. Empty.msgs \o Transcript(log) = Transcript(log)
  BY <1>1 DEF Empty
<1>3. Stored(log) = [msgs |-> Transcript(log),
                     fields |-> [k \in Keys |-> IF Writes(log, k) = {} THEN Empty.fields[k]
                                                ELSE log[Latest(Writes(log, k))].fields[k]]]
  BY <1>2 DEF Stored, Replayed
<1>4. Stored(log).msgs = Transcript(log) /\ Stored(log).fields = [k \in Keys |-> Stored(log).fields[k]]
  BY <1>3
<1> QED BY <1>1, <1>3, <1>4

\* An empty table stores nothing.
LEMMA StoredOfNone == Stored(<<>>) = Empty
<1>1. <<>> \in Seq(Rows) /\ DOMAIN <<>> = {}
  OBVIOUS
<1>2. Transcript(<<>>) = <<>>
  BY TranscriptOfNone
<1>3. \A k \in Keys : Writes(<<>>, k) = {}
  BY <1>1 DEF Writes
<1>4. \A k \in Keys : Stored(<<>>).fields[k] = Absent
  BY <1>1, <1>3, StoredFields
<1> QED BY <1>1, <1>2, <1>4, StoredForm DEF Empty

\* Messages that have ended read the same after a step.
LEMMA ReadsStay ==
    ASSUME Inv, \A b \in Clients : Ended(b) => pc'[b] = pc[b], NEW c \in Clients, answer'[c] = answer[c]
    PROVE  Answers'[c] = Answers[c]
<1>1. PICK msgs \in Seq(Clients) : msgs = answer[c].msgs
  BY DEF Inv, Sorts
<1>2. \A i \in DOMAIN msgs : msgs[i] \in Clients /\ Ended(msgs[i])
  BY <1>1 DEF Inv, Settled, Ended
<1>3. Unfailed(msgs)' = Unfailed(msgs)
  <2>1. \A i \in DOMAIN msgs : Failed(msgs[i])' <=> Failed(msgs[i])
    BY <1>2 DEF Failed, At
  <2>2. Lasting(msgs)' = Lasting(msgs)
    BY <2>1 DEF Lasting
  <2> QED BY <2>2 DEF Unfailed
<1>4. Answers[c] = [answer[c] EXCEPT !.msgs = Unfailed(msgs)]
  BY <1>1 DEF Answers
<1>5. Answers'[c] = [answer[c] EXCEPT !.msgs = Unfailed(msgs)']
  <2>1. msgs = answer'[c].msgs
    BY <1>1
  <2> QED BY <2>1 DEF Answers, Unfailed, Lasting, Failed, At
<1> QED BY <1>3, <1>4, <1>5

\* What has ended stays so.
LEMMA EndedStays ==
    ASSUME Apart, Inv, NEW c \in Clients, ~Ended(c), NEW stage, pc' = [pc EXCEPT ![c] = stage]
    PROVE  \A b \in Clients : Ended(b) => pc'[b] = pc[b]
BY DEF Inv, Sorts

\* Steps that leave the table and the answers are no steps of the store.
LEMMA Stutters ==
    ASSUME Inv, \A b \in Clients : Ended(b) => pc'[b] = pc[b], UNCHANGED <<db, answer>>
    PROVE  UNCHANGED <<Stores, Answers>>
<1>1. Stores' = Stores
  BY DEF Stores
<1>2. \A c \in Clients : Answers'[c] = Answers[c]
  BY ReadsStay
<1>3. Answers' = [c \in Clients |-> Answers'[c]] /\ Answers = [c \in Clients |-> Answers[c]]
  BY DEF Answers
<1> QED BY <1>1, <1>2, <1>3

\* An answer with other messages.
LEMMA AnswerOf ==
    ASSUME NEW a, NEW b, NEW r
    PROVE  [[msgs |-> a, read |-> r] EXCEPT !.msgs = b] = [msgs |-> b, read |-> r]
OBVIOUS

\* A read answers with what is stored.
LEMMA ReadRefines ==
    ASSUME Inv, NEW c \in Clients, ~Ended(c), NEW stage \in Stages, pc' = [pc EXCEPT ![c] = stage], db' = db,
           NEW base \in Seq(Clients), Settled(base), Unfailed(base) = Transcript(db[On[c]]),
           answer' = [answer EXCEPT ![c] = [msgs |-> base, read |-> TRUE]]
    PROVE  Stores' = Stores /\ Store!Reads(On[c], c)
<1>1. \A b \in Clients : Ended(b) => pc'[b] = pc[b]
  BY DEF Inv, Sorts
<1>2. \A b \in Clients \ {c} : Answers'[b] = Answers[b]
  <2>1. \A b \in Clients \ {c} : answer'[b] = answer[b]
    BY DEF Inv, Sorts
  <2> QED BY <1>1, <2>1, ReadsStay
<1>3. Unfailed(base)' = Unfailed(base)
  BY SettledKept DEF Inv
<1>4. Answers'[c] = [msgs |-> Stored(db[On[c]]).msgs, read |-> TRUE]
  <2>1. answer'[c] = [msgs |-> base, read |-> TRUE]
    BY DEF Inv, Sorts
  <2>2. Answers'[c] = [answer'[c] EXCEPT !.msgs = Unfailed(base)']
    <3>1. base = answer'[c].msgs
      BY <2>1
    <3> QED BY <3>1 DEF Answers, Unfailed, Lasting, Failed, At
  <2>3. db[On[c]] \in Seq(Rows)
    BY Constants DEF Inv, Sorts
  <2>4. Stored(db[On[c]]).msgs = Unfailed(base)
    BY <2>3, StoredForm
  <2>5. [[msgs |-> base, read |-> TRUE] EXCEPT !.msgs = Unfailed(base)] = [msgs |-> Unfailed(base), read |-> TRUE]
    <3>1. PICK yes : yes = TRUE
      OBVIOUS
    <3>2. [[msgs |-> base, read |-> yes] EXCEPT !.msgs = Unfailed(base)] = [msgs |-> Unfailed(base), read |-> yes]
      BY AnswerOf
    <3> QED BY <3>1, <3>2
  <2> QED BY <1>3, <2>1, <2>2, <2>4, <2>5
<1>5. Answers' = [b \in Clients |-> Answers'[b]] /\ DOMAIN Answers = Clients
  BY DEF Answers
<1>6. Answers' = [Answers EXCEPT ![c] = [msgs |-> Stores[On[c]].msgs, read |-> TRUE]]
  <2>1. Stores[On[c]] = Stored(db[On[c]])
    BY Constants DEF Stores
  <2> QED BY <1>2, <1>4, <1>5, <2>1
<1>7. Stores' = Stores
  BY DEF Stores
<1> QED BY <1>6, <1>7 DEF Store!Reads, Stores, Answers

\* The rows of one session change, and no answer.
LEMMA RowsChange ==
    ASSUME Inv, \A b \in Clients : Ended(b) => pc'[b] = pc[b], NEW s \in Sessions, NEW log, db' = [db EXCEPT ![s] = log],
           answer' = answer
    PROVE  Answers' = Answers /\ Stores' = [Stores EXCEPT ![s] = Stored(log)]
<1>1. \A c \in Clients : Answers'[c] = Answers[c]
  BY ReadsStay
<1>2. Answers' = [c \in Clients |-> Answers'[c]] /\ Answers = [c \in Clients |-> Answers[c]]
  BY DEF Answers
<1>3. \A t \in Sessions : db'[t] = IF t = s THEN log ELSE db[t]
  BY DEF Inv, Sorts
<1>4. Stores' = [t \in Sessions |-> Stored(db'[t])]
  BY DEF Stores
<1>5. Stores' = [Stores EXCEPT ![s] = Stored(log)]
  <2>1. \A t \in Sessions : Stored(db'[t]) = IF t = s THEN Stored(log) ELSE Stored(db[t])
    BY <1>3
  <2>2. Stores' = [t \in Sessions |-> IF t = s THEN Stored(log) ELSE Stored(db[t])]
    BY <1>4, <2>1
  <2> QED BY <2>2 DEF Stores
<1> QED BY <1>1, <1>2, <1>5

\* Faults under which the fields of a row were all written before: a state row
\* repeats the fields of the dict, those whose own row was refused included.
Repeats == "insert" \notin Faults \/ \A j, k \in Keys : j = k

\* An insertion appends its message or sets its key.
LEMMA InsertRefines ==
    ASSUME Apart, Repeats, Inv, NEW c \in Clients, Insert(c)
    PROVE  Store!Appends(On[c], c) \/ Store!Sets(On[c], Key[c], c) \/ UNCHANGED <<Stores, Answers>>
<1> DEFINE s == On[c]
           h == heap[states[s]]
           old == db[s]
<1>1. At(c, "inserting")
  BY DEF Insert
<1>2. /\ s \in Sessions /\ ~Ended(c) /\ h \in Contents /\ Kind[c] \in {"append", "note", "drop"}
      /\ states[s] # None /\ Absent \notin Clients /\ Key[c] \in Keys
  BY <1>1, InsertingShows, Constants, SqliteAssumption
<1>3. PICK log \in Seq(Rows) : log = Inserted(c)
  BY <1>1, RowAdded
<1>4. db' = [db EXCEPT ![s] = log] /\ answer' = answer /\ pc' = [pc EXCEPT ![c] = "ok"]
  BY <1>3 DEF Insert, End
<1>5. Answers' = Answers /\ Stores' = [Stores EXCEPT ![s] = Stored(log)]
  BY <1>2, <1>4, EndedStays, RowsChange
<1>6. /\ Transcript(log) = IF Kind[c] = "append" THEN Append(Transcript(old), c) ELSE Transcript(old)
      /\ \A k \in Keys : Stored(log).fields[k] =
            IF Kind[c] # "append" /\ h.fields[k] # Absent THEN h.fields[k] ELSE Stored(old).fields[k]
  BY <1>1, <1>3, RowAdded
<1>7. old \in Seq(Rows)
  BY <1>2 DEF Inv, Sorts
<1>8. /\ Stored(log) = [msgs |-> Transcript(log), fields |-> [k \in Keys |-> Stored(log).fields[k]]]
      /\ Stored(old) = [msgs |-> Transcript(old), fields |-> [k \in Keys |-> Stored(old).fields[k]]]
  BY <1>7, StoredForm
<1>9. Stores[s] = Stored(old)
  BY <1>2 DEF Stores
<1>10. CASE Kind[c] = "append"
  <2>1. Stored(log) = [msgs |-> Append(Transcript(old), c), fields |-> [k \in Keys |-> Stored(old).fields[k]]]
    BY <1>6, <1>8, <1>10
  <2>2. Stored(log) = [Stored(old) EXCEPT !.msgs = Append(@, c)]
    <3>1. PICK msgs, fields : msgs = Transcript(old) /\ fields = [k \in Keys |-> Stored(old).fields[k]]
      OBVIOUS
    <3>2. [[msgs |-> msgs, fields |-> fields] EXCEPT !.msgs = Append(@, c)] = [msgs |-> Append(msgs, c), fields |-> fields]
      OBVIOUS
    <3> QED BY <1>8, <2>1, <3>1, <3>2
  <2>3. Stores' = [Stores EXCEPT ![s].msgs = Append(@, c)]
    BY <1>5, <1>9, <2>2
  <2> QED BY <1>5, <2>3 DEF Store!Appends, Stores, Answers
<1>11. CASE Kind[c] # "append"
  <2>1. ASSUME NEW k \in Keys \ {Key[c]}, h.fields[k] # Absent PROVE h.fields[k] = Stored(old).fields[k]
    <3>1. PICK base \in Seq(Clients) : Shows(s, base)
      BY <1>1, InsertingShows
    <3>2. \A b \in Clients : Writing(b, s) => b = c
      BY <1>1, InsertingShows
    <3>3. Agrees(h.fields[k], old, k)
      BY <3>1, <3>2 DEF Shows
    <3>4. Done(h.fields[k]) \/ Inserting(h.fields[k], s)
      BY <1>2, <2>1 DEF Inv, FieldedAt
    <3>5. "insert" \notin Faults
      BY <1>2 DEF Repeats
    <3>6. ~Failed(h.fields[k])
      BY <3>4, <3>5 DEF Done, Inserting, Failed, At
    <3> QED BY <2>1, <3>3, <3>6 DEF Agrees
  <2>2. \A k \in Keys \ {Key[c]} : Stored(log).fields[k] = Stored(old).fields[k]
    BY <1>6, <1>11, <2>1
  <2>3. CASE Kind[c] = "note"
    <3>1. h.fields[Key[c]] = c
      BY <1>1, <2>3 DEF Inv, Knows
    <3>2. Stored(log).fields[Key[c]] = c
      BY <1>2, <1>6, <1>11, <3>1
    <3>3. [k \in Keys |-> Stored(log).fields[k]] = [[k \in Keys |-> Stored(old).fields[k]] EXCEPT ![Key[c]] = c]
      BY <2>2, <3>2
    <3>4. Stored(log) = [Stored(old) EXCEPT !.fields = [@ EXCEPT ![Key[c]] = c]]
      BY <1>6, <1>8, <1>11, <3>3
    <3>5. Stores' = [Stores EXCEPT ![s].fields[Key[c]] = c]
      BY <1>5, <1>9, <3>4
    <3> QED BY <1>5, <3>5 DEF Store!Sets, Stores, Answers
  <2>4. CASE Kind[c] = "drop"
    <3>1. h.fields[Key[c]] = Absent
      BY <1>1, <2>4 DEF Inv, Knows
    <3>2. Stored(log).fields[Key[c]] = Stored(old).fields[Key[c]]
      BY <1>2, <1>6, <3>1
    <3>3. [k \in Keys |-> Stored(log).fields[k]] = [k \in Keys |-> Stored(old).fields[k]]
      BY <2>2, <3>2
    <3>4. Stored(log) = Stored(old)
      BY <1>6, <1>8, <1>11, <3>3
    <3>5. Stores' = Stores
      BY <1>5, <1>9, <3>4 DEF Stores
    <3> QED BY <1>5, <3>5
  <2> QED BY <1>2, <1>11, <2>3, <2>4
<1> QED BY <1>10, <1>11

\* A copy of the rows is a fork of the store.
LEMMA CopyRefines ==
    ASSUME Apart, Inv, NEW c \in Clients, Copy(c)
    PROVE  Store!Forks(On[c], Target[c])
<1>1. /\ Forks(c) /\ On[c] \in Sessions /\ Target[c] \in Sessions /\ db[Target[c]] = <<>>
      /\ db[On[c]] \in Seq(Rows) /\ ~Ended(c)
  BY Constants DEF Copy, Inv, Knows, Free, Sorts, Ended, At
<1>2. db' = [db EXCEPT ![Target[c]] = db[On[c]]] /\ answer' = answer /\ pc' = [pc EXCEPT ![c] = "mirroring"]
  <2>1. <<>> \o db[On[c]] = db[On[c]]
    BY <1>1
  <2> QED BY <1>1, <2>1 DEF Copy
<1>3. Answers' = Answers /\ Stores' = [Stores EXCEPT ![Target[c]] = Stored(db[On[c]])]
  BY <1>1, <1>2, EndedStays, RowsChange
<1>4. Stores[Target[c]] = Empty /\ Stores[On[c]] = Stored(db[On[c]])
  BY <1>1, StoredOfNone DEF Stores
<1> QED BY <1>3, <1>4 DEF Store!Forks, Store!Empty, Empty, Stores, Answers

\* A removal of the rows is a deletion of the store.
LEMMA DeleteRefines ==
    ASSUME Apart, Inv, NEW c \in Clients, Delete(c)
    PROVE  Store!Deletes(On[c])
<1>1. On[c] \in Sessions /\ ~Ended(c)
  BY Constants DEF Delete, Ended, At
<1>2. db' = [db EXCEPT ![On[c]] = <<>>] /\ answer' = answer /\ pc' = [pc EXCEPT ![c] = "ok"]
  BY DEF Delete, End
<1>3. Answers' = Answers /\ Stores' = [Stores EXCEPT ![On[c]] = Stored(<<>>)]
  BY <1>1, <1>2, EndedStays, RowsChange
<1> QED BY <1>3, StoredOfNone DEF Store!Deletes, Store!Empty, Empty, Stores, Answers

\* The base of a session whose operation goes on in this step: the messages of
\* its dict, once it is loaded.
LEMMA Based ==
    ASSUME Apart, Inv, NEW c \in Clients, BeginLoaded(c) \/ Apply(c)
    PROVE  \E d \in Dicts, h \in [Dicts -> Contents], base \in Seq(Clients) :
              /\ h[d].msgs = base /\ Settled(base) /\ Unfailed(base) = Transcript(db[On[c]])
              /\ answer' = IF Kind[c] = "read" THEN [answer EXCEPT ![c] = [msgs |-> base, read |-> TRUE]] ELSE answer
              /\ pc' = [pc EXCEPT ![c] = StageAfter(c, d, h)] /\ StageAfter(c, d, h) \in Stages /\ ~Ended(c)
<1>1. On[c] \in Sessions
  BY Constants
<1>2. CASE BeginLoaded(c)
  <2>1. At(c, "idle") /\ On[c] \in loaded /\ states[On[c]] \in Dicts /\ DictOf(c) = states[On[c]]
    BY <1>1, <1>2 DEF BeginLoaded, MayBegin, DictOf, Inv, Sorts, Owned, OwnedAt
  <2>2. lock[On[c]] = None /\ None \notin Clients
    BY <1>2, Constants DEF BeginLoaded, MayBegin, Takes, Apart
  <2>3. PICK base \in Seq(Clients) : Shows(On[c], base)
    BY <1>1, <2>1 DEF Inv, Shown
  <2>4. \A b \in Clients : ~Writing(b, On[c])
    BY <2>1, <2>2 DEF Writing, Inv, Ordered, Under, Ended, At
  <2>5. PICK d \in Dicts, h \in [Dicts -> Contents] : d = states[On[c]] /\ h = heap
    BY <2>1 DEF Inv, Sorts
  <2>6. h[d].msgs = base /\ Settled(base) /\ Unfailed(base) = Transcript(db[On[c]])
    BY <2>3, <2>4, <2>5 DEF Shows
  <2>7. Work(c, d, h, Acquired(c), [states EXCEPT ![On[c]] = DictOf(c)])
    BY <1>2, <2>1, <2>5 DEF BeginLoaded
  <2>8. /\ answer' = IF Kind[c] = "read" THEN [answer EXCEPT ![c] = [msgs |-> base, read |-> TRUE]] ELSE answer
        /\ pc' = [pc EXCEPT ![c] = StageAfter(c, d, h)]
    BY <2>6, <2>7 DEF Work, Seen
  <2>9. StageAfter(c, d, h) \in Stages /\ ~Ended(c)
    BY <2>1 DEF StageAfter, Stages, Ended, At
  <2> QED BY <2>6, <2>8, <2>9
<1>3. CASE Apply(c)
  <2>1. At(c, "applying")
    BY <1>3 DEF Apply
  <2>2. On[c] \notin loaded /\ dict[c] = states[On[c]] /\ states[On[c]] # None /\ rows[c] = db[On[c]]
    BY <2>1 DEF Inv, Knows
  <2>3. PICK d \in Dicts, log \in Seq(Rows) : d = states[On[c]] /\ log = db[On[c]]
    BY <1>1, <2>2 DEF Inv, Sorts
  <2>4. heap[d] = Empty
    BY <1>1, <2>2, <2>3 DEF Inv, Owned, OwnedAt
  <2>5. Transcript(log) \in Seq(Clients) /\ Settled(Transcript(log)) /\ Unfailed(Transcript(log)) = Transcript(log)
    BY <1>1, <2>3, TranscriptType, TranscriptSettled DEF Inv
  <2>6. \A k \in Keys : Stored(log).fields[k] \in Clients \cup {Absent}
    BY StoredFields
  <2>7. Stored(log) \in Contents /\ Stored(log).msgs = Transcript(log)
    <3>1. Stored(log) = [msgs |-> Transcript(log), fields |-> [k \in Keys |-> Stored(log).fields[k]]]
      BY StoredForm
    <3>2. [k \in Keys |-> Stored(log).fields[k]] \in [Keys -> Clients \cup {Absent}]
      BY <2>6
    <3>3. \A f \in [Keys -> Clients \cup {Absent}], m \in Seq(Clients) : [msgs |-> m, fields |-> f] \in Contents
      BY DEF Contents
    <3> QED BY <2>5, <3>1, <3>2, <3>3, StoredForm
  <2>8. Applied(c) = [heap EXCEPT ![d] = Stored(log)]
    BY <2>2, <2>3, <2>4 DEF Applied, Stored
  <2>9. PICK h \in [Dicts -> Contents] : h = Applied(c)
    BY <2>7, <2>8 DEF Inv, Sorts
  <2>10. h[d].msgs = Transcript(log)
    BY <2>7, <2>8, <2>9 DEF Inv, Sorts
  <2>11. Work(c, d, h, lock, states)
    BY <1>3, <2>2, <2>3, <2>9 DEF Apply
  <2>12. /\ answer' = IF Kind[c] = "read" THEN [answer EXCEPT ![c] = [msgs |-> Transcript(log), read |-> TRUE]] ELSE answer
         /\ pc' = [pc EXCEPT ![c] = StageAfter(c, d, h)]
    BY <2>10, <2>11 DEF Work, Seen
  <2>13. StageAfter(c, d, h) \in Stages /\ ~Ended(c)
    BY <2>1 DEF StageAfter, Stages, Ended, At
  <2> QED BY <2>3, <2>5, <2>10, <2>12, <2>13
<1> QED BY <1>2, <1>3

\* Every step is one of the store or leaves it.
LEMMA StepRefines ==
    ASSUME Apart, Repeats, Inv, [Next]_vars
    PROVE  [Store!Next]_<<Stores, Answers>>
<1>1. ASSUME NEW s \in Sessions, Store!Changes(s) PROVE [Store!Next]_<<Stores, Answers>>
  <2>1. \A t \in Sessions \ {s} : Stores'[t] = Stores[t]
    BY <1>1 DEF Store!Changes, Store!Appends, Store!Sets, Store!Forks, Store!Deletes, Stores
  <2>2. Answers' = Answers
    BY <1>1 DEF Store!Changes, Store!Appends, Store!Sets, Store!Forks, Store!Deletes, Answers
  <2>3. CASE Stores'[s] = Stores[s]
    <3>1. Stores' = Stores
      BY <2>1, <2>3 DEF Stores
    <3> QED BY <2>2, <3>1
  <2>4. CASE Stores'[s] # Stores[s]
    <3>1. Store!Next
      BY <1>1, <2>4 DEF Store!Next, Stores
    <3> QED BY <3>1
  <2> QED BY <2>3, <2>4
<1>2. CASE Restart
  <2>1. (\A b \in Clients : Ended(b) => pc'[b] = pc[b]) /\ UNCHANGED <<db, answer>>
    BY <1>2 DEF Restart
  <2> QED BY <2>1, Stutters
<1>3. CASE UNCHANGED vars
  <2>1. (\A b \in Clients : Ended(b) => pc'[b] = pc[b]) /\ UNCHANGED <<db, answer>>
    BY <1>3 DEF vars
  <2> QED BY <2>1, Stutters
<1>4. ASSUME NEW c \in Clients, Step(c) PROVE [Store!Next]_<<Stores, Answers>>
  <2>1. On[c] \in Sessions /\ Key[c] \in Keys /\ (Forks(c) => Target[c] \in Sessions)
    BY Constants
  <2>2. CASE Insert(c)
    <3>1. Store!Appends(On[c], c) \/ Store!Sets(On[c], Key[c], c) => Store!Changes(On[c])
      BY <2>1 DEF Store!Changes
    <3> QED BY <1>1, <2>1, <2>2, <3>1, InsertRefines
  <2>3. CASE Copy(c)
    <3>1. Forks(c)
      BY <2>3 DEF Copy, Inv, Knows
    <3>2. Store!Changes(Target[c])
      BY <2>1, <2>3, <3>1, CopyRefines DEF Store!Changes
    <3> QED BY <1>1, <2>1, <3>1, <3>2
  <2>4. CASE Delete(c)
    BY <1>1, <2>1, <2>4, DeleteRefines DEF Store!Changes
  <2>5. CASE BeginLoaded(c) \/ Apply(c)
    <3>1. PICK d \in Dicts, h \in [Dicts -> Contents], base \in Seq(Clients) :
             /\ h[d].msgs = base /\ Settled(base) /\ Unfailed(base) = Transcript(db[On[c]])
             /\ answer' = IF Kind[c] = "read" THEN [answer EXCEPT ![c] = [msgs |-> base, read |-> TRUE]] ELSE answer
             /\ pc' = [pc EXCEPT ![c] = StageAfter(c, d, h)] /\ StageAfter(c, d, h) \in Stages /\ ~Ended(c)
      BY <2>5, Based
    <3>2. db' = db
      BY <2>5 DEF BeginLoaded, Apply
    <3>3. CASE Kind[c] = "read"
      <4>1. Stores' = Stores /\ Store!Reads(On[c], c)
        BY <3>1, <3>2, <3>3, ReadRefines
      <4>2. \A b \in Clients \ {c} : Answers'[b] = Answers[b]
        BY <4>1 DEF Store!Reads, Answers
      <4>3. CASE Answers'[c] = Answers[c]
        <5>1. Answers' = Answers
          BY <4>2, <4>3 DEF Answers
        <5> QED BY <4>1, <5>1
      <4>4. CASE Answers'[c] # Answers[c]
        BY <2>1, <4>1, <4>4 DEF Store!Next, Answers
      <4> QED BY <4>3, <4>4
    <3>4. CASE Kind[c] # "read"
      <4>1. (\A b \in Clients : Ended(b) => pc'[b] = pc[b]) /\ UNCHANGED <<db, answer>>
        BY <3>1, <3>2, <3>4, EndedStays
      <4> QED BY <4>1, Stutters
    <3> QED BY <3>3, <3>4
  <2>6. CASE BeginLoad(c) \/ Select(c) \/ SelectFails(c) \/ InsertFails(c) \/ Check(c) \/ CopyFails(c)
             \/ Mirror(c) \/ BeginDelete(c) \/ DeleteFails(c)
    <3>1. UNCHANGED <<db, answer>> /\ ~Ended(c)
      BY <2>6 DEF BeginLoad, MayBegin, Select, SelectFails, InsertFails, Check, CopyFails, Mirror, BeginDelete, DeleteFails,
                  Raise, Ended, At
    <3>2. \E stage : pc' = [pc EXCEPT ![c] = stage]
      BY <2>6 DEF BeginLoad, Select, SelectFails, InsertFails, Check, CopyFails, Mirror, BeginDelete, DeleteFails,
                  Raise, End
    <3> QED BY <3>1, <3>2, EndedStays, Stutters
  <2> QED BY <1>4, <2>2, <2>3, <2>4, <2>5, <2>6 DEF Step
<1> QED BY <1>2, <1>3, <1>4 DEF Next

\* An empty database is an empty store.
LEMMA InitRefines == Init => Store!Init
<1> SUFFICES ASSUME Init PROVE Store!Init
  OBVIOUS
<1>1. Stores = [s \in Sessions |-> Empty]
  BY StoredOfNone DEF Init, Stores
<1>2. \A c \in Clients : Answers[c] = [msgs |-> <<>>, read |-> FALSE]
  <2>1. \A c \in Clients : answer[c] = [msgs |-> <<>>, read |-> FALSE]
    BY DEF Init, Unread
  <2>2. [[msgs |-> <<>>, read |-> FALSE] EXCEPT !.msgs = <<>>] = [msgs |-> <<>>, read |-> FALSE]
    <3>1. PICK no : no = FALSE
      OBVIOUS
    <3>2. [[msgs |-> <<>>, read |-> no] EXCEPT !.msgs = <<>>] = [msgs |-> <<>>, read |-> no]
      BY AnswerOf
    <3> QED BY <3>1, <3>2
  <2>3. \A c \in Clients : Answers[c] = [answer[c] EXCEPT !.msgs = <<>>]
    <3>1. \A c \in Clients : answer[c].msgs = <<>>
      BY <2>1
    <3> QED BY <3>1, UnfailedOfNone DEF Answers
  <2> QED BY <2>1, <2>2, <2>3
<1>3. Answers = [c \in Clients |-> [msgs |-> <<>>, read |-> FALSE]]
  BY <1>2 DEF Answers
<1> QED BY <1>1, <1>3 DEF Store!Init, Store!Empty, Store!Unread, Empty, Stores, Answers

\* Work done inside session(): the rows and the answers are those of a store
\* whose operations take effect one at a time.
THEOREM RowsRefineStore == ASSUME Apart, Repeats PROVE Spec => RefinesStore
<1>1. Init => Inv /\ Store!Init
  BY InitHolds, InitRefines
<1>2. Inv /\ [Next]_vars => Inv'
  BY NextKeeps
<1>3. Inv /\ [Next]_vars => [Store!Next]_<<Stores, Answers>>
  BY StepRefines
<1> QED BY <1>1, <1>2, <1>3, PTL DEF Spec, RefinesStore, Store!Spec, Stores, Answers

-----------------------------------------------------------------------------
(***************************************************************************)
(* JsonlFileSessionManager, for any clients, sessions and number of deaths *)
(* in the middle of a write: its dicts are compared with its files.  What  *)
(* a session's file and dict are to each other (Sound) is a matter of the  *)
(* two and of who has left something in them, so most lemmas are about     *)
(* values; a file that ends without a newline and a dict that is not       *)
(* exactly its replay are never met together, which is what makes one      *)
(* death cost one message.                                                 *)
(***************************************************************************)
CONSTANTS FileKind, FileOn, FileKey, FileTarget, FileAfter, Tears, FileRestarts

VARIABLES jpc, file, ragged, jstates, jloaded, jlock, janswer, jrestarts

Files == INSTANCE JsonlSession WITH
    Kind <- FileKind, On <- FileOn, Key <- FileKey, Target <- FileTarget, After <- FileAfter, MaxRestarts <- FileRestarts,
    pc <- jpc, states <- jstates, loaded <- jloaded, lock <- jlock, answer <- janswer, restarts <- jrestarts

\* The events of the files are those of the rows.
LEMMA SameEvents ==
    /\ Files!Bad = Bad /\ Files!Empty = Empty
    /\ \A c : Files!Message(c) = Message(c)
    /\ \A S : Files!Cardinality(S) = Cardinality(S)
    /\ \A log : Files!Transcript(log) = Transcript(log)
    /\ \A log : Files!Stored(log) = Stored(log)
<1>1. Files!Bad = Bad /\ Files!Empty = Empty /\ \A c : Files!Message(c) = Message(c)
  BY DEF Files!Bad, Bad, Files!Empty, Empty, Files!Message, Message
<1>2. \A S : Files!Cardinality(S) = Cardinality(S)
  BY Zenon DEF Files!Cardinality, Cardinality
<1>3. \A I, n : Files!Nth(I, n) = Nth(I, n)
  BY <1>2, Zenon DEF Files!Nth, Nth
<1>4. \A log : Files!TranscriptRows(log) = TranscriptRows(log)
  BY DEF Files!TranscriptRows, TranscriptRows
<1>5. \A log : Files!Transcript(log) = Transcript(log)
  BY <1>2, <1>3, <1>4, Zenon DEF Files!Transcript, Transcript
<1>6. \A log, k : Files!Writes(log, k) = Writes(log, k)
  BY DEF Files!Writes, Writes
<1>7. \A S : Files!Latest(S) = Latest(S)
  BY Zenon DEF Files!Latest, Latest
<1>8. \A m, log : Files!Replayed(m, log) = Replayed(m, log)
  BY <1>5, <1>6, <1>7, Zenon DEF Files!Replayed, Replayed
<1>9. \A log : Files!Stored(log) = Stored(log)
  BY <1>1, <1>8, Zenon DEF Files!Stored, Stored
<1> QED BY <1>1, <1>2, <1>5, <1>9

\* The clients that append messages, and those that note a field.
Appenders == {c \in Clients : FileKind[c] = "append"}
Noters == {c \in Clients : FileKind[c] = "note"}

\* What clients of B can have left in a file, and in a dict.
Told(B) == [kind : {"transcript"}, by : Appenders \cap B] \cup {Files!Bad}
             \cup [kind : {"state"}, fields : [Keys -> (Noters \cap B) \cup {Absent}]]
Known(B) == [msgs : Seq(Appenders \cap B), fields : [Keys -> (Noters \cap B) \cup {Absent}]]

\* A line is of a kind, and its clients are of that kind.
LEMMA ToldKinds ==
    ASSUME NEW B, NEW e \in Told(B)
    PROVE  /\ e \in Rows
           /\ e.kind = "transcript" => e.by \in Appenders \cap B /\ e = Files!Message(e.by)
           /\ e.kind = "state" => e.fields \in [Keys -> (Noters \cap B) \cup {Absent}]
           /\ e.kind \in {"transcript", "state", "bad"}
<1>1. CASE e \in [kind : {"transcript"}, by : Appenders \cap B]
  BY <1>1 DEF Rows, Files!Message, Appenders
<1>2. CASE e = Files!Bad
  BY <1>2 DEF Rows, Files!Bad, Bad
<1>3. CASE e \in [kind : {"state"}, fields : [Keys -> (Noters \cap B) \cup {Absent}]]
  <2>1. \A f \in [Keys -> (Noters \cap B) \cup {Absent}] : f \in [Keys -> Clients \cup {Absent}]
    BY DEF Noters
  <2> QED BY <1>3, <2>1 DEF Rows
<1> QED BY <1>1, <1>2, <1>3 DEF Told

\* A message, a fragment and a state are such lines.
LEMMA TellsKinds ==
    ASSUME NEW B
    PROVE  /\ Files!Bad \in Told(B)
           /\ \A c \in Appenders \cap B : Files!Message(c) \in Told(B)
           /\ \A f \in [Keys -> (Noters \cap B) \cup {Absent}] : Files!State(f) \in Told(B)
BY DEF Told, Files!Bad, Files!Message, Files!State

\* The lines of fewer clients are lines of more, and so are the dicts.
LEMMA ToldGrows ==
    ASSUME NEW B, NEW C, B \subseteq C
    PROVE  /\ \A log \in Seq(Told(B)) : log \in Seq(Told(C))
           /\ Known(B) \subseteq Known(C)
<1>1. \A f \in [Keys -> (Noters \cap B) \cup {Absent}] : f \in [Keys -> (Noters \cap C) \cup {Absent}]
  OBVIOUS
<1>2. Told(B) \subseteq Told(C)
  BY <1>1 DEF Told
<1>3. \A log \in Seq(Told(B)) : log \in Seq(Told(C))
  BY <1>2
<1>4. \A q \in Seq(Appenders \cap B) : q \in Seq(Appenders \cap C)
  OBVIOUS
<1> QED BY <1>1, <1>3, <1>4 DEF Known

\* What the replay of a file knows are clients that left something there.
LEMMA StoredKnown ==
    ASSUME NEW B, NEW log \in Seq(Told(B))
    PROVE  /\ log \in Seq(Rows)
           /\ Files!Stored(log) \in Known(B)
           /\ \A n \in DOMAIN Files!Stored(log).msgs : \E i \in DOMAIN log : log[i] = Files!Message(Files!Stored(log).msgs[n])
<1>1. log \in Seq(Rows)
  BY ToldKinds
<1> DEFINE I == TranscriptRows(log)
<1>2. /\ Cardinality(I) \in Nat /\ DOMAIN Transcript(log) = 1 .. Cardinality(I)
      /\ \A n \in 1 .. Cardinality(I) :
            /\ Nth(I, n) \in DOMAIN log /\ log[Nth(I, n)].kind = "transcript"
            /\ Transcript(log)[n] = log[Nth(I, n)].by
  BY <1>1, TranscriptType DEF Transcript
<1> HIDE DEF I
<1>3. (\A i \in DOMAIN log : log[i] \in Told(B)) /\ \A c : Files!Message(c) = Message(c)
  BY SameEvents
<1>4. \A n \in DOMAIN Transcript(log) :
        Transcript(log)[n] \in Appenders \cap B /\ \E i \in DOMAIN log : log[i] = Message(Transcript(log)[n])
  BY <1>2, <1>3, ToldKinds
<1>5. Transcript(log) \in Seq(Clients) /\ Transcript(log) \in [1 .. Cardinality(I) -> Appenders \cap B]
  BY <1>1, <1>2, <1>4, TranscriptType
<1>6. Transcript(log) \in Seq(Appenders \cap B)
  BY <1>2, <1>5
<1>7. Stored(log).msgs = Transcript(log)
  BY <1>6 DEF Stored, Replayed, Empty
<1>8. \A k \in Keys : Stored(log).fields[k] \in (Noters \cap B) \cup {Absent}
  <2> TAKE k \in Keys
  <2>1. CASE Writes(log, k) = {}
    BY <2>1, <1>1, StoredFields
  <2>2. CASE Writes(log, k) # {}
    <3>1. /\ Latest(Writes(log, k)) \in Writes(log, k)
          /\ Stored(log).fields[k] = log[Latest(Writes(log, k))].fields[k]
      BY <2>2, <1>1, StoredFields
    <3>2. log[Latest(Writes(log, k))].fields \in [Keys -> (Noters \cap B) \cup {Absent}]
      BY <3>1, <1>3, ToldKinds DEF Writes
    <3> QED BY <3>1, <3>2
  <2> QED BY <2>1, <2>2
<1>9. Stored(log) \in Known(B)
  <2>1. Stored(log) = [msgs |-> Stored(log).msgs, fields |-> [k \in Keys |-> Stored(log).fields[k]]]
    BY DEF Stored, Replayed
  <2>2. [k \in Keys |-> Stored(log).fields[k]] \in [Keys -> (Noters \cap B) \cup {Absent}]
    BY <1>8
  <2> HIDE DEF Stored
  <2> QED BY <2>1, <2>2, <1>6, <1>7 DEF Known
<1>10. Files!Stored(log) = Stored(log) /\ \A c : Files!Message(c) = Message(c)
  BY SameEvents
<1>11. DOMAIN Stored(log).msgs = DOMAIN Transcript(log)
  BY <1>7
<1>12. \A n \in DOMAIN Stored(log).msgs : \E i \in DOMAIN log : log[i] = Files!Message(Stored(log).msgs[n])
  BY <1>4, <1>7, <1>10, <1>11
<1> QED BY <1>1, <1>9, <1>10, <1>12

\* One more line adds its message, or sets the fields it has a value for.
LEMMA StoredOfMore ==
    ASSUME NEW B, NEW log \in Seq(Told(B)), NEW e \in Told(B)
    PROVE  /\ log \o <<e>> \in Seq(Told(B))
           /\ e.kind = "transcript" => Files!Stored(log \o <<e>>).msgs = Append(Files!Stored(log).msgs, e.by)
           /\ e.kind # "transcript" => Files!Stored(log \o <<e>>).msgs = Files!Stored(log).msgs
           /\ \A k \in Keys : e.kind = "state" /\ e.fields[k] # Absent => Files!Stored(log \o <<e>>).fields[k] = e.fields[k]
           /\ \A k \in Keys : e.kind # "state" \/ e.fields[k] = Absent =>
                 Files!Stored(log \o <<e>>).fields[k] = Files!Stored(log).fields[k]
<1>1. log \in Seq(Rows) /\ e \in Rows
  BY StoredKnown, ToldKinds
<1>2. \A q \in Seq(Rows) : Stored(q).msgs = Transcript(q)
  <2> TAKE q \in Seq(Rows)
  <2>1. Transcript(q) \in Seq(Clients)
    BY TranscriptType
  <2> QED BY <2>1 DEF Stored, Replayed, Empty
<1>3. log \o <<e>> \in Seq(Rows) /\ log \o <<e>> \in Seq(Told(B))
  BY <1>1, OneMore
<1>4. Transcript(log \o <<e>>) = IF e.kind = "transcript" THEN Append(Transcript(log), e.by) ELSE Transcript(log)
  BY <1>1, TranscriptOfMore
<1>5. \A k \in Keys : Stored(log \o <<e>>).fields[k] =
        IF e.kind = "state" /\ e.fields[k] # Absent THEN e.fields[k] ELSE Stored(log).fields[k]
  BY <1>1, FieldsOfMore
<1>6. Files!Stored(log) = Stored(log) /\ Files!Stored(log \o <<e>>) = Stored(log \o <<e>>)
  BY SameEvents
<1> QED BY <1>1, <1>2, <1>3, <1>4, <1>5, <1>6

\* A message is replayed at the end, and changes no field.
LEMMA MessageStored ==
    ASSUME NEW B, NEW log \in Seq(Told(B)), NEW x \in Appenders \cap B
    PROVE  /\ log \o <<Files!Message(x)>> \in Seq(Told(B)) /\ Append(log, Files!Message(x)) = log \o <<Files!Message(x)>>
           /\ Files!Stored(log \o <<Files!Message(x)>>).msgs = Append(Files!Stored(log).msgs, x)
           /\ \A k \in Keys : Files!Stored(log \o <<Files!Message(x)>>).fields[k] = Files!Stored(log).fields[k]
<1> DEFINE e == Files!Message(x)
<1>1. e \in Told(B) /\ e.kind = "transcript" /\ e.kind # "state" /\ e.by = x
  BY TellsKinds DEF Files!Message
<1> HIDE DEF e
<1>2. log \o <<e>> \in Seq(Told(B)) /\ Append(log, e) = log \o <<e>>
  BY <1>1, OneMore
<1>3. Files!Stored(log \o <<e>>).msgs = Append(Files!Stored(log).msgs, x)
  BY <1>1, StoredOfMore
<1>4. \A k \in Keys : Files!Stored(log \o <<e>>).fields[k] = Files!Stored(log).fields[k]
  BY <1>1, StoredOfMore
<1> QED BY <1>2, <1>3, <1>4 DEF e

\* A state sets the fields it has.
LEMMA StateStored ==
    ASSUME NEW B, NEW log \in Seq(Told(B)), NEW f \in [Keys -> (Noters \cap B) \cup {Absent}]
    PROVE  /\ log \o <<Files!State(f)>> \in Seq(Told(B)) /\ Append(log, Files!State(f)) = log \o <<Files!State(f)>>
           /\ Files!Stored(log \o <<Files!State(f)>>).msgs = Files!Stored(log).msgs
           /\ \A k \in Keys : f[k] # Absent => Files!Stored(log \o <<Files!State(f)>>).fields[k] = f[k]
           /\ \A k \in Keys : f[k] = Absent => Files!Stored(log \o <<Files!State(f)>>).fields[k] = Files!Stored(log).fields[k]
<1> DEFINE e == Files!State(f)
<1>1. e \in Told(B) /\ e.kind # "transcript" /\ e.kind = "state" /\ e.fields = f
  BY TellsKinds DEF Files!State
<1> HIDE DEF e
<1>2. log \o <<e>> \in Seq(Told(B)) /\ Append(log, e) = log \o <<e>>
  BY <1>1, OneMore
<1>3. Files!Stored(log \o <<e>>).msgs = Files!Stored(log).msgs
  BY <1>1, StoredOfMore
<1>4. \A k \in Keys : f[k] # Absent => Files!Stored(log \o <<e>>).fields[k] = f[k]
  BY <1>1, StoredOfMore
<1>5. \A k \in Keys : f[k] = Absent => Files!Stored(log \o <<e>>).fields[k] = Files!Stored(log).fields[k]
  BY <1>1, StoredOfMore
<1> QED BY <1>2, <1>3, <1>4, <1>5 DEF e

\* A fragment says nothing.
LEMMA BadStored ==
    ASSUME NEW B, NEW log \in Seq(Told(B))
    PROVE  /\ log \o <<Files!Bad>> \in Seq(Told(B)) /\ Append(log, Files!Bad) = log \o <<Files!Bad>>
           /\ Files!Stored(log \o <<Files!Bad>>).msgs = Files!Stored(log).msgs
           /\ \A k \in Keys : Files!Stored(log \o <<Files!Bad>>).fields[k] = Files!Stored(log).fields[k]
<1>1. Files!Bad \in Told(B) /\ Files!Bad.kind # "transcript" /\ Files!Bad.kind # "state"
  BY TellsKinds DEF Files!Bad
<1>2. log \o <<Files!Bad>> \in Seq(Told(B)) /\ Append(log, Files!Bad) = log \o <<Files!Bad>>
  BY <1>1, OneMore
<1>3. Files!Stored(log \o <<Files!Bad>>).msgs = Files!Stored(log).msgs
  BY <1>1, StoredOfMore
<1>4. \A k \in Keys : Files!Stored(log \o <<Files!Bad>>).fields[k] = Files!Stored(log).fields[k]
  BY <1>1, StoredOfMore
<1> QED BY <1>2, <1>3, <1>4

-----------------------------------------------------------------------------
\* The clients of A that the dict m knows of and the file does not.
Missed(A, m, log) == {c \in A : Files!Holding(m, c) /\ ~Files!Holding(Files!Stored(log), c)}

Mirrors(A, m, log) ==
    /\ Files!Stretch(m, Files!Stored(log))
    /\ \A k \in Keys : m.fields[k] \in {Files!Stored(log).fields[k], Absent} \cup Missed(A, m, log)
    /\ \E u \in Clients : Missed(A, m, log) \subseteq {u}

\* Before a line is glued, a dict holds what the file holds.
Exact(A, m, log) == m.msgs = Files!Stored(log).msgs /\ Missed(A, m, log) = {}

\* A file that does not end with a newline ends with a fragment or with the
\* message of a client that died.
Fragment(D, log) == Len(log) > 0 /\ (log[Len(log)] = Files!Bad \/ \E c \in D : log[Len(log)] = Files!Message(c))

\* A message is in a file once.
Once(log) == \A c \in Clients : \A i, j \in DOMAIN log : log[i] = Files!Message(c) /\ log[j] = Files!Message(c) => i = j

\* What it is to hold a client.
LEMMA HoldingIs ==
    ASSUME NEW m, NEW c
    PROVE  Files!Holding(m, c) <=> (\E i \in DOMAIN m.msgs : m.msgs[i] = c) \/ (\E k \in Keys : m.fields[k] = c)
BY DEF Files!Holding

\* A dict holds clients that left something.
LEMMA HoldsKnown ==
    ASSUME Files!JsonlAssumption, NEW B, NEW m \in Known(B), NEW c \in Clients, Files!Holding(m, c)
    PROVE  c \in B /\ (c \in Appenders => c \in {m.msgs[i] : i \in DOMAIN m.msgs})
<1>1. m.msgs \in Seq(Appenders \cap B) /\ m.fields \in [Keys -> (Noters \cap B) \cup {Absent}] /\ Absent \notin Clients
  BY DEF Files!JsonlAssumption, Known
<1>2. \A i \in DOMAIN m.msgs : m.msgs[i] \in Appenders \cap B
  BY <1>1
<1>3. \A k \in Keys : m.fields[k] = c => c \in Noters \cap B
  BY <1>1
<1>4. c \notin Appenders \/ c \notin Noters
  BY DEF Appenders, Noters
<1> QED BY <1>2, <1>3, <1>4 DEF Files!Holding

\* One more message is one more client.
LEMMA RangeOfMore ==
    ASSUME NEW S, NEW q \in Seq(S), NEW x, NEW c
    PROVE  (\E i \in DOMAIN Append(q, x) : Append(q, x)[i] = c) <=> (\E i \in DOMAIN q : q[i] = c) \/ c = x
<1>1. /\ DOMAIN q = 1 .. Len(q) /\ DOMAIN Append(q, x) = 1 .. (Len(q) + 1) /\ Len(q) \in Nat
      /\ Append(q, x)[Len(q) + 1] = x /\ \A i \in 1 .. Len(q) : Append(q, x)[i] = q[i]
  OBVIOUS
<1>2. DOMAIN Append(q, x) = DOMAIN q \cup {Len(q) + 1}
  BY <1>1
<1> QED BY <1>1, <1>2

\* A message more in the dict and in the file.
LEMMA AppendMirrors ==
    ASSUME Files!JsonlAssumption, NEW B \in SUBSET Clients, NEW m \in Known(B), NEW log \in Seq(Told(B)), NEW A \in SUBSET Clients,
           NEW x \in Appenders \ B, Mirrors(A, m, log)
    PROVE  Mirrors(A \cup {x}, [m EXCEPT !.msgs = Append(@, x)], Append(log, Files!Message(x)))
<1> DEFINE n == [m EXCEPT !.msgs = Append(@, x)]
           t == Append(log, Files!Message(x))
<1>0. x \in Clients /\ Files!Message(x).kind = "transcript" /\ Files!Message(x).by = x
  BY DEF Appenders, Files!Message
<1>1. /\ m.msgs \in Seq(Appenders \cap B) /\ m.fields \in [Keys -> (Noters \cap B) \cup {Absent}]
      /\ n.msgs = Append(m.msgs, x) /\ n.fields = m.fields
  BY DEF Known
<1>2. Files!Stored(log) \in Known(B) /\ Files!Stored(log).msgs \in Seq(Appenders \cap B)
  BY StoredKnown DEF Known
<1>3. log \in Seq(Told(B \cup {x})) /\ x \in Appenders \cap (B \cup {x})
  BY ToldGrows
<1>4. Files!Stored(t).msgs = Append(Files!Stored(log).msgs, x) /\ \A k \in Keys : Files!Stored(t).fields[k] = Files!Stored(log).fields[k]
  <2> DEFINE C == B \cup {x}
  <2>1. log \in Seq(Told(C)) /\ x \in Appenders \cap C
    BY <1>3
  <2> HIDE DEF C
  <2>2. /\ Append(log, Files!Message(x)) = log \o <<Files!Message(x)>>
        /\ Files!Stored(log \o <<Files!Message(x)>>).msgs = Append(Files!Stored(log).msgs, x)
        /\ \A k \in Keys : Files!Stored(log \o <<Files!Message(x)>>).fields[k] = Files!Stored(log).fields[k]
    BY <2>1, MessageStored
  <2> QED BY <2>2
<1> HIDE DEF n, t
<1>5. \A c \in Clients : /\ Files!Holding(n, c) <=> (Files!Holding(m, c) \/ c = x)
                         /\ Files!Holding(Files!Stored(t), c) <=> (Files!Holding(Files!Stored(log), c) \/ c = x)
  <2> TAKE c \in Clients
  <2>4. (\E i \in DOMAIN n.msgs : n.msgs[i] = c) <=> (\E i \in DOMAIN m.msgs : m.msgs[i] = c) \/ c = x
    <3>1. m.msgs \in Seq(Appenders \cap B) /\ n.msgs = Append(m.msgs, x)
      BY <1>1
    <3>2. (\E i \in DOMAIN Append(m.msgs, x) : Append(m.msgs, x)[i] = c) <=> (\E i \in DOMAIN m.msgs : m.msgs[i] = c) \/ c = x
      BY <3>1, RangeOfMore
    <3> QED BY <3>1, <3>2, Zenon
  <2>5. (\E i \in DOMAIN Files!Stored(t).msgs : Files!Stored(t).msgs[i] = c)
          <=> (\E i \in DOMAIN Files!Stored(log).msgs : Files!Stored(log).msgs[i] = c) \/ c = x
    <3> DEFINE q == Files!Stored(log).msgs
               w == Files!Stored(t).msgs
    <3>1. q \in Seq(Appenders \cap B) /\ w = Append(q, x)
      BY <1>2, <1>4
    <3> HIDE DEF q, w
    <3>2. (\E i \in DOMAIN Append(q, x) : Append(q, x)[i] = c) <=> (\E i \in DOMAIN q : q[i] = c) \/ c = x
      BY <3>1, RangeOfMore
    <3>3. (\E i \in DOMAIN w : w[i] = c) <=> (\E i \in DOMAIN q : q[i] = c) \/ c = x
      BY <3>1, <3>2, Zenon
    <3> QED BY <3>3 DEF q, w
  <2>6. (\E k \in Keys : Files!Stored(t).fields[k] = c) <=> (\E k \in Keys : Files!Stored(log).fields[k] = c)
    <3>1. \A k \in Keys : Files!Stored(t).fields[k] = Files!Stored(log).fields[k]
      BY <1>4, Zenon
    <3> QED BY <3>1, Zenon
  <2>7. (\E k \in Keys : n.fields[k] = c) <=> (\E k \in Keys : m.fields[k] = c)
    BY <1>1
  <2> QED BY <2>4, <2>5, <2>6, <2>7, HoldingIs
<1>6. Missed(A \cup {x}, n, t) = Missed(A, m, log)
  <2>1. ~Files!Holding(m, x)
    BY <1>0, HoldsKnown
  <2> QED BY <2>1, <1>0, <1>5 DEF Missed
<1>7. Files!Stretch(n, Files!Stored(t))
  <2> DEFINE l == Len(m.msgs)
             k == Len(Files!Stored(log).msgs)
  <2>1. l \in Nat /\ k \in Nat /\ l >= k
    BY <1>1, <1>2 DEF Mirrors, Files!Stretch
  <2>2. PICK i \in 0 .. k :
          /\ \A p \in 1 .. k : Files!Stored(log).msgs[p] = m.msgs[IF p <= i THEN p ELSE p + (l - k)]
          /\ \A p \in i + 1 .. i + (l - k) : ~Files!Holding(Files!Stored(log), m.msgs[p])
    <3>1. DOMAIN Files!Stored(log).msgs = 1 .. k
      BY <1>2
    <3>2. Files!Stretch(m, Files!Stored(log))
      BY DEF Mirrors
    <3> QED BY <3>1, <3>2, Zenon DEF Files!Stretch
  <2>3. /\ Len(n.msgs) = l + 1 /\ Len(Files!Stored(t).msgs) = k + 1 /\ DOMAIN Files!Stored(t).msgs = 1 .. (k + 1)
        /\ n.msgs[l + 1] = x /\ \A p \in 1 .. l : n.msgs[p] = m.msgs[p] /\ m.msgs[p] \in Appenders \cap B
        /\ Files!Stored(t).msgs[k + 1] = x /\ \A p \in 1 .. k : Files!Stored(t).msgs[p] = Files!Stored(log).msgs[p]
    BY <1>1, <1>2, <1>4
  <2> HIDE DEF l, k
  <2>4. (l + 1) - (k + 1) = l - k /\ i \in 0 .. (k + 1) /\ i \in Nat /\ i <= k
    BY <2>1, <2>2
  <2>5. \A p \in 1 .. (k + 1) : Files!Stored(t).msgs[p] = n.msgs[IF p <= i THEN p ELSE p + (l - k)]
    <3> TAKE p \in 1 .. (k + 1)
    <3>1. CASE p = k + 1
      <4>1. ~(p <= i) /\ p + (l - k) = l + 1
        BY <3>1, <2>1, <2>4
      <4> QED BY <4>1, <3>1, <2>3
    <3>2. CASE p \in 1 .. k
      <4>1. (IF p <= i THEN p ELSE p + (l - k)) \in 1 .. l
        BY <3>2, <2>1, <2>4
      <4> QED BY <4>1, <3>2, <2>2, <2>3
    <3> QED BY <3>1, <3>2, <2>1
  <2>6. \A p \in i + 1 .. i + (l - k) : ~Files!Holding(Files!Stored(t), n.msgs[p])
    <3> TAKE p \in i + 1 .. i + (l - k)
    <3>1. p \in 1 .. l
      BY <2>1, <2>4
    <3>2. n.msgs[p] = m.msgs[p] /\ m.msgs[p] \in Clients /\ m.msgs[p] # x
      BY <3>1, <2>3 DEF Appenders
    <3> QED BY <3>2, <2>2, <1>5
  <2>7. Len(n.msgs) - Len(Files!Stored(t).msgs) = l - k /\ Len(n.msgs) >= Len(Files!Stored(t).msgs) /\ i \in 0 .. Len(Files!Stored(t).msgs)
    BY <2>1, <2>3, <2>4
  <2> QED BY <2>3, <2>5, <2>6, <2>7 DEF Files!Stretch
<1>8. \A k \in Keys : n.fields[k] \in {Files!Stored(t).fields[k], Absent} \cup Missed(A \cup {x}, n, t)
  BY <1>1, <1>4, <1>6 DEF Mirrors
<1>9. \E u \in Clients : Missed(A \cup {x}, n, t) \subseteq {u}
  BY <1>6 DEF Mirrors
<1> QED BY <1>7, <1>8, <1>9 DEF Mirrors, n, t

\* What a dict that is read from the file knows.
LEMMA LoadMirrors ==
    ASSUME NEW B, NEW log \in Seq(Told(B)), NEW A \in SUBSET Clients, Clients # {}
    PROVE  Mirrors(A, Files!Stored(log), log) /\ Exact(A, Files!Stored(log), log)
<1> DEFINE m == Files!Stored(log)
<1>1. m \in Known(B)
  BY StoredKnown
<1> HIDE DEF m
<1>2. Files!Stretch(m, m)
  <2>1. m.msgs \in Seq(Appenders \cap B)
    BY <1>1 DEF Known
  <2>2. Len(m.msgs) \in Nat /\ DOMAIN m.msgs = 1 .. Len(m.msgs) /\ Len(m.msgs) - Len(m.msgs) = 0
    BY <2>1
  <2>3. \A p \in DOMAIN m.msgs : p <= Len(m.msgs)
    BY <2>2
  <2>4. Len(m.msgs) \in 0 .. Len(m.msgs) /\ ~ \E p \in Len(m.msgs) + 1 .. Len(m.msgs) + 0 : TRUE
    BY <2>2
  <2> QED BY <2>2, <2>3, <2>4 DEF Files!Stretch
<1>3. Missed(A, m, log) = {}
  BY DEF Missed, m
<1>4. \E u \in Clients : Missed(A, m, log) \subseteq {u}
  BY <1>3
<1> QED BY <1>2, <1>3, <1>4 DEF Mirrors, Exact, m

\* A client that has left nothing ends.
LEMMA OthersEnd ==
    ASSUME Files!JsonlAssumption, NEW B \in SUBSET Clients, NEW m \in Known(B), NEW log,
           NEW A \in SUBSET Clients, NEW C \in SUBSET Clients, C \cap B \subseteq A, A \subseteq C
    PROVE  /\ Missed(C, m, log) = Missed(A, m, log)
           /\ Mirrors(A, m, log) => Mirrors(C, m, log)
           /\ Exact(A, m, log) => Exact(C, m, log)
<1>1. Missed(C, m, log) = Missed(A, m, log)
  BY HoldsKnown DEF Missed
<1> QED BY <1>1 DEF Mirrors, Exact

\* A state is changed, and written.
LEMMA StateMirrors ==
    ASSUME Files!JsonlAssumption, NEW B \in SUBSET Clients, NEW m \in Known(B), NEW log \in Seq(Told(B)),
           NEW A \in SUBSET Clients, NEW x \in Clients \ B, Mirrors(A, m, log),
           NEW f \in [Keys -> (Noters \cap (B \cup {x})) \cup {Absent}]
    PROVE  Mirrors(A \cup {x}, [m EXCEPT !.fields = f], Append(log, Files!State(f)))
<1> DEFINE n == [m EXCEPT !.fields = f]
           C == B \cup {x}
           t == Append(log, Files!State(f))
           D == A \cup {x}
<1>1. /\ n.msgs = m.msgs /\ n.fields = f /\ m.fields \in [Keys -> (Noters \cap B) \cup {Absent}]
      /\ m.msgs \in Seq(Appenders \cap B)
  BY DEF Known
<1>2. log \in Seq(Told(C)) /\ f \in [Keys -> (Noters \cap C) \cup {Absent}]
  BY ToldGrows
<1> HIDE DEF n, C, D
<1>3. t = log \o <<Files!State(f)>> /\ t \in Seq(Told(C))
  BY <1>2, StateStored
<1>4. /\ Files!Stored(t).msgs = Files!Stored(log).msgs
      /\ \A k \in Keys : f[k] # Absent => Files!Stored(t).fields[k] = f[k]
      /\ \A k \in Keys : f[k] = Absent => Files!Stored(t).fields[k] = Files!Stored(log).fields[k]
  BY <1>2, <1>3, StateStored
<1> HIDE DEF t
<1>5. Files!Stored(t).fields \in [Keys -> Clients \cup {Absent}] /\ Files!Stored(log) \in Known(B)
  <2>1. Files!Stored(t) \in Known(C) /\ Files!Stored(log) \in Known(B)
    BY <1>3, StoredKnown
  <2>2. Files!Stored(t).fields \in [Keys -> (Noters \cap C) \cup {Absent}]
    BY <2>1 DEF Known
  <2> QED BY <2>1, <2>2 DEF Noters
<1>6. \A c \in Clients : Files!Holding(n, c) /\ ~Files!Holding(Files!Stored(t), c) => Files!Holding(m, c) /\ ~Files!Holding(Files!Stored(log), c)
  <2> TAKE c \in Clients
  <2> HAVE Files!Holding(n, c) /\ ~Files!Holding(Files!Stored(t), c)
  <2>1. Absent \notin Clients
    BY DEF Files!JsonlAssumption
  <2>2. \A k \in Keys : f[k] # c
    BY <2>1, <1>4, HoldingIs
  <2>3. \E i \in DOMAIN m.msgs : m.msgs[i] = c
    BY <2>2, <1>1, HoldingIs
  <2>4. Files!Holding(m, c)
    BY <2>3, HoldingIs
  <2>5. c \in Appenders
    BY <2>3, <1>1
  <2>6. ~(\E i \in DOMAIN Files!Stored(log).msgs : Files!Stored(log).msgs[i] = c)
    <3>1. Files!Stored(t).msgs = Files!Stored(log).msgs
      BY <1>4
    <3>2. ~(\E i \in DOMAIN Files!Stored(t).msgs : Files!Stored(t).msgs[i] = c)
      BY HoldingIs
    <3> QED BY <3>1, <3>2, Zenon
  <2>7. ~Files!Holding(Files!Stored(log), c)
    BY <2>5, <2>6, <1>5, HoldsKnown
  <2> QED BY <2>4, <2>7
<1>7. Missed(D, n, t) \subseteq Missed(A, m, log)
  <2>1. ~Files!Holding(m, x)
    BY HoldsKnown
  <2> QED BY <1>6, <2>1 DEF Missed, D
<1>8. Files!Stretch(n, Files!Stored(t))
  <2>1. Files!Stretch(m, Files!Stored(log)) /\ n.msgs = m.msgs /\ Files!Stored(t).msgs = Files!Stored(log).msgs
    BY <1>1, <1>4 DEF Mirrors
  <2>2. \A c \in Clients : c \in Appenders /\ Files!Holding(Files!Stored(t), c) => Files!Holding(Files!Stored(log), c)
    <3> TAKE c \in Clients
    <3> HAVE c \in Appenders /\ Files!Holding(Files!Stored(t), c)
    <3>1. CASE \E i \in DOMAIN Files!Stored(t).msgs : Files!Stored(t).msgs[i] = c
      <4>1. \E i \in DOMAIN Files!Stored(log).msgs : Files!Stored(log).msgs[i] = c
        BY <2>1, <3>1, Zenon
      <4> QED BY <4>1, HoldingIs
    <3>2. CASE \E k \in Keys : Files!Stored(t).fields[k] = c
      <4>1. PICK k \in Keys : Files!Stored(t).fields[k] = c
        BY <3>2
      <4>2. f[k] # c
        <5>1. c \notin Noters /\ c # Absent
          BY DEF Appenders, Noters, Files!JsonlAssumption
        <5> QED BY <5>1
      <4>3. Files!Stored(log).fields[k] = c
        BY <4>1, <4>2, <1>4
      <4> QED BY <4>3, HoldingIs
    <3> QED BY <3>1, <3>2, HoldingIs
  <2>3. \A p \in DOMAIN m.msgs : m.msgs[p] \in Appenders /\ m.msgs[p] \in Clients
    BY <1>1 DEF Appenders
  <2> DEFINE l == Len(m.msgs)
             k == Len(Files!Stored(log).msgs)
  <2>4. DOMAIN m.msgs = 1 .. l /\ l \in Nat /\ k \in Nat
    BY <1>1, <1>5 DEF Known
  <2>5. l >= k /\ \E i \in 0 .. k :
          /\ \A p \in DOMAIN Files!Stored(log).msgs : Files!Stored(log).msgs[p] = m.msgs[IF p <= i THEN p ELSE p + (l - k)]
          /\ \A p \in i + 1 .. i + (l - k) : ~Files!Holding(Files!Stored(log), m.msgs[p])
    BY <2>1, Zenon DEF Files!Stretch
  <2>6. PICK i \in 0 .. k :
          /\ \A p \in DOMAIN Files!Stored(log).msgs : Files!Stored(log).msgs[p] = m.msgs[IF p <= i THEN p ELSE p + (l - k)]
          /\ \A p \in i + 1 .. i + (l - k) : ~Files!Holding(Files!Stored(log), m.msgs[p])
    BY <2>5
  <2> HIDE DEF l, k
  <2>7. \A p \in i + 1 .. i + (l - k) : p \in 1 .. l
    <3>1. l >= k /\ i \in 0 .. k
      BY <2>5
    <3> QED BY <2>4, <3>1
  <2>8. \A p \in i + 1 .. i + (l - k) : ~Files!Holding(Files!Stored(t), m.msgs[p])
    BY <2>2, <2>3, <2>4, <2>6, <2>7
  <2>9. /\ Len(n.msgs) = l /\ Len(Files!Stored(t).msgs) = k
        /\ \A p \in DOMAIN Files!Stored(t).msgs : Files!Stored(t).msgs[p] = n.msgs[IF p <= i THEN p ELSE p + (l - k)]
        /\ \A p \in i + 1 .. i + (l - k) : ~Files!Holding(Files!Stored(t), n.msgs[p])
    <3>1. Len(n.msgs) = l /\ Len(Files!Stored(t).msgs) = k
      BY <2>1, Zenon DEF l, k
    <3>2. \A p \in DOMAIN Files!Stored(t).msgs : Files!Stored(t).msgs[p] = n.msgs[IF p <= i THEN p ELSE p + (l - k)]
      BY <2>1, <2>6, Zenon
    <3>3. \A p \in i + 1 .. i + (l - k) : ~Files!Holding(Files!Stored(t), n.msgs[p])
      BY <2>1, <2>8, Zenon
    <3> QED BY <3>1, <3>2, <3>3
  <2> QED BY <2>5, <2>9, Zenon DEF Files!Stretch
<1>9. \A k \in Keys : n.fields[k] \in {Files!Stored(t).fields[k], Absent} \cup Missed(D, n, t)
  BY <1>1, <1>4
<1>10. \E u \in Clients : Missed(D, n, t) \subseteq {u}
  BY <1>7 DEF Mirrors
<1> QED BY <1>8, <1>9, <1>10 DEF Mirrors, n, D, t

\* A field is removed and nothing is left to write.
LEMMA DropMirrors ==
    ASSUME Files!JsonlAssumption, NEW B \in SUBSET Clients, NEW m \in Known(B), NEW log \in Seq(Told(B)),
           NEW A \in SUBSET Clients, NEW x \in Clients \ B, Mirrors(A, m, log)
    PROVE  /\ Mirrors(A \cup {x}, [m EXCEPT !.fields = Files!Empty.fields], log)
           /\ Exact(A, m, log) => Exact(A \cup {x}, [m EXCEPT !.fields = Files!Empty.fields], log)
<1> DEFINE n == [m EXCEPT !.fields = Files!Empty.fields]
           D == A \cup {x}
<1>1. n.msgs = m.msgs /\ (\A k \in Keys : n.fields[k] = Absent) /\ Absent \notin Clients
  BY DEF Known, Files!Empty, Files!JsonlAssumption
<1> HIDE DEF n, D
<1>2. \A c \in Clients : Files!Holding(n, c) => Files!Holding(m, c)
  <2> TAKE c \in Clients
  <2> HAVE Files!Holding(n, c)
  <2>1. \E i \in DOMAIN n.msgs : n.msgs[i] = c
    BY <1>1, HoldingIs
  <2> QED BY <2>1, <1>1, HoldingIs
<1>3. Missed(D, n, log) \subseteq Missed(A, m, log)
  <2>1. ~Files!Holding(m, x)
    BY HoldsKnown
  <2> QED BY <1>2, <2>1 DEF Missed, D
<1>4. Files!Stretch(n, Files!Stored(log))
  <2>1. Files!Stretch(m, Files!Stored(log))
    BY DEF Mirrors
  <2> QED BY <2>1, <1>1, Zenon DEF Files!Stretch
<1>5. Mirrors(D, n, log)
  BY <1>1, <1>3, <1>4 DEF Mirrors
<1>6. Exact(A, m, log) => Exact(D, n, log)
  BY <1>1, <1>3 DEF Exact
<1> QED BY <1>5, <1>6 DEF n, D

\* What gluing a line does to a file that ends without a newline: it loses its
\* last line, which no acknowledged client wrote.
LEMMA GluedStored ==
    ASSUME Files!JsonlAssumption, NEW B \in SUBSET Clients, NEW log \in Seq(Told(B)), NEW D \in SUBSET Clients,
           Fragment(D, log), Once(log)
    PROVE  LET t == Files!Glued(log)
           IN  /\ t \in Seq(Told(B)) /\ Len(t) = Len(log) /\ t[Len(t)] = Files!Bad /\ Len(log) \in Nat
               /\ \A i \in 1 .. Len(log) : i # Len(log) => t[i] = log[i]
               /\ \A k \in Keys : Files!Stored(t).fields[k] = Files!Stored(log).fields[k]
               /\ \/ Files!Stored(log).msgs = Files!Stored(t).msgs
                  \/ \E d \in D : /\ Files!Stored(log).msgs = Append(Files!Stored(t).msgs, d) /\ d \in Appenders \cap B
                                  /\ ~Files!Holding(Files!Stored(t), d)
<1> DEFINE t == Files!Glued(log)
           q == [i \in 1 .. (Len(log) - 1) |-> log[i]]
           e == log[Len(log)]
<1>0. Len(log) \in Nat /\ Len(log) > 0 /\ DOMAIN log = 1 .. Len(log) /\ \A i \in 1 .. Len(log) : log[i] \in Told(B)
  BY DEF Fragment
<1>1. q \in Seq(Told(B)) /\ e \in Told(B) /\ Files!Bad \in Told(B) /\ Len(q) = Len(log) - 1
  <2>1. \A i \in 1 .. (Len(log) - 1) : log[i] \in Told(B)
    BY <1>0
  <2>2. Len(log) - 1 \in Nat /\ Len(log) \in 1 .. Len(log)
    BY <1>0
  <2>3. q \in [1 .. (Len(log) - 1) -> Told(B)]
    BY <2>1
  <2> QED BY <2>2, <2>3, <1>0, TellsKinds
<1>2. t \in Seq(Told(B)) /\ Len(t) = Len(log) /\ DOMAIN t = 1 .. Len(log) /\ t[Len(log)] = Files!Bad
  BY <1>0, <1>1 DEF Files!Glued
<1>3. \A i \in 1 .. Len(log) : i # Len(log) => t[i] = log[i]
  BY <1>0 DEF Files!Glued
<1>4. \A i \in 1 .. Len(log) : i # Len(log) => i \in 1 .. Len(q) /\ q[i] = log[i]
  <2>1. \A i \in 1 .. Len(log) : i # Len(log) => i \in 1 .. (Len(log) - 1)
    <3>1. Len(log) \in Nat
      BY <1>0
    <3> QED BY <3>1
  <2> QED BY <2>1, <1>1
<1>5. log[Len(log)] = e /\ Len(log) = Len(q) + 1 /\ Len(q) \in Nat
  BY <1>0, <1>1
<1> HIDE DEF t, q, e
<1>6. log = q \o <<e>>
  <2>1. /\ q \o <<e>> \in Seq(Told(B)) /\ DOMAIN (q \o <<e>>) = 1 .. (Len(q) + 1)
        /\ \A i \in 1 .. Len(q) : (q \o <<e>>)[i] = q[i]
        /\ (q \o <<e>>)[Len(q) + 1] = e
    BY <1>1, OneMore
  <2>2. \A i \in 1 .. Len(log) : log[i] = (q \o <<e>>)[i]
    BY <2>1, <1>4, <1>5
  <2>3. Len(q \o <<e>>) = Len(log)
    BY <2>1, <1>5
  <2> QED BY <2>1, <2>2, <2>3, SeqEqual
<1>7. t = q \o <<Files!Bad>>
  <2>1. /\ q \o <<Files!Bad>> \in Seq(Told(B)) /\ DOMAIN (q \o <<Files!Bad>>) = 1 .. (Len(q) + 1)
        /\ \A i \in 1 .. Len(q) : (q \o <<Files!Bad>>)[i] = q[i]
        /\ (q \o <<Files!Bad>>)[Len(q) + 1] = Files!Bad
    BY <1>1, OneMore
  <2>2. \A i \in 1 .. Len(t) : t[i] = (q \o <<Files!Bad>>)[i]
    BY <2>1, <1>2, <1>3, <1>4, <1>5
  <2>3. Len(q \o <<Files!Bad>>) = Len(t)
    BY <2>1, <1>2, <1>5
  <2> QED BY <2>1, <2>2, <2>3, <1>2, SeqEqual
<1>9. /\ Files!Stored(t).msgs = Files!Stored(q).msgs
      /\ \A k \in Keys : Files!Stored(t).fields[k] = Files!Stored(q).fields[k]
  BY <1>1, <1>7, BadStored
<1>10. CASE e = Files!Bad
  <2>1. Files!Stored(log).msgs = Files!Stored(q).msgs /\ \A k \in Keys : Files!Stored(log).fields[k] = Files!Stored(q).fields[k]
    BY <1>1, <1>6, <1>10, BadStored
  <2> QED BY <2>1, <1>0, <1>2, <1>3, <1>9 DEF t
<1>11. CASE \E d \in D : e = Files!Message(d)
  <2>1. PICK d \in D : e = Files!Message(d)
    BY <1>11
  <2>2. e.kind = "transcript" /\ e.by = d
    BY <2>1 DEF Files!Message
  <2>3. d \in Appenders \cap B
    BY <2>2, <1>1, ToldKinds
  <2>4. Files!Stored(log).msgs = Append(Files!Stored(t).msgs, d) /\ \A k \in Keys : Files!Stored(t).fields[k] = Files!Stored(log).fields[k]
    <3>1. Files!Stored(log).msgs = Append(Files!Stored(q).msgs, d) /\ \A k \in Keys : Files!Stored(log).fields[k] = Files!Stored(q).fields[k]
      BY <2>1, <2>3, <1>1, <1>6, MessageStored
    <3> QED BY <3>1, <1>9
  <2>5. ~Files!Holding(Files!Stored(t), d)
    <3> SUFFICES ASSUME Files!Holding(Files!Stored(t), d) PROVE FALSE
      OBVIOUS
    <3>1. Files!Stored(t) \in Known(B) /\ \A n \in DOMAIN Files!Stored(t).msgs : \E i \in DOMAIN t : t[i] = Files!Message(Files!Stored(t).msgs[n])
      BY <1>2, StoredKnown
    <3>2. d \in Clients /\ d \in {Files!Stored(t).msgs[i] : i \in DOMAIN Files!Stored(t).msgs}
      BY <3>1, <2>3, HoldsKnown
    <3>3. PICK i \in 1 .. Len(log) : t[i] = Files!Message(d)
      BY <3>1, <3>2, <1>2
    <3>4. i # Len(log)
      <4>1. Files!Bad.kind # Files!Message(d).kind
        BY DEF Files!Bad, Files!Message
      <4> QED BY <4>1, <3>3, <1>2
    <3>5. log[i] = Files!Message(d) /\ log[Len(log)] = Files!Message(d) /\ Len(log) \in DOMAIN log /\ i \in DOMAIN log
      BY <3>3, <3>4, <2>1, <1>0, <1>3, <1>5
    <3> QED BY <3>2, <3>4, <3>5 DEF Once
  <2> QED BY <2>3, <2>4, <2>5, <1>0, <1>2, <1>3 DEF t
<1> QED BY <1>10, <1>11 DEF Fragment, e

\* A change is glued to a file without a newline: the dict keeps what it held
\* and the change, the file loses its last line and does not get the change.
LEMMA GluedMirrors ==
    ASSUME Files!JsonlAssumption, NEW B \in SUBSET Clients, NEW m \in Known(B), NEW log \in Seq(Told(B)),
           NEW A \in SUBSET Clients, NEW D \in SUBSET Clients, A \cap D = {}, NEW x \in Clients \ B,
           Mirrors(A, m, log), Exact(A, m, log), Fragment(D, log), Once(log),
           NEW n, n.msgs = m.msgs \/ n.msgs = Append(m.msgs, x),
           \A k \in Keys : n.fields[k] \in {m.fields[k], x, Absent}
    PROVE  Mirrors(A \cup {x}, n, Files!Glued(log))
<1> DEFINE t == Files!Glued(log)
           all == Files!Stored(log).msgs
           kept == Files!Stored(t).msgs
           C == A \cup {x}
<1>1. /\ t \in Seq(Told(B))
      /\ \A k \in Keys : Files!Stored(t).fields[k] = Files!Stored(log).fields[k]
      /\ all = kept \/ \E d \in D : all = Append(kept, d) /\ ~Files!Holding(Files!Stored(t), d)
  BY GluedStored
<1> HIDE DEF t
<1>2. Files!Stored(t) \in Known(B) /\ Files!Stored(log) \in Known(B) /\ kept \in Seq(Appenders \cap B) /\ all \in Seq(Appenders \cap B)
  <2>1. Files!Stored(t) \in Known(B) /\ Files!Stored(log) \in Known(B)
    BY <1>1, StoredKnown
  <2> QED BY <2>1 DEF Known
<1>3. m.msgs = all /\ Missed(A, m, log) = {}
  BY DEF Exact
<1>4. ~Files!Holding(Files!Stored(t), x) /\ ~Files!Holding(m, x)
  BY <1>2, HoldsKnown
<1>5. \A c \in Clients : Files!Holding(Files!Stored(log), c) => Files!Holding(Files!Stored(t), c) \/ c \in D
  <2> TAKE c \in Clients
  <2> HAVE Files!Holding(Files!Stored(log), c)
  <2>1. CASE \E k \in Keys : Files!Stored(log).fields[k] = c
    <3>1. \E k \in Keys : Files!Stored(t).fields[k] = c
      BY <2>1, <1>1
    <3> QED BY <3>1, HoldingIs
  <2>2. CASE \E i \in DOMAIN all : all[i] = c
    <3>1. CASE all = kept
      BY <2>2, <3>1, HoldingIs
    <3>2. CASE \E d \in D : all = Append(kept, d)
      <4>1. PICK d \in D : all = Append(kept, d)
        BY <3>2
      <4>2. \E i \in DOMAIN Append(kept, d) : Append(kept, d)[i] = c
        BY <2>2, <4>1, Zenon
      <4>3. kept \in Seq(Appenders \cap B)
        BY <1>2
      <4> HIDE DEF kept
      <4>4. (\E i \in DOMAIN kept : kept[i] = c) \/ c = d
        BY <4>2, <4>3, RangeOfMore
      <4> QED BY <4>4, HoldingIs DEF kept
    <3> QED BY <3>1, <3>2, <1>1
  <2> QED BY <2>1, <2>2, HoldingIs
<1> HIDE DEF all, kept
<1>6. \A c \in Clients : Files!Holding(n, c) => Files!Holding(m, c) \/ c = x
  <2> TAKE c \in Clients
  <2> HAVE Files!Holding(n, c)
  <2>1. CASE \E k \in Keys : n.fields[k] = c
    <3>1. PICK k \in Keys : n.fields[k] = c
      BY <2>1
    <3>2. c # Absent
      BY DEF Files!JsonlAssumption
    <3>3. c = m.fields[k] \/ c = x
      BY <3>1, <3>2
    <3> QED BY <3>3, HoldingIs
  <2>2. CASE \E i \in DOMAIN n.msgs : n.msgs[i] = c
    <3>1. CASE n.msgs = m.msgs
      <4>1. \E i \in DOMAIN m.msgs : m.msgs[i] = c
        BY <2>2, <3>1, Zenon
      <4> QED BY <4>1, HoldingIs
    <3>2. CASE n.msgs = Append(m.msgs, x)
      <4>1. \E i \in DOMAIN Append(m.msgs, x) : Append(m.msgs, x)[i] = c
        BY <2>2, <3>2, Zenon
      <4>2. m.msgs \in Seq(Appenders \cap B)
        BY DEF Known
      <4>3. (\E i \in DOMAIN m.msgs : m.msgs[i] = c) \/ c = x
        BY <4>1, <4>2, RangeOfMore
      <4> QED BY <4>3, HoldingIs
    <3> QED BY <3>1, <3>2
  <2> QED BY <2>1, <2>2, HoldingIs
<1>7. Missed(C, n, t) \subseteq {x}
  <2> SUFFICES ASSUME NEW c \in A, Files!Holding(n, c), ~Files!Holding(Files!Stored(t), c), c # x PROVE FALSE
    BY DEF Missed
  <2>1. c \in Clients /\ Files!Holding(m, c)
    BY <1>6
  <2>2. Files!Holding(Files!Stored(log), c)
    BY <2>1, <1>3 DEF Missed
  <2> QED BY <2>1, <2>2, <1>5
<1>8. \A k \in Keys : n.fields[k] \in {Files!Stored(t).fields[k], Absent} \cup Missed(C, n, t)
  <2> TAKE k \in Keys
  <2>1. m.fields[k] \in {Files!Stored(log).fields[k], Absent}
    BY <1>3 DEF Mirrors
  <2>2. CASE n.fields[k] = x
    <3>1. Files!Holding(n, x)
      BY <2>2, HoldingIs
    <3>2. x \in Missed(C, n, t)
      BY <3>1, <1>4 DEF Missed
    <3> QED BY <3>2, <2>2
  <2>3. CASE n.fields[k] # x
    <3>1. n.fields[k] = m.fields[k] \/ n.fields[k] = Absent
      BY <2>3
    <3> QED BY <3>1, <2>1, <1>1
  <2> QED BY <2>2, <2>3
<1>9. Files!Stretch(n, Files!Stored(t))
  <2> DEFINE k == Len(kept)
             l == Len(n.msgs)
  <2>1. k \in Nat /\ DOMAIN kept = 1 .. k
    BY <1>2
  <2>2. all = kept \/ \E d \in D : all = Append(kept, d) /\ ~Files!Holding(Files!Stored(t), d)
    BY <1>1 DEF all, kept
  <2>3. /\ Len(all) \in Nat /\ Len(all) >= k /\ \A p \in 1 .. k : all[p] = kept[p]
        /\ \A p \in k + 1 .. Len(all) : ~Files!Holding(Files!Stored(t), all[p])
    <3>1. CASE all = kept
      BY <3>1, <2>1
    <3>2. CASE \E d \in D : all = Append(kept, d) /\ ~Files!Holding(Files!Stored(t), d)
      <4>1. PICK d \in D : all = Append(kept, d) /\ ~Files!Holding(Files!Stored(t), d)
        BY <3>2
      <4>2. Len(all) = k + 1 /\ all[k + 1] = d /\ \A p \in 1 .. k : all[p] = kept[p]
        BY <4>1, <1>2, <2>1
      <4>3. k + 1 .. Len(all) = {k + 1}
        BY <4>2, <2>1
      <4> QED BY <4>1, <4>2, <4>3, <2>1
    <3> QED BY <3>1, <3>2, <2>2
  <2>4. /\ l \in Nat /\ l >= k /\ \A p \in 1 .. k : n.msgs[p] = kept[p]
        /\ \A p \in k + 1 .. l : ~Files!Holding(Files!Stored(t), n.msgs[p])
    <3>1. CASE n.msgs = m.msgs
      <4>1. n.msgs = all
        BY <3>1, <1>3
      <4>2. Len(n.msgs) = Len(all) /\ \A p \in 1 .. Len(all) : n.msgs[p] = all[p]
        BY <4>1
      <4> QED BY <4>1, <2>3, Zenon
    <3>2. CASE n.msgs = Append(m.msgs, x)
      <4>1. n.msgs = Append(all, x)
        BY <3>2, <1>3
      <4>2. l = Len(all) + 1 /\ n.msgs[Len(all) + 1] = x /\ \A p \in 1 .. Len(all) : n.msgs[p] = all[p]
        BY <4>1, <1>2
      <4> HIDE DEF l, k
      <4>3. \A p \in 1 .. k : n.msgs[p] = kept[p]
        BY <4>2, <2>1, <2>3
      <4>4. \A p \in k + 1 .. l : p = Len(all) + 1 \/ (p \in k + 1 .. Len(all) /\ p \in 1 .. Len(all))
        BY <4>2, <2>1, <2>3
      <4>5. \A p \in k + 1 .. l : ~Files!Holding(Files!Stored(t), n.msgs[p])
        BY <4>2, <4>4, <2>3, <1>4
      <4>6. l \in Nat /\ l >= k
        BY <4>2, <2>1, <2>3
      <4> QED BY <4>3, <4>5, <4>6
    <3> QED BY <3>1, <3>2
  <2> HIDE DEF k, l
  <2>5. k + (l - k) = l /\ k \in 0 .. k /\ \A p \in 1 .. k : p <= k
    BY <2>1, <2>4
  <2>6. \A p \in DOMAIN kept : kept[p] = n.msgs[IF p <= k THEN p ELSE p + (l - k)]
    BY <2>1, <2>4, <2>5
  <2>7. \A p \in k + 1 .. k + (l - k) : ~Files!Holding(Files!Stored(t), n.msgs[p])
    BY <2>4, <2>5
  <2> QED BY <2>4, <2>5, <2>6, <2>7 DEF Files!Stretch, k, l, kept
<1>10. \E u \in Clients : Missed(C, n, t) \subseteq {u}
  BY <1>7
<1> QED BY <1>8, <1>9, <1>10 DEF Mirrors, C, t

-----------------------------------------------------------------------------
LogOf(f) == IF f = None THEN <<>> ELSE f

\* A session whose file is f, without its last newline when r is 1, and whose
\* dict is m: the clients of B have left something in it, those of A
\* successfully, those of D in a write that they did not survive.
Sound(B, A, D, f, r, m) ==
    /\ f # None => f \in Seq(Told(B))
    /\ Once(LogOf(f))
    /\ r = 1 => Fragment(D, LogOf(f))
    /\ m # None => /\ m \in Known(B)
                   /\ Mirrors(A, m, LogOf(f))
                   /\ r = 1 => Exact(A, m, LogOf(f))

\* What a line makes of a session's file, and a change of its dict.
FileLine(f, r, e) == IF r = 1 THEN Files!Glued(LogOf(f)) ELSE Append(LogOf(f), e)
WithMessage(m, x) == [m EXCEPT !.msgs = Append(@, x)]
WithFields(m, h) == [m EXCEPT !.fields = h]

\* None is no file and no dict.
NoneApart == None \notin Seq(Files!Lines) /\ None \notin Files!Contents

\* The lines of a sound session.
LEMMA LinesOf ==
    ASSUME NEW B, NEW f, f # None => f \in Seq(Told(B))
    PROVE  LogOf(f) \in Seq(Told(B))
BY DEF LogOf

\* What is left by clients is neither no file nor no dict.
LEMMA NotNone ==
    ASSUME NoneApart, NEW B \in SUBSET Clients
    PROVE  /\ \A log \in Seq(Told(B)) : log # None /\ LogOf(log) = log
           /\ \A m \in Known(B) : m # None
<1>0. \A f : f \in [Keys -> (Noters \cap B) \cup {Absent}] => f \in [Keys -> Clients \cup {Absent}]
  BY DEF Noters
<1>1. Told(B) \subseteq Files!Lines
  BY <1>0 DEF Told, Files!Lines
<1>2. \A log \in Seq(Told(B)) : log \in Seq(Files!Lines)
  BY <1>1
<1>3. \A q \in Seq(Appenders \cap B) : q \in Seq(Clients)
  BY DEF Appenders
<1>4. Known(B) \subseteq Files!Contents
  BY <1>0, <1>3 DEF Known, Files!Contents
<1> QED BY <1>2, <1>4 DEF NoneApart, LogOf

\* A client that has left nothing in a session ends somewhere.
LEMMA SoundGrows ==
    ASSUME Files!JsonlAssumption, NEW B \in SUBSET Clients, NEW A \in SUBSET Clients, NEW D, NEW f, NEW r, NEW m,
           NEW C \in SUBSET Clients, B \subseteq C,
           NEW G \in SUBSET Clients, A \subseteq G, G \cap B \subseteq A,
           NEW E, D \subseteq E, Sound(B, A, D, f, r, m)
    PROVE  Sound(C, G, E, f, r, m)
<1>1. f # None => f \in Seq(Told(C))
  BY ToldGrows DEF Sound
<1>2. r = 1 => Fragment(E, LogOf(f))
  BY DEF Sound, Fragment
<1>3. m # None => m \in Known(C)
  BY ToldGrows DEF Sound
<1>4. m # None => Mirrors(G, m, LogOf(f)) /\ (r = 1 => Exact(G, m, LogOf(f)))
  BY OthersEnd DEF Sound
<1> QED BY <1>1, <1>2, <1>3, <1>4 DEF Sound

\* A session that is not in memory is read from its file.
LEMMA SoundLoaded ==
    ASSUME Files!JsonlAssumption, NEW B \in SUBSET Clients, NEW A \in SUBSET Clients, NEW D, NEW f, NEW r, NEW m,
           Sound(B, A, D, f, r, m), Clients # {}
    PROVE  /\ m = None => Sound(B, A, D, f, r, Files!Stored(LogOf(f))) /\ Files!Stored(LogOf(f)) \in Known(B)
           /\ m # None => m \in Known(B)
<1>1. LogOf(f) \in Seq(Told(B))
  BY LinesOf DEF Sound
<1>2. Mirrors(A, Files!Stored(LogOf(f)), LogOf(f)) /\ Exact(A, Files!Stored(LogOf(f)), LogOf(f))
  BY <1>1, LoadMirrors
<1>3. Files!Stored(LogOf(f)) \in Known(B)
  BY <1>1, StoredKnown
<1> QED BY <1>2, <1>3 DEF Sound

\* A line is in a file once when it is written for the first time.
LEMMA OnceMore ==
    ASSUME NEW B \in SUBSET Clients, NEW log \in Seq(Told(B)), Once(log),
           NEW e, \A c \in B : e # Files!Message(c)
    PROVE  Once(Append(log, e))
<1> SUFFICES ASSUME NEW c \in Clients, NEW i \in DOMAIN Append(log, e), NEW j \in DOMAIN Append(log, e),
                    Append(log, e)[i] = Files!Message(c), Append(log, e)[j] = Files!Message(c)
             PROVE  i = j
  BY DEF Once
<1>1. /\ DOMAIN log = 1 .. Len(log) /\ DOMAIN Append(log, e) = 1 .. (Len(log) + 1) /\ Len(log) \in Nat
      /\ Append(log, e)[Len(log) + 1] = e /\ \A p \in 1 .. Len(log) : Append(log, e)[p] = log[p] /\ log[p] \in Told(B)
  OBVIOUS
<1>2. \A p \in 1 .. Len(log) : log[p] = Files!Message(c) => c \in B
  <2> TAKE p \in 1 .. Len(log)
  <2> HAVE log[p] = Files!Message(c)
  <2>1. log[p] \in Told(B) /\ log[p].kind = "transcript" /\ log[p].by = c
    BY <1>1 DEF Files!Message
  <2> QED BY <2>1, ToldKinds
<1>3. CASE e = Files!Message(c)
  <2>1. \A p \in 1 .. Len(log) : log[p] # Files!Message(c)
    BY <1>2, <1>3
  <2> QED BY <2>1, <1>1
<1>4. CASE e # Files!Message(c)
  <2>1. i \in DOMAIN log /\ j \in DOMAIN log /\ log[i] = Files!Message(c) /\ log[j] = Files!Message(c)
    BY <1>1, <1>4
  <2> QED BY <2>1 DEF Once
<1> QED BY <1>3, <1>4

\* Gluing repeats no message.
LEMMA OnceGlued ==
    ASSUME Files!JsonlAssumption, NEW B \in SUBSET Clients, NEW log \in Seq(Told(B)), NEW D \in SUBSET Clients,
           Fragment(D, log), Once(log)
    PROVE  Once(Files!Glued(log))
<1> SUFFICES ASSUME NEW c \in Clients, NEW i \in DOMAIN Files!Glued(log), NEW j \in DOMAIN Files!Glued(log),
                    Files!Glued(log)[i] = Files!Message(c), Files!Glued(log)[j] = Files!Message(c)
             PROVE  i = j
  BY DEF Once
<1>1. /\ Len(log) \in Nat /\ DOMAIN log = 1 .. Len(log) /\ DOMAIN Files!Glued(log) = 1 .. Len(log) /\ Len(log) > 0
      /\ Files!Glued(log)[Len(log)] = Files!Bad /\ \A p \in 1 .. Len(log) : p # Len(log) => Files!Glued(log)[p] = log[p]
  BY DEF Files!Glued, Fragment
<1>2. Files!Bad # Files!Message(c)
  <2>1. Files!Bad.kind # Files!Message(c).kind
    BY DEF Files!Bad, Files!Message
  <2> QED BY <2>1
<1>3. i \in DOMAIN log /\ j \in DOMAIN log /\ log[i] = Files!Message(c) /\ log[j] = Files!Message(c)
  BY <1>1, <1>2
<1> QED BY <1>3 DEF Once

\* A message is appended to a session that is in memory.
LEMMA SoundAppend ==
    ASSUME Files!JsonlAssumption, NoneApart, NEW B \in SUBSET Clients, NEW A \in SUBSET Clients, NEW D \in SUBSET Clients,
           A \cap D = {}, NEW f, NEW r, NEW m \in Known(B), Sound(B, A, D, f, r, m), NEW x \in Appenders \ B,
           NEW g, g = FileLine(f, r, Files!Message(x)), NEW n, n = WithMessage(m, x)
    PROVE  Sound(B \cup {x}, A \cup {x}, D, g, 0, n) /\ g # None /\ n # None
<1> DEFINE C == B \cup {x}
           log == LogOf(f)
<1> USE DEF FileLine, WithMessage
<1>0. x \in Clients /\ C \in SUBSET Clients /\ B \subseteq C /\ x \in Appenders \cap C /\ x \in Clients \ B
  BY DEF Appenders
<1> HIDE DEF C, log
<1>1. log \in Seq(Told(B)) /\ log \in Seq(Told(C)) /\ Once(log) /\ Mirrors(A, m, log)
      /\ (r = 1 => Exact(A, m, log) /\ Fragment(D, log))
  <2>1. log \in Seq(Told(B))
    BY LinesOf DEF Sound, log
  <2>2. m # None
    BY NotNone
  <2> QED BY <2>1, <2>2, <1>0, ToldGrows DEF Sound, log
<1>2. n.msgs = Append(m.msgs, x) /\ n.fields = m.fields /\ n \in Known(C)
  <2>1. m.msgs \in Seq(Appenders \cap B) /\ m.fields \in [Keys -> (Noters \cap B) \cup {Absent}]
        /\ n = [msgs |-> Append(m.msgs, x), fields |-> m.fields]
    BY DEF Known
  <2>2. Append(m.msgs, x) \in Seq(Appenders \cap C)
    BY <2>1, <1>0
  <2>3. m.fields \in [Keys -> (Noters \cap C) \cup {Absent}]
    BY <2>1, <1>0
  <2> QED BY <2>1, <2>2, <2>3 DEF Known
<1>3. g \in Seq(Told(C)) /\ Once(g) /\ Mirrors(A \cup {x}, n, g)
  <2>1. CASE r = 1
    <3>1. g = Files!Glued(log)
      BY <2>1 DEF log
    <3>2. Files!Glued(log) \in Seq(Told(C))
      BY <1>1, <1>0, <2>1, GluedStored
    <3>3. Once(Files!Glued(log))
      BY <1>1, <2>1, OnceGlued
    <3>4. Mirrors(A \cup {x}, n, Files!Glued(log))
      <4>1. \A k \in Keys : n.fields[k] \in {m.fields[k], x, Absent}
        BY <1>2
      <4> QED BY <4>1, <1>0, <1>1, <1>2, <2>1, GluedMirrors
    <3> QED BY <3>1, <3>2, <3>3, <3>4
  <2>2. CASE r # 1
    <3>1. g = Append(log, Files!Message(x))
      BY <2>2 DEF log
    <3>2. Append(log, Files!Message(x)) \in Seq(Told(C))
      <4> DEFINE e == Files!Message(x)
      <4>1. log \in Seq(Told(C)) /\ e \in Told(C)
        BY <1>0, <1>1, TellsKinds
      <4> HIDE DEF e
      <4>2. Append(log, e) \in Seq(Told(C))
        BY <4>1
      <4> QED BY <4>2 DEF e
    <3>3. \A c \in B : Files!Message(x) # Files!Message(c)
      <4>1. \A c : Files!Message(c).by = c
        BY DEF Files!Message
      <4> QED BY <4>1
    <3>4. Once(Append(log, Files!Message(x)))
      BY <1>1, <3>3, OnceMore
    <3>5. Mirrors(A \cup {x}, n, Append(log, Files!Message(x)))
      BY <1>1, AppendMirrors
    <3> QED BY <3>1, <3>2, <3>4, <3>5
  <2> QED BY <2>1, <2>2
<1>4. g # None /\ LogOf(g) = g /\ n # None
  BY <1>0, <1>2, <1>3, NotNone
<1> QED BY <1>2, <1>3, <1>4 DEF Sound, C

\* The fields of a session that is in memory are changed, and written unless
\* none is left.
LEMMA SoundState ==
    ASSUME Files!JsonlAssumption, NoneApart, NEW B \in SUBSET Clients, NEW A \in SUBSET Clients, NEW D \in SUBSET Clients,
           A \cap D = {}, NEW f, NEW r, NEW m \in Known(B), Sound(B, A, D, f, r, m), NEW x \in Clients \ B,
           NEW h \in [Keys -> (Noters \cap (B \cup {x})) \cup {Absent}],
           \A k \in Keys : h[k] \in {m.fields[k], x, Absent},
           NEW g, g = FileLine(f, r, Files!State(h)), NEW n, n = WithFields(m, h)
    PROVE  /\ Sound(B \cup {x}, A \cup {x}, D, g, 0, n)
           /\ h = Files!Empty.fields => Sound(B \cup {x}, A \cup {x}, D, f, r, n)
           /\ g # None /\ n # None
<1> DEFINE C == B \cup {x}
           log == LogOf(f)
<1> USE DEF FileLine, WithFields
<1>0. C \in SUBSET Clients /\ B \subseteq C /\ h \in [Keys -> (Noters \cap C) \cup {Absent}]
  OBVIOUS
<1> HIDE DEF C, log
<1>1. log \in Seq(Told(B)) /\ log \in Seq(Told(C)) /\ Once(log) /\ Mirrors(A, m, log)
      /\ (r = 1 => Exact(A, m, log) /\ Fragment(D, log))
  <2>1. log \in Seq(Told(B))
    BY LinesOf DEF Sound, log
  <2>2. m # None
    BY NotNone
  <2> QED BY <2>1, <2>2, <1>0, ToldGrows DEF Sound, log
<1>2. n.msgs = m.msgs /\ n.fields = h /\ n \in Known(C)
  <2>1. m.msgs \in Seq(Appenders \cap B) /\ n = [msgs |-> m.msgs, fields |-> h]
    BY DEF Known
  <2>2. m.msgs \in Seq(Appenders \cap C)
    BY <2>1, <1>0
  <2> QED BY <2>1, <2>2, <1>0 DEF Known
<1>3. g \in Seq(Told(C)) /\ Once(g) /\ Mirrors(A \cup {x}, n, g)
  <2>1. CASE r = 1
    <3>1. g = Files!Glued(log)
      BY <2>1 DEF log
    <3>2. Files!Glued(log) \in Seq(Told(C))
      BY <1>1, <1>0, <2>1, GluedStored
    <3>3. Once(Files!Glued(log))
      BY <1>1, <2>1, OnceGlued
    <3>4. Mirrors(A \cup {x}, n, Files!Glued(log))
      <4>1. \A k \in Keys : n.fields[k] \in {m.fields[k], x, Absent}
        BY <1>2
      <4> QED BY <4>1, <1>1, <1>2, <2>1, GluedMirrors
    <3> QED BY <3>1, <3>2, <3>3, <3>4
  <2>2. CASE r # 1
    <3>1. g = Append(log, Files!State(h))
      BY <2>2 DEF log
    <3>2. Append(log, Files!State(h)) \in Seq(Told(C))
      <4>1. log \o <<Files!State(h)>> \in Seq(Told(C)) /\ Append(log, Files!State(h)) = log \o <<Files!State(h)>>
        BY <1>0, <1>1, StateStored
      <4> QED BY <4>1, Zenon
    <3>3. \A c \in B : Files!State(h) # Files!Message(c)
      <4>1. \A c : Files!Message(c).kind # Files!State(h).kind
        BY DEF Files!Message, Files!State
      <4> QED BY <4>1
    <3>4. Once(Append(log, Files!State(h)))
      BY <1>1, <3>3, OnceMore
    <3>5. Mirrors(A \cup {x}, n, Append(log, Files!State(h)))
      BY <1>1, StateMirrors
    <3> QED BY <3>1, <3>2, <3>4, <3>5
  <2> QED BY <2>1, <2>2
<1>4. g # None /\ LogOf(g) = g /\ n # None
  BY <1>0, <1>2, <1>3, NotNone
<1>5. ASSUME h = Files!Empty.fields PROVE Sound(C, A \cup {x}, D, f, r, n)
  <2>1. Mirrors(A \cup {x}, n, log) /\ (r = 1 => Exact(A \cup {x}, n, log))
    BY <1>1, <1>5, DropMirrors
  <2>2. f # None => f \in Seq(Told(C))
    BY <1>0, ToldGrows DEF Sound
  <2> QED BY <2>1, <2>2, <1>1, <1>2 DEF Sound, log
<1> QED BY <1>2, <1>3, <1>4, <1>5 DEF Sound, C

\* A process dies in a write.
LEMMA SoundDeath ==
    ASSUME Files!JsonlAssumption, NoneApart, NEW B \in SUBSET Clients, NEW A \in SUBSET Clients, NEW D \in SUBSET Clients,
           NEW f, NEW r, NEW m, Sound(B, A, D, f, r, m), NEW x \in Appenders \ B,
           NEW e \in {Files!Bad, Files!Message(x)},
           NEW g, g = FileLine(f, r, e)
    PROVE  Sound(B \cup {x}, A, D \cup {x}, g, 1, None) /\ g # None
<1> DEFINE C == B \cup {x}
           log == LogOf(f)
<1> USE DEF FileLine
<1>0. C \in SUBSET Clients /\ B \subseteq C /\ x \in Appenders \cap C
  BY DEF Appenders
<1> HIDE DEF C, log
<1>1. log \in Seq(Told(B)) /\ log \in Seq(Told(C)) /\ Once(log) /\ (r = 1 => Fragment(D, log))
  <2>1. log \in Seq(Told(B))
    BY LinesOf DEF Sound, log
  <2> QED BY <2>1, <1>0, ToldGrows DEF Sound, log
<1>2. g \in Seq(Told(C)) /\ Once(g) /\ Fragment(D \cup {x}, g)
  <2>1. CASE r = 1
    <3>1. g = Files!Glued(log)
      BY <2>1 DEF log
    <3>2. Files!Glued(log) \in Seq(Told(C)) /\ Len(Files!Glued(log)) = Len(log) /\ Len(log) > 0 /\ Files!Glued(log)[Len(Files!Glued(log))] = Files!Bad
      <4>1. Len(log) > 0
        BY <1>1, <2>1 DEF Fragment
      <4> QED BY <4>1, <1>1, <1>0, <2>1, GluedStored
    <3>3. Once(Files!Glued(log))
      BY <1>1, <2>1, OnceGlued
    <3> QED BY <3>1, <3>2, <3>3 DEF Fragment
  <2>2. CASE r # 1
    <3>1. g = Append(log, e)
      BY <2>2 DEF log
    <3>2. e \in Told(C) /\ Append(log, e) \in Seq(Told(C))
      <4>1. e \in Told(C)
        BY <1>0, TellsKinds
      <4> QED BY <4>1, <1>1
    <3>3. \A c \in B : e # Files!Message(c)
      <4>1. \A c : Files!Message(c).by = c /\ Files!Message(c).kind # Files!Bad.kind
        BY DEF Files!Message, Files!Bad
      <4> QED BY <4>1
    <3>4. Once(Append(log, e))
      BY <1>1, <3>3, OnceMore
    <3>5. Len(Append(log, e)) > 0 /\ Append(log, e)[Len(Append(log, e))] = e
      BY <1>1, <3>2
    <3> QED BY <3>1, <3>2, <3>4, <3>5 DEF Fragment
  <2> QED BY <2>1, <2>2
<1>4. g # None /\ LogOf(g) = g
  BY <1>0, <1>2, NotNone
<1> QED BY <1>2, <1>4 DEF Sound, C

-----------------------------------------------------------------------------
\* The clients that have left something, those that succeeded, those that died.
Begun == {c \in Clients : jpc[c] \in {"ok", "lost"}}
Acked == {c \in Clients : jpc[c] = "ok"}
Dead == {c \in Clients : jpc[c] = "lost"}

\* How many broken last lines a session's file has.
Broken(s) == IF s \in ragged THEN 1 ELSE 0

FileSorts ==
    /\ DOMAIN jpc = Clients /\ DOMAIN file = Sessions /\ DOMAIN jstates = Sessions
    /\ ragged \subseteq Sessions /\ jloaded \subseteq Sessions /\ jrestarts \in Nat
    /\ \A s \in Sessions : s \in jloaded <=> jstates[s] # None
    /\ \A c \in Clients : (jpc[c] = "waiting" => FileKind[c] = "fork") /\ (jpc[c] = "holding" => FileKind[c] = "hold")

SessionSound(s) == Sound(Begun, Acked, Dead, file[s], Broken(s), jstates[s])

\* A session without a file has lost no message, but those it was deleted with.
Unspent(s) ==
    file[s] = None => Files!Deleted(s) \/ \A c \in Clients : FileKind[c] = "append" /\ FileOn[c] = s => jpc[c] # "ok"

\* A death has cost a session a message, or will.
Paid(s) == IsFiniteSet(Files!Lost(s)) /\ Cardinality(Files!Lost(s)) + Broken(s) <= jrestarts

Counts(s) == Unspent(s) /\ Paid(s)

\* A client begins when those before it have ended.
InTurn == \A c \in Clients : jpc[c] # "idle" => \A b \in FileAfter[c] : Files!Ended(b)

\* A fork that waits has its target for itself.
FileFree == \A c \in Clients : jpc[c] = "waiting" => file[FileTarget[c]] = None /\ jstates[FileTarget[c]] = None

FileInv == FileSorts /\ InTurn /\ FileFree /\ \A s \in Sessions : SessionSound(s) /\ Counts(s)

\* Those that succeeded did not die, and both have left something.
LEMMA Parties ==
    Begun \in SUBSET Clients /\ Acked \in SUBSET Clients /\ Dead \in SUBSET Clients /\ Acked \cap Dead = {}
BY DEF Begun, Acked, Dead

\* What a step of a client makes of the parties.
LEMMA Moves ==
    ASSUME DOMAIN jpc = Clients, NEW c \in Clients, c \notin Begun, NEW stage, stage # "lost", Files!Go(c, stage)
    PROVE  /\ stage = "ok" => Begun' = Begun \cup {c} /\ Acked' = Acked \cup {c}
           /\ stage # "ok" => Begun' = Begun /\ Acked' = Acked
           /\ Dead' = Dead
           /\ DOMAIN jpc' = Clients /\ jpc'[c] = stage /\ \A b \in Clients : b # c => jpc'[b] = jpc[b]
<1>1. DOMAIN jpc' = Clients /\ jpc'[c] = stage /\ \A b \in Clients : b # c => jpc'[b] = jpc[b]
  BY DEF Files!Go
<1>2. jpc[c] # "ok" /\ jpc[c] # "lost"
  BY DEF Begun
<1> QED BY <1>1, <1>2 DEF Begun, Acked, Dead

\* A session that a client's step leaves as it was, or reads, stays sound.
LEMMA SoundStays ==
    ASSUME Files!JsonlAssumption, FileSorts, NEW c \in Clients, c \notin Begun, NEW stage, stage # "lost", Files!Go(c, stage),
           NEW s, Sound(Begun, Acked, Dead, file'[s], Broken(s)', jstates'[s])
    PROVE  SessionSound(s)'
<1>1. /\ stage = "ok" => Begun' = Begun \cup {c} /\ Acked' = Acked \cup {c}
      /\ stage # "ok" => Begun' = Begun /\ Acked' = Acked
      /\ Dead' = Dead
  BY Moves DEF FileSorts
<1>2. Begun' \in SUBSET Clients /\ Begun \subseteq Begun'
  BY <1>1, Parties
<1>3. Acked' \in SUBSET Clients /\ Acked \subseteq Acked' /\ Acked' \cap Begun \subseteq Acked
  BY <1>1, Parties
<1>4. Dead \subseteq Dead'
  BY <1>1
<1>5. Sound(Begun', Acked', Dead', file'[s], Broken(s)', jstates'[s])
  <2> DEFINE C == Begun'
             G == Acked'
             E == Dead'
             f == file'[s]
             r == Broken(s)'
             m == jstates'[s]
  <2>1. /\ C \in SUBSET Clients /\ Begun \subseteq C /\ G \in SUBSET Clients /\ Acked \subseteq G /\ G \cap Begun \subseteq Acked
        /\ Dead \subseteq E /\ Sound(Begun, Acked, Dead, f, r, m)
    BY <1>2, <1>3, <1>4
  <2> HIDE DEF C, G, E, f, r, m
  <2>2. Sound(C, G, E, f, r, m)
    BY <2>1, Parties, SoundGrows
  <2> QED BY <2>2 DEF C, G, E, f, r, m
<1> QED BY <1>5 DEF SessionSound

\* The counts of a session stay when no client appends to it or deletes it.
LEMMA CountsStay ==
    ASSUME Files!JsonlAssumption, FileSorts, NEW c \in Clients, c \notin Begun, NEW stage, stage # "lost", Files!Go(c, stage),
           NEW s \in Sessions, FileKind[c] \in {"append", "delete"} => FileOn[c] # s,
           file'[s] = file[s], s \in ragged' <=> s \in ragged, jrestarts' = jrestarts, Counts(s)
    PROVE  Counts(s)'
<1>1. jpc'[c] = stage /\ \A b \in Clients : b # c => jpc'[b] = jpc[b]
  BY Moves DEF FileSorts
<1>2. jpc[c] # "ok"
  BY DEF Begun
<1>3. \A b \in Clients : FileKind[b] \in {"append", "delete"} /\ FileOn[b] = s => jpc'[b] = jpc[b]
  BY <1>1
<1>4. Files!Deleted(s)' <=> Files!Deleted(s)
  BY <1>3 DEF Files!Deleted, Files!At
<1>5. Unspent(s)'
  BY <1>3, <1>4 DEF Unspent, Counts
<1>6. Files!Lost(s)' = Files!Lost(s)
  <2>1. Files!Log(s)' = Files!Log(s)
    BY DEF Files!Log
  <2> QED BY <2>1, <1>3, <1>4, Zenon DEF Files!Lost, Files!At
<1>7. Broken(s)' = Broken(s)
  BY DEF Broken
<1>8. Paid(s)'
  BY <1>6, <1>7 DEF Paid, Counts
<1> QED BY <1>5, <1>8 DEF Counts

Lined(log, r, e) == IF r = 1 THEN Files!Glued(log) ELSE Append(log, e)

\* The messages in a file stay there when a line is written, but for that of a
\* client that died.
LEMMA LinesStay ==
    ASSUME Files!JsonlAssumption, NEW B \in SUBSET Clients, NEW log \in Seq(Told(B)), NEW D, NEW r, r = 1 => Fragment(D, log), NEW e,
           NEW g, g = Lined(log, r, e)
    PROVE  /\ \A b \in Clients \ D : (\E i \in DOMAIN log : log[i] = Files!Message(b)) => \E i \in DOMAIN g : g[i] = Files!Message(b)
           /\ r # 1 => \E i \in DOMAIN g : g[i] = e
<1>1. CASE r = 1
  <2>1. /\ Len(log) \in Nat /\ DOMAIN log = 1 .. Len(log) /\ DOMAIN g = 1 .. Len(log)
        /\ \A p \in 1 .. Len(log) : p # Len(log) => g[p] = log[p]
    BY <1>1 DEF Files!Glued, Lined
  <2>2. \A b \in Clients \ D : log[Len(log)] # Files!Message(b)
    <3>1. \A b, d : Files!Message(b) = Files!Message(d) => b = d
      <4>1. \A b : Files!Message(b).by = b
        BY DEF Files!Message
      <4> QED BY <4>1
    <3>2. \A b : Files!Bad # Files!Message(b)
      <4>1. \A b : Files!Message(b).kind # Files!Bad.kind
        BY DEF Files!Message, Files!Bad
      <4> QED BY <4>1
    <3> QED BY <3>1, <3>2, <1>1 DEF Fragment
  <2> QED BY <2>1, <2>2, <1>1
<1>2. CASE r # 1
  <2>1. /\ g = Append(log, e) /\ Len(log) \in Nat /\ DOMAIN log = 1 .. Len(log)
    BY <1>2 DEF Lined
  <2>2. /\ DOMAIN g = 1 .. (Len(log) + 1) /\ g[Len(log) + 1] = e
        /\ \A p \in 1 .. Len(log) : g[p] = log[p]
    BY <2>1
  <2> QED BY <2>1, <2>2
<1> QED BY <1>1, <1>2

\* Fewer messages are lost, or one more for a broken line less.
LEMMA Fewer ==
    ASSUME NEW L, NEW r \in {0, 1}, NEW n \in Nat, IsFiniteSet(L), Cardinality(L) + r <= n, NEW M
    PROVE  /\ M \subseteq L => IsFiniteSet(M) /\ Cardinality(M) \in Nat /\ Cardinality(M) <= Cardinality(L) /\ Cardinality(M) + r <= n
           /\ \A x : M \subseteq L \cup {x} /\ r = 1 => IsFiniteSet(M) /\ Cardinality(M) \in Nat /\ Cardinality(M) <= n
<1>1. Cardinality(L) \in Nat
  BY FS_CardinalityType
<1>2. ASSUME M \subseteq L
      PROVE  IsFiniteSet(M) /\ Cardinality(M) \in Nat /\ Cardinality(M) <= Cardinality(L) /\ Cardinality(M) + r <= n
  <2>1. IsFiniteSet(M) /\ Cardinality(M) <= Cardinality(L)
    BY <1>2, FS_Subset
  <2>2. Cardinality(M) \in Nat
    BY <2>1, FS_CardinalityType
  <2> QED BY <2>1, <2>2, <1>1
<1>3. ASSUME NEW x, M \subseteq L \cup {x}, r = 1
      PROVE  IsFiniteSet(M) /\ Cardinality(M) \in Nat /\ Cardinality(M) <= n
  <2> DEFINE U == L \cup {x}
  <2>1. IsFiniteSet(U) /\ Cardinality(U) \in {Cardinality(L), Cardinality(L) + 1}
    BY FS_AddElement
  <2> HIDE DEF U
  <2>2. IsFiniteSet(M) /\ Cardinality(M) <= Cardinality(U)
    BY <1>3, <2>1, FS_Subset DEF U
  <2>3. Cardinality(M) \in Nat
    BY <2>2, FS_CardinalityType
  <2> QED BY <2>1, <2>2, <2>3, <1>1, <1>3
<1> QED BY <1>2, <1>3

\* Those that have not begun when a fork waits are not of its target.
LEMMA TargetsApart ==
    ASSUME Files!ForksApart, InTurn, NEW f \in Clients, jpc[f] = "waiting", FileKind[f] = "fork", NEW c \in Clients, c # f,
           Files!MayBegin(c) \/ Files!At(c, "waiting")
    PROVE  FileOn[c] # FileTarget[f] /\ (FileKind[c] = "fork" => FileTarget[c] # FileTarget[f])
<1>1. ~Files!Ended(c) /\ ~Files!Ended(f)
  BY DEF Files!Ended, Files!At, Files!MayBegin
<1>2. f \notin FileAfter[c]
  BY <1>1 DEF InTurn, Files!MayBegin, Files!At
<1>3. c \notin FileAfter[f]
  BY <1>1 DEF InTurn
<1> QED BY <1>2, <1>3 DEF Files!ForksApart

\* A step of one client keeps the turns.
LEMMA TurnsStay ==
    ASSUME DOMAIN jpc = Clients, Files!JsonlAssumption, InTurn, NEW c \in Clients, NEW stage, Files!Go(c, stage), stage # "idle",
           ~Files!Ended(c), Files!MayBegin(c) \/ jpc[c] # "idle"
    PROVE  InTurn'
<1>1. jpc'[c] = stage /\ \A b \in Clients : b # c => jpc'[b] = jpc[b]
  BY DEF Files!Go
<1>2. \A b \in Clients : Files!Ended(b) => Files!Ended(b)'
  BY <1>1 DEF Files!Ended
<1>3. \A b \in Clients : FileAfter[b] \subseteq Clients
  BY DEF Files!JsonlAssumption
<1>4. \A b \in FileAfter[c] : Files!Ended(b)
  BY DEF InTurn, Files!MayBegin
<1> SUFFICES ASSUME NEW b \in Clients, jpc'[b] # "idle" PROVE \A d \in FileAfter[b] : Files!Ended(d)'
  BY DEF InTurn
<1>5. \A d \in FileAfter[b] : Files!Ended(d)
  BY <1>1, <1>4 DEF InTurn
<1> QED BY <1>2, <1>3, <1>5

-----------------------------------------------------------------------------
\* What a step begins from, for one session.
LEMMA Before ==
    ASSUME Files!JsonlAssumption, NoneApart, FileInv, NEW c \in Clients, NEW s \in Sessions
    PROVE  /\ Files!Log(s) = LogOf(file[s]) /\ Files!Log(s) \in Seq(Told(Begun)) /\ Once(Files!Log(s)) /\ Broken(s) \in {0, 1}
           /\ (Broken(s) = 1 <=> s \in ragged) /\ (s \in ragged => Fragment(Dead, Files!Log(s)) /\ file[s] # None)
           /\ Files!Loaded(s) \in Known(Begun) /\ Files!Loaded(s) # None
           /\ Sound(Begun, Acked, Dead, file[s], Broken(s), Files!Loaded(s))
<1>1. Sound(Begun, Acked, Dead, file[s], Broken(s), jstates[s]) /\ FileSorts
  BY DEF FileInv, SessionSound
<1>2. Files!Log(s) = LogOf(file[s])
  BY DEF Files!Log, LogOf
<1>3. Files!Log(s) \in Seq(Told(Begun)) /\ Once(Files!Log(s))
  BY <1>1, <1>2, LinesOf DEF Sound
<1>4. Broken(s) \in {0, 1} /\ (Broken(s) = 1 <=> s \in ragged)
  BY DEF Broken
<1>5. s \in ragged => Fragment(Dead, Files!Log(s)) /\ file[s] # None
  <2>1. s \in ragged => Fragment(Dead, Files!Log(s))
    BY <1>1, <1>2, <1>4 DEF Sound
  <2>2. file[s] = None => ~Fragment(Dead, Files!Log(s))
    BY DEF Files!Log, Fragment
  <2> QED BY <2>1, <2>2
<1>6. /\ jstates[s] = None => Files!Loaded(s) = Files!Stored(Files!Log(s))
      /\ jstates[s] # None => Files!Loaded(s) = jstates[s]
  BY <1>1 DEF Files!Loaded, Files!Dict, Files!Stored, FileSorts
<1>7. Files!Loaded(s) \in Known(Begun) /\ Sound(Begun, Acked, Dead, file[s], Broken(s), Files!Loaded(s))
  <2>1. /\ jstates[s] = None => /\ Sound(Begun, Acked, Dead, file[s], Broken(s), Files!Stored(LogOf(file[s])))
                               /\ Files!Stored(LogOf(file[s])) \in Known(Begun)
        /\ jstates[s] # None => jstates[s] \in Known(Begun)
    <3> DEFINE f == file[s]
               r == Broken(s)
               m == jstates[s]
    <3>1. Sound(Begun, Acked, Dead, f, r, m)
      BY <1>1
    <3> HIDE DEF f, r, m
    <3>2. /\ m = None => Sound(Begun, Acked, Dead, f, r, Files!Stored(LogOf(f))) /\ Files!Stored(LogOf(f)) \in Known(Begun)
          /\ m # None => m \in Known(Begun)
      BY <3>1, Parties, SoundLoaded
    <3> QED BY <3>2 DEF f, r, m
  <2>2. CASE jstates[s] = None
    BY <2>1, <2>2, <1>2, <1>6
  <2>3. CASE jstates[s] # None
    BY <2>1, <2>3, <1>1, <1>6
  <2> QED BY <2>2, <2>3
<1>8. Files!Loaded(s) # None
  BY <1>7, Parties, NotNone
<1> QED BY <1>2, <1>3, <1>4, <1>5, <1>7, <1>8

\* What a step leaves of the sorts, the turns and the targets.
LEMMA After1 ==
    ASSUME Files!JsonlAssumption, Files!ForksApart, FileInv, NEW c \in Clients, NEW stage, Files!Go(c, stage), ~Files!Ended(c), stage # "idle",
           Files!MayBegin(c) \/ jpc[c] # "idle", stage = "holding" => FileKind[c] = "hold",
           stage = "waiting" => FileKind[c] = "fork" /\ file'[FileTarget[c]] = None /\ jstates'[FileTarget[c]] = None,
           DOMAIN file' = Sessions, DOMAIN jstates' = Sessions, ragged' \subseteq Sessions, jloaded' \subseteq Sessions,
           jrestarts' = jrestarts, \A s \in Sessions : s \in jloaded' <=> jstates'[s] # None,
           \A f \in Clients : f # c /\ jpc[f] = "waiting" =>
               file'[FileTarget[f]] = file[FileTarget[f]] /\ jstates'[FileTarget[f]] = jstates[FileTarget[f]],
           \A s \in Sessions : SessionSound(s)' /\ Counts(s)'
    PROVE  FileInv'
<1>1. DOMAIN jpc' = Clients /\ jpc'[c] = stage /\ \A b \in Clients : b # c => jpc'[b] = jpc[b]
  BY DEF Files!Go, FileInv, FileSorts
<1>2. FileSorts'
  BY <1>1 DEF FileSorts, FileInv
<1>3. InTurn'
  BY TurnsStay DEF FileInv, FileSorts
<1>4. FileFree'
  BY <1>1 DEF FileFree, FileInv
<1> QED BY <1>2, <1>3, <1>4 DEF FileInv

\* A client's operation on its session, which is left sound, leaves the others
\* as they were.
LEMMA OneSession ==
    ASSUME Files!JsonlAssumption, Files!ForksApart, FileInv, NEW c \in Clients, NEW stage \in {"ok", "holding"}, Files!Go(c, stage), Files!MayBegin(c),
           stage = "holding" => FileKind[c] = "hold",
           DOMAIN file' = Sessions, DOMAIN jstates' = Sessions, ragged' \subseteq Sessions, jloaded' \subseteq Sessions,
           jrestarts' = jrestarts, FileOn[c] \in jloaded' <=> jstates'[FileOn[c]] # None,
           \A t \in Sessions \ {FileOn[c]} :
               /\ file'[t] = file[t] /\ jstates'[t] = jstates[t]
               /\ t \in ragged' <=> t \in ragged
               /\ t \in jloaded' <=> t \in jloaded,
           SessionSound(FileOn[c])', Counts(FileOn[c])'
    PROVE  FileInv'
<1>1. c \notin Begun /\ jpc[c] = "idle" /\ ~Files!Ended(c) /\ stage # "lost" /\ stage # "idle" /\ stage # "waiting"
  BY DEF Begun, Files!MayBegin, Files!At, Files!Ended
<1>2. FileSorts /\ InTurn
  BY DEF FileInv
<1>3. \A t \in Sessions \ {FileOn[c]} : SessionSound(t)' /\ Counts(t)'
  <2> TAKE t \in Sessions \ {FileOn[c]}
  <2>1. file'[t] = file[t] /\ jstates'[t] = jstates[t] /\ Broken(t)' = Broken(t)
    BY DEF Broken
  <2>2. SessionSound(t) /\ Counts(t)
    BY DEF FileInv
  <2>3. Sound(Begun, Acked, Dead, file'[t], Broken(t)', jstates'[t])
    BY <2>1, <2>2 DEF SessionSound
  <2>4. SessionSound(t)'
    BY <2>3, <1>1, <1>2, SoundStays
  <2>5. Counts(t)'
    BY <2>2, <1>1, <1>2, CountsStay
  <2> QED BY <2>4, <2>5
<1>4. \A s \in Sessions : SessionSound(s)' /\ Counts(s)'
  BY <1>3
<1>5. \A s \in Sessions : s \in jloaded' <=> jstates'[s] # None
  BY <1>2 DEF FileSorts
<1>6. \A f \in Clients : f # c /\ jpc[f] = "waiting" =>
          file'[FileTarget[f]] = file[FileTarget[f]] /\ jstates'[FileTarget[f]] = jstates[FileTarget[f]]
  <2> TAKE f \in Clients
  <2> HAVE f # c /\ jpc[f] = "waiting"
  <2>1. FileKind[f] = "fork" /\ FileTarget[f] \in Sessions
    BY <1>2 DEF FileSorts, Files!JsonlAssumption
  <2>2. FileOn[c] # FileTarget[f]
    BY <2>1, <1>2, TargetsApart
  <2> QED BY <2>1, <2>2
<1> QED BY <1>1, <1>4, <1>5, <1>6, After1

\* A step that touches no session.
LEMMA NoSession ==
    ASSUME Files!JsonlAssumption, Files!ForksApart, FileInv, NEW c \in Clients, NEW stage, Files!Go(c, stage), stage \notin {"idle", "lost", "holding"},
           Files!MayBegin(c) \/ jpc[c] = "holding", FileKind[c] \in {"fork", "hold"},
           stage = "waiting" => FileKind[c] = "fork" /\ file[FileTarget[c]] = None /\ jstates[FileTarget[c]] = None,
           UNCHANGED <<file, ragged, jstates, jloaded, jrestarts>>
    PROVE  FileInv'
<1>1. c \notin Begun /\ ~Files!Ended(c) /\ (Files!MayBegin(c) \/ jpc[c] # "idle")
  BY DEF Begun, Files!MayBegin, Files!At, Files!Ended
<1>2. FileSorts /\ InTurn
  BY DEF FileInv
<1>3. \A t \in Sessions : SessionSound(t)' /\ Counts(t)'
  <2> TAKE t \in Sessions
  <2>1. file'[t] = file[t] /\ jstates'[t] = jstates[t] /\ Broken(t)' = Broken(t)
    BY DEF Broken
  <2>2. SessionSound(t) /\ Counts(t)
    BY DEF FileInv
  <2>3. Sound(Begun, Acked, Dead, file'[t], Broken(t)', jstates'[t])
    BY <2>1, <2>2 DEF SessionSound
  <2>4. SessionSound(t)'
    BY <2>3, <1>1, <1>2, SoundStays
  <2>5. Counts(t)'
    BY <2>2, <1>1, <1>2, CountsStay
  <2> QED BY <2>4, <2>5
<1>4. DOMAIN file' = Sessions /\ DOMAIN jstates' = Sessions /\ ragged' \subseteq Sessions /\ jloaded' \subseteq Sessions
      /\ \A s \in Sessions : s \in jloaded' <=> jstates'[s] # None
  BY <1>2 DEF FileSorts
<1>5. /\ stage = "waiting" => FileKind[c] = "fork" /\ file'[FileTarget[c]] = None /\ jstates'[FileTarget[c]] = None
      /\ \A f \in Clients : f # c /\ jpc[f] = "waiting" =>
             file'[FileTarget[f]] = file[FileTarget[f]] /\ jstates'[FileTarget[f]] = jstates[FileTarget[f]]
  OBVIOUS
<1> QED BY <1>1, <1>3, <1>4, <1>5, After1

\* The counts of a session to which a client writes a line.
LEMMA CountsWrite ==
    ASSUME Files!JsonlAssumption, NoneApart, FileInv, NEW c \in Clients, c \notin Begun, Files!Go(c, "ok"), FileOn[c] \in Sessions, FileKind[c] # "delete",
           NEW e, FileKind[c] = "append" => e = Files!Message(c),
           file'[FileOn[c]] = Files!Added(FileOn[c], e), Files!Added(FileOn[c], e) # None, FileOn[c] \notin ragged', jrestarts' = jrestarts
    PROVE  Counts(FileOn[c])'
<1> DEFINE s == FileOn[c]
           log == Files!Log(s)
           g == Files!Added(s, e)
           r == Broken(s)
<1>1. log \in Seq(Told(Begun)) /\ r \in {0, 1} /\ (r = 1 => Fragment(Dead, log)) /\ (r = 1 <=> s \in ragged)
  BY Before
<1>2. g = Lined(log, r, e)
  BY <1>1 DEF Files!Added, Lined
<1>3. Files!Log(s)' = g /\ Broken(s)' = 0 /\ file'[s] # None
  BY DEF Files!Log, Broken
<1> HIDE DEF log, g, r, s
<1>4. /\ \A b \in Clients \ Dead : (\E i \in DOMAIN log : log[i] = Files!Message(b)) => \E i \in DOMAIN g : g[i] = Files!Message(b)
      /\ r # 1 => \E i \in DOMAIN g : g[i] = e
  <2>1. Begun \in SUBSET Clients /\ log \in Seq(Told(Begun)) /\ (r = 1 => Fragment(Dead, log))
    BY <1>1, Parties
  <2>2. \A b \in Clients \ Dead : (\E i \in DOMAIN log : log[i] = Files!Message(b)) => \E i \in DOMAIN g : g[i] = Files!Message(b)
    BY <2>1, <1>2, LinesStay
  <2>3. r # 1 => \E i \in DOMAIN g : g[i] = e
    BY <2>1, <1>2, LinesStay
  <2> QED BY <2>2, <2>3
<1>5. FileSorts /\ Counts(s) /\ s \in Sessions
  BY DEF FileInv, s
<1>6. jpc'[c] = "ok" /\ (\A b \in Clients : b # c => jpc'[b] = jpc[b]) /\ jpc[c] # "ok"
  BY <1>5, Moves DEF FileSorts, Begun
<1>7. Files!Deleted(s) => Files!Deleted(s)'
  <2> SUFFICES ASSUME NEW d \in Clients, FileKind[d] = "delete", FileOn[d] = s, jpc[d] = "ok" PROVE Files!Deleted(s)'
    BY DEF Files!Deleted, Files!At
  <2>1. jpc'[d] = "ok"
    BY <1>6
  <2> QED BY <2>1 DEF Files!Deleted, Files!At
<1>8. Files!Lost(s)' \subseteq Files!Lost(s) \cup {c} /\ (r # 1 \/ FileKind[c] # "append" => Files!Lost(s)' \subseteq Files!Lost(s))
  <2>1. ASSUME NEW b \in Clients, b \in Files!Lost(s)', b # c PROVE b \in Files!Lost(s)
    <3>1. FileKind[b] = "append" /\ FileOn[b] = s /\ jpc'[b] = "ok" /\ ~Files!Deleted(s)' /\ \A i \in DOMAIN g : g[i] # Files!Message(b)
      BY <2>1, <1>3 DEF Files!Lost, Files!At
    <3>2. jpc[b] = "ok" /\ ~Files!Deleted(s) /\ b \notin Dead
      BY <3>1, <2>1, <1>6, <1>7 DEF Dead
    <3>3. \A i \in DOMAIN log : log[i] # Files!Message(b)
      BY <3>1, <3>2, <1>4
    <3> QED BY <3>1, <3>2, <3>3 DEF Files!Lost, Files!At, log
  <2>2. ASSUME c \in Files!Lost(s)' PROVE r = 1 /\ FileKind[c] = "append"
    <3>1. FileKind[c] = "append" /\ \A i \in DOMAIN g : g[i] # Files!Message(c)
      BY <2>2, <1>3 DEF Files!Lost
    <3> QED BY <3>1, <1>4
  <2>3. Files!Lost(s)' \subseteq Clients
    BY DEF Files!Lost
  <2> QED BY <2>1, <2>2, <2>3
<1>9. Paid(s)'
  <2> DEFINE L == Files!Lost(s)
             M == Files!Lost(s)'
  <2>1. IsFiniteSet(L) /\ Cardinality(L) + r <= jrestarts /\ jrestarts \in Nat
    BY <1>5 DEF Counts, Paid, FileSorts, r
  <2>2. M \subseteq L \cup {c} /\ (r # 1 => M \subseteq L)
    BY <1>8
  <2> HIDE DEF L, M
  <2>3. IsFiniteSet(M) /\ Cardinality(M) \in Nat /\ Cardinality(M) <= jrestarts
    <3>1. CASE r = 1
      BY <3>1, <2>1, <2>2, <1>1, Fewer
    <3>2. CASE r # 1
      <4>1. M \subseteq L /\ r = 0
        BY <3>2, <2>2, <1>1
      <4>2. Cardinality(M) + r <= jrestarts /\ IsFiniteSet(M) /\ Cardinality(M) \in Nat
        BY <4>1, <2>1, <1>1, Fewer
      <4> QED BY <4>1, <4>2
    <3> QED BY <3>1, <3>2
  <2> QED BY <2>3, <1>3 DEF Paid, M
<1>10. Unspent(s)'
  BY <1>3 DEF Unspent
<1> QED BY <1>9, <1>10 DEF Counts, s

-----------------------------------------------------------------------------
\* append_message
LEMMA AppendStep ==
    ASSUME Files!JsonlAssumption, NoneApart, Files!ForksApart, FileInv, NEW c \in Clients, Files!AppendMessage(c)
    PROVE  FileInv'
<1> DEFINE s == FileOn[c]
           m == Files!Loaded(s)
           g == Files!Added(s, Files!Message(c))
           n == Files!Appended(c)
<1>1. /\ Files!MayBegin(c) /\ FileKind[c] = "append" /\ Files!Go(c, "ok") /\ jrestarts' = jrestarts
      /\ jstates' = [jstates EXCEPT ![s] = n] /\ jloaded' = jloaded \cup {s}
      /\ file' = [file EXCEPT ![s] = g] /\ ragged' = ragged \ {s}
  BY DEF Files!AppendMessage, Files!Holds, Files!WriteLine, Files!Whole
<1>2. s \in Sessions /\ c \notin Begun /\ c \in Appenders /\ FileSorts
  BY <1>1 DEF Files!JsonlAssumption, Begun, Files!MayBegin, Files!At, Appenders, FileInv
<1>3. /\ m \in Known(Begun) /\ Broken(s) \in {0, 1} /\ (Broken(s) = 1 <=> s \in ragged)
      /\ Files!Log(s) = LogOf(file[s]) /\ Sound(Begun, Acked, Dead, file[s], Broken(s), m)
  BY <1>2, Before
<1>4. g = FileLine(file[s], Broken(s), Files!Message(c))
  BY <1>3 DEF Files!Added, FileLine
<1>5. n = WithMessage(m, c)
  BY DEF Files!Appended, WithMessage
<1> HIDE DEF m, g, n, s
<1>6. Sound(Begun \cup {c}, Acked \cup {c}, Dead, g, 0, n) /\ g # None /\ n # None
  <2> DEFINE f == file[s]
             r == Broken(s)
             B == Begun
             A == Acked
             D == Dead
  <2>1. /\ B \in SUBSET Clients /\ A \in SUBSET Clients /\ D \in SUBSET Clients /\ A \cap D = {} /\ c \in Appenders \ B
        /\ m \in Known(B) /\ Sound(B, A, D, f, r, m)
        /\ g = FileLine(f, r, Files!Message(c))
    BY <1>2, <1>3, <1>4, Parties
  <2> HIDE DEF f, r, B, A, D
  <2>2. Sound(B \cup {c}, A \cup {c}, D, g, 0, n) /\ g # None /\ n # None
    BY <2>1, <1>5, SoundAppend
  <2> QED BY <2>2 DEF B, A, D
<1>7. /\ DOMAIN file' = Sessions /\ DOMAIN jstates' = Sessions /\ file'[s] = g /\ jstates'[s] = n
      /\ ragged' \subseteq Sessions /\ jloaded' \subseteq Sessions /\ s \notin ragged'
      /\ s \in jloaded' <=> jstates'[s] # None
      /\ \A t \in Sessions \ {s} : /\ file'[t] = file[t] /\ jstates'[t] = jstates[t]
                                   /\ t \in ragged' <=> t \in ragged
                                   /\ t \in jloaded' <=> t \in jloaded
  BY <1>1, <1>2, <1>6 DEF FileSorts
<1>8. SessionSound(s)'
  <2>1. Begun' = Begun \cup {c} /\ Acked' = Acked \cup {c} /\ Dead' = Dead
    BY <1>1, <1>2, Moves DEF FileSorts
  <2>2. Broken(s)' = 0
    BY <1>7 DEF Broken
  <2> QED BY <2>1, <2>2, <1>6, <1>7 DEF SessionSound
<1>9. Counts(s)'
  BY <1>1, <1>2, <1>6, <1>7, CountsWrite DEF g, s
<1> QED BY <1>1, <1>7, <1>8, <1>9, OneSession DEF s

\* get_state and set_state
LEMMA StateStep ==
    ASSUME Files!JsonlAssumption, NoneApart, Files!ForksApart, FileInv, NEW c \in Clients, Files!SetState(c)
    PROVE  FileInv'
<1> DEFINE s == FileOn[c]
           m == Files!Loaded(s)
           n == Files!Changed(c)
           h == n.fields
           g == Files!Added(s, Files!State(h))
<1>1. /\ Files!MayBegin(c) /\ FileKind[c] \in {"note", "drop"} /\ Files!Go(c, "ok") /\ jrestarts' = jrestarts
      /\ jstates' = [jstates EXCEPT ![s] = n] /\ jloaded' = jloaded \cup {s}
      /\ \/ h = Files!Empty.fields /\ file' = file /\ ragged' = ragged
         \/ file' = [file EXCEPT ![s] = g] /\ ragged' = ragged \ {s}
  BY Zenon DEF Files!SetState, Files!Holds, Files!WriteLine, Files!Whole
<1>2. s \in Sessions /\ c \notin Begun /\ c \in Clients \ Begun /\ FileSorts /\ FileKey[c] \in Keys
  BY <1>1 DEF Files!JsonlAssumption, Begun, Files!MayBegin, Files!At, FileInv
<1>3. /\ m \in Known(Begun) /\ Broken(s) \in {0, 1} /\ (Broken(s) = 1 <=> s \in ragged)
      /\ Files!Log(s) = LogOf(file[s]) /\ Sound(Begun, Acked, Dead, file[s], Broken(s), m)
  BY <1>2, Before
<1>4. g = FileLine(file[s], Broken(s), Files!State(h))
  BY <1>3 DEF Files!Added, FileLine
<1>5. /\ n = WithFields(m, h)
      /\ h \in [Keys -> (Noters \cap (Begun \cup {c})) \cup {Absent}]
      /\ \A k \in Keys : h[k] \in {m.fields[k], c, Absent}
  <2>1. m.msgs \in Seq(Appenders \cap Begun) /\ m.fields \in [Keys -> (Noters \cap Begun) \cup {Absent}]
        /\ m = [msgs |-> m.msgs, fields |-> m.fields]
    BY <1>3 DEF Known
  <2> DEFINE new == IF FileKind[c] = "note" THEN c ELSE Absent
  <2>2. n = [m EXCEPT !.fields = [m.fields EXCEPT ![FileKey[c]] = new]]
    BY DEF Files!Changed
  <2>3. new \in (Noters \cap (Begun \cup {c})) \cup {Absent}
    BY DEF Noters
  <2> HIDE DEF new, m, n
  <2>4. h = [m.fields EXCEPT ![FileKey[c]] = new]
    BY <2>1, <2>2
  <2>5. n = WithFields(m, h)
    BY <2>2, <2>4 DEF WithFields
  <2>6. h \in [Keys -> (Noters \cap (Begun \cup {c})) \cup {Absent}]
    BY <2>1, <2>3, <2>4
  <2>7. \A k \in Keys : h[k] \in {m.fields[k], new}
    BY <2>1, <2>4
  <2>8. new \in {c, Absent}
    BY DEF new
  <2> QED BY <2>5, <2>6, <2>7, <2>8
<1> HIDE DEF m, g, n, s, h
<1>6. /\ Sound(Begun \cup {c}, Acked \cup {c}, Dead, g, 0, n) /\ g # None /\ n # None
      /\ h = Files!Empty.fields => Sound(Begun \cup {c}, Acked \cup {c}, Dead, file[s], Broken(s), n)
  <2> DEFINE f == file[s]
             r == Broken(s)
             B == Begun
             A == Acked
             D == Dead
  <2>1. /\ B \in SUBSET Clients /\ A \in SUBSET Clients /\ D \in SUBSET Clients /\ A \cap D = {} /\ c \in Clients \ B
        /\ m \in Known(B) /\ Sound(B, A, D, f, r, m)
        /\ g = FileLine(f, r, Files!State(h))
        /\ h \in [Keys -> (Noters \cap (B \cup {c})) \cup {Absent}]
        /\ \A k \in Keys : h[k] \in {m.fields[k], c, Absent}
        /\ n = WithFields(m, h)
    BY <1>2, <1>3, <1>4, <1>5, Parties
  <2> HIDE DEF f, r, B, A, D
  <2>2. /\ Sound(B \cup {c}, A \cup {c}, D, g, 0, n)
        /\ h = Files!Empty.fields => Sound(B \cup {c}, A \cup {c}, D, f, r, n)
        /\ g # None /\ n # None
    BY <2>1, SoundState
  <2> QED BY <2>2 DEF B, A, D, f, r
<1>7. /\ DOMAIN file' = Sessions /\ DOMAIN jstates' = Sessions /\ jstates'[s] = n
      /\ ragged' \subseteq Sessions /\ jloaded' \subseteq Sessions
      /\ s \in jloaded' <=> jstates'[s] # None
      /\ \A t \in Sessions \ {s} : /\ file'[t] = file[t] /\ jstates'[t] = jstates[t]
                                   /\ t \in ragged' <=> t \in ragged
                                   /\ t \in jloaded' <=> t \in jloaded
  BY <1>1, <1>2, <1>6 DEF FileSorts
<1>8. Begun' = Begun \cup {c} /\ Acked' = Acked \cup {c} /\ Dead' = Dead
  BY <1>1, <1>2, Moves DEF FileSorts
<1>9. SessionSound(s)' /\ Counts(s)'
  <2>1. CASE h = Files!Empty.fields /\ file' = file /\ ragged' = ragged
    <3>1. file'[s] = file[s] /\ Broken(s)' = Broken(s) /\ (s \in ragged' <=> s \in ragged)
      BY <2>1 DEF Broken
    <3>2. SessionSound(s)'
      BY <3>1, <2>1, <1>6, <1>7, <1>8 DEF SessionSound
    <3>3. Counts(s)
      BY <1>2 DEF FileInv
    <3>4. Counts(s)'
      BY <3>1, <3>3, <1>1, <1>2, CountsStay
    <3> QED BY <3>2, <3>4
  <2>2. CASE file' = [file EXCEPT ![s] = g] /\ ragged' = ragged \ {s}
    <3>1. file'[s] = g /\ s \notin ragged'
      BY <2>2, <1>2 DEF FileSorts
    <3>2. Broken(s)' = 0
      BY <3>1 DEF Broken
    <3>3. SessionSound(s)'
      BY <3>1, <3>2, <1>6, <1>7, <1>8 DEF SessionSound
    <3>4. Counts(s)'
      BY <3>1, <1>1, <1>2, <1>6, CountsWrite DEF g, s
    <3> QED BY <3>3, <3>4
  <2> QED BY <2>1, <2>2, <1>1
<1> QED BY <1>1, <1>7, <1>9, OneSession DEF s

\* A session is read from its file, if it is not in memory.
LEMMA ReadStep ==
    ASSUME Files!JsonlAssumption, NoneApart, Files!ForksApart, FileInv, NEW c \in Clients, NEW stage \in {"ok", "holding"},
           Files!Go(c, stage), Files!MayBegin(c), FileKind[c] \in {"read", "hold"}, stage = "holding" => FileKind[c] = "hold",
           Files!Holds(FileOn[c], Files!Loaded(FileOn[c])), UNCHANGED <<file, ragged, jrestarts>>
    PROVE  FileInv'
<1> DEFINE s == FileOn[c]
           m == Files!Loaded(s)
<1>1. jstates' = [jstates EXCEPT ![s] = m] /\ jloaded' = jloaded \cup {s}
  BY DEF Files!Holds
<1>2. s \in Sessions /\ c \notin Begun /\ FileSorts /\ Counts(s)
  BY DEF Files!JsonlAssumption, Begun, Files!MayBegin, Files!At, FileInv
<1>3. m # None /\ Sound(Begun, Acked, Dead, file[s], Broken(s), m)
  BY <1>2, Before
<1> HIDE DEF m, s
<1>4. /\ DOMAIN file' = Sessions /\ DOMAIN jstates' = Sessions /\ jstates'[s] = m
      /\ ragged' \subseteq Sessions /\ jloaded' \subseteq Sessions
      /\ s \in jloaded' <=> jstates'[s] # None
      /\ \A t \in Sessions \ {s} : /\ file'[t] = file[t] /\ jstates'[t] = jstates[t]
                                   /\ t \in ragged' <=> t \in ragged
                                   /\ t \in jloaded' <=> t \in jloaded
  BY <1>1, <1>2, <1>3 DEF FileSorts
<1>5. file'[s] = file[s] /\ Broken(s)' = Broken(s) /\ (s \in ragged' <=> s \in ragged)
  BY DEF Broken
<1>6. SessionSound(s)'
  <2>1. Sound(Begun, Acked, Dead, file'[s], Broken(s)', jstates'[s])
    BY <1>3, <1>4, <1>5
  <2> QED BY <2>1, <1>2, SoundStays
<1>7. Counts(s)'
  BY <1>2, <1>5, CountsStay
<1> QED BY <1>4, <1>6, <1>7, OneSession DEF s

\* delete_session
LEMMA DeleteStep ==
    ASSUME Files!JsonlAssumption, NoneApart, Files!ForksApart, FileInv, NEW c \in Clients, Files!Delete(c)
    PROVE  FileInv'
<1> DEFINE s == FileOn[c]
<1>1. /\ Files!MayBegin(c) /\ FileKind[c] = "delete" /\ Files!Go(c, "ok") /\ jrestarts' = jrestarts
      /\ jstates' = [jstates EXCEPT ![s] = None] /\ jloaded' = jloaded \ {s}
      /\ file' = [file EXCEPT ![s] = None] /\ ragged' = ragged \ {s}
  BY DEF Files!Delete, Files!Unloaded
<1>2. s \in Sessions /\ c \notin Begun /\ FileSorts
  BY <1>1 DEF Files!JsonlAssumption, Begun, Files!MayBegin, Files!At, FileInv
<1> HIDE DEF s
<1>3. /\ DOMAIN file' = Sessions /\ DOMAIN jstates' = Sessions /\ file'[s] = None /\ jstates'[s] = None
      /\ ragged' \subseteq Sessions /\ jloaded' \subseteq Sessions /\ s \notin ragged'
      /\ s \in jloaded' <=> jstates'[s] # None
      /\ \A t \in Sessions \ {s} : /\ file'[t] = file[t] /\ jstates'[t] = jstates[t]
                                   /\ t \in ragged' <=> t \in ragged
                                   /\ t \in jloaded' <=> t \in jloaded
  BY <1>1, <1>2 DEF FileSorts
<1>4. Broken(s)' = 0 /\ Once(LogOf(None))
  BY <1>3 DEF Broken, Once, LogOf
<1>5. SessionSound(s)'
  BY <1>3, <1>4 DEF SessionSound, Sound
<1>6. Files!Deleted(s)'
  <2>1. jpc'[c] = "ok"
    BY <1>1, <1>2 DEF Files!Go, FileSorts
  <2> QED BY <2>1, <1>1 DEF Files!Deleted, Files!At, s
<1>7. Counts(s)'
  <2>1. Files!Lost(s)' = {}
    BY <1>6 DEF Files!Lost
  <2>2. IsFiniteSet(Files!Lost(s)') /\ Cardinality(Files!Lost(s)') = 0
    BY <2>1, FS_EmptySet
  <2>3. jrestarts' \in Nat
    BY <1>1, <1>2 DEF FileSorts
  <2> QED BY <2>2, <2>3, <1>4, <1>6 DEF Counts, Paid, Unspent
<1> QED BY <1>1, <1>3, <1>5, <1>7, OneSession DEF s

\* fork_session, when the lock is free
LEMMA ForkStep ==
    ASSUME Files!JsonlAssumption, NoneApart, Files!ForksApart, FileInv, NEW c \in Clients, Files!Fork(c)
    PROVE  FileInv'
<1> DEFINE s == FileOn[c]
           t == FileTarget[c]
           m == Files!Loaded(s)
<1>1. /\ jpc[c] = "waiting" /\ Files!Go(c, "ok") /\ jrestarts' = jrestarts /\ file' = Files!Copied(c)
      /\ ragged' = IF s \in ragged THEN ragged \cup {t} ELSE ragged \ {t}
      /\ jstates' = [jstates EXCEPT ![s] = m, ![t] = m] /\ jloaded' = jloaded \cup {s, t}
  BY Zenon DEF Files!Fork, Files!At
<1>2. FileSorts /\ InTurn /\ file[t] = None /\ jstates[t] = None /\ \A u \in Sessions : SessionSound(u) /\ Counts(u)
  BY <1>1 DEF FileInv, FileFree
<1>3. s \in Sessions /\ t \in Sessions /\ s # t /\ FileKind[c] = "fork" /\ c \notin Begun /\ ~Files!Ended(c)
  BY <1>1, <1>2 DEF Files!JsonlAssumption, FileSorts, Begun, Files!Ended, Files!At
<1>4. /\ m # None /\ Sound(Begun, Acked, Dead, file[s], Broken(s), m) /\ Broken(s) \in {0, 1}
      /\ (Broken(s) = 1 <=> s \in ragged) /\ (s \in ragged => file[s] # None)
  BY <1>3, Before
<1> HIDE DEF m, s, t
<1>5. /\ DOMAIN file' = Sessions /\ file'[t] = file[s] /\ file'[s] = file[s]
      /\ \A u \in Sessions \ {s, t} : file'[u] = file[u]
  <2>1. CASE file[s] = None
    <3>1. file' = file
      BY <1>1, <2>1 DEF Files!Copied, s
    <3> QED BY <3>1, <2>1, <1>2 DEF FileSorts
  <2>2. CASE file[s] # None
    <3>1. file' = [file EXCEPT ![t] = file[s]]
      BY <1>1, <2>2 DEF Files!Copied, s, t
    <3> QED BY <3>1, <1>2, <1>3 DEF FileSorts
  <2> QED BY <2>1, <2>2
<1>6. /\ DOMAIN jstates' = Sessions /\ jstates'[s] = m /\ jstates'[t] = m
      /\ \A u \in Sessions \ {s, t} : jstates'[u] = jstates[u]
  BY <1>1, <1>2, <1>3 DEF FileSorts
<1>7. /\ ragged' \subseteq Sessions /\ (t \in ragged' <=> s \in ragged) /\ (s \in ragged' <=> s \in ragged)
      /\ \A u \in Sessions \ {s, t} : u \in ragged' <=> u \in ragged
  BY <1>1, <1>2, <1>3 DEF FileSorts
<1>8. jloaded' \subseteq Sessions /\ \A u \in Sessions : u \in jloaded' <=> jstates'[u] # None
  BY <1>1, <1>2, <1>3, <1>4, <1>6 DEF FileSorts
<1>9. Broken(t)' = Broken(s) /\ Broken(s)' = Broken(s) /\ \A u \in Sessions \ {s, t} : Broken(u)' = Broken(u)
  BY <1>7 DEF Broken
<1>10. \A u \in Sessions : SessionSound(u)'
  <2> TAKE u \in Sessions
  <2>1. Sound(Begun, Acked, Dead, file'[u], Broken(u)', jstates'[u])
    <3>1. CASE u = s
      BY <3>1, <1>4, <1>5, <1>6, <1>9
    <3>2. CASE u = t
      BY <3>2, <1>4, <1>5, <1>6, <1>9
    <3>3. CASE u \in Sessions \ {s, t}
      BY <3>3, <1>2, <1>5, <1>6, <1>9 DEF SessionSound
    <3> QED BY <3>1, <3>2, <3>3
  <2> QED BY <2>1, <1>1, <1>2, <1>3, SoundStays
<1>11. \A u \in Sessions \ {t} : Counts(u)'
  <2> TAKE u \in Sessions \ {t}
  <2>1. file'[u] = file[u] /\ (u \in ragged' <=> u \in ragged) /\ Counts(u)
    BY <1>2, <1>5, <1>7
  <2> QED BY <2>1, <1>1, <1>2, <1>3, CountsStay
<1>12. Counts(t)'
  <2>1. jpc'[c] = "ok" /\ \A b \in Clients : b # c => jpc'[b] = jpc[b]
    BY <1>1, <1>2 DEF Files!Go, FileSorts
  <2>2. Files!Deleted(t) \/ \A b \in Clients : FileKind[b] = "append" /\ FileOn[b] = t => jpc[b] # "ok"
    BY <1>2, <1>3 DEF Counts, Unspent
  <2>3. Files!Deleted(t)' \/ \A b \in Clients : FileKind[b] = "append" /\ FileOn[b] = t => jpc'[b] # "ok"
    <3>1. CASE Files!Deleted(t)
      <4>1. PICK d \in Clients : FileKind[d] = "delete" /\ FileOn[d] = t /\ jpc[d] = "ok"
        BY <3>1 DEF Files!Deleted, Files!At
      <4>2. jpc'[d] = "ok"
        BY <4>1, <2>1
      <4>3. Files!Deleted(t)'
        BY <4>1, <4>2 DEF Files!Deleted, Files!At
      <4> QED BY <4>3
    <3>2. CASE \A b \in Clients : FileKind[b] = "append" /\ FileOn[b] = t => jpc[b] # "ok"
      BY <3>2, <2>1, <1>3
    <3> QED BY <3>1, <3>2, <2>2
  <2>4. Unspent(t)'
    BY <2>3 DEF Unspent
  <2>5. Files!Lost(t)' = {}
    <3> SUFFICES ASSUME NEW b \in Files!Lost(t)' PROVE FALSE
      OBVIOUS
    <3>1. b \in Clients /\ FileKind[b] = "append" /\ FileOn[b] = t /\ jpc'[b] = "ok" /\ ~Files!Deleted(t)'
      BY DEF Files!Lost, Files!At
    <3> QED BY <3>1, <2>3
  <2>6. IsFiniteSet(Files!Lost(t)') /\ Cardinality(Files!Lost(t)') = 0
    BY <2>5, FS_EmptySet
  <2>7. Broken(s) <= jrestarts
    <3> DEFINE L == Files!Lost(s)
               r == Broken(s)
    <3>1. IsFiniteSet(L) /\ Cardinality(L) + r <= jrestarts /\ jrestarts \in Nat /\ r \in {0, 1}
      BY <1>2, <1>3, <1>4 DEF Counts, Paid, FileSorts
    <3> HIDE DEF L, r
    <3>2. Cardinality(L) \in Nat
      BY <3>1, FS_CardinalityType
    <3>3. r <= jrestarts
      BY <3>1, <3>2
    <3> QED BY <3>3 DEF r
  <2> QED BY <2>4, <2>6, <2>7, <1>1, <1>4, <1>9 DEF Counts, Paid
<1>13. \A f \in Clients : f # c /\ jpc[f] = "waiting" =>
          file'[FileTarget[f]] = file[FileTarget[f]] /\ jstates'[FileTarget[f]] = jstates[FileTarget[f]]
  <2> TAKE f \in Clients
  <2> HAVE f # c /\ jpc[f] = "waiting"
  <2>1. FileKind[f] = "fork" /\ FileTarget[f] \in Sessions
    BY <1>2 DEF FileSorts, Files!JsonlAssumption
  <2>2. FileOn[c] # FileTarget[f] /\ FileTarget[c] # FileTarget[f]
    BY <2>1, <1>1, <1>2, <1>3, TargetsApart DEF Files!At
  <2> QED BY <2>1, <2>2, <1>5, <1>6 DEF s, t
<1>14. \A u \in Sessions : SessionSound(u)' /\ Counts(u)'
  BY <1>10, <1>11, <1>12
<1> QED BY <1>1, <1>3, <1>5, <1>6, <1>7, <1>8, <1>13, <1>14, After1

\* The lock is left, and a fork looks at its target.
LEMMA OtherSteps ==
    ASSUME Files!JsonlAssumption, NoneApart, Files!ForksApart, FileInv, NEW c \in Clients, Files!Leave(c) \/ Files!Check(c)
    PROVE  FileInv'
<1>1. CASE Files!Leave(c)
  <2>1. jpc[c] = "holding" /\ FileKind[c] = "hold" /\ Files!Go(c, "ok") /\ UNCHANGED <<file, ragged, jstates, jloaded, jrestarts>>
    BY <1>1 DEF Files!Leave, Files!At, FileInv, FileSorts
  <2> QED BY <2>1, NoSession
<1>2. CASE Files!Check(c)
  <2>1. Files!MayBegin(c) /\ FileKind[c] = "fork" /\ UNCHANGED <<file, ragged, jstates, jloaded, jrestarts>>
    BY <1>2 DEF Files!Check
  <2>2. CASE Files!Exists(FileTarget[c])
    <3>1. Files!Go(c, "failed")
      BY <1>2, <2>2 DEF Files!Check
    <3> QED BY <3>1, <2>1, NoSession
  <2>3. CASE ~Files!Exists(FileTarget[c])
    <3>1. Files!Go(c, "waiting") /\ file[FileTarget[c]] = None /\ jstates[FileTarget[c]] = None
      BY <1>2, <2>3 DEF Files!Check, Files!Exists
    <3> QED BY <3>1, <2>1, NoSession
  <2> QED BY <2>2, <2>3
<1> QED BY <1>1, <1>2

\* A process ends with the clients of K in the middle of a write, and another
\* one starts.
LEMMA Reboot ==
    ASSUME Files!JsonlAssumption, FileInv, NEW K \in SUBSET Clients, \A b \in K : Files!MayBegin(b),
           DOMAIN jpc' = Clients,
           \A b \in Clients : jpc'[b] = IF b \in K \/ Files!Killed(jpc[b]) THEN "lost" ELSE jpc[b],
           jrestarts' = jrestarts + 1, jloaded' = {}, jstates' = [s \in Sessions |-> None],
           DOMAIN file' = Sessions, ragged' \subseteq Sessions,
           \A s \in Sessions : /\ Sound(Begun \cup K, Acked, Dead \cup K, file'[s], Broken(s)', None)
                               /\ file'[s] = None => file[s] = None
                               /\ \A b \in Acked : (\E i \in DOMAIN Files!Log(s) : Files!Log(s)[i] = Files!Message(b)) =>
                                       \E i \in DOMAIN Files!Log(s)' : Files!Log(s)'[i] = Files!Message(b)
    PROVE  FileInv'
<1>1. FileSorts /\ InTurn /\ \A s \in Sessions : Counts(s)
  BY DEF FileInv
<1>2. \A b \in Clients : /\ jpc'[b] \notin {"waiting", "holding"}
                         /\ jpc'[b] = "ok" <=> jpc[b] = "ok"
                         /\ jpc[b] \in {"ok", "lost", "failed"} => jpc'[b] = jpc[b]
                         /\ jpc'[b] = "idle" => jpc[b] = "idle"
                         /\ b \in K => jpc'[b] = "lost"
                         /\ jpc'[b] # "idle" /\ b \notin K => jpc[b] # "idle"
  BY DEF Files!Killed, Files!MayBegin, Files!At
<1>3. Begun \cup K \subseteq Begun' /\ Begun' \in SUBSET Clients /\ Acked' = Acked /\ Dead \cup K \subseteq Dead'
  BY <1>2 DEF Begun, Acked, Dead
<1>4. \A s \in Sessions : SessionSound(s)'
  <2> TAKE s \in Sessions
  <2> DEFINE B == Begun \cup K
             C == Begun'
             A == Acked
             D == Dead \cup K
             E == Dead'
             f == file'[s]
             r == Broken(s)'
  <2>1. /\ B \in SUBSET Clients /\ C \in SUBSET Clients /\ B \subseteq C /\ A \in SUBSET Clients /\ A \subseteq A
        /\ A \cap B \subseteq A /\ D \subseteq E /\ Sound(B, A, D, f, r, None)
    BY <1>3, Parties
  <2> HIDE DEF B, C, A, D, E, f, r
  <2>2. Sound(C, A, E, f, r, None)
    BY <2>1, SoundGrows
  <2> QED BY <2>2, <1>3 DEF C, A, E, f, r, SessionSound
<1>5. FileSorts'
  <2>1. jrestarts' \in Nat
    BY <1>1 DEF FileSorts
  <2>2. DOMAIN jstates' = Sessions /\ \A s \in Sessions : jstates'[s] = None /\ s \notin jloaded'
    OBVIOUS
  <2> QED BY <2>1, <2>2, <1>2 DEF FileSorts
<1>6. InTurn'
  <2>1. \A b \in Clients : Files!Ended(b) => Files!Ended(b)'
    BY <1>2 DEF Files!Ended, Files!At
  <2>2. \A b \in Clients : FileAfter[b] \subseteq Clients
    BY DEF Files!JsonlAssumption
  <2> SUFFICES ASSUME NEW b \in Clients, jpc'[b] # "idle" PROVE \A d \in FileAfter[b] : Files!Ended(d)'
    BY DEF InTurn
  <2>3. \A d \in FileAfter[b] : Files!Ended(d)
    <3>1. CASE b \in K
      BY <3>1 DEF Files!MayBegin
    <3>2. CASE b \notin K
      BY <3>2, <1>1, <1>2 DEF InTurn
    <3> QED BY <3>1, <3>2
  <2> QED BY <2>1, <2>2, <2>3
<1>7. FileFree'
  BY <1>2 DEF FileFree
<1>8. \A s \in Sessions : Counts(s)'
  <2> TAKE s \in Sessions
  <2>1. Files!Deleted(s)' <=> Files!Deleted(s)
    BY <1>2 DEF Files!Deleted, Files!At
  <2>2. Unspent(s)'
    <3>1. file'[s] = None => file[s] = None
      OBVIOUS
    <3>2. Unspent(s)
      BY <1>1 DEF Counts
    <3> QED BY <3>1, <3>2, <2>1, <1>2 DEF Unspent
  <2>3. Files!Lost(s)' \subseteq Files!Lost(s)
    <3> SUFFICES ASSUME NEW b \in Files!Lost(s)' PROVE b \in Files!Lost(s)
      OBVIOUS
    <3>1. b \in Clients /\ FileKind[b] = "append" /\ FileOn[b] = s /\ jpc'[b] = "ok" /\ ~Files!Deleted(s)' /\ \A i \in DOMAIN Files!Log(s)' : Files!Log(s)'[i] # Files!Message(b)
      BY DEF Files!Lost, Files!At
    <3>2. b \in Acked /\ jpc[b] = "ok"
      BY <3>1, <1>2 DEF Acked
    <3>3. \A i \in DOMAIN Files!Log(s) : Files!Log(s)[i] # Files!Message(b)
      BY <3>1, <3>2
    <3> QED BY <3>1, <3>2, <3>3, <2>1 DEF Files!Lost, Files!At
  <2>4. Paid(s)'
    <3> DEFINE L == Files!Lost(s)
               M == Files!Lost(s)'
               r == Broken(s)
               q == Broken(s)'
    <3>1. IsFiniteSet(L) /\ Cardinality(L) + r <= jrestarts /\ jrestarts \in Nat /\ r \in {0, 1} /\ q \in {0, 1} /\ M \subseteq L
      BY <1>1, <2>3 DEF Counts, Paid, FileSorts, Broken
    <3> HIDE DEF L, M, r, q
    <3>2. IsFiniteSet(M) /\ Cardinality(M) \in Nat /\ Cardinality(M) + r <= jrestarts
      BY <3>1, Fewer
    <3>3. Cardinality(M) + q <= jrestarts + 1
      BY <3>1, <3>2
    <3> QED BY <3>2, <3>3 DEF M, q, Paid
  <2> QED BY <2>2, <2>4 DEF Counts
<1> QED BY <1>4, <1>5, <1>6, <1>7, <1>8 DEF FileInv

\* The process ends, or dies in a write, and another one reads the files.
LEMMA RestartSteps ==
    ASSUME Files!JsonlAssumption, NoneApart, FileInv, Files!Restart \/ \E c \in Clients : Files!DieWriting(c)
    PROVE  FileInv'
<1>0. FileSorts /\ \A s \in Sessions : SessionSound(s)
  BY DEF FileInv
<1>1. CASE Files!Restart
  <2>1. /\ jpc' = [c \in Clients |-> IF Files!Killed(jpc[c]) THEN "lost" ELSE jpc[c]]
        /\ jrestarts' = jrestarts + 1 /\ jloaded' = {} /\ jstates' = [s \in Sessions |-> None]
        /\ file' = file /\ ragged' = ragged
    BY <1>1 DEF Files!Restart, Files!Reset
  <2>2. \A s \in Sessions : Broken(s)' = Broken(s) /\ Files!Log(s)' = Files!Log(s) /\ file'[s] = file[s]
    BY <2>1 DEF Broken, Files!Log
  <2>3. Begun \cup {} = Begun /\ Dead \cup {} = Dead
    OBVIOUS
  <2>4. \A s \in Sessions : Sound(Begun, Acked, Dead, file[s], Broken(s), None)
    BY <1>0 DEF SessionSound, Sound
  <2>5. \A s \in Sessions : Sound(Begun \cup {}, Acked, Dead \cup {}, file'[s], Broken(s)', None)
    BY <2>2, <2>3, <2>4
  <2>6. DOMAIN jpc' = Clients /\ \A b \in Clients : jpc'[b] = IF b \in {} \/ Files!Killed(jpc[b]) THEN "lost" ELSE jpc[b]
    BY <2>1
  <2>7. DOMAIN file' = Sessions /\ ragged' \subseteq Sessions
    BY <1>0, <2>1 DEF FileSorts
  <2>8. \A s \in Sessions : \A b \in Acked : (\E i \in DOMAIN Files!Log(s) : Files!Log(s)[i] = Files!Message(b)) =>
            \E i \in DOMAIN Files!Log(s)' : Files!Log(s)'[i] = Files!Message(b)
    BY <2>2
  <2> DEFINE K == {}
  <2>9. /\ K \in SUBSET Clients /\ \A b \in K : Files!MayBegin(b)
        /\ \A b \in Clients : jpc'[b] = IF b \in K \/ Files!Killed(jpc[b]) THEN "lost" ELSE jpc[b]
        /\ \A s \in Sessions : Sound(Begun \cup K, Acked, Dead \cup K, file'[s], Broken(s)', None)
    BY <2>5, <2>6
  <2> HIDE DEF K
  <2> QED BY <2>1, <2>2, <2>6, <2>7, <2>8, <2>9, Reboot
<1>2. ASSUME NEW c \in Clients, Files!DieWriting(c)
      PROVE  FileInv'
  <2> DEFINE s == FileOn[c]
             K == {c}
  <2>1. /\ Files!MayBegin(c) /\ FileKind[c] = "append"
        /\ jpc' = [b \in Clients |-> IF b = c \/ Files!Killed(jpc[b]) THEN "lost" ELSE jpc[b]]
        /\ jrestarts' = jrestarts + 1 /\ jloaded' = {} /\ jstates' = [u \in Sessions |-> None]
        /\ ragged' = ragged \cup {s}
    BY <1>2 DEF Files!DieWriting, Files!Reset
  <2>2. s \in Sessions /\ c \in Appenders \ Begun
    BY <2>1 DEF Files!JsonlAssumption, Begun, Files!MayBegin, Files!At, Appenders
  <2>3. /\ Files!Log(s) = LogOf(file[s]) /\ Files!Log(s) \in Seq(Told(Begun)) /\ Broken(s) \in {0, 1}
        /\ (Broken(s) = 1 <=> s \in ragged) /\ (s \in ragged => Fragment(Dead, Files!Log(s)) /\ file[s] # None)
    BY <2>2, Before
  <2>4. PICK e \in {Files!Bad, Files!Message(c)} : file' = [file EXCEPT ![s] = FileLine(file[s], Broken(s), e)]
    <3>1. CASE s \in ragged
      <4>1. file' = [file EXCEPT ![s] = Files!Glued(file[s])] /\ Broken(s) = 1 /\ LogOf(file[s]) = file[s]
        BY <1>2, <3>1, <2>3 DEF Files!DieWriting, LogOf
      <4>2. FileLine(file[s], Broken(s), Files!Bad) = Files!Glued(file[s])
        BY <4>1 DEF FileLine
      <4> QED BY <4>1, <4>2
    <3>2. CASE s \notin ragged
      <4>1. PICK e \in {Files!Bad, Files!Message(c)} : file' = [file EXCEPT ![s] = Files!Cut(s, e)]
        BY <1>2, <3>2 DEF Files!DieWriting
      <4>2. FileLine(file[s], Broken(s), e) = Files!Cut(s, e)
        BY <3>2, <2>3 DEF FileLine, Files!Cut
      <4> QED BY <4>1, <4>2
    <3> QED BY <3>1, <3>2
  <2> HIDE DEF s, K
  <2> DEFINE g == FileLine(file[s], Broken(s), e)
  <2>5. DOMAIN file' = Sessions /\ file'[s] = g /\ (\A u \in Sessions \ {s} : file'[u] = file[u]) /\ ragged' \subseteq Sessions
        /\ Broken(s)' = 1 /\ \A u \in Sessions \ {s} : Broken(u)' = Broken(u)
    BY <1>0, <2>1, <2>2, <2>4 DEF FileSorts, Broken
  <2>6. Sound(Begun \cup K, Acked, Dead \cup K, g, 1, None) /\ g # None
    <3> DEFINE f == file[s]
               r == Broken(s)
               m == jstates[s]
               B == Begun
               A == Acked
               D == Dead
    <3>1. /\ B \in SUBSET Clients /\ A \in SUBSET Clients /\ D \in SUBSET Clients /\ c \in Appenders \ B
          /\ Sound(B, A, D, f, r, m) /\ g = FileLine(f, r, e)
      BY <1>0, <2>2, Parties DEF SessionSound
    <3> HIDE DEF f, r, m, B, A, D, g
    <3>2. Sound(B \cup {c}, A, D \cup {c}, g, 1, None) /\ g # None
      BY <3>1, SoundDeath
    <3> QED BY <3>2 DEF B, A, D, K
  <2> HIDE DEF g
  <2>7. \A u \in Sessions : Sound(Begun \cup K, Acked, Dead \cup K, file'[u], Broken(u)', None)
    <3> TAKE u \in Sessions
    <3>1. CASE u = s
      BY <3>1, <2>5, <2>6
    <3>2. CASE u # s
      <4> DEFINE f == file[u]
                 r == Broken(u)
                 B == Begun
                 C == Begun \cup K
                 A == Acked
                 D == Dead
                 E == Dead \cup K
      <4>1. /\ B \in SUBSET Clients /\ C \in SUBSET Clients /\ B \subseteq C /\ A \in SUBSET Clients /\ A \subseteq A
            /\ A \cap B \subseteq A /\ D \subseteq E /\ Sound(B, A, D, f, r, None)
        BY <1>0, Parties DEF SessionSound, Sound, K
      <4> HIDE DEF f, r, B, C, A, D, E
      <4>2. Sound(C, A, E, f, r, None)
        BY <4>1, SoundGrows
      <4> QED BY <4>2, <3>2, <2>5 DEF f, r, C, A, E
    <3> QED BY <3>1, <3>2
  <2>8. \A u \in Sessions : file'[u] = None => file[u] = None
    BY <2>5, <2>6
  <2>9. \A u \in Sessions : \A b \in Acked : (\E i \in DOMAIN Files!Log(u) : Files!Log(u)[i] = Files!Message(b)) =>
            \E i \in DOMAIN Files!Log(u)' : Files!Log(u)'[i] = Files!Message(b)
    <3> TAKE u \in Sessions
    <3>1. CASE u = s
      <4> DEFINE log == Files!Log(s)
                 r == Broken(s)
      <4>1. Begun \in SUBSET Clients /\ log \in Seq(Told(Begun)) /\ (r = 1 => Fragment(Dead, log))
        BY <2>3, Parties
      <4>6. g = Lined(log, r, e)
        BY <2>3 DEF g, FileLine, Lined
      <4>2. Files!Log(s)' = g
        BY <2>5, <2>6 DEF Files!Log
      <4> HIDE DEF log, r
      <4>3. \A b \in Clients \ Dead : (\E i \in DOMAIN log : log[i] = Files!Message(b)) => \E i \in DOMAIN g : g[i] = Files!Message(b)
        BY <4>1, <4>6, LinesStay
      <4>4. \A b \in Acked : b \in Clients \ Dead
        BY Parties
      <4>5. \A b \in Acked : (\E i \in DOMAIN log : log[i] = Files!Message(b)) => \E i \in DOMAIN g : g[i] = Files!Message(b)
        BY <4>3, <4>4
      <4> QED BY <4>2, <4>5, <3>1, Zenon DEF log
    <3>2. CASE u # s
      <4>1. Files!Log(u)' = Files!Log(u)
        BY <3>2, <2>5 DEF Files!Log
      <4> QED BY <4>1
    <3> QED BY <3>1, <3>2
  <2>10. /\ K \in SUBSET Clients /\ \A b \in K : Files!MayBegin(b)
         /\ DOMAIN jpc' = Clients /\ \A b \in Clients : jpc'[b] = IF b \in K \/ Files!Killed(jpc[b]) THEN "lost" ELSE jpc[b]
    BY <2>1 DEF K
  <2> QED BY <2>1, <2>5, <2>7, <2>8, <2>9, <2>10, Reboot
<1> QED BY <1>1, <1>2

\* No session has a file.
LEMMA FilesBegin ==
    ASSUME Files!JsonlAssumption, Files!Init
    PROVE  FileInv
<1>1. /\ \A c \in Clients : jpc[c] = "idle"
      /\ \A s \in Sessions : file[s] = None /\ jstates[s] = None /\ Broken(s) = 0 /\ Files!Lost(s) = {}
      /\ DOMAIN jpc = Clients /\ DOMAIN file = Sessions /\ DOMAIN jstates = Sessions
      /\ ragged = {} /\ jloaded = {} /\ jrestarts = 0
  BY DEF Files!Init, Broken, Files!Lost, Files!At
<1>2. FileSorts /\ InTurn /\ FileFree
  BY <1>1 DEF FileSorts, InTurn, FileFree
<1>3. \A s \in Sessions : SessionSound(s)
  <2>1. Once(LogOf(None))
    BY DEF Once, LogOf
  <2> QED BY <2>1, <1>1 DEF SessionSound, Sound
<1>4. \A s \in Sessions : Counts(s)
  <2>1. IsFiniteSet({}) /\ Cardinality({}) = 0
    BY FS_EmptySet
  <2> QED BY <2>1, <1>1 DEF Counts, Paid, Unspent
<1> QED BY <1>2, <1>3, <1>4 DEF FileInv

\* Each step keeps what the files and the dicts are.
LEMMA FilesStep ==
    ASSUME Files!JsonlAssumption, NoneApart, Files!ForksApart, FileInv, [Files!Next]_(Files!vars)
    PROVE  FileInv'
<1>1. CASE Files!Restart \/ \E c \in Clients : Files!DieWriting(c)
  BY <1>1, RestartSteps
<1>2. ASSUME NEW c \in Clients, Files!Step(c)
      PROVE  FileInv'
  <2>1. CASE Files!AppendMessage(c)
    BY <2>1, AppendStep
  <2>2. CASE Files!SetState(c)
    BY <2>2, StateStep
  <2>3. CASE Files!LoadMessages(c)
    BY <2>3, ReadStep DEF Files!LoadMessages
  <2>4. CASE Files!Enter(c)
    BY <2>4, ReadStep DEF Files!Enter
  <2>5. CASE Files!Leave(c) \/ Files!Check(c)
    BY <2>5, OtherSteps
  <2>6. CASE Files!Fork(c)
    BY <2>6, ForkStep
  <2>7. CASE Files!Delete(c)
    BY <2>7, DeleteStep
  <2> QED BY <1>2, <2>1, <2>2, <2>3, <2>4, <2>5, <2>6, <2>7 DEF Files!Step
<1>3. CASE UNCHANGED Files!vars
  <2>1. jpc' = jpc /\ file' = file /\ ragged' = ragged /\ jstates' = jstates /\ jloaded' = jloaded /\ jrestarts' = jrestarts
    BY <1>3 DEF Files!vars
  <2>2. FileSorts' /\ InTurn' /\ FileFree'
    BY <2>1 DEF FileInv, FileSorts, InTurn, Files!Ended, Files!At, FileFree
  <2>3. ASSUME NEW s \in Sessions
        PROVE  SessionSound(s)' /\ Counts(s)'
    <3>1. SessionSound(s) /\ Counts(s)
      BY DEF FileInv
    <3>2. Begun' = Begun /\ Acked' = Acked /\ Dead' = Dead /\ Broken(s)' = Broken(s)
      BY <2>1 DEF Begun, Acked, Dead, Broken
    <3>3. SessionSound(s)'
      BY <3>1, <3>2, <2>1 DEF SessionSound
    <3>4. Files!Deleted(s)' <=> Files!Deleted(s)
      BY <2>1 DEF Files!Deleted, Files!At
    <3>5. Files!Lost(s)' = Files!Lost(s)
      <4>1. Files!Log(s)' = Files!Log(s)
        BY <2>1 DEF Files!Log
      <4> QED BY <4>1, <3>4, <2>1, Zenon DEF Files!Lost, Files!At
    <3>6. Unspent(s)'
      BY <3>1, <3>4, <2>1 DEF Counts, Unspent
    <3>7. Paid(s)'
      BY <3>1, <3>2, <3>5, <2>1 DEF Counts, Paid
    <3> QED BY <3>3, <3>6, <3>7 DEF Counts
  <2> QED BY <2>2, <2>3 DEF FileInv
<1> QED BY <1>1, <1>2, <1>3 DEF Files!Next

\* What the invariant says of the dicts and of the lost messages.
LEMMA FilesSay ==
    ASSUME Files!JsonlAssumption, FileInv
    PROVE  Files!MirrorsFile /\ Files!OneLostEach
<1>1. FileSorts /\ \A s \in Sessions : SessionSound(s) /\ Counts(s)
  BY DEF FileInv
<1>2. ASSUME NEW s \in jloaded
      PROVE  /\ Files!Stretch(jstates[s], Files!Stored(Files!Log(s)))
             /\ \A k \in Keys : jstates[s].fields[k] \in {Files!Stored(Files!Log(s)).fields[k], Absent} \cup Files!Unwritten(s)
             /\ Cardinality(Files!Unwritten(s)) <= 1
  <2>1. Mirrors(Acked, jstates[s], Files!Log(s))
    BY <1>1 DEF FileSorts, SessionSound, Sound, Files!Log, LogOf
  <2>2. Missed(Acked, jstates[s], Files!Log(s)) = Files!Unwritten(s)
    BY DEF Missed, Files!Unwritten, Acked, Files!At
  <2>3. PICK u \in Clients : Files!Unwritten(s) \subseteq {u}
    BY <2>1, <2>2 DEF Mirrors
  <2>4. Cardinality(Files!Unwritten(s)) <= 1
    <3> DEFINE U == Files!Unwritten(s)
    <3>1. U \subseteq {u}
      BY <2>3
    <3> HIDE DEF U
    <3>2. IsFiniteSet({u}) /\ Cardinality({u}) = 1
      BY FS_Singleton
    <3>3. Cardinality(U) <= Cardinality({u})
      BY <3>1, <3>2, FS_Subset
    <3> QED BY <3>2, <3>3 DEF U
  <2> QED BY <2>1, <2>2, <2>4 DEF Mirrors
<1>3. ASSUME NEW s \in Sessions
      PROVE  Cardinality(Files!Lost(s)) <= jrestarts
  <2> DEFINE L == Files!Lost(s)
             r == Broken(s)
  <2>1. IsFiniteSet(L) /\ Cardinality(L) + r <= jrestarts /\ jrestarts \in Nat /\ r \in {0, 1}
    BY <1>1 DEF Counts, Paid, FileSorts, Broken
  <2> HIDE DEF L, r
  <2>2. Cardinality(L) \in Nat
    BY <2>1, FS_CardinalityType
  <2>3. Cardinality(L) <= jrestarts
    BY <2>1, <2>2
  <2> QED BY <2>3 DEF L
<1>4. Files!MirrorsFile
  <2>1. \A s \in jloaded : Files!Cardinality(Files!Unwritten(s)) <= 1
    BY <1>2, SameEvents
  <2> QED BY <1>2, <2>1, Zenon DEF Files!MirrorsFile
<1>5. \A s \in Sessions : Files!Cardinality(Files!Lost(s)) <= jrestarts
  BY <1>3, SameEvents
<1> QED BY <1>4, <1>5 DEF Files!OneLostEach

\* A loaded session holds what a restart would replay, but for at most one
\* acknowledged change made after a death in the middle of a write, whatever
\* clients read, write, fork and delete sessions and however often the process
\* dies: JsonlFileSessionManager's dicts against its files.
THEOREM FilesAreMirrored ==
    ASSUME Files!JsonlAssumption, NoneApart, Files!ForksApart
    PROVE  Files!Spec => []Files!MirrorsFile
<1>1. Files!Init => FileInv
  BY FilesBegin
<1>2. FileInv /\ [Files!Next]_(Files!vars) => FileInv'
  BY FilesStep
<1>3. FileInv => Files!MirrorsFile
  BY FilesSay
<1> QED BY <1>1, <1>2, <1>3, PTL DEF Files!Spec

\* Each death in the middle of a write costs a session at most one
\* acknowledged message.
THEOREM DeathsCostOneEach ==
    ASSUME Files!JsonlAssumption, NoneApart, Files!ForksApart
    PROVE  Files!Spec => []Files!OneLostEach
<1>1. Files!Init => FileInv
  BY FilesBegin
<1>2. FileInv /\ [Files!Next]_(Files!vars) => FileInv'
  BY FilesStep
<1>3. FileInv => Files!OneLostEach
  BY FilesSay
<1> QED BY <1>1, <1>2, <1>3, PTL DEF Files!Spec

\* A fork replaces neither a file nor a dict: what it found before it waited
\* for the lock is still so when it has it, when those that use the new session
\* do so before the fork or after it.
THEOREM FileForksAreFresh ==
    ASSUME Files!JsonlAssumption, NoneApart, Files!ForksApart
    PROVE  Files!Spec => Files!ForksFresh
<1>1. Files!Init => FileInv
  BY FilesBegin
<1>2. FileInv /\ [Files!Next]_(Files!vars) => FileInv'
  BY FilesStep
<1>3. FileInv /\ [Files!Next]_(Files!vars) =>
        [\A c \in Clients : Files!At(c, "waiting") /\ jpc'[c] = "ok" =>
              file[FileTarget[c]] = None /\ jstates[FileTarget[c]] = None]_(Files!vars)
  BY DEF FileInv, FileFree, Files!At
<1> QED BY <1>1, <1>2, <1>3, PTL DEF Files!Spec, Files!ForksFresh
=============================================================================
