----------------------------- MODULE LfuParProofs -----------------------------
(***************************************************************************)
(* No object of the table is counted twice by lfu_par, and a load that     *)
(* reports no error has counted all of it, for any number of threads, any  *)
(* chunk, any limit and any table.                                         *)
(***************************************************************************)
EXTENDS LfuPar, FiniteSetTheorems, TLAPS

\* The minimum is below every element.
LEMMA MinIsLeast ==
  ASSUME NEW S, S \subseteq Nat, NEW y \in S PROVE Min(S) \in S /\ Min(S) <= y
<1> DEFINE R == {ss \in Nat \X Nat : ss[1] < ss[2]}
<1>0. IsWellFoundedOn(R, Nat)
  BY NatLessThanWellFounded DEF OpToRel
<1> HIDE DEF R
<1>1. PICK x \in S : \A z \in S : ~(<<z, x>> \in R)
  BY <1>0, WFMin, Zenon
<1>2. ASSUME NEW z \in S PROVE x <= z
  <2>1. x \in Nat /\ z \in Nat /\ <<z, x>> \notin R
    BY <1>1
  <2> QED
    BY <2>1 DEF R
<1> QED
  BY <1>2, Zenon DEF Min

\* An iterator stands on an object beyond the hash it was loaded with, or at
\* the end of the table.
LEMMA LoadAtBeyond ==
  ASSUME table \in Tables, NEW h \in Nat
  PROVE  LoadAt(h) = Nowhere \/ (LoadAt(h) \in table /\ LoadAt(h) > h)
<1>1. After(h) \subseteq Nat
  BY ParAssumption DEF After
<1>2. CASE After(h) # {}
  BY <1>1, <1>2, MinIsLeast DEF LoadAt, After
<1> QED
  BY <1>2 DEF LoadAt

\* The next chunk begins where the last one ends.
LEMMA ChunkAfter ==
  ASSUME NEW c \in Nat PROVE c * Chunk \in Nat /\ (c + 1) * Chunk = c * Chunk + Chunk
BY ParAssumption

\* Init implies the invariant: nothing is taken, nothing counted.
LEMMA ParInvInit == Init => ParInv
<1> SUFFICES ASSUME Init PROVE ParInv
  OBVIOUS
<1>1. ParTypeOK
  BY ParAssumption DEF Init, ParTypeOK, nthreads, Workers, Nowhere
<1>2. Alone /\ ChunksApart /\ Fresh
  BY ParAssumption DEF Init, Alone, ChunksApart, Fresh, Walking, Workers
<1> QED
  BY <1>1, <1>2 DEF ParInv

\* A thread that is in no chunk after its step, and has counted nothing in it,
\* disturbs nothing.
LEMMA Leaves ==
  ASSUME ParInv, NEW w \in Workers, wpc[w] # "none",
         NEW label \in {"check", "take", "add", "exit", "seterr", "out", "wake", "finished"},
         label \in {"check", "take"} => priv,
         wpc' = [wpc EXCEPT ![w] = label],
         UNCHANGED <<params, created, cursor, start, pos, counted>>
  PROVE  ParInv'
<1>1. ParTypeOK'
  BY DEF ParInv, ParTypeOK, params, nthreads
<1>2. \A v \in Workers : wpc'[v] = IF v = w THEN label ELSE wpc[v]
  BY DEF ParInv, ParTypeOK
<1>3. Alone'
  BY <1>2, ParAssumption DEF ParInv, Alone, params, Workers
<1>4. ChunksApart'
  BY <1>2 DEF ParInv, ChunksApart, Walking, params
<1>5. Fresh'
  BY <1>2 DEF ParInv, Fresh, Walking, Ahead, Mine, params
<1> QED
  BY <1>1, <1>3, <1>4, <1>5 DEF ParInv

\* lfu_par_init() starts threads that have nothing yet.
LEMMA MainKeeps == ASSUME ParInv, Main PROVE ParInv'
<1>1. CASE StartWorker
  <2>1. created + 1 \in Workers /\ (~priv => created + 1 = 1)
    BY <1>1, ParAssumption DEF StartWorker, ParInv, ParTypeOK, nthreads, Workers
  <2>2. /\ \A v \in Workers : wpc'[v] = IF v = created + 1 THEN "env" ELSE wpc[v]
        /\ wpc[created + 1] = "none"
    BY <1>1, <2>1 DEF StartWorker, ParInv, ParTypeOK, nthreads
  <2>3. ParTypeOK'
    <3>1. created' \in 0 .. nthreads' /\ created' = created + 1
      BY <1>1, ParAssumption DEF StartWorker, ParInv, ParTypeOK, params, nthreads
    <3>2. \A v \in Workers : v > created' => wpc'[v] = "none"
      BY <2>2, <3>1, ParAssumption DEF ParInv, ParTypeOK, Workers, nthreads
    <3> QED
      BY <1>1, <2>1, <3>1, <3>2 DEF StartWorker, ParInv, ParTypeOK, params, local
  <2>4. Alone'
    BY <1>1, <2>1, <2>2, ParAssumption DEF StartWorker, ParInv, Alone, params, local, Workers
  <2>5. ChunksApart'
    BY <1>1, <2>2 DEF StartWorker, ParInv, ChunksApart, Walking, params, local
  <2>6. Fresh'
    BY <1>1, <2>2 DEF StartWorker, ParInv, Fresh, Walking, Ahead, Mine, params, local
  <2> QED
    BY <2>3, <2>4, <2>5, <2>6 DEF ParInv
<1>2. CASE SetupFails \/ Setup \/ StartFails \/ Started \/ Finish
  <2>1. UNCHANGED <<table, priv, created, cursor, wpc, start, pos, counted>>
    BY <1>2 DEF SetupFails, Setup, StartFails, Started, Finish, params, local
  <2> QED
    BY <2>1 DEF ParInv, ParTypeOK, Alone, ChunksApart, Fresh, Walking, Ahead, Mine, nthreads
<1> QED
  BY <1>1, <1>2 DEF Main

\* The one thread of private=0 begins its walk with nothing counted.
LEMMA EnvInitKeeps == ASSUME ParInv, NEW w \in Workers, EnvInit(w) PROVE ParInv'
<1>1. CASE priv
  BY <1>1, Leaves, Zenon DEF EnvInit, Goto, main, local
<1>2. CASE ~priv
  <2>1. /\ w = 1 /\ \A o \in table : counted[o] = 0
        /\ \A v \in Workers : wpc'[v] = IF v = w THEN "iter" ELSE wpc[v]
        /\ UNCHANGED <<table, priv, created, cursor, start, pos, counted>>
    BY <1>2 DEF EnvInit, Goto, main, local, params, ParInv, ParTypeOK, Alone
  <2>2. ParTypeOK'
    BY <1>2, <2>1 DEF EnvInit, Goto, ParInv, ParTypeOK, nthreads
  <2>3. Alone' /\ ChunksApart' /\ Fresh'
    BY <1>2, <2>1, ParAssumption
    DEF ParInv, Alone, ChunksApart, Fresh, Walking, Ahead, Mine, Workers
  <2> QED
    BY <2>2, <2>3 DEF ParInv
<1> QED
  BY <1>1, <1>2

\* A chunk taken from the cursor lies above all others, and above all that was
\* counted.
LEMMA TakeKeeps == ASSUME ParInv, NEW w \in Workers, Take(w) PROVE ParInv'
<1>1. priv
  BY ParAssumption DEF Take, ParInv, Alone, Workers
<1>2. /\ \A v \in Workers : wpc'[v] = IF v = w THEN "iter" ELSE wpc[v]
      /\ \A v \in Workers : start'[v] = IF v = w THEN cursor * Chunk ELSE start[v]
      /\ cursor' = cursor + 1 /\ wpc[w] = "take"
      /\ UNCHANGED <<table, priv, created, pos, counted>>
  BY DEF Take, Goto, main, params, ParInv, ParTypeOK
<1>3. cursor * Chunk \in Nat /\ cursor' * Chunk = cursor * Chunk + Chunk
  BY <1>2, ChunkAfter DEF ParInv, ParTypeOK
<1>4. ParTypeOK'
  BY <1>2, <1>3 DEF Take, Goto, ParInv, ParTypeOK, nthreads
<1>5. Alone'
  BY <1>1, <1>2 DEF Alone
<1>6. Chunk \in Nat /\ (\A v \in Workers : start[v] \in Nat) /\ table \subseteq Nat
  BY ParAssumption DEF ParInv, ParTypeOK
<1>7. ChunksApart'
  <2>1. \A v \in Workers : Walking(v)' => start'[v] + Chunk <= cursor' * Chunk
    BY <1>1, <1>2, <1>3, <1>6 DEF ParInv, ChunksApart, Walking
  <2>2. \A u, v \in Workers : u # v /\ Walking(u)' /\ Walking(v)' =>
          start'[u] + Chunk <= start'[v] \/ start'[v] + Chunk <= start'[u]
    BY <1>1, <1>2, <1>3, <1>6 DEF ParInv, ChunksApart, Walking
  <2>3. \A o \in table : counted[o] # 0 => o < cursor' * Chunk
    BY <1>1, <1>3, <1>6 DEF ParInv, ChunksApart
  <2> QED
    BY <1>2, <2>1, <2>2, <2>3 DEF ChunksApart
<1>8. Fresh'
  <2>1. \A o \in table : cursor * Chunk <= o => counted[o] = 0
    BY <1>1, <1>3, <1>6 DEF ParInv, ChunksApart
  <2>2. ASSUME NEW v \in Workers, Walking(v)'
        PROVE  /\ wpc'[v] # "iter" => pos'[v] \in table' /\ start'[v] <= pos'[v]
               /\ \A o \in table' : Ahead(v, o)' => counted'[o] = 0
    <3>1. CASE v = w
      BY <1>1, <1>2, <2>1, <3>1 DEF Ahead, Mine
    <3>2. CASE v # w
      BY <1>2, <2>2, <3>2 DEF ParInv, Fresh, Walking, Ahead, Mine
    <3> QED
      BY <3>1, <3>2
  <2> QED
    BY <2>2 DEF Fresh
<1> QED
  BY <1>4, <1>5, <1>7, <1>8 DEF ParInv

\* The iterator moves forward, or the walk of the chunk is over.
LEMMA Moves ==
  ASSUME ParInv, NEW w \in Workers, Walking(w), wpc[w] # "object",
         NEW h \in Nat, wpc[w] = "next" => h = pos[w], start[w] <= h + 1,
         pos' = [pos EXCEPT ![w] = LoadAt(h)],
         wpc' = [wpc EXCEPT ![w] = IF pos'[w] = Nowhere THEN "add" ELSE "object"],
         UNCHANGED <<params, created, cursor, start, counted>>
  PROVE  ParInv'
<1>1. UNCHANGED <<table, priv>> /\ table \in Tables /\ table \subseteq Nat \ {0}
  BY ParAssumption DEF params, ParInv, ParTypeOK
<1>2. PICK p \in table \cup {Nowhere} : p = LoadAt(h) /\ (p # Nowhere => p > h)
  BY <1>1, LoadAtBeyond
<1>3. /\ \A v \in Workers : pos'[v] = IF v = w THEN p ELSE pos[v]
      /\ pos' \in [Workers -> table \cup {Nowhere}]
  BY <1>2 DEF ParInv, ParTypeOK
<1>4. \A v \in Workers :
        wpc'[v] = IF v # w THEN wpc[v] ELSE IF p = Nowhere THEN "add" ELSE "object"
  BY <1>3 DEF ParInv, ParTypeOK
<1>5. ParTypeOK'
  <2>1. \A v \in Workers : v > created => wpc'[v] = "none"
    BY <1>4 DEF ParInv, ParTypeOK, Walking
  <2> QED
    BY <1>1, <1>3, <2>1 DEF ParInv, ParTypeOK, nthreads
<1>6. Alone'
  BY <1>1, <1>4, ParAssumption DEF ParInv, Alone, Walking, Workers
<1>7. ChunksApart'
  <2>1. \A v \in Workers : Walking(v)' => Walking(v)
    BY <1>4 DEF Walking
  <2> QED
    BY <1>1, <2>1 DEF ParInv, ChunksApart
<1>8. ASSUME NEW v \in Workers, Walking(v)'
      PROVE  /\ wpc'[v] # "iter" => pos'[v] \in table' /\ start'[v] <= pos'[v]
             /\ \A o \in table' : Ahead(v, o)' => counted'[o] = 0
  <2>1. CASE v # w
    BY <1>1, <1>3, <1>4, <1>8, <2>1 DEF ParInv, Fresh, Walking, Ahead, Mine
  <2>2. CASE v = w
    <3>1. p \in table /\ wpc'[w] = "object" /\ pos'[w] = p /\ p > h
      BY <1>2, <1>3, <1>4, <1>8, <2>2 DEF Walking
    <3>0. start'[w] <= p
      BY <1>1, <3>1 DEF ParInv, ParTypeOK
    <3>2. \A o \in table : Mine(w, o) /\ p <= o => Ahead(w, o)
      BY <1>1, <3>1 DEF Ahead
    <3>3. \A o \in table : Mine(w, o) /\ p <= o => counted[o] = 0
      BY <3>2 DEF ParInv, Fresh
    <3> QED
      BY <1>1, <2>2, <3>0, <3>1, <3>3 DEF Ahead, Mine
  <2> QED
    BY <2>1, <2>2
<1> QED
  BY <1>5, <1>6, <1>7, <1>8 DEF ParInv, Fresh

\* An object is counted by the thread whose chunk it is in, which had not come
\* to it before; the others look elsewhere.
LEMMA ObjectKeeps == ASSUME ParInv, NEW w \in Workers, Object(w) PROVE ParInv'
<1>1. PICK label \in {"add", "next"} : wpc' = [wpc EXCEPT ![w] = label]
  BY DEF Object, Goto
<1>2. /\ UNCHANGED <<table, priv, created, cursor, start, pos>>
      /\ counted' = [counted EXCEPT ![pos[w]] = @ + 1]
      /\ wpc[w] = "object" /\ InRange(w)
      /\ \A v \in Workers : wpc'[v] = IF v = w THEN label ELSE wpc[v]
  BY <1>1 DEF Object, main, params, ParInv, ParTypeOK
<1>3. /\ table \subseteq Nat \ {0} /\ Chunk \in Nat \ {0} /\ pos[w] \in table
      /\ \A v \in Workers : start[v] \in Nat
  BY <1>2, ParAssumption DEF ParInv, ParTypeOK, Fresh, Walking
<1>a. pos[w] \in Nat /\ Chunk \in Nat /\ \A o \in table : o \in Nat
  BY <1>3, Zenon
<1>4. start[w] <= pos[w] /\ Mine(w, pos[w])
  BY <1>2, <1>3 DEF ParInv, Fresh, Walking, Mine, InRange
<1>5. counted[pos[w]] = 0
  <2>1. Ahead(w, pos[w])
    BY <1>2, <1>a, <1>4 DEF Ahead
  <2> QED
    BY <1>2, <1>3, <2>1, Zenon DEF ParInv, Fresh, Walking
<1>6. /\ counted' \in [table -> 0 .. 1]
      /\ \A o \in table : counted'[o] = IF o = pos[w] THEN 1 ELSE counted[o]
  <2>1. counted \in [table -> 0 .. 1]
    BY DEF ParInv, ParTypeOK
  <2>2. counted' = [counted EXCEPT ![pos[w]] = 1]
    BY <1>2, <1>5
  <2>3. 1 \in 0 .. 1 /\ pos[w] \in table
    BY <1>3
  <2> QED
    BY <2>1, <2>2, <2>3
<1>7. ParTypeOK'
  <2>1. \A v \in Workers : v > created => wpc'[v] = "none"
    BY <1>2 DEF ParInv, ParTypeOK
  <2> QED
    BY <1>1, <1>2, <1>6, <2>1 DEF ParInv, ParTypeOK, nthreads
<1>8. Alone'
  BY <1>2, ParAssumption DEF ParInv, Alone, Workers
<1>9. ChunksApart'
  <2>1. \A v \in Workers : Walking(v)' => Walking(v)
    BY <1>2 DEF Walking
  <2>2. priv => pos[w] < cursor * Chunk
    <3>1. cursor * Chunk \in Nat
      BY ChunkAfter DEF ParInv, ParTypeOK
    <3>2. priv => start[w] + Chunk <= cursor * Chunk
      BY <1>2 DEF ParInv, ChunksApart, Walking
    <3>3. priv => pos[w] < start[w] + Chunk
      BY <1>4 DEF Mine
    <3> QED
      BY <1>3, <1>a, <3>1, <3>2, <3>3
  <2> QED
    BY <1>2, <1>6, <2>1, <2>2 DEF ParInv, ChunksApart
<1>10. ASSUME NEW v \in Workers, Walking(v)'
       PROVE  /\ wpc'[v] # "iter" => pos'[v] \in table' /\ start'[v] <= pos'[v]
              /\ \A o \in table' : Ahead(v, o)' => counted'[o] = 0
  <2>1. CASE v = w
    <3>1. wpc'[w] = "next"
      BY <1>2, <1>10, <2>1 DEF Walking
    <3>2. \A o \in table : Mine(w, o) /\ pos[w] < o => Ahead(w, o)
      BY <1>2, <1>a DEF Ahead
    <3>3. \A o \in table : Mine(w, o) /\ pos[w] < o => counted[o] = 0
      BY <1>2, <3>2 DEF ParInv, Fresh, Walking
    <3> QED
      BY <1>2, <1>3, <1>4, <1>6, <2>1, <3>1, <3>3 DEF Ahead, Mine
  <2>2. CASE v # w
    <3>1. Walking(v) /\ Walking(w) /\ wpc'[v] = wpc[v]
      BY <1>2, <1>10, <2>2 DEF Walking
    <3>2. priv
      BY <3>1, <2>2 DEF ParInv, Alone, Walking
    <3>3. ~Mine(v, pos[w])
      <4>1. start[v] + Chunk <= start[w] \/ start[w] + Chunk <= start[v]
        BY <2>2, <3>1, <3>2 DEF ParInv, ChunksApart
      <4>2. start[w] <= pos[w] /\ pos[w] < start[w] + Chunk
        BY <1>4, <3>2 DEF Mine
      <4>3. ~(start[v] <= pos[w] /\ pos[w] < start[v] + Chunk)
        BY <1>3, <1>a, <4>1, <4>2
      <4> QED
        BY <3>2, <4>3 DEF Mine
    <3>4. \A o \in table : Ahead(v, o) => counted[o] = 0 /\ o # pos[w]
      BY <3>1, <3>3 DEF ParInv, Fresh, Ahead
    <3> QED
      BY <1>2, <1>6, <3>1, <3>4 DEF ParInv, Fresh, Ahead, Mine
  <2> QED
    BY <2>1, <2>2
<1> QED
  BY <1>7, <1>8, <1>9, <1>10 DEF ParInv, Fresh

\* One step of one thread.
LEMMA WorkerKeeps == ASSUME ParInv, NEW w \in Workers, Worker(w) PROVE ParInv'
<1>0. \A v \in Workers : pos[v] \in Nat /\ start[v] \in Nat
  BY ParAssumption DEF ParInv, ParTypeOK, Nowhere
<1>1. CASE Load(w)
  <2>1. PICK h \in Nat : h = (IF start[w] = 0 THEN 0 ELSE start[w] - 1) /\ start[w] <= h + 1
    BY <1>0
  <2> QED
    BY <1>1, <2>1, Moves, Zenon DEF Load, Goto, Walking, main
<1>2. CASE IterNext(w)
  <2>1. start[w] <= pos[w] + 1
    BY <1>0, <1>2 DEF IterNext, ParInv, Fresh, Walking
  <2> QED
    BY <1>0, <1>2, <2>1, Moves, Zenon DEF IterNext, Goto, Walking, main
<1>3. CASE Check(w) \/ AddChunk(w)
  <2>1. wpc[w] = "check" => priv
    BY ParAssumption DEF ParInv, Alone, Workers
  <2> QED
    BY <1>3, <2>1, Leaves DEF Check, AddChunk, Goto, main, local
<1>4. CASE EnvFails(w) \/ IterFails(w) \/ RangeEnd(w)
  BY <1>4, Leaves DEF EnvFails, IterFails, RangeEnd, Goto, main
<1>5. CASE ErrTest(w) \/ SetErr(w) \/ Dec(w) \/ Wake(w)
  BY <1>5, Leaves DEF ErrTest, SetErr, Dec, Wake, Goto, main, local
<1> QED
  BY <1>1, <1>2, <1>3, <1>4, <1>5, EnvInitKeeps, TakeKeeps, ObjectKeeps DEF Worker

\* The inductive invariant of lfu_par, for any number of threads, any chunk and
\* any table: the chunks in hand are apart and below the cursor, and no thread
\* counts what is behind it.
THEOREM ParInvHolds == Spec => []ParInv
<1>1. ParInv /\ [Next]_vars => ParInv'
  <2> SUFFICES ASSUME ParInv, [Next]_vars PROVE ParInv'
    OBVIOUS
  <2>1. CASE UNCHANGED vars
    BY <2>1 DEF vars, params, main, local, ParInv, ParTypeOK, Alone, ChunksApart, Fresh,
                Walking, Ahead, Mine, nthreads
  <2>2. CASE Next
    BY <2>1, <2>2, MainKeeps, WorkerKeeps DEF Next, Over
  <2> QED
    BY <2>1, <2>2
<1> QED
  BY <1>1, ParInvInit, PTL DEF Spec

\* No object is counted twice: fidsum and attrsum do not depend on nthreads or
\* chunk.
THEOREM ParCountsOnce == Spec => []CountedOnce
<1>1. ParInv => CountedOnce
  BY DEF ParInv, ParTypeOK, CountedOnce
<1> QED
  BY <1>1, ParInvHolds, PTL

-----------------------------------------------------------------------------
(***************************************************************************)
(* A load without an error is a load of all of it.                         *)
(***************************************************************************)
\* The counters' types, and what a thread's result may be when it reports it.
LEMMA TallyTypes == ASSUME ParInv, TallyTypeOK, [Next]_vars PROVE TallyTypeOK'
<1>0. /\ wpc \in [Workers -> {"none", "env", "check", "take", "iter", "object", "next",
                              "add", "exit", "seterr", "out", "wake", "finished"}]
      /\ nthreads \in Int /\ created \in Int
  BY ParAssumption DEF ParInv, ParTypeOK, nthreads
<1> USE <1>0 DEF TallyTypeOK, params, main, local, Goto
<1>1. CASE SetupFails
  BY <1>1 DEF SetupFails
<1>2. CASE Setup
  BY <1>2 DEF Setup
<1>3. CASE StartWorker
  <2>1. \A v \in Workers : wpc'[v] = wpc[v] \/ (wpc'[v] = "env" /\ wpc[v] = "none")
    BY <1>3 DEF StartWorker, ParInv, ParTypeOK
  <2>2. UNCHANGED <<limit, objects, running, mpc, done, err, n, wrc>>
    BY <1>3 DEF StartWorker
  <2> QED
    BY <2>1, <2>2
<1>4. CASE StartFails
  BY <1>4 DEF StartFails
<1>5. CASE Started \/ Finish
  BY <1>5 DEF Started, Finish
<1>6. ASSUME NEW w \in Workers, EnvInit(w) PROVE TallyTypeOK'
  BY <1>6 DEF EnvInit
<1>7. ASSUME NEW w \in Workers, EnvFails(w) PROVE TallyTypeOK'
  BY <1>7 DEF EnvFails
<1>8. ASSUME NEW w \in Workers, Check(w) PROVE TallyTypeOK'
  <2>1. wpc' = [wpc EXCEPT ![w] = "take"] \/ (wpc' = [wpc EXCEPT ![w] = "exit"] /\ wrc[w] # 2)
    BY <1>8, Zenon DEF Check
  <2> QED
    BY <1>8, <2>1 DEF Check
<1>9. ASSUME NEW w \in Workers, Take(w) PROVE TallyTypeOK'
  BY <1>9 DEF Take
<1>10. ASSUME NEW w \in Workers, Load(w) PROVE TallyTypeOK'
  BY <1>10 DEF Load
<1>11. ASSUME NEW w \in Workers, IterFails(w) PROVE TallyTypeOK'
  BY <1>11 DEF IterFails
<1>12. ASSUME NEW w \in Workers, RangeEnd(w) PROVE TallyTypeOK'
  BY <1>12 DEF RangeEnd
<1>13. ASSUME NEW w \in Workers, Object(w) PROVE TallyTypeOK'
  <2>1. n[w] + 1 \in Nat /\ n' = [n EXCEPT ![w] = n[w] + 1]
    BY <1>13 DEF Object
  <2>2. \/ wpc' = [wpc EXCEPT ![w] = "add"] /\ wrc' = [wrc EXCEPT ![w] = 2]
        \/ wpc' = [wpc EXCEPT ![w] = "next"] /\ wrc' = wrc
    BY <1>13 DEF Object
  <2> QED
    BY <1>13, <2>1, <2>2 DEF Object
<1>14. ASSUME NEW w \in Workers, IterNext(w) PROVE TallyTypeOK'
  BY <1>14 DEF IterNext
<1>15. ASSUME NEW w \in Workers, AddChunk(w) PROVE TallyTypeOK'
  <2>1. objects' \in Nat /\ done' \in BOOLEAN
    BY <1>15 DEF AddChunk
  <2>2. /\ wrc' = [wrc EXCEPT ![w] = IF wrc[w] = 2 THEN 0 ELSE wrc[w]]
        /\ wpc' = [wpc EXCEPT ![w] = "check"] \/ wpc' = [wpc EXCEPT ![w] = "exit"]
        /\ UNCHANGED <<limit, running, mpc, err, n>>
    BY <1>15, Zenon DEF AddChunk
  <2> QED
    BY <2>1, <2>2
<1>16. ASSUME NEW w \in Workers, ErrTest(w) PROVE TallyTypeOK'
  BY <1>16 DEF ErrTest
<1>17. ASSUME NEW w \in Workers, SetErr(w) PROVE TallyTypeOK'
  BY <1>17 DEF SetErr
<1>18. ASSUME NEW w \in Workers, Dec(w) PROVE TallyTypeOK'
  BY <1>18 DEF Dec
<1>19. ASSUME NEW w \in Workers, Wake(w) PROVE TallyTypeOK'
  BY <1>19 DEF Wake
<1>20. CASE UNCHANGED vars
  BY <1>20 DEF vars
<1> QED
  BY <1>1, <1>2, <1>3, <1>4, <1>5, <1>6, <1>7, <1>8, <1>9, <1>10, <1>11, <1>12, <1>13,
     <1>14, <1>15, <1>16, <1>17, <1>18, <1>19, <1>20, Zenon
  DEF Next, Main, Worker, Over

\* The device and the parameters of a load do not change.
LEMMA ParamsSame == ASSUME [Next]_vars PROVE UNCHANGED <<table, limit, priv>>
<1>1. CASE Main
  BY <1>1, Zenon DEF Main, SetupFails, Setup, StartWorker, StartFails, Started, Finish, params
<1>2. ASSUME NEW w \in Workers, Worker(w) PROVE UNCHANGED <<table, limit, priv>>
  <2>1. CASE EnvInit(w) \/ EnvFails(w) \/ Check(w) \/ Take(w) \/ Load(w) \/ IterFails(w)
    BY <2>1, Zenon DEF EnvInit, EnvFails, Check, Take, Load, IterFails, params
  <2>2. CASE RangeEnd(w) \/ Object(w) \/ IterNext(w) \/ AddChunk(w)
    BY <2>2, Zenon DEF RangeEnd, Object, IterNext, AddChunk, params
  <2>3. CASE ErrTest(w) \/ SetErr(w) \/ Dec(w) \/ Wake(w)
    BY <2>3, Zenon DEF ErrTest, SetErr, Dec, Wake, params
  <2> QED
    BY <1>2, <2>1, <2>2, <2>3, Zenon DEF Worker
<1>3. CASE UNCHANGED vars
  BY <1>3, Zenon DEF vars, params
<1> QED
  BY <1>1, <1>2, <1>3, Zenon DEF Next, Over

\* The threads that have not counted themselves out are finitely many.
LEMMA UnfinishedFinite == IsFiniteSet(Unfinished) /\ Cardinality(Unfinished) \in Nat
<1>1. IsFiniteSet(Workers)
  BY ParAssumption, FS_Interval DEF Workers
<1> QED
  BY <1>1, FS_Subset, FS_CardinalityType DEF Unfinished

\* A thread that stays in its loop, or in what follows it, stays unfinished.
LEMMA UnfinishedSame ==
  ASSUME ParTypeOK, NEW w \in Workers, NEW label,
         label \in {"none", "wake", "finished"} <=> wpc[w] \in {"none", "wake", "finished"},
         wpc' = [wpc EXCEPT ![w] = label]
  PROVE  Unfinished' = Unfinished
<1>1. \A v \in Workers : wpc'[v] = IF v = w THEN label ELSE wpc[v]
  BY DEF ParTypeOK
<1> QED
  BY <1>1 DEF Unfinished

\* st.running counts the threads that are to run and have not counted
\* themselves out; the load ends with all of them out.
LEMMA RunningKeeps ==
  ASSUME ParInv, TallyTypeOK, Ends, [Next]_vars
  PROVE  /\ running' = Cardinality(Unfinished') + IF mpc' = "start" THEN nthreads' - created' ELSE 0
         /\ mpc' = "setup" => created' = 0
         /\ mpc' = "wait" => err' # 0 \/ created' = nthreads'
         /\ mpc' = "gone" => rc' # 0 \/ (err' = 0 /\ created' = nthreads' /\ Unfinished' = {})
<1> DEFINE Goal ==
      /\ running' = Cardinality(Unfinished') + IF mpc' = "start" THEN nthreads' - created' ELSE 0
      /\ mpc' = "setup" => created' = 0
      /\ mpc' = "wait" => err' # 0 \/ created' = nthreads'
      /\ mpc' = "gone" => rc' # 0 \/ (err' = 0 /\ created' = nthreads' /\ Unfinished' = {})
<1> SUFFICES Goal
  OBVIOUS
<1>0. /\ Cardinality(Unfinished) \in Nat /\ IsFiniteSet(Unfinished)
      /\ nthreads \in Nat \ {0} /\ created \in 0 .. nthreads /\ nthreads <= Threads
      /\ running = Cardinality(Unfinished) + IF mpc = "start" THEN nthreads - created ELSE 0
      /\ mpc = "setup" => created = 0
      /\ mpc = "wait" => err # 0 \/ created = nthreads
      /\ mpc = "gone" => rc # 0 \/ (err = 0 /\ created = nthreads /\ Unfinished = {})
      /\ mpc \in {"setup", "start", "wait", "gone"} /\ err \in 0 .. 1 /\ Threads \in Nat
  BY UnfinishedFinite, ParAssumption DEF ParInv, ParTypeOK, TallyTypeOK, Ends, nthreads
<1>n. UNCHANGED <<table, limit, priv>> /\ nthreads' = nthreads
  BY ParamsSame DEF nthreads
<1>1. CASE SetupFails \/ Setup \/ StartFails \/ Started \/ Finish
  <2>1. wpc' = wpc /\ Unfinished' = Unfinished
    BY <1>1 DEF SetupFails, Setup, StartFails, Started, Finish, Unfinished
  <2>2. CASE SetupFails
    BY <1>0, <1>n, <2>1, <2>2 DEF SetupFails
  <2>3. CASE Setup
    <3>1. Unfinished = {}
      BY <1>0, <2>3 DEF Setup, Unfinished, Workers, ParInv, ParTypeOK
    <3>2. Cardinality(Unfinished) = 0
      BY <3>1, FS_EmptySet
    <3> QED
      BY <1>0, <1>n, <2>1, <2>3, <3>2 DEF Setup
  <2>4. CASE StartFails
    BY <1>0, <1>n, <2>1, <2>4 DEF StartFails
  <2>5. CASE Started
    BY <1>0, <1>n, <2>1, <2>5 DEF Started
  <2>6. CASE Finish
    <3>1. Cardinality(Unfinished) = 0
      BY <1>0, <2>6 DEF Finish
    <3>2. Unfinished = {}
      BY <1>0, <3>1, FS_EmptySet
    <3> QED
      BY <1>0, <1>n, <2>1, <2>6, <3>2 DEF Finish
  <2> QED
    BY <1>1, <2>2, <2>3, <2>4, <2>5, <2>6
<1>2. CASE StartWorker
  <2>1. created + 1 \in Workers /\ wpc[created + 1] = "none"
    BY <1>0, <1>2 DEF StartWorker, Workers, ParInv, ParTypeOK
  <2>2. \A v \in Workers : wpc'[v] = IF v = created + 1 THEN "env" ELSE wpc[v]
    BY <1>2, <2>1 DEF StartWorker, ParInv, ParTypeOK
  <2>3. Unfinished' = Unfinished \cup {created + 1} /\ created + 1 \notin Unfinished
    BY <2>1, <2>2 DEF Unfinished
  <2>4. Cardinality(Unfinished') = Cardinality(Unfinished) + 1
    BY <1>0, <2>3, FS_AddElement, Zenon
  <2>5. mpc = "start" /\ mpc' = mpc /\ running' = running /\ created' = created + 1
    BY <1>2 DEF StartWorker
  <2> QED
    BY <1>0, <1>n, <2>4, <2>5
<1>3. ASSUME NEW w \in Workers, Dec(w) PROVE Goal
  <2>1. \A v \in Workers : wpc'[v] = IF v = w THEN "wake" ELSE wpc[v]
    BY <1>3 DEF Dec, Goto, ParInv, ParTypeOK
  <2>2. Unfinished' = Unfinished \ {w} /\ w \in Unfinished
    BY <1>3, <2>1 DEF Unfinished, Dec
  <2>3. Cardinality(Unfinished') = Cardinality(Unfinished) - 1
    BY <1>0, <2>2, FS_RemoveElement
  <2>4. running' = running - 1 /\ UNCHANGED <<mpc, created, rc, err>>
    BY <1>3 DEF Dec, main
  <2> QED
    BY <1>0, <1>n, <2>2, <2>3, <2>4
<1>4. ASSUME NEW w \in Workers,
             \/ EnvInit(w) \/ EnvFails(w) \/ Check(w) \/ Take(w) \/ Load(w) \/ IterFails(w)
             \/ RangeEnd(w) \/ Object(w) \/ IterNext(w) \/ AddChunk(w)
             \/ ErrTest(w) \/ Wake(w)
      PROVE  Goal
  <2>1. PICK label : /\ label \in {"none", "wake", "finished"} <=> wpc[w] \in {"none", "wake", "finished"}
                     /\ wpc' = [wpc EXCEPT ![w] = label]
    <3>1. CASE EnvInit(w) \/ EnvFails(w) \/ Check(w) \/ Take(w)
      BY <3>1 DEF EnvInit, EnvFails, Check, Take, Goto
    <3>2. CASE Load(w) \/ IterNext(w)
      BY <3>2, Zenon DEF Load, IterNext, Goto
    <3>3. CASE IterFails(w) \/ RangeEnd(w)
      BY <3>3 DEF IterFails, RangeEnd, Goto
    <3>4. CASE Object(w)
      BY <3>4 DEF Object, Goto
    <3>5. CASE AddChunk(w) \/ ErrTest(w) \/ Wake(w)
      BY <3>5 DEF AddChunk, ErrTest, Wake, Goto
    <3> QED
      BY <1>4, <3>1, <3>2, <3>3, <3>4, <3>5
  <2>2. Unfinished' = Unfinished
    BY <2>1, UnfinishedSame, Zenon DEF ParInv
  <2>3. UNCHANGED <<running, mpc, created, rc, err>>
    BY <1>4, Zenon DEF EnvInit, EnvFails, Check, Take, Load, IterFails, RangeEnd, Object,
                IterNext, AddChunk, ErrTest, Wake, main
  <2> QED
    BY <1>0, <1>n, <2>2, <2>3
<1>5. ASSUME NEW w \in Workers, SetErr(w) PROVE Goal
  <2>1. w \in Unfinished /\ Unfinished' = Unfinished
    <3>1. wpc[w] = "seterr" /\ wpc' = [wpc EXCEPT ![w] = "out"]
      BY <1>5 DEF SetErr, Goto
    <3> QED
      BY <3>1, UnfinishedSame DEF ParInv, Unfinished
  <2>2. UNCHANGED <<running, mpc, created, rc>> /\ err' = 1
    BY <1>5 DEF SetErr, main, TallyTypeOK
  <2> QED
    BY <1>0, <1>n, <2>1, <2>2
<1>6. CASE UNCHANGED vars
  <2>1. UNCHANGED <<wpc, running, mpc, created, rc, err>> /\ Unfinished' = Unfinished
    BY <1>6 DEF vars, main, Unfinished
  <2> QED
    BY <1>0, <1>n, <2>1
<1> HIDE DEF Goal
<1> QED
  BY <1>1, <1>2, <1>3, <1>4, <1>5, <1>6, Zenon DEF Next, Main, Worker, Over

\* A thread leaves its loop when the table is done with or on a failure, and
\* an iterator's failure is reported.
LEMMA LeavingKeeps ==
  ASSUME ParInv, TallyTypeOK, Ends, [Next]_vars
  PROVE  /\ "iter" \in faults' =>
              err' # 0 \/ \E w \in Workers : wpc'[w] \in {"add", "exit", "seterr"} /\ wrc'[w] = 1
         /\ \A w \in Workers : wpc'[w] = "add" /\ wrc'[w] = 1 => "iter" \in faults'
         /\ priv' => \A w \in Workers : Left(w)' => done' \/ err' # 0 \/ ~Whole'
<1> DEFINE Reported == "iter" \in faults' =>
              err' # 0 \/ \E w \in Workers : wpc'[w] \in {"add", "exit", "seterr"} /\ wrc'[w] = 1
           Failed == \A w \in Workers : wpc'[w] = "add" /\ wrc'[w] = 1 => "iter" \in faults'
           Over1 == priv' => \A w \in Workers : Left(w)' => done' \/ err' # 0 \/ ~Whole'
<1> SUFFICES Reported /\ Failed /\ Over1
  OBVIOUS
<1>0. /\ wpc \in [Workers -> {"none", "env", "check", "take", "iter", "object", "next",
                              "add", "exit", "seterr", "out", "wake", "finished"}]
      /\ err \in 0 .. 1 /\ done \in BOOLEAN /\ wrc \in [Workers -> 0 .. 2]
      /\ n \in [Workers -> Nat]
      /\ priv \in BOOLEAN
      /\ "iter" \in faults =>
           err # 0 \/ \E w \in Workers : wpc[w] \in {"add", "exit", "seterr"} /\ wrc[w] = 1
      /\ \A w \in Workers : wpc[w] = "add" /\ wrc[w] = 1 => "iter" \in faults
      /\ priv => \A w \in Workers : Left(w) => done \/ err # 0 \/ ~Whole
      /\ \A w \in Workers : wpc[w] = "seterr" => wrc[w] = 1
  BY DEF ParInv, ParTypeOK, TallyTypeOK, Ends
<1> USE <1>0 DEF params, main, local, Goto, Left, Whole
<1>1. CASE SetupFails \/ Setup \/ StartFails \/ Started \/ Finish
  <2>1. /\ UNCHANGED <<priv, wpc, wrc, done>> /\ (err' = err \/ err' = 1)
        /\ ("iter" \in faults' <=> "iter" \in faults) /\ ("env" \in faults' <=> "env" \in faults)
    BY <1>1 DEF SetupFails, Setup, StartFails, Started, Finish
  <2> QED
    BY <2>1
<1>2. CASE StartWorker
  <2>1. \A v \in Workers : wpc'[v] = wpc[v] \/ (wpc'[v] = "env" /\ wpc[v] = "none")
    BY <1>2 DEF StartWorker, ParInv, ParTypeOK
  <2>2. UNCHANGED <<priv, wrc, done, err, faults>>
    BY <1>2 DEF StartWorker
  <2> QED
    BY <2>1, <2>2
<1>3. ASSUME NEW w \in Workers, EnvInit(w) PROVE Reported /\ Failed /\ Over1
  BY <1>3 DEF EnvInit
<1>4. ASSUME NEW w \in Workers, EnvFails(w) PROVE Reported /\ Failed /\ Over1
  <2>1. /\ "env" \in faults' /\ ("iter" \in faults' <=> "iter" \in faults)
        /\ UNCHANGED err /\ wpc[w] = "env" /\ wpc' = [wpc EXCEPT ![w] = "out"]
        /\ wrc' = [wrc EXCEPT ![w] = 1]
    BY <1>4 DEF EnvFails
  <2> QED
    BY <2>1
<1>5. ASSUME NEW w \in Workers, Check(w) PROVE Reported /\ Failed /\ Over1
  <2>1. /\ UNCHANGED <<priv, wrc, done, err, faults>> /\ wpc[w] = "check"
        /\ wpc' = [wpc EXCEPT ![w] = "take"] \/ (wpc' = [wpc EXCEPT ![w] = "exit"] /\ (done \/ err # 0))
    BY <1>5, Zenon DEF Check
  <2> QED
    BY <2>1
<1>6. ASSUME NEW w \in Workers, Take(w) PROVE Reported /\ Failed /\ Over1
  BY <1>6 DEF Take
<1>7. ASSUME NEW w \in Workers, Load(w) \/ IterNext(w) PROVE Reported /\ Failed /\ Over1
  <2>1. /\ UNCHANGED <<priv, done, err, faults>> /\ wpc[w] \in {"iter", "next"}
        /\ wpc' = [wpc EXCEPT ![w] = "add"] \/ wpc' = [wpc EXCEPT ![w] = "object"]
        /\ wrc'[w] # 1
        /\ \A v \in Workers : v # w => wrc'[v] = wrc[v]
    BY <1>7 DEF Load, IterNext
  <2> QED
    BY <2>1
<1>8. ASSUME NEW w \in Workers, IterFails(w) PROVE Reported /\ Failed /\ Over1
  <2>1. /\ UNCHANGED <<priv, done, err>> /\ "iter" \in faults'
        /\ wpc' = [wpc EXCEPT ![w] = "add"] /\ wrc' = [wrc EXCEPT ![w] = 1]
    BY <1>8 DEF IterFails
  <2> QED
    BY <2>1
<1>9. ASSUME NEW w \in Workers, RangeEnd(w) PROVE Reported /\ Failed /\ Over1
  BY <1>9 DEF RangeEnd
<1>10. ASSUME NEW w \in Workers, Object(w) PROVE Reported /\ Failed /\ Over1
  <2>1. /\ UNCHANGED <<priv, done, err, faults>> /\ wpc[w] = "object"
        /\ \/ wpc' = [wpc EXCEPT ![w] = "add"] /\ wrc'[w] = 2
           \/ wpc' = [wpc EXCEPT ![w] = "next"]
        /\ \A v \in Workers : v # w => wrc'[v] = wrc[v]
    BY <1>10 DEF Object
  <2> QED
    BY <2>1
<1>11. ASSUME NEW w \in Workers, AddChunk(w) PROVE Reported /\ Failed /\ Over1
  <2>1. /\ UNCHANGED <<priv, err, faults>> /\ wpc[w] = "add"
        /\ (done' <=> done \/ (priv /\ wrc[w] = 2))
        /\ wrc' = [wrc EXCEPT ![w] = IF wrc[w] = 2 THEN 0 ELSE wrc[w]]
        /\ wpc' = [wpc EXCEPT ![w] = IF priv /\ wrc[w] = 0 THEN "check" ELSE "exit"]
    BY <1>11 DEF AddChunk
  <2>2. \A v \in Workers : v # w => wpc'[v] = wpc[v] /\ wrc'[v] = wrc[v]
    BY <2>1
  <2>3. /\ wpc'[w] = IF priv /\ wrc[w] = 0 THEN "check" ELSE "exit"
        /\ wrc[w] = 1 => wrc'[w] = 1
    BY <2>1
  <2>4. Reported /\ Failed
    BY <2>1, <2>2, <2>3
  <2>5. wrc[w] = 1 => ~Whole'
    BY <2>1
  <2>6. Over1
    BY <2>1, <2>2, <2>3, <2>5
  <2> QED
    BY <2>4, <2>6
<1>12. ASSUME NEW w \in Workers, ErrTest(w) PROVE Reported /\ Failed /\ Over1
  BY <1>12 DEF ErrTest
<1>13. ASSUME NEW w \in Workers, SetErr(w) PROVE Reported /\ Failed /\ Over1
  <2>1. err' = 1 /\ UNCHANGED <<wrc, faults>> /\ wpc' = [wpc EXCEPT ![w] = "out"]
    BY <1>13 DEF SetErr
  <2> QED
    BY <2>1
<1>14. ASSUME NEW w \in Workers, Dec(w) PROVE Reported /\ Failed /\ Over1
  BY <1>14 DEF Dec
<1>15. ASSUME NEW w \in Workers, Wake(w) PROVE Reported /\ Failed /\ Over1
  BY <1>15 DEF Wake
<1>16. CASE UNCHANGED vars
  BY <1>16 DEF vars
<1> HIDE DEF Reported, Failed, Over1
<1> QED
  BY <1>1, <1>2, <1>3, <1>4, <1>5, <1>6, <1>7, <1>8, <1>9, <1>10, <1>11, <1>12, <1>13,
     <1>14, <1>15, <1>16, Zenon
  DEF Next, Main, Worker, Over

\* What the sums count is finite.
LEMMA SharesFinite ==
  ASSUME ParInv
  PROVE  /\ IsFiniteSet(table) /\ table \subseteq Nat \ {0}
         /\ \A w : IsFiniteSet(Share(w)) /\ Cardinality(Share(w)) \in Nat
         /\ IsFiniteSet(Added) /\ Cardinality(Added) \in Nat
<1>1. IsFiniteSet(table) /\ table \subseteq Nat \ {0}
  BY ParAssumption DEF ParInv, ParTypeOK
<1>2. \A w : Share(w) \subseteq table
  BY DEF Share
<1>3. Added \subseteq table
  BY DEF Added
<1> QED
  BY <1>1, <1>2, <1>3, FS_Subset, FS_CardinalityType, Zenon

\* A step that counts nothing, and changes no chunk that is being counted.
LEMMA SumsSame ==
  ASSUME Tallies, UNCHANGED <<table, priv, counted, objects>>,
         \A v \in Workers : Carrying(v)' <=> Carrying(v),
         \A v \in Workers : Carrying(v) => start'[v] = start[v] /\ n'[v] = n[v]
  PROVE  /\ \A w \in Workers : Carrying(w)' => n'[w] = Cardinality(Share(w)')
         /\ objects' = Cardinality(Added')
<1>1. \A v \in Workers : Carrying(v) => Share(v)' = Share(v)
  BY Zenon DEF Share, Mine
<1>2. Added' = Added
  BY Zenon DEF Added, Mine
<1> QED
  BY <1>1, <1>2, Zenon DEF Tallies

\* A thread that opens the iterator of its chunk has counted none of it.
LEMMA SumsBegin ==
  ASSUME ParInv, Tallies, UNCHANGED <<table, priv, counted, objects, start>>,
         NEW w \in Workers, wpc[w] = "iter", Carrying(w)', n'[w] = 0,
         \A v \in Workers : v # w => (Carrying(v)' <=> Carrying(v)) /\ n'[v] = n[v]
  PROVE  /\ \A v \in Workers : Carrying(v)' => n'[v] = Cardinality(Share(v)')
         /\ objects' = Cardinality(Added')
<1>1. \A v \in Workers : Share(v)' = Share(v)
  BY Zenon DEF Share, Mine
<1>2. \A o \in table : Mine(w, o) => counted[o] = 0
  BY Zenon DEF ParInv, Fresh, Walking, Ahead
<1>3. Share(w) = {}
  BY <1>2 DEF Share
<1>4. ~Carrying(w)
  BY DEF Carrying
<1>5. Added' = Added
  <2>1. \A o \in table, v \in Workers : Mine(v, o)' <=> Mine(v, o)
    BY DEF Mine
  <2>2. ASSUME NEW o \in table, counted[o] = 1, NEW v \in Workers
        PROVE  (Carrying(v)' => ~Mine(v, o)') <=> (Carrying(v) => ~Mine(v, o))
    <3>1. ~Mine(w, o)
      BY <1>2, <2>2
    <3> QED
      BY <1>4, <2>1, <2>2, <3>1, Zenon
  <2> QED
    BY <2>2, Zenon DEF Added
<1>6. Cardinality({}) = 0
  BY FS_EmptySet
<1> QED
  BY <1>1, <1>3, <1>5, <1>6, Zenon DEF Tallies

\* The chunks in hand stay apart when no thread takes one.
LEMMA ApartSame ==
  ASSUME ParInv, Tallies, UNCHANGED <<priv, cursor, start>>,
         \A v \in Workers : Carrying(v)' => Carrying(v) \/ wpc[v] = "iter",
         \A v \in Workers : wpc'[v] = "iter" /\ priv => wpc[v] = "iter"
  PROVE  /\ priv' => \A v, w \in Workers : v # w /\ Carrying(v)' /\ (Carrying(w)' \/ wpc'[w] = "iter") =>
              start'[v] + Chunk <= start'[w] \/ start'[w] + Chunk <= start'[v]
         /\ priv' => \A w \in Workers : Carrying(w)' => start'[w] + Chunk <= cursor' * Chunk
<1> SUFFICES ASSUME priv
             PROVE  /\ \A v, w \in Workers : v # w /\ Carrying(v)' /\ (Carrying(w)' \/ wpc'[w] = "iter") =>
                         start[v] + Chunk <= start[w] \/ start[w] + Chunk <= start[v]
                    /\ \A w \in Workers : Carrying(w)' => start[w] + Chunk <= cursor * Chunk
  OBVIOUS
<1>1. \A v \in Workers : wpc[v] = "iter" => Walking(v)
  BY DEF Walking
<1>2. \A v, w \in Workers : v # w /\ wpc[v] = "iter" /\ wpc[w] = "iter" =>
        start[v] + Chunk <= start[w] \/ start[w] + Chunk <= start[v]
  BY <1>1 DEF ParInv, ChunksApart
<1>3. \A v, w \in Workers : v # w /\ Carrying(v) /\ (Carrying(w) \/ wpc[w] = "iter") =>
        start[v] + Chunk <= start[w] \/ start[w] + Chunk <= start[v]
  BY DEF Tallies
<1>4. \A w \in Workers : Carrying(w) \/ wpc[w] = "iter" => start[w] + Chunk <= cursor * Chunk
  BY <1>1, Zenon DEF ParInv, ChunksApart, Tallies
<1>5. ASSUME NEW v \in Workers, NEW w \in Workers, v # w,
             Carrying(v) \/ wpc[v] = "iter", Carrying(w) \/ wpc[w] = "iter"
      PROVE  start[v] + Chunk <= start[w] \/ start[w] + Chunk <= start[v]
  <2>1. CASE Carrying(v)
    BY <1>3, <1>5, <2>1
  <2>2. CASE Carrying(w)
    BY <1>3, <1>5, <2>2
  <2> QED
    BY <1>2, <1>5, <2>1, <2>2, Zenon
<1> QED
  BY <1>4, <1>5

\* An object is counted: in its own thread's share, and in no other's.
LEMMA ObjectSums ==
  ASSUME ParInv, TallyTypeOK, Tallies, NEW w \in Workers, Object(w)
  PROVE  /\ \A v \in Workers : Carrying(v)' => n'[v] = Cardinality(Share(v)')
         /\ objects' = Cardinality(Added')
<1>1. /\ UNCHANGED <<table, priv, start, objects>>
      /\ counted' = [counted EXCEPT ![pos[w]] = counted[pos[w]] + 1]
      /\ wpc[w] = "object" /\ InRange(w)
      /\ n' = [n EXCEPT ![w] = n[w] + 1]
  BY Zenon DEF Object, main, params
<1>2. \A v \in Workers : Carrying(v)' <=> Carrying(v)
  <2>1. PICK label \in {"add", "next"} : wpc' = [wpc EXCEPT ![w] = label]
    BY DEF Object, Goto
  <2>2. \A v \in Workers : wpc'[v] = IF v = w THEN label ELSE wpc[v]
    BY <2>1 DEF ParInv, ParTypeOK
  <2> QED
    BY <1>1, <2>2 DEF Carrying
<1>3. /\ table \subseteq Nat \ {0} /\ pos[w] \in table /\ start[w] <= pos[w]
      /\ \A v \in Workers : start[v] \in Nat /\ n[v] \in Nat
      /\ Chunk \in Nat /\ counted \in [table -> 0 .. 1]
  BY <1>1, ParAssumption DEF ParInv, ParTypeOK, Fresh, Walking, TallyTypeOK
<1>4. Mine(w, pos[w])
  BY <1>1, <1>3 DEF Mine, InRange
<1>5. counted[pos[w]] = 0
  <2>1. pos[w] \in Nat
    BY <1>3, Zenon
  <2>3. \A k \in Nat : k <= k
    OBVIOUS
  <2>4. "object" # "next"
    OBVIOUS
  <2>2. Ahead(w, pos[w])
    BY <1>1, <1>4, <2>1, <2>3, <2>4, Zenon DEF Ahead
  <2> QED
    BY <1>1, <1>3, <2>2, Zenon DEF ParInv, Fresh, Walking
<1>6. \A o \in table : counted'[o] = IF o = pos[w] THEN 1 ELSE counted[o]
  <2>1. counted[pos[w]] + 1 = 1 /\ counted \in [table -> 0 .. 1]
    BY <1>3, <1>5
  <2> QED
    BY <1>1, <2>1, Zenon
<1>7. \A v \in Workers, o \in table : Mine(v, o)' <=> Mine(v, o)
  BY <1>1 DEF Mine
<1>8. Share(w)' = Share(w) \cup {pos[w]} /\ pos[w] \notin Share(w)
  <2>1. Share(w)' = {o \in table : counted'[o] = 1 /\ Mine(w, o)'}
    BY <1>1 DEF Share
  <2>2. \A o \in table : counted'[o] = 1 /\ Mine(w, o)' <=> (counted[o] = 1 /\ Mine(w, o)) \/ o = pos[w]
    BY <1>4, <1>6, <1>7
  <2>3. Share(w) = {o \in table : counted[o] = 1 /\ Mine(w, o)}
    BY DEF Share
  <2>4. pos[w] \notin Share(w)
    BY <1>5, <2>3
  <2>5. Share(w)' = Share(w) \cup {pos[w]}
    BY <1>3, <2>1, <2>2, <2>3, Zenon
  <2> QED
    BY <2>4, <2>5
<1>9. Cardinality(Share(w)') = Cardinality(Share(w)) + 1
  BY <1>8, SharesFinite, FS_AddElement, Zenon
<1>10. ASSUME NEW v \in Workers, v # w, Carrying(v) PROVE Share(v)' = Share(v)
  <2>1. ~Mine(v, pos[w])
    <3>1. priv
      <4>1. v = 1 \/ wpc[v] = "none" \/ priv
        BY DEF ParInv, Alone
      <4>2. w = 1 \/ wpc[w] = "none" \/ priv
        BY DEF ParInv, Alone
      <4> QED
        BY <1>1, <1>10, <4>1, <4>2 DEF Carrying
    <3>2. start[v] + Chunk <= start[w] \/ start[w] + Chunk <= start[v]
      BY <1>1, <1>10, <3>1, Zenon DEF Tallies, Carrying
    <3>3. pos[w] < start[w] + Chunk
      BY <1>1, <3>1 DEF InRange
    <3>4. pos[w] \in Nat
      BY <1>3, Zenon
    <3> QED
      BY <1>3, <3>1, <3>2, <3>3, <3>4 DEF Mine
  <2> QED
    BY <1>1, <1>6, <1>7, <2>1 DEF Share
<1>11. Added' = Added
  <2>1. Carrying(w)
    BY <1>1 DEF Carrying
  <2> QED
    BY <1>1, <1>2, <1>3, <1>4, <1>6, <1>7, <2>1, Zenon DEF Added
<1>12. ASSUME NEW v \in Workers, Carrying(v)' PROVE n'[v] = Cardinality(Share(v)')
  <2>1. Carrying(v) /\ n[v] = Cardinality(Share(v))
    BY <1>2, <1>12, Zenon DEF Tallies
  <2>2. CASE v = w
    <3>1. n'[w] = n[w] + 1
      BY <1>1, Zenon DEF TallyTypeOK
    <3> QED
      BY <1>9, <2>1, <2>2, <3>1
  <2>3. CASE v # w
    <3>1. n'[v] = n[v]
      BY <1>1, <2>3 DEF TallyTypeOK
    <3> QED
      BY <1>10, <2>1, <2>3, <3>1
  <2> QED
    BY <2>2, <2>3
<1> QED
  BY <1>1, <1>11, <1>12, Zenon DEF Tallies

\* A chunk is added: its objects were in no sum before.
LEMMA AddSums ==
  ASSUME ParInv, TallyTypeOK, Tallies, NEW w \in Workers, AddChunk(w)
  PROVE  /\ \A v \in Workers : Carrying(v)' => n'[v] = Cardinality(Share(v)')
         /\ objects' = Cardinality(Added')
<1>1. /\ UNCHANGED <<table, priv, start, counted, n>> /\ objects' = objects + n[w]
      /\ wpc[w] = "add"
  BY Zenon DEF AddChunk, main, params
<1>2. \A v \in Workers : Carrying(v)' <=> Carrying(v) /\ v # w
  <2>1. PICK label \in {"check", "exit"} : wpc' = [wpc EXCEPT ![w] = label]
    BY Zenon DEF AddChunk, Goto
  <2>2. \A v \in Workers : wpc'[v] = IF v = w THEN label ELSE wpc[v]
    BY <2>1 DEF ParInv, ParTypeOK
  <2> QED
    BY <2>2 DEF Carrying
<1>3. \A v \in Workers, o \in table : Mine(v, o)' <=> Mine(v, o)
  BY <1>1 DEF Mine
<1>4. \A v \in Workers : Share(v)' = Share(v)
  BY <1>1, <1>3 DEF Share
<1>5. Carrying(w) /\ n[w] = Cardinality(Share(w)) /\ objects = Cardinality(Added)
  BY <1>1 DEF Tallies, Carrying
<1>6. \A v \in Workers, o \in table : v # w /\ Carrying(v) /\ Mine(w, o) => ~Mine(v, o)
  <2> TAKE v \in Workers, o \in table
  <2> HAVE v # w /\ Carrying(v) /\ Mine(w, o)
  <2>1. priv
    <3>1. v = 1 \/ wpc[v] = "none" \/ priv
      BY DEF ParInv, Alone
    <3>2. w = 1 \/ wpc[w] = "none" \/ priv
      BY DEF ParInv, Alone
    <3> QED
      BY <1>1, <3>1, <3>2 DEF Carrying
  <2>2. start[v] + Chunk <= start[w] \/ start[w] + Chunk <= start[v]
    BY <1>5, <2>1, Zenon DEF Tallies
  <2>3. start[v] \in Nat /\ start[w] \in Nat /\ Chunk \in Nat /\ o \in Nat
    BY ParAssumption DEF ParInv, ParTypeOK
  <2> QED
    BY <2>1, <2>2, <2>3 DEF Mine
<1>7. Added' = Added \cup Share(w)
  BY <1>1, <1>2, <1>3, <1>6, Zenon DEF Added, Share
<1>8. Added \cap Share(w) = {}
  BY <1>5 DEF Added, Share
<1>9. Cardinality(Added') = Cardinality(Added) + Cardinality(Share(w)) - Cardinality({})
  BY <1>7, <1>8, SharesFinite, FS_Union
<1>10. Cardinality({}) = 0
  BY FS_EmptySet
<1>11. objects' = Cardinality(Added')
  <2>1. objects' = Cardinality(Added) + Cardinality(Share(w))
    BY <1>1, <1>5, Zenon DEF Tallies
  <2>2. Cardinality(Added) \in Nat /\ Cardinality(Share(w)) \in Nat
    BY SharesFinite, FS_CardinalityType, Zenon
  <2> QED
    BY <1>9, <1>10, <2>1, <2>2
<1> QED
  BY <1>1, <1>2, <1>4, <1>11, Zenon DEF Tallies

\* The sums, at every step.
LEMMA TalliesKeep ==
  ASSUME ParInv, TallyTypeOK, Tallies, [Next]_vars PROVE Tallies'
<1> DEFINE Apart == /\ priv' => \A v, w \in Workers : v # w /\ Carrying(v)' /\ (Carrying(w)' \/ wpc'[w] = "iter") =>
                         start'[v] + Chunk <= start'[w] \/ start'[w] + Chunk <= start'[v]
                    /\ priv' => \A w \in Workers : Carrying(w)' => start'[w] + Chunk <= cursor' * Chunk
           Sums == /\ \A w \in Workers : Carrying(w)' => n'[w] = Cardinality(Share(w)')
                   /\ objects' = Cardinality(Added')
<1>0. /\ wpc \in [Workers -> {"none", "env", "check", "take", "iter", "object", "next",
                              "add", "exit", "seterr", "out", "wake", "finished"}]
      /\ n \in [Workers -> Nat] /\ start \in [Workers -> Nat]
  BY DEF ParInv, ParTypeOK, TallyTypeOK
<1>a. Apart /\ Sums => Tallies'
  BY Zenon DEF Tallies
<1>1. CASE SetupFails \/ Setup \/ StartFails \/ Started \/ Finish \/ UNCHANGED vars
  <2>1. UNCHANGED <<table, priv, cursor, start, counted, objects, wpc, n>>
    BY <1>1, Zenon DEF SetupFails, Setup, StartFails, Started, Finish, vars, params, local
  <2>2. \A v \in Workers : Carrying(v)' <=> Carrying(v)
    BY <2>1 DEF Carrying
  <2>3. Apart
    BY <2>1, <2>2, ApartSame, Zenon
  <2>4. Sums
    BY <2>1, <2>2, SumsSame, Zenon
  <2> QED
    BY <1>a, <2>3, <2>4, Zenon
<1>2. CASE StartWorker
  <2>1. UNCHANGED <<table, priv, cursor, start, counted, objects, n>>
    BY <1>2 DEF StartWorker, params, local
  <2>2. \A v \in Workers : wpc'[v] = wpc[v] \/ (wpc'[v] = "env" /\ wpc[v] = "none")
    BY <1>2 DEF StartWorker, ParInv, ParTypeOK
  <2>3. \A v \in Workers : Carrying(v)' <=> Carrying(v)
    BY <2>2 DEF Carrying
  <2>4. Apart
    BY <2>1, <2>2, <2>3, ApartSame
  <2>5. Sums
    BY <2>1, <2>3, SumsSame, Zenon
  <2> QED
    BY <1>a, <2>4, <2>5
<1>3. ASSUME NEW w \in Workers,
             EnvInit(w) \/ EnvFails(w) \/ Check(w) \/ ErrTest(w) \/ SetErr(w) \/ Dec(w) \/ Wake(w)
      PROVE  Tallies'
  <2>1. UNCHANGED <<table, priv, cursor, start, counted, objects, n>>
    BY <1>3, Zenon DEF EnvInit, EnvFails, Check, ErrTest, SetErr, Dec, Wake, main, params, local
  <2>2. PICK label \in {"check", "iter", "take", "exit", "seterr", "out", "wake", "finished"} :
          /\ wpc' = [wpc EXCEPT ![w] = label] /\ ~Carrying(w)
          /\ label = "iter" => ~priv
    BY <1>3, Zenon DEF EnvInit, EnvFails, Check, ErrTest, SetErr, Dec, Wake, Goto, Carrying
  <2>3. \A v \in Workers : wpc'[v] = IF v = w THEN label ELSE wpc[v]
    BY <1>0, <2>2
  <2>4. \A v \in Workers : Carrying(v)' <=> Carrying(v)
    BY <2>2, <2>3 DEF Carrying
  <2>5. Apart
    BY <2>1, <2>2, <2>3, <2>4, ApartSame
  <2>6. Sums
    BY <2>1, <2>4, SumsSame, Zenon
  <2> QED
    BY <1>a, <2>5, <2>6, Zenon
<1>4. ASSUME NEW w \in Workers, Take(w) PROVE Tallies'
  <2>1. /\ UNCHANGED <<table, priv, counted, objects, n>> /\ cursor' = cursor + 1
        /\ wpc[w] = "take"
        /\ \A v \in Workers : wpc'[v] = IF v = w THEN "iter" ELSE wpc[v]
        /\ \A v \in Workers : start'[v] = IF v = w THEN cursor * Chunk ELSE start[v]
    BY <1>0, <1>4 DEF Take, Goto, main, params
  <2>2. \A v \in Workers : Carrying(v)' <=> Carrying(v)
    BY <2>1 DEF Carrying
  <2>3. ~Carrying(w)
    BY <2>1, Zenon DEF Carrying
  <2>4. Sums
    BY <2>1, <2>2, <2>3, SumsSame, Zenon
  <2>5. Apart
    <3>1. /\ cursor * Chunk \in Nat /\ cursor' * Chunk = cursor * Chunk + Chunk /\ Chunk \in Nat
          /\ \A v \in Workers : start[v] \in Nat
      BY <1>0, <2>1, ChunkAfter, ParAssumption DEF ParInv, ParTypeOK
    <3>2. priv => \A v \in Workers : Carrying(v) => start[v] + Chunk <= cursor * Chunk
      BY Zenon DEF Tallies
    <3>3. priv' => \A v \in Workers : Carrying(v)' => start'[v] + Chunk <= cursor' * Chunk
      <4> SUFFICES ASSUME priv, NEW v \in Workers, Carrying(v)'
                   PROVE  start'[v] + Chunk <= cursor' * Chunk
        BY <2>1, Zenon
      <4>1. v # w /\ Carrying(v) /\ start'[v] = start[v]
        BY <1>0, <2>1, <2>2, <2>3, Zenon
      <4>2. start[v] + Chunk <= cursor * Chunk
        BY <3>2, <4>1
      <4> QED
        BY <3>1, <4>1, <4>2
    <3>4. ASSUME priv, NEW u \in Workers, NEW v \in Workers, u # v, Carrying(u)',
                 Carrying(v)' \/ wpc'[v] = "iter"
          PROVE  start'[u] + Chunk <= start'[v] \/ start'[v] + Chunk <= start'[u]
      <4>1. u # w /\ Carrying(u) /\ start'[u] = start[u]
        BY <2>1, <2>2, <2>3, <3>4
      <4>2. CASE v = w
        BY <2>1, <3>2, <3>4, <4>1, <4>2
      <4>3. CASE v # w
        <5>1. Carrying(v) \/ wpc[v] = "iter"
          BY <2>1, <2>2, <3>4, <4>3
        <5>2. start[u] + Chunk <= start[v] \/ start[v] + Chunk <= start[u]
          BY <3>4, <4>1, <5>1, Zenon DEF Tallies
        <5> QED
          BY <2>1, <4>1, <4>3, <5>2
      <4> QED
        BY <4>2, <4>3
    <3> QED
      BY <2>1, <3>3, <3>4
  <2> QED
    BY <1>a, <2>4, <2>5, Zenon
<1>5. ASSUME NEW w \in Workers, Load(w) \/ IterFails(w) \/ RangeEnd(w) \/ IterNext(w)
      PROVE  Tallies'
  <2>1. UNCHANGED <<table, priv, cursor, start, counted, objects>>
    BY <1>5, Zenon DEF Load, IterFails, RangeEnd, IterNext, main, params
  <2>2. PICK label \in {"add", "object"} : wpc' = [wpc EXCEPT ![w] = label]
    BY <1>5, Zenon DEF Load, IterFails, RangeEnd, IterNext, Goto
  <2>3. \A v \in Workers : wpc'[v] = IF v = w THEN label ELSE wpc[v]
    BY <1>0, <2>2
  <2>4. Carrying(w) \/ wpc[w] = "iter"
    BY <1>5, Zenon DEF Load, IterFails, RangeEnd, IterNext, Carrying
  <2>5. Apart
    <3>1. \A v \in Workers : Carrying(v)' => Carrying(v) \/ wpc[v] = "iter"
      BY <2>3, <2>4 DEF Carrying
    <3>2. \A v \in Workers : wpc'[v] = "iter" => wpc[v] = "iter"
      BY <2>3
    <3> QED
      BY <2>1, <3>1, <3>2, ApartSame, Zenon
  <2>6. Carrying(w)' /\ \A v \in Workers : v # w => (Carrying(v)' <=> Carrying(v))
    BY <2>3 DEF Carrying
  <2>7. /\ \A v \in Workers : v # w => n'[v] = n[v]
        /\ wpc[w] = "iter" => n'[w] = 0
        /\ wpc[w] # "iter" => n'[w] = n[w]
    <3>1. CASE Load(w)
      BY <1>0, <3>1 DEF Load
    <3>2. CASE IterFails(w)
      BY <1>0, <3>2 DEF IterFails
    <3>3. CASE RangeEnd(w) \/ IterNext(w)
      BY <1>0, <3>3 DEF RangeEnd, IterNext
    <3> QED
      BY <1>5, <3>1, <3>2, <3>3, Zenon
  <2>8. Sums
    <3>1. CASE wpc[w] = "iter"
      BY <2>1, <2>6, <2>7, <3>1, SumsBegin, Zenon
    <3>2. CASE wpc[w] # "iter"
      <4>1. \A v \in Workers : Carrying(v)' <=> Carrying(v)
        BY <2>4, <2>6, <3>2
      <4>2. \A v \in Workers : n'[v] = n[v]
        BY <2>7, <3>2
      <4> QED
        BY <2>1, <4>1, <4>2, SumsSame, Zenon
    <3> QED
      BY <3>1, <3>2, Zenon
  <2> QED
    BY <1>a, <2>5, <2>8, Zenon
<1>6. ASSUME NEW w \in Workers, Object(w) PROVE Tallies'
  <2>1. UNCHANGED <<priv, cursor, start>> /\ wpc[w] = "object"
    BY <1>6, Zenon DEF Object, main, params
  <2>2. PICK label \in {"add", "next"} : wpc' = [wpc EXCEPT ![w] = label]
    BY <1>6 DEF Object, Goto
  <2>3. \A v \in Workers : wpc'[v] = IF v = w THEN label ELSE wpc[v]
    BY <1>0, <2>2
  <2>4. /\ \A v \in Workers : Carrying(v)' => Carrying(v)
        /\ \A v \in Workers : wpc'[v] = "iter" => wpc[v] = "iter"
    BY <2>1, <2>3 DEF Carrying
  <2>5. Apart
    BY <2>1, <2>4, ApartSame, Zenon
  <2>6. Sums
    BY <1>6, ObjectSums
  <2> QED
    BY <1>a, <2>5, <2>6, Zenon
<1>7. ASSUME NEW w \in Workers, AddChunk(w) PROVE Tallies'
  <2>1. UNCHANGED <<priv, cursor, start>>
    BY <1>7, Zenon DEF AddChunk, main, params
  <2>2. PICK label \in {"check", "exit"} : wpc' = [wpc EXCEPT ![w] = label]
    BY <1>7, Zenon DEF AddChunk, Goto
  <2>3. \A v \in Workers : wpc'[v] = IF v = w THEN label ELSE wpc[v]
    BY <1>0, <2>2
  <2>4. /\ \A v \in Workers : Carrying(v)' => Carrying(v)
        /\ \A v \in Workers : wpc'[v] = "iter" => wpc[v] = "iter"
    BY <2>3 DEF Carrying
  <2>5. Apart
    BY <2>1, <2>4, ApartSame
  <2>6. Sums
    BY <1>7, AddSums
  <2> QED
    BY <1>a, <2>5, <2>6, Zenon
<1> HIDE DEF Apart, Sums
<1> QED
  BY <1>1, <1>2, <1>3, <1>4, <1>5, <1>6, <1>7, Zenon DEF Next, Main, Worker, Over

\* An iterator loaded with hash h skips no object beyond h.
LEMMA LoadAtSkipsNone ==
  ASSUME table \in Tables, NEW h \in Nat, NEW o \in table, o > h
  PROVE  LoadAt(h) # Nowhere /\ LoadAt(h) <= o
<1>1. After(h) \subseteq Nat \ {0} /\ o \in After(h)
  BY ParAssumption DEF After
<1>2. Min(After(h)) \in After(h) /\ Min(After(h)) <= o
  BY <1>1, MinIsLeast
<1> QED
  BY <1>1, <1>2 DEF LoadAt, Nowhere

\* What was taken stays taken, a failure stays known, and a limit that was
\* reached stays reached.
LEMMA Monotone ==
  ASSUME ParInv, TallyTypeOK, Tallies, [Next]_vars
  PROVE  /\ UNCHANGED <<table, limit, priv>>
         /\ Enough => Enough'
         /\ \A o \in table : Taken(o) => Taken(o)'
         /\ Whole' => Whole
<1>0. /\ wpc \in [Workers -> {"none", "env", "check", "take", "iter", "object", "next",
                              "add", "exit", "seterr", "out", "wake", "finished"}]
      /\ n \in [Workers -> Nat] /\ objects \in Nat /\ limit \in Nat
      /\ cursor \in Nat /\ Chunk \in Nat /\ 1 \in Workers /\ table \subseteq Nat
  BY ParAssumption DEF ParInv, ParTypeOK, TallyTypeOK, Workers
<1>1. UNCHANGED <<table, limit, priv>>
  BY ParamsSame
<1>2. Whole' => Whole
  <2>1. faults \subseteq faults'
    BY Zenon DEF Next, vars, params, Main, Worker, Over, SetupFails, Setup, StartWorker, StartFails,
         Started, Finish, EnvInit, EnvFails, Check, Take, Load, IterFails, RangeEnd, Object,
         IterNext, AddChunk, ErrTest, SetErr, Dec, Wake
  <2> QED
    BY <2>1 DEF Whole
<1>3. cursor' = cursor \/ cursor' = cursor + 1
  BY Zenon DEF Next, vars, params, main, Main, Worker, Over, SetupFails, Setup, StartWorker, StartFails,
         Started, Finish, EnvInit, EnvFails, Check, Take, Load, IterFails, RangeEnd, Object,
         IterNext, AddChunk, ErrTest, SetErr, Dec, Wake
<1>4. wpc[1] \notin {"none", "env"} => wpc'[1] \notin {"none", "env"}
  <2>1. CASE SetupFails \/ Setup \/ StartFails \/ Started \/ Finish \/ UNCHANGED vars
    BY <2>1 DEF SetupFails, Setup, StartFails, Started, Finish, vars
  <2>2. CASE StartWorker
    BY <1>0, <2>2 DEF StartWorker, ParInv, ParTypeOK
  <2>3. ASSUME NEW w \in Workers, Worker(w)
        PROVE  wpc[1] \notin {"none", "env"} => wpc'[1] \notin {"none", "env"}
    <3>1. PICK label : wpc' = [wpc EXCEPT ![w] = label] /\ label \notin {"none", "env"}
      <4>1. CASE EnvInit(w) \/ EnvFails(w) \/ Check(w) \/ Take(w)
        BY <4>1 DEF EnvInit, EnvFails, Check, Take, Goto
      <4>2. CASE Load(w) \/ IterNext(w)
        <5> DEFINE l == IF pos'[w] = Nowhere THEN "add" ELSE "object"
        <5>1. wpc' = [wpc EXCEPT ![w] = l]
          BY <4>2, Zenon DEF Load, IterNext, Goto
        <5>2. l \notin {"none", "env"}
          OBVIOUS
        <5> HIDE DEF l
        <5> QED
          BY <5>1, <5>2, Zenon
      <4>3. CASE IterFails(w) \/ RangeEnd(w)
        BY <4>3 DEF IterFails, RangeEnd, Goto
      <4>4. CASE Object(w)
        BY <4>4 DEF Object, Goto
      <4>5. CASE AddChunk(w)
        <5> DEFINE l == IF priv /\ wrc[w] = 0 THEN "check" ELSE "exit"
        <5>1. wpc' = [wpc EXCEPT ![w] = l]
          BY <4>5, Zenon DEF AddChunk, Goto
        <5>2. l \notin {"none", "env"}
          OBVIOUS
        <5> HIDE DEF l
        <5> QED
          BY <5>1, <5>2, Zenon
      <4>6. CASE ErrTest(w)
        <5> DEFINE l == IF wrc[w] # 0 /\ err = 0 THEN "seterr" ELSE "out"
        <5>1. wpc' = [wpc EXCEPT ![w] = l]
          BY <4>6, Zenon DEF ErrTest, Goto
        <5>2. l \notin {"none", "env"}
          OBVIOUS
        <5> HIDE DEF l
        <5> QED
          BY <5>1, <5>2, Zenon
      <4>7. CASE SetErr(w) \/ Dec(w) \/ Wake(w)
        BY <4>7 DEF SetErr, Dec, Wake, Goto
      <4> QED
        BY <2>3, <4>1, <4>2, <4>3, <4>4, <4>5, <4>6, <4>7, Zenon DEF Worker
    <3> QED
      BY <1>0, <3>1
  <2> QED
    BY <2>1, <2>2, <2>3 DEF Next, Main, Over
<1>5. \A o \in table : Taken(o) => Taken(o)'
  <2>1. cursor * Chunk \in Nat /\ (cursor' * Chunk = cursor * Chunk \/ cursor' * Chunk = cursor * Chunk + Chunk)
    BY <1>0, <1>3, ChunkAfter
  <2> QED
    BY <1>0, <1>1, <1>4, <2>1 DEF Taken
<1>6. Enough => Enough'
  <2> SUFFICES ASSUME Enough PROVE Enough'
    OBVIOUS
  <2>1. CASE objects' = objects /\ \A u \in Workers : wpc[u] = "add" => wpc'[u] = "add" /\ n'[u] = n[u]
    BY <1>1, <2>1 DEF Enough
  <2>2. CASE SetupFails \/ Setup \/ StartFails \/ Started \/ Finish \/ UNCHANGED vars
    <3>1. UNCHANGED <<objects, wpc, n>>
      BY <2>2 DEF SetupFails, Setup, StartFails, Started, Finish, vars, local
    <3> QED
      BY <2>1, <3>1
  <2>3. CASE StartWorker
    <3>1. objects' = objects /\ n' = n
      BY <2>3 DEF StartWorker, local
    <3>2. \A v \in Workers : wpc[v] = "add" => wpc'[v] = wpc[v]
      BY <1>0, <2>3 DEF StartWorker, ParInv, ParTypeOK
    <3> QED
      BY <2>1, <3>1, <3>2
  <2>4. ASSUME NEW w \in Workers, AddChunk(w) PROVE Enough'
    <3>1. /\ objects' = objects + n[w] /\ n' = n
          /\ \A v \in Workers : v # w => wpc'[v] = wpc[v]
      BY <1>0, <2>4 DEF AddChunk, Goto
    <3>2. CASE objects >= limit
      BY <1>0, <1>1, <3>1, <3>2 DEF Enough
    <3>3. ASSUME NEW u \in Workers, wpc[u] = "add", objects + n[u] >= limit PROVE Enough'
      <4>1. CASE u = w
        BY <1>1, <3>1, <3>3, <4>1 DEF Enough
      <4>2. CASE u # w
        <5>1. wpc'[u] = "add" /\ objects' + n'[u] >= limit'
          BY <1>0, <1>1, <3>1, <3>3, <4>2
        <5> QED
          BY <1>1, <5>1 DEF Enough
      <4> QED
        BY <4>1, <4>2
    <3> QED
      BY <3>2, <3>3 DEF Enough
  <2>5. ASSUME NEW w \in Workers, Worker(w), ~AddChunk(w) PROVE Enough'
    <3>1. wpc[w] # "add" /\ objects' = objects
      BY <2>5, Zenon DEF Worker, EnvInit, EnvFails, Check, Take, Load, IterFails, RangeEnd, Object,
                  IterNext, ErrTest, SetErr, Dec, Wake
    <3>2. \A v \in Workers : v # w => wpc'[v] = wpc[v]
      BY <1>0, <2>5, Zenon DEF Worker, EnvInit, EnvFails, Check, Take, Load, IterFails, RangeEnd, Object,
                  IterNext, ErrTest, SetErr, Dec, Wake, Goto
    <3>3. \A v \in Workers : v # w => n'[v] = n[v]
      BY <1>0, <2>5, Zenon DEF Worker, EnvInit, EnvFails, Check, Take, Load, IterFails, RangeEnd, Object,
                  IterNext, ErrTest, SetErr, Dec, Wake, local
    <3> QED
      BY <2>1, <3>1, <3>2, <3>3
  <2> QED
    BY <2>2, <2>3, <2>4, <2>5 DEF Next, Main, Over
<1> QED
  BY <1>1, <1>2, <1>5, <1>6

\* A step in which no thread moves over the table.
LEMMA CoverQuiet ==
  ASSUME ParInv, TallyTypeOK, Tallies, Covered, [Next]_vars,
         UNCHANGED <<start, pos, counted>>,
         \A v \in Workers : Walking(v) => wpc'[v] = wpc[v],
         \A v \in Workers : wpc'[v] = "next" => wpc[v] = "next",
         \A v \in Workers : wpc'[v] = "add" /\ wrc'[v] = 2 => wpc[v] = "add" /\ wrc[v] = 2,
         done' => done \/ \E v \in Workers : wpc[v] = "add" /\ wrc[v] = 2,
         Whole' => \A o \in table : Taken(o)' => Taken(o)
  PROVE  Covered'
<1>m. /\ UNCHANGED <<table, limit, priv>>
      /\ Enough => Enough'
      /\ \A o \in table : Taken(o) => Taken(o)'
      /\ Whole' => Whole
  BY Monotone, Zenon
<1>1. AllTaken => AllTaken'
  BY <1>m, Zenon DEF AllTaken
<1>2. \A w \in Workers : wpc'[w] = "next" => InRange(w)'
  BY <1>m, Zenon DEF Covered, InRange
<1>3. ASSUME Whole', ~Enough', NEW o \in table, Taken(o)'
      PROVE  counted'[o] = 1 \/ \E w \in Workers : Walking(w)' /\ Ahead(w, o)'
  <2>1. counted[o] = 1 \/ \E w \in Workers : Walking(w) /\ Ahead(w, o)
    BY <1>m, <1>3, Zenon DEF Covered
  <2>2. ASSUME NEW w \in Workers, Walking(w), Ahead(w, o) PROVE Walking(w)' /\ Ahead(w, o)'
    BY <1>m, <2>2, Zenon DEF Walking, Ahead, Mine
  <2> QED
    BY <2>1, <2>2, Zenon
<1>4. \A w \in Workers : wpc'[w] = "add" /\ wrc'[w] = 2 => Enough' \/ AllTaken'
  BY <1>m, <1>1, Zenon DEF Covered
<1>5. done' => Enough' \/ AllTaken'
  BY <1>m, <1>1, Zenon DEF Covered
<1>6. ~priv' => \A w \in Workers : start'[w] = 0
  BY <1>m, Zenon DEF Covered
<1> QED
  BY <1>m, <1>2, <1>3, <1>4, <1>5, <1>6, Zenon DEF Covered

\* A thread that begins a walk has all that it took ahead of it: the chunk from
\* the cursor, or with private=0 the table.
LEMMA CoverBegin ==
  ASSUME ParInv, TallyTypeOK, Tallies, Covered, [Next]_vars,
         NEW w \in Workers, Take(w) \/ (EnvInit(w) /\ ~priv)
  PROVE  Covered'
<1>m. /\ UNCHANGED <<table, limit, priv>>
      /\ Enough => Enough'
      /\ \A o \in table : Taken(o) => Taken(o)'
      /\ Whole' => Whole
  BY Monotone
<1>0. /\ wpc \in [Workers -> {"none", "env", "check", "take", "iter", "object", "next",
                              "add", "exit", "seterr", "out", "wake", "finished"}]
      /\ start \in [Workers -> Nat] /\ cursor \in Nat /\ Chunk \in Nat /\ table \subseteq Nat
      /\ cursor * Chunk \in Nat /\ (cursor + 1) * Chunk = cursor * Chunk + Chunk
  BY ParAssumption, ChunkAfter DEF ParInv, ParTypeOK
<1>1. /\ \A v \in Workers : wpc'[v] = IF v = w THEN "iter" ELSE wpc[v]
      /\ UNCHANGED <<pos, wrc, counted, done>> /\ ~Walking(w)
  BY <1>0 DEF Take, EnvInit, Goto, local, Walking
<1>2. AllTaken => AllTaken'
  BY <1>m DEF AllTaken
<1>3. \A v \in Workers : v # w => start'[v] = start[v]
  BY <1>0 DEF Take, EnvInit, local
<1>4. \A v \in Workers : wpc'[v] = "add" /\ wrc'[v] = 2 => Enough' \/ AllTaken'
  BY <1>m, <1>1, <1>2, Zenon DEF Covered
<1>5. done' => Enough' \/ AllTaken'
  BY <1>m, <1>1, <1>2, Zenon DEF Covered
<1>6. CASE Take(w)
  <2>1. priv /\ start'[w] = cursor * Chunk /\ cursor' = cursor + 1
    BY <1>0, <1>6, ParAssumption DEF Take, ParInv, Alone, Workers
  <2>2. \A o \in table : Taken(o)' => Taken(o) \/ Mine(w, o)'
    BY <1>0, <1>m, <2>1 DEF Taken, Mine
  <2>3. ASSUME Whole', ~Enough', NEW o \in table, Taken(o)'
        PROVE  counted'[o] = 1 \/ \E v \in Workers : Walking(v)' /\ Ahead(v, o)'
    <3>1. CASE Mine(w, o)'
      BY <1>1, <3>1 DEF Walking, Ahead
    <3>2. CASE Taken(o)
      <4>1. counted[o] = 1 \/ \E v \in Workers : Walking(v) /\ Ahead(v, o)
        BY <1>m, <2>3, <3>2, Zenon DEF Covered
      <4>2. ASSUME NEW v \in Workers, Walking(v), Ahead(v, o) PROVE Walking(v)' /\ Ahead(v, o)'
        BY <1>1, <1>3, <1>m, <4>2, Zenon DEF Walking, Ahead, Mine
      <4> QED
        BY <1>1, <4>1, <4>2, Zenon
    <3> QED
      BY <2>2, <2>3, <3>1, <3>2
  <2>4. \A v \in Workers : wpc'[v] = "next" => InRange(v)'
    BY <1>1, <1>3, <1>m, Zenon DEF Covered, InRange
  <2> QED
    BY <1>m, <1>4, <1>5, <2>1, <2>3, <2>4, Zenon DEF Covered
<1>7. CASE EnvInit(w) /\ ~priv
  <2>1. UNCHANGED start
    BY <1>7 DEF EnvInit, local
  <2>2. ASSUME NEW o \in table PROVE Walking(w)' /\ Ahead(w, o)'
    BY <1>1, <1>7, <1>m, Zenon DEF Walking, Ahead, Mine
  <2>3. \A v \in Workers : wpc'[v] = "next" => InRange(v)'
    BY <1>1, <1>3, <2>1, <1>m, Zenon DEF Covered, InRange
  <2>6. ~priv' => \A v \in Workers : start'[v] = 0
    BY <1>m, <2>1, Zenon DEF Covered
  <2> QED
    BY <1>m, <1>4, <1>5, <2>2, <2>3, <2>6, Zenon DEF Covered
<1> QED
  BY <1>6, <1>7

\* The iterator moves past nothing that it has not counted, and stands at the
\* end only when all of the table is taken.
LEMMA CoverMoves ==
  ASSUME ParInv, TallyTypeOK, Tallies, Covered, [Next]_vars,
         NEW w \in Workers, Load(w) \/ IterNext(w)
  PROVE  Covered'
<1>m. /\ UNCHANGED <<table, limit, priv>>
      /\ Enough => Enough'
      /\ \A o \in table : Taken(o) => Taken(o)'
      /\ Whole' => Whole
  BY Monotone
<1>0. /\ wpc \in [Workers -> {"none", "env", "check", "take", "iter", "object", "next",
                              "add", "exit", "seterr", "out", "wake", "finished"}]
      /\ start \in [Workers -> Nat] /\ cursor \in Nat /\ Chunk \in Nat /\ table \subseteq Nat \ {0}
      /\ cursor * Chunk \in Nat /\ pos \in [Workers -> table \cup {Nowhere}]
      /\ wrc \in [Workers -> 0 .. 2] /\ table \in Tables
  BY ParAssumption, ChunkAfter DEF ParInv, ParTypeOK, TallyTypeOK
<1>h. PICK h \in Nat : /\ pos' = [pos EXCEPT ![w] = LoadAt(h)]
                       /\ wpc[w] = "iter" => h = IF start[w] = 0 THEN 0 ELSE start[w] - 1
                       /\ wpc[w] = "next" => h = pos[w]
  <2>1. CASE Load(w)
    <3> DEFINE g == IF start[w] = 0 THEN 0 ELSE start[w] - 1
    <3>1. g \in Nat
      BY <1>0
    <3>2. pos' = [pos EXCEPT ![w] = LoadAt(g)] /\ wpc[w] = "iter"
      BY <2>1, Zenon DEF Load
    <3>3. wpc[w] = "iter" => g = IF start[w] = 0 THEN 0 ELSE start[w] - 1
      BY Zenon
    <3> HIDE DEF g
    <3> QED
      BY <3>1, <3>2, <3>3, Zenon
  <2>2. CASE IterNext(w)
    <3>1. pos[w] \in Nat
      BY <1>0, <2>2, Zenon DEF IterNext, ParInv, Fresh, Walking
    <3> QED
      BY <2>2, <3>1, Zenon DEF IterNext
  <2> QED
    BY <2>1, <2>2
<1>1. /\ UNCHANGED <<start, counted, done, cursor>> /\ wpc[w] \in {"iter", "next"}
      /\ \A v \in Workers : v # w => wpc'[v] = wpc[v] /\ wrc'[v] = wrc[v] /\ pos'[v] = pos[v]
      /\ pos'[w] = LoadAt(h)
      /\ wpc'[w] = IF LoadAt(h) = Nowhere THEN "add" ELSE "object"
  <2>1. pos'[w] = LoadAt(h) /\ \A v \in Workers : v # w => pos'[v] = pos[v]
    BY <1>0, <1>h
  <2>2. \A v \in Workers : v # w => wrc'[v] = wrc[v]
    BY <1>0, Zenon DEF Load, IterNext
  <2>3. wpc' = [wpc EXCEPT ![w] = IF LoadAt(h) = Nowhere THEN "add" ELSE "object"]
    BY <2>1, Zenon DEF Load, IterNext, Goto
  <2>4. UNCHANGED <<start, counted, done, cursor>> /\ wpc[w] \in {"iter", "next"}
    BY Zenon DEF Load, IterNext
  <2> QED
    BY <1>0, <2>1, <2>2, <2>3, <2>4, Zenon
<1>2. AllTaken => AllTaken'
  BY <1>m DEF AllTaken
<1>3. ASSUME NEW o \in table, Ahead(w, o) PROVE o > h
  <2>1. CASE wpc[w] = "next"
    BY <1>0, <1>h, <1>3, <2>1 DEF Ahead
  <2>2. CASE wpc[w] = "iter"
    <3>1. CASE start[w] = 0
      BY <1>0, <1>h, <2>2, <3>1
    <3>2. CASE start[w] # 0
      <4>1. priv
        BY <3>2, Zenon DEF Covered
      <4>2. start[w] <= o /\ h = start[w] - 1 /\ o \in Nat /\ start[w] \in Nat
        BY <1>0, <1>h, <1>3, <2>2, <3>2, <4>1 DEF Ahead, Mine
      <4> QED
        BY <4>2
    <3> QED
      BY <3>1, <3>2
  <2> QED
    BY <1>1, <2>1, <2>2, Zenon
<1>4. ASSUME Whole', ~Enough', NEW o \in table, Taken(o)'
      PROVE  counted'[o] = 1 \/ \E v \in Workers : Walking(v)' /\ Ahead(v, o)'
  <2>0. Taken(o)
    <3>1. wpc[1] \notin {"none", "env"} \/ wpc'[1] \in {"none", "env"}
      <4>1. 1 \in Workers
        BY ParAssumption DEF Workers
      <4> QED
        BY <1>1, <4>1
    <3> QED
      BY <1>1, <1>m, <1>4, <3>1 DEF Taken
  <2>1. counted[o] = 1 \/ \E v \in Workers : Walking(v) /\ Ahead(v, o)
    BY <1>m, <1>4, <2>0, Zenon DEF Covered
  <2>2. ASSUME NEW v \in Workers, Walking(v), Ahead(v, o), v # w PROVE Walking(v)' /\ Ahead(v, o)'
    BY <1>1, <1>m, <2>2, Zenon DEF Walking, Ahead, Mine
  <2>3. ASSUME Ahead(w, o) PROVE Walking(w)' /\ Ahead(w, o)'
    <3>1. LoadAt(h) # Nowhere /\ LoadAt(h) <= o
      BY <1>0, <1>3, <2>3, LoadAtSkipsNone
    <3>2. wpc'[w] = "object" /\ pos'[w] <= o
      BY <1>1, <3>1
    <3>3. Mine(w, o)'
      BY <1>1, <1>m, <2>3, Zenon DEF Ahead, Mine
    <3> QED
      BY <3>2, <3>3 DEF Walking, Ahead
  <2> QED
    BY <1>1, <2>1, <2>2, <2>3, Zenon
<1>5. ASSUME LoadAt(h) = Nowhere PROVE AllTaken'
  <2>1. \A o \in table : ~(o > h)
    BY <1>0, <1>5, LoadAtSkipsNone
  <2> SUFFICES ASSUME NEW o \in table PROVE Taken(o)'
    BY <1>m DEF AllTaken
  <2>2. CASE ~priv
    <3>1. w = 1
      BY <1>1, <2>2, Zenon DEF ParInv, Alone
    <3> QED
      BY <1>1, <1>m, <2>2, <3>1 DEF Taken
  <2>3. CASE priv
    <3>1. start[w] + Chunk <= cursor * Chunk
      BY <1>1, <2>3, Zenon DEF ParInv, ChunksApart, Walking
    <3>2. h < start[w] + Chunk
      <4>1. CASE wpc[w] = "iter"
        BY <1>0, <1>h, <4>1, ParAssumption
      <4>2. CASE wpc[w] = "next"
        BY <1>0, <1>h, <2>3, <4>2 DEF Covered, InRange
      <4> QED
        BY <1>1, <4>1, <4>2
    <3>3. o \in Nat /\ ~(o > h) /\ start[w] \in Nat
      BY <1>0, <2>1
    <3>4. o < cursor * Chunk
      BY <1>0, <3>1, <3>2, <3>3
    <3> QED
      BY <1>1, <1>m, <2>3, <3>4, Zenon DEF Taken
  <2> QED
    BY <2>2, <2>3
<1>6. \A v \in Workers : wpc'[v] = "next" => InRange(v)'
  BY <1>1, <1>m, Zenon DEF Covered, InRange
<1>7. \A v \in Workers : wpc'[v] = "add" /\ wrc'[v] = 2 => Enough' \/ AllTaken'
  <2> TAKE v \in Workers
  <2>1. CASE v # w
    BY <1>1, <1>2, <1>m, <2>1, Zenon DEF Covered
  <2>2. CASE v = w
    BY <1>1, <1>5, <2>2, Zenon
  <2> QED
    BY <2>1, <2>2, Zenon
<1>8. done' => Enough' \/ AllTaken'
  BY <1>m, <1>1, <1>2, Zenon DEF Covered
<1>9. ~priv' => \A v \in Workers : start'[v] = 0
  BY <1>m, <1>1, Zenon DEF Covered
<1> QED
  BY <1>m, <1>4, <1>6, <1>7, <1>8, <1>9, Zenon DEF Covered

\* The end of the chunk leaves nothing of it ahead, and a failure is known.
LEMMA CoverLeaves ==
  ASSUME ParInv, TallyTypeOK, Tallies, Covered, [Next]_vars,
         NEW w \in Workers, RangeEnd(w) \/ IterFails(w)
  PROVE  Covered'
<1>m. /\ UNCHANGED <<table, limit, priv>>
      /\ Enough => Enough'
      /\ \A o \in table : Taken(o) => Taken(o)'
      /\ Whole' => Whole
  BY Monotone
<1>0. /\ wpc \in [Workers -> {"none", "env", "check", "take", "iter", "object", "next",
                              "add", "exit", "seterr", "out", "wake", "finished"}]
      /\ start \in [Workers -> Nat] /\ Chunk \in Nat /\ table \subseteq Nat \ {0}
      /\ pos \in [Workers -> table \cup {Nowhere}] /\ wrc \in [Workers -> 0 .. 2]
  BY ParAssumption DEF ParInv, ParTypeOK, TallyTypeOK
<1>1. /\ UNCHANGED <<start, counted, done, cursor, pos>> /\ wpc[w] \in {"iter", "object", "next"}
      /\ \A v \in Workers : v # w => wpc'[v] = wpc[v] /\ wrc'[v] = wrc[v]
      /\ wpc'[w] = "add" /\ wrc'[w] # 2
  BY <1>0 DEF RangeEnd, IterFails, Goto
<1>2. AllTaken => AllTaken'
  BY <1>m DEF AllTaken
<1>3. ASSUME Whole', ~Enough', NEW o \in table, Taken(o)'
      PROVE  counted'[o] = 1 \/ \E v \in Workers : Walking(v)' /\ Ahead(v, o)'
  <2>0. RangeEnd(w)
    BY <1>3 DEF IterFails, Whole
  <2>1. Taken(o)
    <3>1. wpc[1] \notin {"none", "env"} \/ wpc'[1] \in {"none", "env"}
      <4>1. 1 \in Workers
        BY ParAssumption DEF Workers
      <4> QED
        BY <1>1, <4>1
    <3> QED
      BY <1>1, <1>m, <1>3, <3>1 DEF Taken
  <2>2. counted[o] = 1 \/ \E v \in Workers : Walking(v) /\ Ahead(v, o)
    BY <1>m, <1>3, <2>1, Zenon DEF Covered
  <2>3. ASSUME NEW v \in Workers, Walking(v), Ahead(v, o), v # w PROVE Walking(v)' /\ Ahead(v, o)'
    BY <1>1, <1>m, <2>3, Zenon DEF Walking, Ahead, Mine
  <2>4. ~Ahead(w, o)
    <3>1. wpc[w] = "object" /\ priv /\ ~(pos[w] < start[w] + Chunk)
      BY <2>0, Zenon DEF RangeEnd, InRange
    <3>2. pos[w] \in Nat /\ o \in Nat /\ start[w] \in Nat /\ Chunk \in Nat
      BY <1>0, <3>1, Zenon DEF ParInv, Fresh, Walking
    <3>3. Ahead(w, o) => pos[w] <= o /\ o < start[w] + Chunk
      BY <3>1 DEF Ahead, Mine
    <3> QED
      BY <3>1, <3>2, <3>3
  <2> QED
    BY <1>1, <2>2, <2>3, <2>4, Zenon
<1>4. \A v \in Workers : wpc'[v] = "next" => InRange(v)'
  BY <1>1, <1>m, Zenon DEF Covered, InRange
<1>5. \A v \in Workers : wpc'[v] = "add" /\ wrc'[v] = 2 => Enough' \/ AllTaken'
  BY <1>m, <1>1, <1>2, Zenon DEF Covered
<1>6. done' => Enough' \/ AllTaken'
  BY <1>m, <1>1, <1>2, Zenon DEF Covered
<1>7. ~priv' => \A v \in Workers : start'[v] = 0
  BY <1>m, <1>1, Zenon DEF Covered
<1> QED
  BY <1>m, <1>3, <1>4, <1>5, <1>6, <1>7, Zenon DEF Covered

\* The object at hand is counted; a thread that stops there has enough.
LEMMA CoverObject ==
  ASSUME ParInv, TallyTypeOK, Tallies, Covered, [Next]_vars,
         NEW w \in Workers, Object(w)
  PROVE  Covered'
<1>m. /\ UNCHANGED <<table, limit, priv>>
      /\ Enough => Enough'
      /\ \A o \in table : Taken(o) => Taken(o)'
      /\ Whole' => Whole
  BY Monotone
<1>0. /\ wpc \in [Workers -> {"none", "env", "check", "take", "iter", "object", "next",
                              "add", "exit", "seterr", "out", "wake", "finished"}]
      /\ start \in [Workers -> Nat] /\ Chunk \in Nat /\ table \subseteq Nat \ {0}
      /\ pos \in [Workers -> table \cup {Nowhere}] /\ wrc \in [Workers -> 0 .. 2]
      /\ n \in [Workers -> Nat] /\ counted \in [table -> 0 .. 1]
  BY ParAssumption DEF ParInv, ParTypeOK, TallyTypeOK
<1>1. /\ UNCHANGED <<start, done, cursor, pos, objects>> /\ wpc[w] = "object" /\ InRange(w)
      /\ counted' = [counted EXCEPT ![pos[w]] = counted[pos[w]] + 1]
  BY Zenon DEF Object, main
<1>2. \/ limit > 0 /\ objects + n'[w] >= limit /\ wpc' = [wpc EXCEPT ![w] = "add"]
      \/ wpc' = [wpc EXCEPT ![w] = "next"]
  BY DEF Object, Goto
<1>3. /\ \A v \in Workers : v # w => wpc'[v] = wpc[v] /\ wrc'[v] = wrc[v]
      /\ wpc'[w] \in {"add", "next"} /\ (wpc'[w] = "add" => Enough')
  <2>1. \A v \in Workers : v # w => wpc'[v] = wpc[v]
    BY <1>0, <1>2
  <2>2. \A v \in Workers : v # w => wrc'[v] = wrc[v]
    BY <1>0 DEF Object
  <2>3. wpc'[w] \in {"add", "next"} /\ (wpc'[w] = "add" => limit > 0 /\ objects + n'[w] >= limit)
    BY <1>0, <1>2
  <2>4. wpc'[w] = "add" => Enough'
    BY <1>1, <1>m, <2>3 DEF Enough
  <2> QED
    BY <2>1, <2>2, <2>3, <2>4
<1>4. /\ pos[w] \in table /\ pos[w] \in Nat /\ counted[pos[w]] = 0
  <2>1. pos[w] \in table /\ start[w] <= pos[w]
    BY <1>1, Zenon DEF ParInv, Fresh, Walking
  <2>2. pos[w] \in Nat
    BY <1>0, <2>1, Zenon
  <2>3. Ahead(w, pos[w])
    BY <1>1, <2>1, <2>2 DEF Ahead, Mine, InRange
  <2> QED
    BY <1>1, <2>1, <2>2, <2>3, Zenon DEF ParInv, Fresh, Walking
<1>5. \A o \in table : counted'[o] = IF o = pos[w] THEN 1 ELSE counted[o]
  BY <1>0, <1>1, <1>4
<1>6. AllTaken => AllTaken'
  BY <1>m DEF AllTaken
<1>7. ASSUME Whole', ~Enough', NEW o \in table, Taken(o)'
      PROVE  counted'[o] = 1 \/ \E v \in Workers : Walking(v)' /\ Ahead(v, o)'
  <2>1. Taken(o)
    <3>1. wpc[1] \notin {"none", "env"} \/ wpc'[1] \in {"none", "env"}
      <4>1. 1 \in Workers
        BY ParAssumption DEF Workers
      <4> QED
        BY <1>1, <1>3, <4>1, Zenon
    <3> QED
      BY <1>1, <1>m, <1>7, <3>1 DEF Taken
  <2>2. counted[o] = 1 \/ \E v \in Workers : Walking(v) /\ Ahead(v, o)
    BY <1>m, <1>7, <2>1, Zenon DEF Covered
  <2>3. ASSUME NEW v \in Workers, Walking(v), Ahead(v, o), v # w PROVE Walking(v)' /\ Ahead(v, o)'
    BY <1>1, <1>3, <1>m, <2>3, Zenon DEF Walking, Ahead, Mine
  <2>4. ASSUME Ahead(w, o), o # pos[w] PROVE Walking(w)' /\ Ahead(w, o)'
    <3>1. wpc'[w] = "next"
      BY <1>3, <1>7
    <3>2. pos[w] < o
      BY <1>0, <1>1, <1>4, <2>4 DEF Ahead
    <3>3. Mine(w, o)'
      BY <1>1, <1>m, <2>4, Zenon DEF Ahead, Mine
    <3> QED
      BY <1>1, <3>1, <3>2, <3>3, Zenon DEF Walking, Ahead
  <2>5. counted[o] = 1 \/ o = pos[w] => counted'[o] = 1
    BY <1>5, Zenon
  <2> QED
    BY <2>2, <2>3, <2>4, <2>5, Zenon
<1>8. \A v \in Workers : wpc'[v] = "next" => InRange(v)'
  BY <1>1, <1>3, <1>m, Zenon DEF Covered, InRange
<1>9. \A v \in Workers : wpc'[v] = "add" /\ wrc'[v] = 2 => Enough' \/ AllTaken'
  BY <1>m, <1>3, <1>6, Zenon DEF Covered
<1>10. done' => Enough' \/ AllTaken'
  BY <1>m, <1>1, <1>6, Zenon DEF Covered
<1>11. ~priv' => \A v \in Workers : start'[v] = 0
  BY <1>m, <1>1, Zenon DEF Covered
<1> QED
  BY <1>m, <1>7, <1>8, <1>9, <1>10, <1>11, Zenon DEF Covered

\* No step leaves a part of the table uncovered.
LEMMA CoveredKeeps ==
  ASSUME ParInv, TallyTypeOK, Tallies, Covered, [Next]_vars PROVE Covered'
<1>0. /\ wpc \in [Workers -> {"none", "env", "check", "take", "iter", "object", "next",
                              "add", "exit", "seterr", "out", "wake", "finished"}]
      /\ wrc \in [Workers -> 0 .. 2] /\ created \in 0 .. nthreads /\ nthreads <= Threads
      /\ nthreads \in Nat /\ 1 \in Workers /\ Threads \in Nat
      /\ \A w \in Workers : w > created => wpc[w] = "none"
      /\ \A w \in Workers : wpc[w] \in {"none", "env", "check", "exit", "seterr"} => wrc[w] # 2
  BY ParAssumption DEF ParInv, ParTypeOK, TallyTypeOK, Workers, nthreads
<1>1. CASE SetupFails \/ Setup \/ StartFails \/ Started \/ Finish \/ UNCHANGED vars
  <2>1. UNCHANGED <<table, priv, cursor, start, pos, counted, wpc, wrc, done>>
    BY <1>1, Zenon DEF SetupFails, Setup, StartFails, Started, Finish, vars, params, main, local
  <2>2. \A o \in table : Taken(o)' => Taken(o)
    BY <2>1 DEF Taken
  <2> QED
    BY <2>1, <2>2, CoverQuiet, Zenon
<1>2. CASE StartWorker
  <2>0. created + 1 \in Workers /\ created \in Nat /\ created + 1 > created
    BY <1>0, <1>2 DEF StartWorker, Workers
  <2>1. /\ UNCHANGED <<table, priv, cursor, start, pos, counted, wrc, done>>
        /\ \A v \in Workers : wpc'[v] = IF v = created + 1 THEN "env" ELSE wpc[v]
        /\ wpc[created + 1] = "none"
    BY <1>0, <1>2, <2>0 DEF StartWorker, params, local
  <2>2. \A o \in table : Taken(o)' => Taken(o)
    BY <1>0, <2>1 DEF Taken
  <2>3. \A v \in Workers : Walking(v) => wpc'[v] = wpc[v]
    BY <2>1 DEF Walking
  <2>4. /\ \A v \in Workers : wpc'[v] = "next" => wpc[v] = "next"
        /\ \A v \in Workers : wpc'[v] = "add" /\ wrc'[v] = 2 => wpc[v] = "add" /\ wrc[v] = 2
    BY <2>1
  <2> QED
    BY <2>1, <2>2, <2>3, <2>4, CoverQuiet
<1>3. ASSUME NEW w \in Workers,
             (EnvInit(w) /\ priv) \/ EnvFails(w) \/ Check(w) \/ AddChunk(w)
             \/ ErrTest(w) \/ SetErr(w) \/ Dec(w) \/ Wake(w)
      PROVE  Covered'
  <2>1. /\ UNCHANGED <<table, priv, cursor, start, pos, counted>>
        /\ ~Walking(w) /\ wpc[w] # "none"
        /\ \A v \in Workers : v # w => wpc'[v] = wpc[v] /\ wrc'[v] = wrc[v]
        /\ wpc'[w] \notin {"next", "add"}
    BY <1>0, <1>3, Zenon DEF EnvInit, EnvFails, Check, AddChunk, ErrTest, SetErr, Dec, Wake,
                      Goto, params, local, Walking
  <2>2. done' => done \/ \E v \in Workers : wpc[v] = "add" /\ wrc[v] = 2
    BY <1>3, Zenon DEF EnvInit, EnvFails, Check, AddChunk, ErrTest, SetErr, Dec, Wake
  <2>3. wpc[w] = "env" => priv \/ ~Whole'
    BY <1>3, Zenon DEF EnvInit, EnvFails, Check, AddChunk, ErrTest, SetErr, Dec, Wake, Whole
  <2>4. Whole' => \A o \in table : Taken(o)' => Taken(o)
    BY <1>0, <2>1, <2>3 DEF Taken
  <2>5. \A v \in Workers : Walking(v) => wpc'[v] = wpc[v]
    BY <2>1
  <2>6. /\ \A v \in Workers : wpc'[v] = "next" => wpc[v] = "next"
        /\ \A v \in Workers : wpc'[v] = "add" /\ wrc'[v] = 2 => wpc[v] = "add" /\ wrc[v] = 2
    BY <2>1, Zenon
  <2> QED
    BY <2>1, <2>2, <2>4, <2>5, <2>6, CoverQuiet, Zenon
<1>4. ASSUME NEW w \in Workers, Worker(w) PROVE Covered'
  <2>1. CASE Take(w) \/ (EnvInit(w) /\ ~priv)
    BY <2>1, CoverBegin
  <2>2. CASE Load(w) \/ IterNext(w)
    BY <2>2, CoverMoves
  <2>3. CASE RangeEnd(w) \/ IterFails(w)
    BY <2>3, CoverLeaves
  <2>4. CASE Object(w)
    BY <2>4, CoverObject
  <2> QED
    BY <1>3, <1>4, <2>1, <2>2, <2>3, <2>4 DEF Worker
<1> QED
  BY <1>1, <1>2, <1>4 DEF Next, Main, Over

\* A thread that was created never goes back to where it was not.
LEMMA CreatedKeeps ==
  ASSUME ParInv, Ends, [Next]_vars
  PROVE  \A w \in Workers : w <= created' => wpc'[w] # "none"
<1>0. /\ wpc \in [Workers -> {"none", "env", "check", "take", "iter", "object", "next",
                              "add", "exit", "seterr", "out", "wake", "finished"}]
      /\ created \in Nat /\ Workers \subseteq Nat
      /\ \A w \in Workers : w <= created => wpc[w] # "none"
  BY ParAssumption DEF ParInv, ParTypeOK, Workers, nthreads, Ends
<1>1. CASE StartWorker
  BY <1>0, <1>1 DEF StartWorker
<1>2. CASE SetupFails \/ Setup \/ StartFails \/ Started \/ Finish \/ UNCHANGED vars
  <2>1. UNCHANGED <<created, wpc>>
    BY <1>2 DEF SetupFails, Setup, StartFails, Started, Finish, vars, main
  <2> QED
    BY <1>0, <2>1
<1>3. ASSUME NEW w \in Workers, Worker(w)
      PROVE  \A v \in Workers : v <= created' => wpc'[v] # "none"
  <2>1. created' = created
    BY <1>3, Zenon DEF Worker, EnvInit, EnvFails, Check, Take, Load, IterFails, RangeEnd, Object,
                IterNext, AddChunk, ErrTest, SetErr, Dec, Wake, main
  <2>2. \E l : l # "none" /\ wpc' = [wpc EXCEPT ![w] = l]
    BY <1>3, Zenon DEF Worker, EnvInit, EnvFails, Check, Take, Load, IterFails, RangeEnd, Object,
                IterNext, AddChunk, ErrTest, SetErr, Dec, Wake, Goto
  <2> QED
    BY <1>0, <2>1, <2>2
<1> QED
  BY <1>1, <1>2, <1>3 DEF Next, Main, Over

\* Before lfu_par_init() nothing is taken, counted or owed.
LEMMA AllInvInit == Init => AllInv
<1> SUFFICES ASSUME Init PROVE AllInv
  OBVIOUS
<1>0. /\ Threads \in Nat \ {0} /\ Chunk \in Nat \ {0} /\ limit \in Nat
      /\ IsFiniteSet(table) /\ table \subseteq Nat \ {0} /\ 1 \in Workers
  BY ParAssumption DEF Init, Workers
<1>1. ParInv
  BY ParInvInit
<1>2. TallyTypeOK
  <2>1. n \in [Workers -> Nat] /\ wrc \in [Workers -> 0 .. 2] /\ \A w \in Workers : wrc[w] = 0
    BY DEF Init
  <2>2. mpc = "setup" /\ done = FALSE /\ err = 0 /\ objects = 0 /\ running = 0
    BY DEF Init
  <2>3. \A w \in Workers : wpc[w] = "none"
    BY DEF Init
  <2>4. done \in BOOLEAN
    BY <2>2, Zenon
  <2>5. err \in 0 .. 1 /\ objects \in Nat /\ running \in Int /\ mpc \in {"setup", "start", "wait", "gone"}
    BY <2>2
  <2> QED
    BY <1>0, <2>1, <2>3, <2>4, <2>5 DEF TallyTypeOK
<1>3. Added = {}
  BY DEF Added, Init
<1>4. Tallies
  BY <1>3, FS_EmptySet DEF Tallies, Init, Carrying
<1>5. Covered
  BY <1>0 DEF Covered, Init, Taken, Walking, InRange
<1>6. Unfinished = {}
  BY DEF Unfinished, Init
<1>7. Ends
  <2>1. /\ faults = {} /\ mpc = "setup" /\ created = 0 /\ running = 0
        /\ \A w \in Workers : wpc[w] = "none"
    BY DEF Init
  <2>2. Cardinality(Unfinished) = 0
    BY <1>6, FS_EmptySet
  <2>3. \A w \in Workers : ~(w <= created)
    BY <1>0, <2>1 DEF Workers
  <2> QED
    BY <2>1, <2>2, <2>3 DEF Ends, Left
<1> QED
  BY <1>1, <1>2, <1>4, <1>5, <1>7 DEF AllInv

\* What the counters of a load count, what of the table is still to come and
\* why its threads end: an invariant for any table, chunk, limit and number of
\* threads.
THEOREM ParTallies == Spec => []AllInv
<1>1. AllInv /\ ParInv' /\ [Next]_vars => AllInv'
  <2> SUFFICES ASSUME AllInv, ParInv', [Next]_vars PROVE AllInv'
    OBVIOUS
  <2>0. ParInv /\ TallyTypeOK /\ Tallies /\ Covered /\ Ends
    BY DEF AllInv
  <2>1. TallyTypeOK'
    BY <2>0, TallyTypes
  <2>2. Tallies'
    BY <2>0, TalliesKeep
  <2>3. Covered'
    BY <2>0, CoveredKeeps
  <2>4. Ends'
    BY <2>0, RunningKeeps, LeavingKeeps, CreatedKeeps, Zenon DEF Ends
  <2> QED
    BY <2>1, <2>2, <2>3, <2>4 DEF AllInv
<1> QED
  BY <1>1, AllInvInit, ParInvHolds, PTL DEF Spec

\* A load that reports err = 0, with every environment set up, counted the
\* whole table, or its limit of it.
THEOREM ParZeroErrMeansAll == Spec => []ZeroErrMeansAll
<1>1. AllInv => ZeroErrMeansAll
  <2> SUFFICES ASSUME AllInv, mpc = "gone", rc = 0, "env" \notin faults
               PROVE  /\ limit = 0 => objects = Cardinality(table) /\ \A o \in table : counted[o] = 1
                      /\ limit > 0 => objects >= Min({limit, Cardinality(table)})
    BY DEF ZeroErrMeansAll
  <2>0. /\ ParInv /\ TallyTypeOK /\ Tallies /\ Covered /\ Ends
        /\ Threads \in Nat \ {0} /\ 1 \in Workers /\ limit \in Nat /\ objects \in Nat
        /\ wpc \in [Workers -> {"none", "env", "check", "take", "iter", "object", "next",
                                "add", "exit", "seterr", "out", "wake", "finished"}]
        /\ counted \in [table -> 0 .. 1] /\ IsFiniteSet(table)
        /\ created \in Nat
    <3>1. ParInv /\ TallyTypeOK /\ Tallies /\ Covered /\ Ends
      BY Zenon DEF AllInv
    <3>2. table \in Tables /\ limit \in Nat /\ objects \in Nat /\ created \in 0 .. nthreads
      BY <3>1, Zenon DEF ParInv, ParTypeOK, TallyTypeOK
    <3>3. /\ wpc \in [Workers -> {"none", "env", "check", "take", "iter", "object", "next",
                                 "add", "exit", "seterr", "out", "wake", "finished"}]
          /\ counted \in [table -> 0 .. 1]
      BY <3>1, Zenon DEF ParInv, ParTypeOK
    <3>4. Threads \in Nat \ {0} /\ IsFiniteSet(table)
      BY <3>2, ParAssumption, Zenon
    <3>5. 1 \in Workers /\ created \in Nat
      BY <3>2, <3>4 DEF Workers, nthreads
    <3> QED
      BY <3>1, <3>2, <3>3, <3>4, <3>5, Zenon
  <2>1. err = 0 /\ created = nthreads /\ Unfinished = {}
    BY <2>0 DEF Ends
  <2>2. \A w \in Workers : wpc[w] \in {"none", "wake", "finished"}
    BY <2>1 DEF Unfinished
  <2>3. Whole
    BY <2>0, <2>1, <2>2 DEF Ends, Whole
  <2>4. /\ \A w \in Workers : ~Walking(w) /\ ~Carrying(w) /\ wpc[w] # "add"
    BY <2>2 DEF Walking, Carrying
  <2>5. ASSUME ~Enough PROVE Added = table
    <3>1. AllTaken
      <4>1. wpc[1] # "none"
        BY <2>0, <2>1 DEF Ends, nthreads
      <4>2. CASE priv
        <5>1. Left(1)
          BY <2>0, <2>2, <4>1 DEF Left
        <5>2. done
          BY <2>0, <2>1, <2>3, <4>2, <5>1 DEF Ends
        <5> QED
          BY <2>0, <2>5, <5>2 DEF Covered
      <4>3. CASE ~priv
        BY <2>0, <2>2, <4>1, <4>3 DEF AllTaken, Taken
      <4> QED
        BY <4>2, <4>3
    <3>2. \A o \in table : counted[o] = 1
      BY <2>0, <2>3, <2>4, <2>5, <3>1 DEF Covered, AllTaken
    <3> QED
      BY <2>4, <3>2 DEF Added
  <2>6. Cardinality(table) \in Nat
    BY <2>0, FS_CardinalityType
  <2>7. ASSUME limit = 0
        PROVE  objects = Cardinality(table) /\ \A o \in table : counted[o] = 1
    <3>1. Added = table
      BY <2>5, <2>7 DEF Enough
    <3> QED
      BY <2>0, <3>1 DEF Tallies, Added
  <2>8. ASSUME limit > 0 PROVE objects >= Min({limit, Cardinality(table)})
    <3> DEFINE S == {limit, Cardinality(table)}
    <3>0. S \subseteq Nat /\ limit \in S /\ Cardinality(table) \in S
      BY <2>0, <2>6
    <3>1. Min(S) \in S /\ Min(S) <= limit /\ Min(S) <= Cardinality(table)
      <4> HIDE DEF S
      <4> QED
        BY <3>0, MinIsLeast, Zenon
    <3>2. Min(S) \in Nat
      BY <3>0, <3>1, Zenon
    <3>3. objects >= limit \/ objects = Cardinality(table)
      <4>1. CASE Enough
        BY <2>4, <4>1 DEF Enough
      <4>2. CASE ~Enough
        BY <2>0, <2>5, <4>2 DEF Tallies
      <4> QED
        BY <4>1, <4>2
    <3> HIDE DEF S
    <3>4. objects >= Min(S)
      BY <2>0, <2>6, <3>1, <3>2, <3>3
    <3> QED
      BY <3>4 DEF S
  <2> QED
    BY <2>7, <2>8
<1> QED
  BY <1>1, ParTallies, PTL
=============================================================================
