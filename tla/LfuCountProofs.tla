--------------------------- MODULE LfuCountProofs ---------------------------
(***************************************************************************)
(* For every target, number of workers and --limit: the counters that      *)
(* lfu_scan() reports are those of the target.  The proof names, for each  *)
(* object, the worker that counted it, and follows the shares of the       *)
(* workers through lfu_stats_merge().                                      *)
(***************************************************************************)
EXTENDS LfuScanProofs, FiniteSetTheorems

(* The walk over the objects, as the count of bad inodes needs it.         *)

(* The chunks as the proofs below use them.                                *)
LEMMA Chunks ==
  ASSUME ScanInv
  PROVE  /\ \A k \in Nat :
              /\ ChunkStart(backend, k) \in Nat
              /\ ChunkStart(backend, k) <= ChunkStart(backend, k + 1)
              /\ \A i \in Ids : i <= ChunkEnd(backend, k) <=> i <= ChunkStart(backend, k + 1)
              /\ \A i \in Ids : InChunk(backend, i, k) <=>
                   ChunkStart(backend, k) < i /\ i <= ChunkStart(backend, k + 1)
         /\ \A j, k \in Nat : j < k => ChunkStart(backend, j + 1) <= ChunkStart(backend, k)
         /\ wpc \in [Workers -> WorkerStates] /\ cursor \in Nat
         /\ idx \in [Workers -> Nat] /\ pos \in [Workers -> Nat]
         /\ cdone \in [Workers -> BOOLEAN] /\ Ids \subseteq Nat /\ Ids = 1..MaxId /\ MaxId \in Nat
<1>1. \A k \in Nat :
        /\ ChunkStart(backend, k) \in Nat
        /\ ChunkStart(backend, k) <= ChunkStart(backend, k + 1)
        /\ \A i \in Ids : i <= ChunkEnd(backend, k) <=> i <= ChunkStart(backend, k + 1)
        /\ \A i \in Ids : InChunk(backend, i, k) <=>
             ChunkStart(backend, k) < i /\ i <= ChunkStart(backend, k + 1)
  BY ScanAssumption, StartStep
<1>2. \A j, k \in Nat : j < k => ChunkStart(backend, j + 1) <= ChunkStart(backend, k)
  BY ScanAssumption, StartMonotone
<1>3. /\ wpc \in [Workers -> WorkerStates] /\ cursor \in Nat
      /\ idx \in [Workers -> Nat] /\ pos \in [Workers -> Nat]
      /\ cdone \in [Workers -> BOOLEAN] /\ Ids \subseteq Nat /\ Ids = 1..MaxId /\ MaxId \in Nat
  BY ScanAssumption DEF ScanAssumption, ScanInv, TypeOK, WorkType, WorkerType, Ids
<1> QED
  BY <1>1, <1>2, <1>3, Zenon

(* What one step keeps of the walk over bad inodes, for one and the same   *)
(* by.                                                                     *)
Keeps(by) == Walked(by)' /\ (~failed' /\ ~lost' /\ ~Limited' => NoneLeft(by)')

(* The main thread moves no walk.                                          *)
LEMMA MainKeeps ==
  ASSUME ScanInv, [Next]_vars, Main, NEW by, MetBy(by) PROVE Keeps(by)
<1>1. /\ UNCHANGED <<idx, pos, cdone, cursor, done, backend>>
      /\ \A i : Bad(i)' = Bad(i)
  BY MainSame, InputSame
<1>2. wpc \in [Workers -> WorkerStates]
  BY Chunks
<1>3. \A v \in Workers : wpc'[v] = wpc[v] \/ (wpc[v] = "none" /\ wpc'[v] = "init")
  <2>1. CASE Create
    <3>1. mpc = "start" /\ made < nthreads /\ wpc' = [wpc EXCEPT ![made + 1] = "init"]
      BY <2>1 DEF Create
    <3>2. made + 1 \in Workers /\ made \in Nat
      BY <3>1, ScanAssumption DEF ScanAssumption, ScanInv, TypeOK, MainType, Workers
    <3>3. made + 1 > made
      BY <3>2
    <3>4. wpc[made + 1] = "none"
      BY <3>1, <3>2, <3>3 DEF ScanInv, MainInv
    <3> QED
      BY <1>2, <3>1, <3>4
  <2>2. CASE ~Create
    <3>1. UNCHANGED wpc
      BY <2>2, Zenon DEF Main, NoMemory, CreateFails, StartJoin, Join, StartMerge, Merge, Return
    <3> QED
      BY <3>1
  <2> QED
    BY <2>1, <2>2
<1>4. \A v \in Workers : /\ wpc'[v] \in {"walk", "ret"} => wpc[v] \in {"walk", "ret"}
                         /\ \A i : Pending(v, i) => Pending(v, i)'
  <2> TAKE v \in Workers
  <2>1. CASE wpc'[v] = wpc[v]
    BY <1>1, <2>1, Zenon DEF Pending
  <2>2. CASE wpc[v] = "none" /\ wpc'[v] = "init"
    BY <2>2 DEF Pending
  <2> QED
    BY <1>3, <2>1, <2>2, Zenon
<1>5. Walked(by)'
  BY <1>1, <1>4, Zenon DEF Walked, MetBy
<1>6. ASSUME ~failed', ~lost', ~Limited' PROVE NoneLeft(by)'
  <2>1. NoneLeft(by)
    BY <1>6, FlawsStay, Zenon DEF MetBy
  <2> QED
    BY <1>1, <1>4, <2>1, Zenon DEF NoneLeft, Left
<1> QED
  BY <1>5, <1>6, Zenon DEF Keeps

(* A worker outside its walk, and one that gives up.                       *)
LEMMA IdleKeeps ==
  ASSUME ScanInv, [Next]_vars, NEW by, MetBy(by), NEW w \in Workers,
         \/ WorkerInit(w) \/ WorkerInitFails(w) \/ NoMoreChunks(w) \/ WalkFails(w)
         \/ NextObjectLost(w) \/ WalkStopped(w)
  PROVE  Keeps(by)
<1>1. wpc \in [Workers -> WorkerStates]
  BY Chunks, Zenon
<1>2. UNCHANGED <<idx, pos, cursor, backend>> /\ \A i : Bad(i)' = Bad(i)
  <2>1. UNCHANGED <<idx, pos, cursor>>
    BY Zenon DEF WorkerInit, WorkerInitFails, NoMoreChunks, WalkFails, NextObjectLost, WalkStopped,
             chunkVars, workVars
  <2> QED
    BY <2>1, InputSame
<1>3. Walked(by)'
  <2>1. PICK x \in {"next", "dead", "ret"} : /\ wpc' = [wpc EXCEPT ![w] = x]
                                             /\ x = "ret" => wpc[w] = "walk"
    BY Zenon DEF WorkerInit, WorkerInitFails, NoMoreChunks, WalkFails, NextObjectLost, WalkStopped
  <2>2. \A v \in Workers : wpc'[v] \in {"walk", "ret"} => wpc[v] \in {"walk", "ret"}
    BY <1>1, <2>1
  <2> QED
    BY <1>2, <2>2, Zenon DEF Walked, MetBy
<1>4. ASSUME ~failed', ~lost', ~Limited' PROVE NoneLeft(by)'
  <2>1. NoneLeft(by) /\ ~Limited
    BY <1>4, FlawsStay, Zenon DEF MetBy
  <2>2. WorkerInit(w) \/ NoMoreChunks(w)
    BY <1>4, <2>1, Zenon DEF WorkerInitFails, WalkFails, NextObjectLost, WalkStopped, Limited
  <2>3. PICK x \in {"next", "dead"} : wpc' = [wpc EXCEPT ![w] = x]
    BY <2>2, Zenon DEF WorkerInit, NoMoreChunks
  <2>4. wpc[w] \in {"init", "next"} /\ UNCHANGED <<cdone, done>>
    BY <2>2, Zenon DEF WorkerInit, NoMoreChunks, chunkVars, workVars
  <2>5. \A v \in Workers : /\ wpc'[v] \in {"walk", "ret"} => wpc[v] \in {"walk", "ret"}
                           /\ \A i : Pending(v, i) => Pending(v, i)'
    BY <1>1, <1>2, <2>3, <2>4, Zenon DEF Pending
  <2> QED
    BY <1>2, <2>1, <2>4, <2>5, Zenon DEF NoneLeft, Left
<1> QED
  BY <1>3, <1>4, Zenon DEF Keeps

(* Taking a chunk makes its bad inodes pending.                            *)
LEMMA TakeKeeps ==
  ASSUME ScanInv, [Next]_vars, NEW by, MetBy(by), NEW w \in Workers, NextChunk(w)
  PROVE  Keeps(by)
<1>1. /\ wpc[w] = "next" /\ ~done /\ cursor' = cursor + 1
      /\ wpc' = [wpc EXCEPT ![w] = "chunk"] /\ idx' = [idx EXCEPT ![w] = cursor]
      /\ cdone' = [cdone EXCEPT ![w] = FALSE]
      /\ UNCHANGED <<pos, done>>
  BY DEF NextChunk
<1>2. UNCHANGED backend /\ \A i : Bad(i)' = Bad(i)
  BY InputSame
<1>3. /\ wpc \in [Workers -> WorkerStates] /\ idx \in [Workers -> Nat] /\ cursor \in Nat
      /\ cdone \in [Workers -> BOOLEAN]
  BY Chunks, Zenon
<1>4. \A v \in Workers : wpc'[v] \in {"walk", "ret"} =>
        wpc[v] \in {"walk", "ret"} /\ idx'[v] = idx[v] /\ cdone'[v] = cdone[v]
  BY <1>1, <1>3, Zenon
<1>5. Walked(by)'
  BY <1>1, <1>2, <1>4, Zenon DEF Walked, MetBy
<1>6. ASSUME ~failed', ~lost', ~Limited' PROVE NoneLeft(by)'
  <2>1. NoneLeft(by)
    BY <1>6, FlawsStay, Zenon DEF MetBy
  <2>2. \A v \in Workers, i \in Ids : Pending(v, i) => Pending(v, i)'
    BY <1>1, <1>2, <1>3 DEF Pending
  <2>3. \A i \in Ids : InChunk(backend, i, cursor) => Pending(w, i)'
    BY <1>1, <1>2, <1>3 DEF Pending
  <2>4. ASSUME NEW i \in Ids, Bad(i), i <= ChunkStart(backend, cursor + 1)
        PROVE  by[i] # 0 \/ \E v \in Workers : Pending(v, i)'
    <3>1. CASE i <= ChunkStart(backend, cursor)
      BY <2>1, <2>2, <2>4, <3>1, Zenon DEF NoneLeft
    <3>2. CASE ~(i <= ChunkStart(backend, cursor))
      <4>1. ChunkStart(backend, cursor) \in Nat /\ i \in Nat
        BY <1>3, Chunks, Zenon
      <4>2. ChunkStart(backend, cursor) < i
        BY <3>2, <4>1
      <4>3. InChunk(backend, i, cursor)
        BY <1>3, <2>4, <4>2, Chunks, Zenon
      <4> QED
        BY <2>3, <4>3
    <3> QED
      BY <3>1, <3>2
  <2>5. \A v \in Workers : wpc'[v] \in {"walk", "ret"} /\ cdone'[v] => Left(by, idx'[v] + 1)
    BY <1>4, <2>1, Zenon DEF NoneLeft
  <2> QED
    BY <1>1, <1>2, <2>4, <2>5, Zenon DEF NoneLeft, Left
<1> QED
  BY <1>5, <1>6, Zenon DEF Keeps

(* Entering a chunk walks over nothing yet.                                *)
LEMMA EnterKeeps ==
  ASSUME ScanInv, [Next]_vars, NEW by, MetBy(by), NEW w \in Workers, EnterChunk(w)
  PROVE  Keeps(by)
<1>1. /\ wpc[w] = "chunk" /\ pos' = [pos EXCEPT ![w] = ChunkStart(backend, idx[w])]
      /\ UNCHANGED <<idx, cursor, done>>
  BY Zenon DEF EnterChunk, workVars
<1>2. UNCHANGED backend /\ \A i : Bad(i)' = Bad(i)
  BY InputSame
<1>3. /\ wpc \in [Workers -> WorkerStates] /\ idx \in [Workers -> Nat] /\ cursor \in Nat
      /\ pos \in [Workers -> Nat]
      /\ cdone \in [Workers -> BOOLEAN] /\ Ids = 1..MaxId /\ MaxId \in Nat
  BY Chunks, Zenon
<1>4. idx[w] \in Nat /\ ChunkStart(backend, idx[w]) \in Nat /\ ChunkStart(backend, idx[w] + 1) \in Nat
  <2>1. idx[w] \in Nat /\ idx[w] + 1 \in Nat
    BY <1>3
  <2> QED
    BY <2>1, Chunks, Zenon
<1>5. PICK x \in {"ret", "walk"}, y \in BOOLEAN :
        /\ wpc' = [wpc EXCEPT ![w] = x] /\ cdone' = [cdone EXCEPT ![w] = y]
        /\ x = "ret" => MaxId <= ChunkStart(backend, idx[w])
        /\ y => MaxId <= ChunkStart(backend, idx[w] + 1)
  <2> DEFINE past == backend = "ldiskfs" /\ idx[w] * ChunkSize >= MaxId
             short == backend = "ldiskfs" /\ (idx[w] + 1) * ChunkSize > MaxId
             x == IF past THEN "ret" ELSE "walk"
  <2>1. wpc' = [wpc EXCEPT ![w] = x] /\ cdone' = [cdone EXCEPT ![w] = past \/ short]
    BY DEF EnterChunk
  <2>2. x \in {"ret", "walk"} /\ (past \/ short) \in BOOLEAN
    OBVIOUS
  <2>3. x = "ret" => past
    OBVIOUS
  <2>4. past => MaxId <= ChunkStart(backend, idx[w])
    BY <1>3, <1>4 DEF ChunkStart
  <2>5. past => MaxId <= ChunkStart(backend, idx[w] + 1)
    <3>1. ChunkStart(backend, idx[w]) <= ChunkStart(backend, idx[w] + 1)
      BY <1>4, Chunks
    <3> QED
      BY <1>3, <1>4, <2>4, <3>1
  <2>6. short => MaxId <= ChunkStart(backend, idx[w] + 1)
    BY <1>3, <1>4 DEF ChunkStart
  <2> HIDE DEF past, short
  <2> QED
    BY <2>1, <2>2, <2>3, <2>4, <2>5, <2>6, Zenon
<1>6. /\ wpc'[w] = x /\ cdone'[w] = y /\ pos'[w] = ChunkStart(backend, idx[w])
      /\ \A v \in Workers : v # w => wpc'[v] = wpc[v] /\ cdone'[v] = cdone[v] /\ pos'[v] = pos[v]
  BY <1>1, <1>3, <1>5
<1>7. Walked(by)'
  <2> SUFFICES ASSUME NEW v \in Workers, wpc'[v] \in {"walk", "ret"}, NEW i \in Ids, Bad(i),
                      i > ChunkStart(backend, idx[v]), i <= pos'[v]
               PROVE  by[i] # 0
    BY <1>1, <1>2, Zenon DEF Walked
  <2>1. CASE v = w
    <3>1. i \in Nat /\ i > ChunkStart(backend, idx[w]) /\ i <= ChunkStart(backend, idx[w])
      BY <1>3, <1>6, <2>1
    <3> QED
      BY <1>4, <3>1
  <2>2. CASE v # w
    BY <1>6, <2>2, Zenon DEF Walked, MetBy
  <2> QED
    BY <2>1, <2>2, Zenon
<1>8. ASSUME ~failed', ~lost', ~Limited' PROVE NoneLeft(by)'
  <2>1. NoneLeft(by)
    BY <1>8, FlawsStay, Zenon DEF MetBy
  <2>2. ASSUME NEW v \in Workers, NEW i \in Ids, Pending(v, i) PROVE Pending(v, i)'
    <3>1. CASE v = w
      <4>1. ChunkStart(backend, idx[w]) < i /\ InChunk(backend, i, idx[w])
        BY <1>4, <2>2, <3>1, Chunks, Zenon DEF Pending
      <4>2. i > ChunkStart(backend, idx[w]) /\ ~(MaxId <= ChunkStart(backend, idx[w]))
        BY <1>3, <1>4, <4>1
      <4>3. x = "walk"
        BY <1>5, <4>2
      <4> QED
        BY <1>1, <1>2, <1>6, <3>1, <4>1, <4>2, <4>3, Zenon DEF Pending
    <3>2. CASE v # w
      BY <1>1, <1>2, <1>6, <2>2, <3>2, Zenon DEF Pending
    <3> QED
      BY <3>1, <3>2
  <2>3. ASSUME NEW v \in Workers, wpc'[v] \in {"walk", "ret"}, cdone'[v] PROVE Left(by, idx[v] + 1)
    <3>1. CASE v = w
      <4>1. MaxId <= ChunkStart(backend, idx[w] + 1)
        BY <1>5, <1>6, <2>3, <3>1
      <4>2. \A i \in Ids : i <= ChunkStart(backend, idx[w] + 1)
        BY <1>3, <1>4, <4>1
      <4> QED
        BY <3>1, <4>2, Zenon DEF Left
    <3>2. CASE v # w
      BY <1>6, <2>1, <2>3, <3>2, Zenon DEF NoneLeft
    <3> QED
      BY <3>1, <3>2
  <2> QED
    BY <1>1, <1>2, <2>1, <2>2, <2>3, Zenon DEF NoneLeft, Left
<1> QED
  BY <1>7, <1>8, Zenon DEF Keeps

(* A worker that has proved the end leaves none beyond the cursor.         *)
LEMMA DoneKeeps ==
  ASSUME ScanInv, [Next]_vars, NEW by, MetBy(by), NEW w \in Workers, ChunkDone(w)
  PROVE  Keeps(by)
<1>1. wpc[w] = "ret" /\ UNCHANGED <<idx, pos, cdone, cursor, stop>>
  BY DEF ChunkDone, chunkVars
<1>2. UNCHANGED backend /\ \A i : Bad(i)' = Bad(i)
  BY InputSame
<1>3. wpc \in [Workers -> WorkerStates] /\ idx \in [Workers -> Nat] /\ cursor \in Nat
  BY Chunks, Zenon
<1>4. PICK x \in {"next", "dead"} : wpc' = [wpc EXCEPT ![w] = x]
  BY Zenon DEF ChunkDone
<1>5. \A v \in Workers : /\ wpc'[v] \in {"walk", "ret"} => wpc[v] \in {"walk", "ret"}
                         /\ \A i : Pending(v, i) => Pending(v, i)'
  BY <1>1, <1>2, <1>3, <1>4 DEF Pending
<1>6. Walked(by)'
  BY <1>1, <1>2, <1>5, Zenon DEF Walked, MetBy
<1>7. ASSUME ~failed', ~lost', ~Limited' PROVE NoneLeft(by)'
  <2>1. NoneLeft(by) /\ ~stop[w]
    BY <1>7, FlawsStay, Zenon DEF MetBy, Limited
  <2>2. done' = done \/ (cdone[w] /\ done')
    BY <2>1, Zenon DEF ChunkDone, set_done
  <2>3. done' => Left(by, cursor)
    <3>1. CASE cdone[w]
      <4>1. Left(by, idx[w] + 1)
        BY <1>1, <2>1, <3>1, Zenon DEF NoneLeft
      <4>2. idx[w] < cursor /\ idx[w] \in Nat
        BY <1>1, <1>3 DEF ScanInv, HandInv, Holds
      <4>3. ChunkStart(backend, idx[w] + 1) <= ChunkStart(backend, cursor)
        BY <1>3, <4>2, Chunks
      <4>4. /\ ChunkStart(backend, idx[w] + 1) \in Nat /\ ChunkStart(backend, cursor) \in Nat
            /\ Ids \subseteq Nat
        <5>1. idx[w] + 1 \in Nat
          BY <4>2
        <5> QED
          BY <1>3, <5>1, Chunks, Zenon
      <4>5. \A i \in Ids : i <= ChunkStart(backend, idx[w] + 1) => i <= ChunkStart(backend, cursor)
        BY <4>3, <4>4
      <4> QED
        BY <4>1, <4>5, Zenon DEF Left
    <3>2. CASE ~cdone[w]
      BY <2>1, <2>2, <3>2, Zenon DEF NoneLeft
    <3> QED
      BY <3>1, <3>2
  <2> QED
    BY <1>1, <1>2, <1>5, <2>1, <2>3, Zenon DEF NoneLeft, Left
<1> QED
  BY <1>6, <1>7, Zenon DEF Keeps

(* Nothing present lies between a position and the next id.                *)
LEMMA NextIsFirst ==
  ASSUME ScanInv, NEW w \in Workers, NEW n \in Ids, IsNext(n, pos[w])
  PROVE  /\ n > pos[w] /\ \A j \in Ids : Present(j) /\ j > pos[w] => j = n \/ j > n
         /\ \A j \in Ids : Bad(j) => Present(j) /\ ~Countable(j)
<1>1. pos[w] \in Nat /\ n \in Nat /\ Ids \subseteq Nat
  BY Chunks
<1>2. n > pos[w] /\ \A j \in Ids : pos[w] < j /\ j < n => ~Present(j)
  BY DEF IsNext
<1>3. \A j \in Ids : j > pos[w] => j = n \/ j > n \/ (pos[w] < j /\ j < n)
  BY <1>1
<1>4. \A j \in Ids : Bad(j) => Present(j) /\ ~Countable(j)
  BY DEF Bad, Present, Countable
<1> QED
  BY <1>2, <1>3, <1>4, Zenon

(* The walk that finds the table empty has met every bad inode from its    *)
(* chunk's start.                                                          *)
LEMMA EndsKeeps ==
  ASSUME ScanInv, [Next]_vars, NEW by, MetBy(by), NEW w \in Workers, WalkEnds(w)
  PROVE  Keeps(by)
<1>1. /\ wpc[w] = "walk" /\ wpc' = [wpc EXCEPT ![w] = "ret"]
      /\ cdone' = [cdone EXCEPT ![w] = TRUE]
      /\ UNCHANGED <<idx, pos, cursor, done>>
  BY Zenon DEF WalkEnds, workVars
<1>2. UNCHANGED backend /\ \A i : Bad(i)' = Bad(i)
  BY InputSame
<1>3. /\ wpc \in [Workers -> WorkerStates] /\ idx \in [Workers -> Nat]
      /\ pos \in [Workers -> Nat] /\ cdone \in [Workers -> BOOLEAN] /\ Ids \subseteq Nat
  BY Chunks, Zenon
<1>4. \A i \in Ids : Bad(i) => ~(i > pos[w])
  BY DEF WalkEnds, Present, Bad
<1>5. \A v \in Workers : wpc'[v] \in {"walk", "ret"} => wpc[v] \in {"walk", "ret"}
  BY <1>1, <1>3
<1>6. Walked(by)'
  BY <1>1, <1>2, <1>5, Zenon DEF Walked, MetBy
<1>7. ASSUME ~failed', ~lost', ~Limited' PROVE NoneLeft(by)'
  <2>1. NoneLeft(by)
    BY <1>7, FlawsStay, Zenon DEF MetBy
  <2>2. \A v \in Workers, i \in Ids : Bad(i) /\ Pending(v, i) => Pending(v, i)'
    BY <1>1, <1>2, <1>3, <1>4 DEF Pending
  <2>3. Left(by, idx[w] + 1)
    <3> SUFFICES ASSUME NEW i \in Ids, Bad(i), by[i] = 0
                 PROVE  i <= ChunkStart(backend, idx[w] + 1)
      BY Zenon DEF Left
    <3>1. /\ ChunkStart(backend, idx[w]) \in Nat /\ ChunkStart(backend, idx[w] + 1) \in Nat
          /\ ChunkStart(backend, idx[w]) <= ChunkStart(backend, idx[w] + 1)
      <4>1. idx[w] \in Nat /\ idx[w] + 1 \in Nat
        BY <1>3
      <4> QED
        BY <4>1, Chunks, Zenon
    <3>2. ~(i > ChunkStart(backend, idx[w]) /\ i <= pos[w])
      BY <1>1, Zenon DEF Walked, MetBy
    <3>3. i <= pos[w] /\ i \in Nat
      BY <1>3, <1>4
    <3> QED
      BY <3>1, <3>2, <3>3
  <2>4. \A v \in Workers : wpc'[v] \in {"walk", "ret"} /\ cdone'[v] => Left(by, idx[v] + 1)
    <3> TAKE v \in Workers
    <3>1. CASE v = w
      BY <2>3, <3>1
    <3>2. CASE v # w
      <4>1. cdone'[v] = cdone[v]
        BY <1>1, <1>3, <3>2
      <4> QED
        BY <1>5, <2>1, <4>1, Zenon DEF NoneLeft
    <3> QED
      BY <3>1, <3>2, Zenon
  <2> QED
    BY <1>1, <1>2, <2>1, <2>2, <2>4, Zenon DEF NoneLeft, Left
<1> QED
  BY <1>6, <1>7, Zenon DEF Keeps

(* Leaving a chunk at an object of a later one leaves no bad inode behind. *)
LEMMA PastKeeps ==
  ASSUME ScanInv, [Next]_vars, NEW by, MetBy(by), NEW w \in Workers, WalkPastEnd(w)
  PROVE  Keeps(by)
<1>1. /\ wpc[w] = "walk" /\ wpc' = [wpc EXCEPT ![w] = "ret"]
      /\ UNCHANGED <<idx, pos, cdone, cursor, done>>
  BY Zenon DEF WalkPastEnd, workVars, chunkVars
<1>2. UNCHANGED backend /\ \A i : Bad(i)' = Bad(i)
  BY InputSame
<1>3. /\ wpc \in [Workers -> WorkerStates] /\ idx \in [Workers -> Nat]
      /\ pos \in [Workers -> Nat] /\ Ids \subseteq Nat
  BY Chunks, Zenon
<1>4. PICK n \in Ids : IsNext(n, pos[w]) /\ Countable(n) /\ n > ChunkEnd(backend, idx[w])
  BY Zenon DEF WalkPastEnd
<1>5. \A v \in Workers : wpc'[v] \in {"walk", "ret"} => wpc[v] \in {"walk", "ret"}
  BY <1>1, <1>3
<1>6. Walked(by)'
  BY <1>1, <1>2, <1>5, Zenon DEF Walked, MetBy
<1>7. ASSUME ~failed', ~lost', ~Limited' PROVE NoneLeft(by)'
  <2>1. NoneLeft(by)
    BY <1>7, FlawsStay, Zenon DEF MetBy
  <2>2. ~(n <= ChunkStart(backend, idx[w] + 1)) /\ ChunkStart(backend, idx[w] + 1) \in Nat
    <3>1. idx[w] \in Nat /\ idx[w] + 1 \in Nat /\ n \in Nat
      BY <1>3
    <3>2. ChunkEnd(backend, idx[w]) \in Int
      BY <3>1, ScanAssumption DEF ChunkEnd, ScanAssumption
    <3>3. ~(n <= ChunkEnd(backend, idx[w]))
      BY <1>4, <3>1, <3>2
    <3> QED
      BY <3>1, <3>3, Chunks, Zenon
  <2>3. ASSUME NEW v \in Workers, NEW i \in Ids, Bad(i), Pending(v, i) PROVE Pending(v, i)'
    <3>1. CASE v = w
      <4>1. i > pos[w] /\ i <= ChunkStart(backend, idx[w] + 1)
        <5>1. idx[w] \in Nat
          BY <1>3
        <5> QED
          BY <1>1, <2>3, <3>1, <5>1, Chunks, Zenon DEF Pending
      <4>2. i = n \/ i > n
        BY <1>4, <2>3, <4>1, NextIsFirst, Zenon
      <4> QED
        BY <1>3, <2>2, <4>1, <4>2
    <3>2. CASE v # w
      BY <1>1, <1>2, <1>3, <2>3, <3>2 DEF Pending
    <3> QED
      BY <3>1, <3>2
  <2> QED
    BY <1>1, <1>2, <1>5, <2>1, <2>3, Zenon DEF NoneLeft, Left
<1> QED
  BY <1>6, <1>7, Zenon DEF Keeps

(* A walk that goes on to the next id n: all but n stay as they were.      *)
LEMMA AdvanceKeeps ==
  ASSUME ScanInv, [Next]_vars, NEW by, MetBy(by), NEW b2, NEW w \in Workers, NEW n \in Ids,
         IsNext(n, pos[w]), Bad(n) => b2[n] # 0,
         \A i \in Ids : i # n => b2[i] = by[i],
         by[n] # 0 => b2[n] # 0,
         wpc[w] = "walk", pos' = [pos EXCEPT ![w] = n],
         UNCHANGED <<wpc, idx, cdone, cursor, done>>
  PROVE  Keeps(b2)
<1>2. UNCHANGED backend /\ \A i : Bad(i)' = Bad(i)
  BY InputSame, Zenon
<1>3. /\ idx \in [Workers -> Nat] /\ pos \in [Workers -> Nat] /\ Ids \subseteq Nat
  BY Chunks, Zenon
<1>4. \A i \in Ids : by[i] # 0 => b2[i] # 0
  BY Zenon
<1>5. /\ n > pos[w] /\ \A j \in Ids : Present(j) /\ j > pos[w] => j = n \/ j > n
      /\ \A j \in Ids : Bad(j) => Present(j)
  BY NextIsFirst, Zenon
<1>6. pos'[w] = n /\ \A v \in Workers : v # w => pos'[v] = pos[v]
  BY <1>3
<1>7. Walked(b2)'
  <2> SUFFICES ASSUME NEW v \in Workers, wpc[v] \in {"walk", "ret"}, NEW i \in Ids, Bad(i),
                      i > ChunkStart(backend, idx[v]), i <= pos'[v]
               PROVE  b2[i] # 0
    BY <1>2, Zenon DEF Walked
  <2>1. CASE v = w /\ i > pos[w]
    <3>1. i = n \/ i > n
      BY <1>5, <2>1, Zenon
    <3>2. i <= n /\ i \in Nat /\ n \in Nat
      BY <1>3, <1>6, <2>1
    <3>3. i = n
      BY <3>1, <3>2
    <3> QED
      BY <3>3, Zenon
  <2>2. CASE v # w \/ ~(i > pos[w])
    <3>1. i <= pos[v]
      <4>1. pos[w] \in Nat /\ i \in Nat
        BY <1>3
      <4> QED
        BY <1>6, <2>2, <4>1
    <3>2. by[i] # 0
      BY <3>1, Zenon DEF MetBy, Walked
    <3> QED
      BY <1>4, <3>2, Zenon
  <2> QED
    BY <2>1, <2>2, Zenon
<1>8. ASSUME ~failed', ~lost', ~Limited' PROVE NoneLeft(b2)'
  <2>1. NoneLeft(by)
    BY <1>8, FlawsStay, Zenon DEF MetBy
  <2>2. ASSUME NEW v \in Workers, NEW i \in Ids, Bad(i), Pending(v, i), i # n
        PROVE  Pending(v, i)'
    <3>1. CASE v = w
      <4>1. i > pos[w]
        BY <2>2, <3>1, Zenon DEF Pending
      <4>2. i > n
        BY <1>5, <2>2, <4>1, Zenon
      <4> QED
        BY <1>2, <1>6, <2>2, <3>1, <4>2, Zenon DEF Pending
    <3>2. CASE v # w
      BY <1>2, <1>6, <2>2, <3>2, Zenon DEF Pending
    <3> QED
      BY <3>1, <3>2, Zenon
  <2>3. \A k : Left(by, k) => Left(b2, k)
    BY <1>4, Zenon DEF Left
  <2>4. \A i \in Ids : Bad(i) /\ i <= ChunkStart(backend, cursor) =>
          b2[i] # 0 \/ \E v \in Workers : Pending(v, i)'
    BY <1>4, <2>1, <2>2, Zenon DEF NoneLeft
  <2>5. \A v \in Workers : wpc[v] \in {"walk", "ret"} /\ cdone[v] => Left(b2, idx[v] + 1)
    BY <2>1, <2>3, Zenon DEF NoneLeft
  <2>6. done => Left(b2, cursor)
    BY <2>1, <2>3, Zenon DEF NoneLeft
  <2> QED
    BY <1>2, <2>4, <2>5, <2>6, Zenon DEF NoneLeft, Left
<1> QED
  BY <1>7, <1>8, Zenon DEF Keeps

-----------------------------------------------------------------------------
(* The counts.                                                             *)

(* The sets the proofs count are finite: they are sets of object numbers.  *)
LEMMA TallyFinite ==
  ASSUME NEW by, NEW W, NEW c
  PROVE  /\ IsFiniteSet(Tally(by, W, c)) /\ Cardinality(Tally(by, W, c)) \in Nat
         /\ IsFiniteSet(Met(by, W)) /\ Cardinality(Met(by, W)) \in Nat
<1>1. IsFiniteSet(Ids)
  BY ScanAssumption, FS_Interval DEF ScanAssumption, Ids
<1>2. Tally(by, W, c) \in SUBSET Ids /\ Met(by, W) \in SUBSET Ids
  BY DEF Tally, Met
<1>3. IsFiniteSet(Tally(by, W, c)) /\ IsFiniteSet(Met(by, W))
  BY <1>1, <1>2, FS_Subset
<1> QED
  BY <1>3, FS_CardinalityType

(* A worker that walks keeps the main thread from merging.                 *)
LEMMA WalkBeforeMerge ==
  ASSUME ScanInv, NEW w \in Workers, wpc[w] \notin {"none", "dead"}
  PROVE  mpc \in {"start", "join"}
<1>1. /\ mpc \in MainStates /\ nthreads \in 0..Threads
      /\ \A v \in Workers : v > nthreads => wpc[v] = "none"
      /\ mpc = "merge" => \A v \in 1..nthreads : wpc[v] = "dead"
      /\ mpc = "exit" => \A v \in Workers : wpc[v] \in {"none", "dead"}
  BY DEF ScanInv, TypeOK, MainType, MainInv
<1>2. w \in Nat /\ w >= 1 /\ (w > nthreads \/ w \in 1..nthreads)
  BY <1>1, ScanAssumption DEF ScanAssumption, Workers
<1> QED
  BY <1>1, <1>2 DEF MainStates

(* A step that sees no object and bumps no exact counter keeps the shares. *)
LEMMA ShareKeeps ==
  ASSUME ScanInv, [Next]_vars, NEW by \in [Ids -> Workers], SharedOut(by),
         UNCHANGED visits,
         \A v \in Workers : \A c \in Exact : st'[v][c] = st[v][c],
         \A v \in Workers : wpc[v] # "none" => wpc'[v] # "none",
         mpc' \in {"start", "join"} => total' = ZeroCounters,
         mpc' = "merge" \/ (mpc' = "exit" /\ rc' = 0) =>
           \A c \in Exact : total'[c] = Cardinality(Tally(by, 1..made', c)),
         mpc' = "exit" /\ rc' = 0 => made' = nthreads'
  PROVE  CountInv'
<1>1. UNCHANGED visits /\ \A i : Bumps(i)' = Bumps(i)
  BY InputSame, Zenon
<1>2. \A i \in Ids : visits'[i] = 1 => wpc'[by[i]] # "none"
  BY DEF SharedOut
<1>3. \A w \in Workers : \A c \in Exact : st'[w][c] = Cardinality(Tally(by, {w}, c)')
  <2> SUFFICES ASSUME NEW w \in Workers, NEW c \in Exact
               PROVE  st'[w][c] = Cardinality(Tally(by, {w}, c)')
    BY Zenon
  <2>1. Tally(by, {w}, c)' = Tally(by, {w}, c)
    BY <1>1, Zenon DEF Tally
  <2>2. st[w][c] = Cardinality(Tally(by, {w}, c))
    BY Zenon DEF SharedOut
  <2>3. st'[w][c] = st[w][c]
    OBVIOUS
  <2> QED
    BY <2>1, <2>2, <2>3, Zenon
<1>4. mpc' = "merge" \/ (mpc' = "exit" /\ rc' = 0) =>
        \A c \in Exact : total'[c] = Cardinality(Tally(by, 1..made, c)')
  <2>1. \A c : Tally(by, 1..made, c)' = Tally(by, 1..made', c)
    BY <1>1, Zenon DEF Tally
  <2> QED
    BY <2>1, Zenon
<1>5. SharedOut(by)'
  BY <1>2, <1>3, <1>4, Zenon DEF SharedOut
<1> QED
  BY <1>5, Zenon DEF CountInv

(* What a worker counts: the object it sees goes to its share.             *)
LEMMA ObjectCounted ==
  ASSUME ScanInv, CountInv, [Next]_vars, NEW w \in Workers, WalkObject(w)
  PROVE  CountInv'
<1>1. PICK by \in [Ids -> Workers] : SharedOut(by)
  BY Zenon DEF CountInv
<1>2. PICK n \in Ids : /\ IsNext(n, pos[w]) /\ Countable(n) /\ n <= ChunkEnd(backend, idx[w])
                       /\ st' = [st EXCEPT ![w] = Bump(@, Bumps(n))]
                       /\ visits' = [visits EXCEPT ![n] = @ + 1]
  BY Zenon DEF WalkObject
<1>3. wpc[w] = "walk" /\ UNCHANGED <<mpc, made, nthreads, total, rc, wpc>>
  BY Zenon DEF WalkObject, mainVars
<1>4. mpc \in {"start", "join"}
  BY <1>3, WalkBeforeMerge
<1>5. /\ visits \in [Ids -> Nat] /\ st \in [Workers -> [Counters -> Nat]]
      /\ \A i \in Ids : visits[i] \in {0, 1} /\ visits'[i] \in {0, 1}
  BY ScanStep, Zenon DEF ScanInv, TypeOK, HistType, WorkerType, VisitInv
<1>6. visits[n] = 0 /\ visits'[n] = 1 /\ \A i \in Ids : i # n => visits'[i] = visits[i]
  BY <1>2, <1>5
<1> DEFINE b2 == [by EXCEPT ![n] = w]
<1>7. b2 \in [Ids -> Workers] /\ b2[n] = w /\ \A i \in Ids : i # n => b2[i] = by[i]
  OBVIOUS
<1> HIDE DEF b2
<1>8. \A i : Bumps(i)' = Bumps(i)
  BY InputSame, Zenon
<1>9. \A i \in Ids : visits'[i] = 1 => wpc'[b2[i]] # "none"
  <2> TAKE i \in Ids
  <2>1. CASE i = n
    BY <2>1, <1>3, <1>7
  <2>2. CASE i # n
    BY <2>2, <1>1, <1>3, <1>6, <1>7, Zenon DEF SharedOut
  <2> QED
    BY <2>1, <2>2
<1>10. \A v \in Workers : \A c \in Exact : st'[v][c] = Cardinality(Tally(b2, {v}, c)')
  <2> TAKE v \in Workers
  <2> TAKE c \in Exact
  <2>1. st[v][c] = Cardinality(Tally(by, {v}, c)) /\ c \in Counters
    BY <1>1, Zenon DEF SharedOut, Exact
  <2>2. CASE v = w /\ c \in Bumps(n)
    <3>1. st'[v][c] = st[v][c] + 1
      BY <2>1, <2>2, <1>2, <1>5, Zenon DEF Bump
    <3>2. Tally(b2, {v}, c)' = Tally(by, {v}, c) \cup {n} /\ n \notin Tally(by, {v}, c)
      BY <2>2, <1>6, <1>7, <1>8 DEF Tally
    <3>3. Cardinality(Tally(by, {v}, c) \cup {n}) = Cardinality(Tally(by, {v}, c)) + 1
      BY <3>2, TallyFinite, FS_AddElement, Zenon
    <3> QED
      BY <2>1, <3>1, <3>2, <3>3, Zenon
  <2>3. CASE ~(v = w /\ c \in Bumps(n))
    <3>1. st'[v][c] = st[v][c]
      <4>1. CASE v # w
        BY <4>1, <1>2, <1>5, Zenon
      <4>2. CASE v = w /\ c \notin Bumps(n)
        <5>1. st'[w] = Bump(st[w], Bumps(n)) /\ st[w][c] \in Nat
          BY <2>1, <1>2, <1>5, Zenon
        <5> QED
          BY <2>1, <4>2, <5>1 DEF Bump
      <4> QED
        BY <2>3, <4>1, <4>2, Zenon
    <3>2. Tally(b2, {v}, c)' = Tally(by, {v}, c)
      BY <2>3, <1>6, <1>7, <1>8 DEF Tally
    <3> QED
      BY <2>1, <3>1, <3>2, Zenon
  <2> QED
    BY <2>2, <2>3
<1>11. mpc' \in {"start", "join"} /\ total' = ZeroCounters
  BY <1>1, <1>3, <1>4, Zenon DEF SharedOut
<1>12. SharedOut(b2)'
  BY <1>9, <1>10, <1>11, Zenon DEF SharedOut
<1> QED
  BY <1>7, <1>12, Zenon DEF CountInv

(* The main thread adds up the shares of the workers it joined.            *)
LEMMA MergeCounted ==
  ASSUME ScanInv, CountInv, [Next]_vars, Main
  PROVE  CountInv'
<1>1. PICK by \in [Ids -> Workers] : SharedOut(by)
  BY Zenon DEF CountInv
<1>2. /\ UNCHANGED visits
      /\ \A v \in Workers : \A c \in Exact : st'[v][c] = st[v][c]
  BY MainSame, Zenon
<1>3. /\ made \in 0..nthreads /\ nthreads \in 0..Threads /\ wpc \in [Workers -> WorkerStates]
      /\ total \in [Counters -> Nat] /\ st \in [Workers -> [Counters -> Nat]]
      /\ Threads \in Nat /\ Workers = 1..Threads
  BY ScanAssumption DEF ScanAssumption, ScanInv, TypeOK, MainType, WorkerType, Workers
<1>4. \A v \in Workers : wpc[v] # "none" => wpc'[v] # "none"
  BY CreatedStays
<1>5. mpc' \in {"start", "join"} => total' = ZeroCounters
  <2>1. mpc' \in {"start", "join"} => mpc \in {"start", "join"} /\ UNCHANGED total
    BY Zenon DEF Main, NoMemory, Create, CreateFails, StartJoin, Join, StartMerge, Merge, Return
  <2> QED
    BY <1>1, <2>1, Zenon DEF SharedOut
<1>6. mpc' = "exit" /\ rc' = 0 => made' = nthreads'
  BY DEF Main, NoMemory, Create, CreateFails, StartJoin, Join, StartMerge, Merge, Return
<1>7. ASSUME mpc' = "merge" \/ (mpc' = "exit" /\ rc' = 0), NEW c \in Exact
      PROVE  total'[c] = Cardinality(Tally(by, 1..made', c))
  <2>0. c \in Counters
    BY <1>7 DEF Exact
  <2>1. StartMerge \/ Merge \/ Return
    BY <1>7 DEF Main, NoMemory, Create, CreateFails, StartJoin, Join, StartMerge, Merge, Return
  <2>2. CASE StartMerge
    <3>1. mpc = "join" /\ made' = 0 /\ UNCHANGED total
      BY <2>2 DEF StartMerge
    <3>2. total[c] = 0
      BY <1>1, <2>0, <3>1, Zenon DEF SharedOut, ZeroCounters
    <3>3. Tally(by, 1..0, c) = {}
      BY DEF Tally
    <3> QED
      BY <3>1, <3>2, <3>3, FS_EmptySet
  <2>3. CASE Merge
    <3>1. /\ mpc = "merge" /\ made < nthreads /\ made' = made + 1
          /\ total' = stats_merge(total, st[made + 1])
      BY <2>3 DEF Merge
    <3>2. made + 1 \in Workers /\ made \in Nat
      BY <1>3, <3>1
    <3>3. total'[c] = total[c] + st[made + 1][c]
      BY <2>0, <3>1 DEF stats_merge
    <3>4. /\ total[c] = Cardinality(Tally(by, 1..made, c))
          /\ st[made + 1][c] = Cardinality(Tally(by, {made + 1}, c))
      BY <1>1, <1>7, <3>1, <3>2, Zenon DEF SharedOut
    <3>5. 1..(made + 1) = (1..made) \cup {made + 1} /\ made + 1 \notin 1..made
      BY <3>2
    <3>6. /\ Tally(by, 1..(made + 1), c) = Tally(by, 1..made, c) \cup Tally(by, {made + 1}, c)
          /\ Tally(by, 1..made, c) \cap Tally(by, {made + 1}, c) = {}
      <4> DEFINE P == 1..made  Q == {made + 1}
      <4>1. 1..(made + 1) = P \cup Q /\ P \cap Q = {}
        BY <3>5
      <4> HIDE DEF P, Q
      <4>2. /\ Tally(by, P \cup Q, c) = Tally(by, P, c) \cup Tally(by, Q, c)
            /\ Tally(by, P, c) \cap Tally(by, Q, c) = {}
        BY <4>1 DEF Tally
      <4> QED
        BY <4>1, <4>2, Zenon DEF P, Q
    <3>7. Cardinality(Tally(by, 1..(made + 1), c)) =
            Cardinality(Tally(by, 1..made, c)) + Cardinality(Tally(by, {made + 1}, c))
      <4> DEFINE P == Tally(by, 1..made, c)  Q == Tally(by, {made + 1}, c)
      <4>1. IsFiniteSet(P) /\ IsFiniteSet(Q) /\ Cardinality(P) \in Nat /\ Cardinality(Q) \in Nat
        BY TallyFinite
      <4>2. Cardinality(P \cup Q) = Cardinality(P) + Cardinality(Q) - Cardinality(P \cap Q)
        BY <4>1, FS_Union, Zenon
      <4>3. Cardinality(P \cap Q) = 0
        BY <3>6, FS_EmptySet, Zenon
      <4>4. Cardinality(P \cup Q) = Cardinality(P) + Cardinality(Q)
        <5> HIDE DEF P, Q
        <5> QED
          BY <4>1, <4>2, <4>3
      <4> QED
        BY <3>6, <4>4, Zenon
    <3> QED
      BY <3>1, <3>3, <3>4, <3>7, Zenon
  <2>4. CASE Return
    <3>1. mpc = "merge" /\ UNCHANGED <<total, made>>
      BY <2>4 DEF Return
    <3> QED
      BY <1>1, <1>7, <3>1, Zenon DEF SharedOut
  <2> QED
    BY <2>1, <2>2, <2>3, <2>4
<1> QED
  BY <1>1, <1>2, <1>4, <1>5, <1>6, <1>7, ShareKeeps, Zenon

(* Who counted what stays known.                                           *)
LEMMA CountStep == ASSUME ScanInv, CountInv, [Next]_vars PROVE CountInv'
<1>1. ASSUME NEW w \in Workers, Quiet(w) \/ WalkBadBlock(w), Worker(w) PROVE CountInv'
  <2>1. PICK by \in [Ids -> Workers] : SharedOut(by)
    BY Zenon DEF CountInv
  <2>2. PICK x \in WorkerStates \ {"none"} : wpc' = [wpc EXCEPT ![w] = x]
    BY <1>1, WorkerMoves
  <2>3. UNCHANGED <<mpc, nthreads, made, total, rc>> /\ wpc[w] \notin {"none", "dead"}
    BY <1>1, WorkerMoves
  <2>4. wpc \in [Workers -> WorkerStates] /\ st \in [Workers -> [Counters -> Nat]]
    BY DEF ScanInv, TypeOK, WorkerType
  <2>5. \A v \in Workers : wpc[v] # "none" => wpc'[v] # "none"
    BY <2>2, <2>4
  <2>6. UNCHANGED visits /\ \A v \in Workers : \A c \in Exact : st'[v][c] = st[v][c]
    <3>1. CASE Quiet(w)
      BY <3>1, QuietSame, Zenon
    <3>2. CASE WalkBadBlock(w)
      <4>1. st' = [st EXCEPT ![w] = Bump(@, {"csum_bad"})] /\ UNCHANGED visits
        BY <3>2, Zenon DEF WalkBadBlock, hist
      <4>2. \A c \in Exact : c \in Counters /\ c # "csum_bad"
        BY DEF Exact
      <4> QED
        BY <2>4, <4>1, <4>2 DEF Bump
    <3> QED
      BY <1>1, <3>1, <3>2, Zenon
  <2>7. mpc = "start" \/ mpc = "join"
    BY <2>3, WalkBeforeMerge
  <2>8. mpc' \in {"start", "join"} /\ total' = ZeroCounters
    BY <2>1, <2>3, <2>7, Zenon DEF SharedOut
  <2>9. ~(mpc' = "merge" \/ mpc' = "exit")
    BY <2>8
  <2> QED
    BY <2>1, <2>5, <2>6, <2>8, <2>9, ShareKeeps, Zenon
<1>2. ASSUME NEW w \in Workers, Worker(w) PROVE CountInv'
  BY <1>1, <1>2, ObjectCounted, Zenon DEF Worker, Quiet
<1>3. CASE UNCHANGED vars
  <2>1. UNCHANGED <<visits, st, wpc, mpc, total, rc, made, nthreads>>
    BY <1>3 DEF vars, hist, mainVars
  <2>2. PICK by \in [Ids -> Workers] : SharedOut(by)
    BY Zenon DEF CountInv
  <2>3. /\ mpc' \in {"start", "join"} => total' = ZeroCounters
        /\ mpc' = "merge" \/ (mpc' = "exit" /\ rc' = 0) =>
             \A c \in Exact : total'[c] = Cardinality(Tally(by, 1..made', c))
        /\ mpc' = "exit" /\ rc' = 0 => made' = nthreads'
    BY <2>1, <2>2, Zenon DEF SharedOut
  <2> QED
    BY <2>1, <2>2, <2>3, ShareKeeps, Zenon
<1> QED
  BY <1>2, <1>3, MergeCounted, Zenon DEF Next, Finished

(* The counter of bad inodes only grows.                                   *)
LEMMA CsumGrows ==
  ASSUME ScanInv, [Next]_vars
  PROVE  /\ \A v \in Workers : st'[v]["csum_bad"] >= st[v]["csum_bad"]
         /\ \A v \in Workers : st[v]["csum_bad"] \in Nat /\ st'[v]["csum_bad"] \in Nat
         /\ total["csum_bad"] \in Nat
<1>1. "csum_bad" \in Counters
  BY DEF Counters
<1>2. /\ st \in [Workers -> [Counters -> Nat]] /\ st' \in [Workers -> [Counters -> Nat]]
      /\ total \in [Counters -> Nat]
  BY ScanStep, Zenon DEF ScanInv, TypeOK, WorkerType, MainType
<1>3. \A v \in Workers : st[v]["csum_bad"] \in Nat /\ st'[v]["csum_bad"] \in Nat
  BY <1>1, <1>2
<1>4. ASSUME UNCHANGED st PROVE \A v \in Workers : st'[v]["csum_bad"] >= st[v]["csum_bad"]
  BY <1>3, <1>4
<1>5. ASSUME NEW w \in Workers, NEW B, st' = [st EXCEPT ![w] = Bump(st[w], B)]
      PROVE  \A v \in Workers : st'[v]["csum_bad"] >= st[v]["csum_bad"]
  BY <1>1, <1>2, <1>3, <1>5 DEF Bump
<1>6. ASSUME NEW w \in Workers, Worker(w)
      PROVE  \A v \in Workers : st'[v]["csum_bad"] >= st[v]["csum_bad"]
  <2>1. CASE Quiet(w)
    BY <1>4, <2>1, QuietSame, Zenon
  <2>2. CASE WalkBadBlock(w)
    BY <1>5, <2>2, Zenon DEF WalkBadBlock
  <2>3. CASE WalkObject(w)
    BY <1>5, <2>3, Zenon DEF WalkObject
  <2> QED
    BY <1>6, <2>1, <2>2, <2>3, Zenon DEF Worker, Quiet
<1>7. ASSUME Main PROVE \A v \in Workers : st'[v]["csum_bad"] >= st[v]["csum_bad"]
  <2>1. UNCHANGED st
    BY <1>7, MainSame
  <2> QED
    BY <1>4, <2>1
<1>8. ASSUME UNCHANGED vars PROVE \A v \in Workers : st'[v]["csum_bad"] >= st[v]["csum_bad"]
  <2>1. UNCHANGED st
    BY <1>8 DEF vars
  <2> QED
    BY <1>4, <2>1
<1>9. \A v \in Workers : st'[v]["csum_bad"] >= st[v]["csum_bad"]
  BY <1>6, <1>7, <1>8, Zenon DEF Next, Finished
<1> QED
  BY <1>1, <1>2, <1>3, <1>9

(* A step that meets no bad inode for the first time.                      *)
LEMMA MetKeeps ==
  ASSUME ScanInv, [Next]_vars, NEW by \in [Ids -> 0..Threads], MetBy(by), Keeps(by),
         mpc' = "merge" \/ (mpc' = "exit" /\ rc' = 0) =>
           total'["csum_bad"] >= Cardinality(Met(by, 1..made'))
  PROVE  BadInv'
<1>1. \A i : Bad(i)' = Bad(i)
  BY InputSame, Zenon
<1>2. Workers = 1..Threads /\ Threads \in Nat
  BY ScanAssumption DEF ScanAssumption, Workers
<1>3. \A i \in Ids : by[i] # 0 => wpc'[by[i]] # "none"
  <2> TAKE i \in Ids
  <2>1. by[i] # 0 => by[i] \in Workers
    BY <1>2
  <2> QED
    BY <2>1, CreatedStays, Zenon DEF MetBy
<1>4. \A w \in Workers : st'[w]["csum_bad"] >= Cardinality(Met(by, {w})')
  <2> TAKE w \in Workers
  <2>1. Met(by, {w})' = Met(by, {w})
    BY <1>1 DEF Met
  <2>2. st[w]["csum_bad"] >= Cardinality(Met(by, {w})) /\ Cardinality(Met(by, {w})) \in Nat
    BY TallyFinite, Zenon DEF MetBy
  <2>3. /\ st'[w]["csum_bad"] >= st[w]["csum_bad"]
        /\ st[w]["csum_bad"] \in Nat /\ st'[w]["csum_bad"] \in Nat
    BY CsumGrows, Zenon
  <2> QED
    BY <2>1, <2>2, <2>3
<1>5. mpc' = "merge" \/ (mpc' = "exit" /\ rc' = 0) =>
        total'["csum_bad"] >= Cardinality(Met(by, 1..made)')
  <2>1. Met(by, 1..made)' = Met(by, 1..made')
    BY <1>1 DEF Met
  <2> QED
    BY <2>1, Zenon
<1>6. MetBy(by)'
  BY <1>3, <1>4, <1>5, Zenon DEF MetBy, Keeps
<1> QED
  BY <1>6, Zenon DEF BadInv

(* The main thread adds up the bad inodes.                                 *)
LEMMA MergeMet ==
  ASSUME ScanInv, BadInv, [Next]_vars, Main
  PROVE  BadInv'
<1>1. PICK by \in [Ids -> 0..Threads] : MetBy(by)
  BY Zenon DEF BadInv
<1>2. Keeps(by)
  BY <1>1, MainKeeps
<1>3. /\ made \in 0..nthreads /\ nthreads \in 0..Threads /\ Threads \in Nat /\ Workers = 1..Threads
      /\ total["csum_bad"] \in Nat /\ "csum_bad" \in Counters
  BY ScanAssumption, CsumGrows, Zenon
  DEF ScanAssumption, ScanInv, TypeOK, MainType, Workers, Counters
<1>4. ASSUME mpc' = "merge" \/ (mpc' = "exit" /\ rc' = 0)
      PROVE  total'["csum_bad"] >= Cardinality(Met(by, 1..made'))
  <2>1. StartMerge \/ Merge \/ Return
    BY <1>4 DEF Main, NoMemory, Create, CreateFails, StartJoin, Join, StartMerge, Merge, Return
  <2>2. CASE StartMerge
    <3>1. made' = 0 /\ UNCHANGED total
      BY <2>2 DEF StartMerge
    <3>2. Met(by, 1..0) = {}
      BY DEF Met
    <3>3. Cardinality(Met(by, 1..0)) = 0
      BY <3>2, FS_EmptySet
    <3>4. total["csum_bad"] >= 0
      BY <1>3
    <3> QED
      BY <3>1, <3>3, <3>4
  <2>3. CASE Merge
    <3>1. /\ mpc = "merge" /\ made < nthreads /\ made' = made + 1
          /\ total' = stats_merge(total, st[made + 1])
      BY <2>3 DEF Merge
    <3>2. made + 1 \in Workers /\ made \in Nat
      BY <1>3, <3>1
    <3>3. total'["csum_bad"] = total["csum_bad"] + st[made + 1]["csum_bad"]
      BY <1>3, <3>1 DEF stats_merge
    <3> DEFINE P == 1..made  Q == {made + 1}
    <3>4. 1..made' = P \cup Q /\ P \cap Q = {}
      BY <3>1, <3>2
    <3>5. /\ total["csum_bad"] >= Cardinality(Met(by, P))
          /\ st[made + 1]["csum_bad"] >= Cardinality(Met(by, Q))
      BY <1>1, <3>1, <3>2, Zenon DEF MetBy
    <3> HIDE DEF P, Q
    <3>6. Met(by, P \cup Q) = Met(by, P) \cup Met(by, Q) /\ Met(by, P) \cap Met(by, Q) = {}
      BY <3>4 DEF Met
    <3> DEFINE A == Met(by, P)  B == Met(by, Q)
    <3>7. IsFiniteSet(A) /\ IsFiniteSet(B) /\ Cardinality(A) \in Nat /\ Cardinality(B) \in Nat
      BY TallyFinite
    <3>8. A \cap B = {} /\ Met(by, 1..made') = A \cup B
      BY <3>4, <3>6, Zenon
    <3>9. /\ total["csum_bad"] >= Cardinality(A) /\ st[made + 1]["csum_bad"] >= Cardinality(B)
          /\ st[made + 1]["csum_bad"] \in Nat
      BY <3>2, <3>5, CsumGrows, Zenon
    <3> HIDE DEF A, B
    <3>10. Cardinality(A \cup B) = Cardinality(A) + Cardinality(B) - Cardinality(A \cap B)
      BY <3>7, FS_Union
    <3>11. Cardinality(A \cap B) = 0
      BY <3>8, FS_EmptySet, Zenon
    <3>12. \A t, s, a, b, c \in Nat : t >= a /\ s >= b /\ c = 0 => t + s >= a + b - c
      OBVIOUS
    <3>13. total["csum_bad"] + st[made + 1]["csum_bad"] >= Cardinality(A \cup B)
      BY <1>3, <3>7, <3>9, <3>10, <3>11, <3>12
    <3> QED
      BY <3>3, <3>8, <3>13, Zenon
  <2>4. CASE Return
    <3>1. mpc = "merge" /\ UNCHANGED <<total, made>>
      BY <2>4 DEF Return
    <3>2. total["csum_bad"] >= Cardinality(Met(by, 1..made))
      BY <1>1, <3>1, Zenon DEF MetBy
    <3> QED
      BY <3>1, <3>2
  <2> QED
    BY <2>1, <2>2, <2>3, <2>4
<1> QED
  BY <1>1, <1>2, <1>4, MetKeeps

(* A bad inode met for the first time is counted by who met it.            *)
LEMMA BadBlockMet ==
  ASSUME ScanInv, [Next]_vars, NEW w \in Workers, WalkBadBlock(w),
         NEW by \in [Ids -> 0..Threads], MetBy(by)
  PROVE  BadInv'
<1>1. PICK n \in Ids : IsNext(n, pos[w]) /\ ~Countable(n) /\ pos' = [pos EXCEPT ![w] = n]
  BY Zenon DEF WalkBadBlock
<1>2. /\ wpc[w] = "walk" /\ st' = [st EXCEPT ![w] = Bump(st[w], {"csum_bad"})]
      /\ UNCHANGED <<wpc, idx, cdone, cursor, done, mpc, rc, total, made>>
  BY Zenon DEF WalkBadBlock, mainVars, workVars
<1>3. mpc \in {"start", "join"}
  BY <1>2, WalkBeforeMerge
<1>4. Bad(n)
  BY <1>1, Zenon DEF IsNext, Present, Countable, Bad
<1>5. /\ Workers = 1..Threads /\ Threads \in Nat /\ w \in 0..Threads /\ w # 0
      /\ st \in [Workers -> [Counters -> Nat]] /\ "csum_bad" \in Counters
  <2>1. Workers = 1..Threads /\ Threads \in Nat
    BY ScanAssumption DEF ScanAssumption, Workers
  <2>2. w \in 0..Threads /\ w # 0
    BY <2>1
  <2>3. st \in [Workers -> [Counters -> Nat]]
    BY Zenon DEF ScanInv, TypeOK, WorkerType
  <2>4. "csum_bad" \in Counters
    BY DEF Counters
  <2> QED
    BY <2>1, <2>2, <2>3, <2>4
<1>6. CASE by[n] # 0
  <2>1. Keeps(by)
    BY <1>1, <1>2, <1>6, AdvanceKeeps, Zenon
  <2> QED
    BY <1>2, <1>3, <2>1, MetKeeps, Zenon
<1>7. CASE by[n] = 0
  <2> DEFINE b2 == [by EXCEPT ![n] = w]
  <2>1. b2 \in [Ids -> 0..Threads] /\ b2[n] = w /\ \A i \in Ids : i # n => b2[i] = by[i]
    BY <1>5
  <2> HIDE DEF b2
  <2>2. Keeps(b2)
    BY <1>1, <1>2, <1>5, <1>7, <2>1, AdvanceKeeps, Zenon
  <2>3. \A i : Bad(i)' = Bad(i)
    BY InputSame, Zenon
  <2>4. \A i \in Ids : b2[i] # 0 => wpc'[b2[i]] # "none"
    <3> TAKE i \in Ids
    <3>1. CASE i = n
      BY <1>2, <2>1, <3>1
    <3>2. CASE i # n
      BY <1>2, <2>1, <3>2 DEF MetBy
    <3> QED
      BY <3>1, <3>2
  <2>5. \A v \in Workers : st'[v]["csum_bad"] >= Cardinality(Met(b2, {v})')
    <3> TAKE v \in Workers
    <3>1. st[v]["csum_bad"] >= Cardinality(Met(by, {v})) /\ Cardinality(Met(by, {v})) \in Nat
      BY TallyFinite, Zenon DEF MetBy
    <3>2. st[v]["csum_bad"] \in Nat
      BY <1>5
    <3>3. CASE v = w
      <4>1. st'[v]["csum_bad"] = st[v]["csum_bad"] + 1
        BY <1>2, <1>5, <3>3 DEF Bump
      <4>2. Met(b2, {v})' = Met(by, {v}) \cup {n} /\ n \notin Met(by, {v})
        BY <1>4, <1>5, <1>7, <2>1, <2>3, <3>3 DEF Met
      <4>3. Cardinality(Met(by, {v}) \cup {n}) = Cardinality(Met(by, {v})) + 1
        BY <4>2, TallyFinite, FS_AddElement, Zenon
      <4>4. \A s, a \in Nat : s >= a => s + 1 >= a + 1
        OBVIOUS
      <4>5. st[v]["csum_bad"] + 1 >= Cardinality(Met(by, {v})) + 1
        BY <3>1, <3>2, <4>4, Zenon
      <4> QED
        BY <4>1, <4>2, <4>3, <4>5, Zenon
    <3>4. CASE v # w
      <4>1. st'[v] = st[v]
        BY <1>2, <1>5, <3>4
      <4>2. Met(b2, {v})' = Met(by, {v})
        BY <1>5, <1>7, <2>1, <2>3, <3>4 DEF Met
      <4> QED
        BY <3>1, <4>1, <4>2, Zenon
    <3> QED
      BY <3>3, <3>4, Zenon
  <2>6. ~(mpc' = "merge" \/ (mpc' = "exit" /\ rc' = 0))
    BY <1>2, <1>3
  <2>7. MetBy(b2)'
    BY <2>2, <2>4, <2>5, <2>6, Zenon DEF MetBy, Keeps
  <2> QED
    BY <2>1, <2>7, Zenon DEF BadInv
<1> QED
  BY <1>6, <1>7

(* Every bad inode met stays counted, and while nothing goes wrong none is *)
(* left out.                                                               *)
LEMMA BadStep == ASSUME ScanInv, BadInv, [Next]_vars PROVE BadInv'
<1>1. PICK by \in [Ids -> 0..Threads] : MetBy(by)
  BY Zenon DEF BadInv
<1>2. ASSUME NEW w \in Workers, Worker(w), Keeps(by) PROVE BadInv'
  <2>1. UNCHANGED mpc /\ wpc[w] \notin {"none", "dead"}
    BY <1>2, WorkerMoves
  <2>2. mpc' \in {"start", "join"}
    BY <2>1, WalkBeforeMerge
  <2>3. ~(mpc' = "merge" \/ (mpc' = "exit" /\ rc' = 0))
    BY <2>2
  <2> QED
    BY <1>1, <1>2, <2>3, MetKeeps, Zenon
<1>3. ASSUME NEW w \in Workers, Worker(w) PROVE BadInv'
  <2>1. CASE \/ WorkerInit(w) \/ WorkerInitFails(w) \/ NoMoreChunks(w) \/ WalkFails(w)
             \/ NextObjectLost(w) \/ WalkStopped(w)
    BY <1>1, <1>2, <1>3, <2>1, IdleKeeps, Zenon
  <2>2. CASE NextChunk(w)
    BY <1>1, <1>2, <1>3, <2>2, TakeKeeps, Zenon
  <2>3. CASE EnterChunk(w)
    BY <1>1, <1>2, <1>3, <2>3, EnterKeeps, Zenon
  <2>4. CASE ChunkDone(w)
    BY <1>1, <1>2, <1>3, <2>4, DoneKeeps, Zenon
  <2>5. CASE WalkEnds(w)
    BY <1>1, <1>2, <1>3, <2>5, EndsKeeps, Zenon
  <2>6. CASE WalkPastEnd(w)
    BY <1>1, <1>2, <1>3, <2>6, PastKeeps, Zenon
  <2>7. CASE WalkBadBlock(w)
    BY <1>1, <2>7, BadBlockMet, Zenon
  <2>8. CASE WalkObject(w)
    <3>1. PICK n \in Ids : IsNext(n, pos[w]) /\ Countable(n) /\ pos' = [pos EXCEPT ![w] = n]
      BY <2>8, Zenon DEF WalkObject
    <3>2. wpc[w] = "walk" /\ UNCHANGED <<wpc, idx, cdone, cursor, done>>
      BY <2>8, Zenon DEF WalkObject, workVars
    <3>3. ~Bad(n)
      BY <3>1, Zenon DEF Bad, Countable
    <3>4. Keeps(by)
      BY <1>1, <3>1, <3>2, <3>3, AdvanceKeeps, Zenon
    <3> QED
      BY <1>2, <1>3, <3>4
  <2> QED
    BY <1>3, <2>1, <2>2, <2>3, <2>4, <2>5, <2>6, <2>7, <2>8, Zenon DEF Worker
<1>4. CASE UNCHANGED vars
  <2>1. /\ UNCHANGED <<idx, pos, cdone, cursor, done, wpc, mpc, rc, total, made, failed, lost,
                       stop, backend>>
        /\ \A i : Bad(i)' = Bad(i)
    BY <1>4, InputSame, Zenon DEF vars, chunkVars, workVars, mainVars, hist
  <2>2. Keeps(by)
    BY <1>1, <2>1, Zenon DEF Keeps, MetBy, Walked, NoneLeft, Left, Pending, Limited
  <2>3. mpc' = "merge" \/ (mpc' = "exit" /\ rc' = 0) =>
          total'["csum_bad"] >= Cardinality(Met(by, 1..made'))
    BY <1>1, <2>1, Zenon DEF MetBy
  <2> QED
    BY <1>1, <2>2, <2>3, MetKeeps, Zenon
<1> QED
  BY <1>3, <1>4, MergeMet, Zenon DEF Next, Finished

(* Nothing is counted when lfu_scan() starts.                              *)
LEMMA StatsStart == Init => StatsInv
<1> SUFFICES ASSUME Init PROVE StatsInv
  OBVIOUS
<1>1. ScanInv
  BY ScanStart
<1>2. /\ mpc = "start" /\ total = ZeroCounters /\ made = 0
      /\ \A w \in Workers : wpc[w] = "none" /\ st[w] = ZeroCounters /\ ~stop[w] /\ ~cdone[w]
      /\ \A i \in Ids : visits[i] = 0
      /\ cursor = 0 /\ ~done /\ limit \in Limits /\ (limit # 0 => nthreads = 1)
  BY DEF Init
<1>3. Threads \in Nat /\ Threads >= 1 /\ 1 \in Workers /\ Workers = 1..Threads /\ limit \in Nat
  BY <1>2, ScanAssumption DEF ScanAssumption, Workers
<1>4. \A c \in Counters : ZeroCounters[c] = 0
  BY DEF ZeroCounters
<1>5. StatsBalance
  BY BalanceStart
<1>6. CountInv
  <2> DEFINE by == [i \in Ids |-> 1]
  <2>1. by \in [Ids -> Workers]
    BY <1>3
  <2>2. \A W, c : Tally(by, W, c) = {}
    BY <1>2 DEF Tally
  <2> HIDE DEF by
  <2>3. \A w \in Workers : \A c \in Exact : st[w][c] = Cardinality(Tally(by, {w}, c))
    <3> TAKE w \in Workers
    <3> TAKE c \in Exact
    <3>1. st[w][c] = 0
      BY <1>2, <1>4 DEF Exact
    <3> QED
      BY <2>2, <3>1, FS_EmptySet
  <2>4. \A i \in Ids : ~(visits[i] = 1)
    BY <1>2
  <2>5. ~(mpc = "merge" \/ mpc = "exit")
    BY <1>2
  <2>6. SharedOut(by)
    BY <1>2, <2>3, <2>4, <2>5, Zenon DEF SharedOut
  <2> QED
    BY <2>1, <2>6, Zenon DEF CountInv
<1>7. LimitInv
  <2>1. "emitted" \in Counters
    BY DEF Counters
  <2>2. st[1]["emitted"] = 0 /\ ~stop[1]
    BY <1>2, <1>3, <1>4, <2>1, Zenon
  <2> QED
    BY <1>2, <1>3, <2>2 DEF LimitInv
<1>8. BadInv
  <2> DEFINE by == [i \in Ids |-> 0]
  <2>1. by \in [Ids -> 0..Threads] /\ \A i \in Ids : by[i] = 0
    BY <1>3
  <2> HIDE DEF by
  <2>2. \A w \in Workers : st[w]["csum_bad"] >= Cardinality(Met(by, {w}))
    <3> TAKE w \in Workers
    <3>1. st[w]["csum_bad"] = 0
      BY <1>2, <1>4 DEF Counters
    <3>2. w # 0
      BY <1>3
    <3>3. Met(by, {w}) = {}
      BY <2>1, <3>2 DEF Met
    <3> QED
      BY <3>1, <3>3, FS_EmptySet
  <2>3. Walked(by)
    BY <1>2 DEF Walked
  <2>4. NoneLeft(by)
    <3>1. \A i \in Ids : ~(i <= ChunkStart(backend, 0))
      BY ScanAssumption DEF ScanAssumption, ChunkStart, Ids
    <3> QED
      BY <1>2, <3>1, Zenon DEF NoneLeft
  <2>5. ~(mpc = "merge" \/ mpc = "exit")
    BY <1>2
  <2>6. MetBy(by)
    BY <2>1, <2>2, <2>3, <2>4, <2>5, Zenon DEF MetBy
  <2> QED
    BY <2>1, <2>6, Zenon DEF BadInv
<1> QED
  BY <1>1, <1>5, <1>6, <1>7, <1>8 DEF StatsInv

(* Every reachable state of lfu_scan() accounts for its counters: who      *)
(* counted what, that --limit stops the one worker in time, that no bad    *)
(* inode is left out, and that the counters balance.                       *)
THEOREM StatsInvariant == Spec => []StatsInv
<1>1. ASSUME StatsInv, [Next]_vars PROVE StatsInv'
  <2>1. ScanInv /\ CountInv /\ LimitInv /\ BadInv /\ StatsBalance
    BY <1>1 DEF StatsInv
  <2>2. ScanInv'
    BY <1>1, <2>1, ScanStep
  <2>3. CountInv' /\ LimitInv'
    BY <1>1, <2>1, CountStep, LimitStep
  <2>4. BadInv' /\ StatsBalance'
    BY <1>1, <2>1, BadStep, BalanceStep
  <2> QED
    BY <2>2, <2>3, <2>4 DEF StatsInv
<1> QED
  BY <1>1, StatsStart, PTL DEF Spec

(* Who counted an object is a worker that was started.                     *)
LEMMA CountedByStarted ==
  ASSUME ScanInv, NEW v \in Workers, wpc[v] # "none"
  PROVE  v \in 1..nthreads
<1>1. v \in Nat /\ v >= 1 /\ nthreads \in Nat
  BY ScanAssumption DEF ScanAssumption, Workers, ScanInv, TypeOK, MainType
<1>2. ~(v > nthreads)
  BY DEF ScanInv, MainInv
<1> QED
  BY <1>1, <1>2

(* The counters lfu_scan() reports are those of the target, whichever      *)
(* workers counted the objects: lfu_stats_merge() loses and doubles none,  *)
(* and csum_bad counts each bad inode at least once.                       *)
THEOREM ScanStatsExact == Spec => []StatsExact
<1>1. StatsInv => StatsExact
  <2> SUFFICES ASSUME StatsInv, mpc = "exit", rc = 0, nthreads > 0, ~lost, ~Limited
               PROVE  /\ \A c \in Exact :
                           total[c] = Cardinality({i \in Ids : Countable(i) /\ c \in Bumps(i)})
                      /\ total["csum_bad"] >= Cardinality({i \in Ids : Bad(i)})
    BY Zenon DEF StatsExact, Exact, Bad
  <2>0. ScanInv /\ CountInv /\ BadInv
    BY DEF StatsInv
  <2>1. \A i \in Ids : visits[i] = 1 <=> Countable(i)
    <3>1. \A i \in Ids : visits[i] = (IF Countable(i) THEN 1 ELSE 0)
      BY <2>0, CompleteAtExit DEF CompleteOnZero
    <3> QED
      BY <3>1
  <2>2. ASSUME NEW c \in Exact
        PROVE  total[c] = Cardinality({i \in Ids : Countable(i) /\ c \in Bumps(i)})
    <3>1. PICK by \in [Ids -> Workers] : SharedOut(by)
      BY <2>0, Zenon DEF CountInv
    <3>2. made = nthreads /\ total[c] = Cardinality(Tally(by, 1..made, c))
      BY <2>2, <3>1, Zenon DEF SharedOut
    <3>3. \A i \in Ids : visits[i] = 1 => by[i] \in 1..made
      BY <2>0, <3>1, <3>2, CountedByStarted, Zenon DEF SharedOut
    <3>4. Tally(by, 1..made, c) = {i \in Ids : Countable(i) /\ c \in Bumps(i)}
      BY <2>1, <3>3, Zenon DEF Tally
    <3> QED
      BY <3>2, <3>4
  <2>3. total["csum_bad"] >= Cardinality({i \in Ids : Bad(i)})
    <3>1. PICK by \in [Ids -> 0..Threads] : MetBy(by)
      BY <2>0, Zenon DEF BadInv
    <3>2. made = nthreads /\ total["csum_bad"] >= Cardinality(Met(by, 1..made))
      BY <2>0, <3>1, Zenon DEF CountInv, SharedOut, MetBy
    <3>3. ~failed /\ \A w \in 1..nthreads : wpc[w] = "dead"
      BY <2>0 DEF ScanInv, MainInv
    <3>4. 1 \in 1..nthreads /\ 1 \in Workers /\ Workers = 1..Threads /\ Threads \in Nat
      BY <2>0, ScanAssumption DEF ScanAssumption, ScanInv, TypeOK, MainType, Workers
    <3>5. done /\ \A w \in Workers : wpc[w] \in {"none", "dead"}
      BY <2>0, <3>3, <3>4, Zenon DEF ScanInv, CoverInv, Covered, MainInv
    <3>6. \A i \in Ids : Bad(i) => by[i] # 0
      <4>1. NoneLeft(by)
        BY <3>1, <3>3, Zenon DEF MetBy
      <4> QED
        BY <3>5, <4>1, Zenon DEF NoneLeft, Left, Pending
    <3>7. \A i \in Ids : Bad(i) => by[i] \in 1..made
      <4> TAKE i \in Ids
      <4>1. by[i] # 0 => by[i] \in Workers /\ wpc[by[i]] # "none"
        BY <3>1, <3>4 DEF MetBy
      <4> QED
        BY <2>0, <3>2, <3>6, <4>1, CountedByStarted
    <3>8. Met(by, 1..made) = {i \in Ids : Bad(i)}
      BY <3>7, Zenon DEF Met
    <3> QED
      BY <3>2, <3>8, Zenon
  <2> QED
    BY <2>2, <2>3
<1> QED
  BY <1>1, StatsInvariant, PTL

(* --limit N emits no more than N matches and, when lfu_scan() returns 0,  *)
(* N of them or all there are.                                             *)
THEOREM ScanLimitExact == Spec => []LimitExact
<1>1. StatsInv => LimitExact
  <2> DEFINE matches == {i \in Ids : Countable(i) /\ "emitted" \in Bumps(i)}
             seen == {i \in Ids : visits[i] > 0}
  <2> SUFFICES ASSUME StatsInv, limit # 0
               PROVE  /\ Cardinality(matches \cap seen) <= limit
                      /\ (mpc = "exit" /\ rc = 0 /\ ~lost) =>
                           total["emitted"] = IF Cardinality(matches) < limit
                                              THEN Cardinality(matches) ELSE limit
    BY Zenon DEF LimitExact
  <2>0. ScanInv /\ CountInv /\ LimitInv
    BY DEF StatsInv
  <2>1. PICK by \in [Ids -> Workers] : SharedOut(by)
    BY <2>0, Zenon DEF CountInv
  <2>2. /\ nthreads = 1 /\ st[1]["emitted"] <= limit /\ (stop[1] <=> st[1]["emitted"] = limit)
        /\ \A w \in Workers : stop[w] => wpc[w] # "none"
    BY <2>0 DEF LimitInv
  <2>3. 1 \in Workers /\ "emitted" \in Exact /\ limit \in Nat
    BY <2>0, ScanAssumption
    DEF ScanAssumption, Workers, Exact, Counters, ScanInv, TypeOK, InputType
  <2> DEFINE mine == Tally(by, {1}, "emitted")
  <2>4. \A i \in Ids : visits[i] \in {0, 1} /\ (visits[i] = 1 => Countable(i) /\ by[i] = 1)
    <3> TAKE i \in Ids
    <3>1. visits[i] = 1 => by[i] \in 1..1
      BY <2>0, <2>1, <2>2, CountedByStarted, Zenon DEF SharedOut
    <3>2. visits[i] \in {0, 1} /\ (visits[i] = 1 => Countable(i))
      BY <2>0, Zenon DEF ScanInv, VisitInv
    <3> QED
      BY <3>1, <3>2
  <2>5. matches \cap seen = mine /\ mine \subseteq matches
    <3>1. \A i \in Ids : visits[i] > 0 <=> visits[i] = 1
      BY <2>4
    <3> QED
      BY <2>4, <3>1, Zenon DEF Tally
  <2>6. /\ st[1]["emitted"] = Cardinality(mine) /\ Cardinality(mine) \in Nat
        /\ IsFiniteSet(matches) /\ Cardinality(matches) \in Nat
        /\ Cardinality(mine) <= Cardinality(matches)
    <3>1. st[1]["emitted"] = Cardinality(mine) /\ Cardinality(mine) \in Nat
      BY <2>1, <2>3, TallyFinite, Zenon DEF SharedOut
    <3>2. IsFiniteSet(Ids) /\ matches \in SUBSET Ids
      BY ScanAssumption, FS_Interval DEF ScanAssumption, Ids
    <3>3. IsFiniteSet(matches)
      BY <3>2, FS_Subset
    <3> HIDE DEF matches, mine
    <3> QED
      BY <2>5, <3>1, <3>3, FS_CardinalityType, FS_Subset, Zenon
  <2>7. Cardinality(matches \cap seen) <= limit
    BY <2>2, <2>5, <2>6, Zenon
  <2>8. ASSUME mpc = "exit", rc = 0, ~lost
        PROVE  total["emitted"] = IF Cardinality(matches) < limit
                                  THEN Cardinality(matches) ELSE limit
    <3>1. made = 1 /\ total["emitted"] = Cardinality(Tally(by, 1..made, "emitted"))
      BY <2>1, <2>2, <2>3, <2>8, Zenon DEF SharedOut
    <3>2. 1..1 = {1}
      OBVIOUS
    <3>3. total["emitted"] = Cardinality(mine)
      BY <3>1, <3>2
    <3>4. CASE Limited
      <4>1. stop[1]
        <5>1. PICK w \in Workers : stop[w]
          BY <3>4 DEF Limited
        <5>2. w \in 1..1
          BY <2>0, <2>2, <5>1, CountedByStarted
        <5> QED
          BY <5>1, <5>2
      <4> HIDE DEF matches, mine
      <4> QED
        BY <2>2, <2>3, <2>6, <3>3, <4>1
    <3>5. CASE ~Limited
      <4>1. \A i \in Ids : visits[i] = (IF Countable(i) THEN 1 ELSE 0)
        <5>1. nthreads > 0
          BY <2>2
        <5> QED
          BY <2>0, <2>8, <3>5, <5>1, CompleteAtExit DEF CompleteOnZero
      <4>2. \A i \in Ids : Countable(i) => visits[i] = 1
        BY <4>1
      <4>3. mine = matches
        BY <2>4, <4>2, Zenon DEF Tally
      <4>4. ~stop[1]
        BY <2>3, <3>5 DEF Limited
      <4> HIDE DEF matches, mine
      <4> QED
        BY <2>2, <2>3, <2>6, <3>3, <4>3, <4>4
    <3> QED
      BY <3>4, <3>5
  <2> QED
    BY <2>7, <2>8, Zenon
<1> QED
  BY <1>1, StatsInvariant, PTL
=============================================================================
