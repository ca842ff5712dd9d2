------------------------------- MODULE LfuScan -------------------------------
(***************************************************************************)
(* lfu_scan() of lfu_core.c: the main thread starts the workers, the       *)
(* workers take chunk indices from a shared cursor and scan them with the  *)
(* backend's scan_chunk(), the main thread joins them, merges their        *)
(* counters and returns the exit status.  scan_chunk() is the ldiskfs or   *)
(* the zfs one, one object per step, so chunks of several workers          *)
(* interleave; lfu_next_chunk() and lfu_set_done() are one step each       *)
(* because they hold w->lock.                                              *)
(*                                                                         *)
(* History variables: visits counts the times an id was seen, failed says  *)
(* some worker met an error the code recognises as one, lost says          *)
(* dmu_object_next() failed for another reason than the end of the table.  *)
(***************************************************************************)
EXTENDS LfuObject, Integers

CONSTANTS Backends,     \* a subset of {"ldiskfs", "zfs"}
          Threads,      \* the largest -j
          ChunkSize,    \* ids in a chunk: groups_per_chunk * ipg, LFU_CHUNK
          MaxId,        \* ids are 1 .. MaxId
          Entries(_),   \* what a slot of a backend's target may hold
          Options,      \* the filter options of a scan
          Limits        \* --limit values, 0 for none

ASSUME ScanAssumption ==
  /\ Backends \subseteq {"ldiskfs", "zfs"}
  /\ Threads \in Nat \ {0}
  /\ ChunkSize \in Nat \ {0}
  /\ MaxId \in Nat
  /\ Limits \subseteq Nat

(* What the backends find in a slot of the target, and what the options    *)
(* may say.                                                                *)
States(b) == {"absent", "object"} \cup
             IF b = "ldiskfs"
             THEN {"csum", "reserved", "free", "deleted", "implausible"}
             ELSE {"not_znode", "sa_fail", "xattr_fail", "no_xattr"}
Flags == {"UNSUPP", "NOT_IN_OI", "AGENT", "FID_ON_OST"}

ASSUME TargetAssumption ==
  /\ \A b \in Backends : \A e \in Entries(b) :
       e \in [state : States(b), tier0 : BOOLEAN, lma : BOOLEAN, flags : SUBSET Flags,
              seq : {"visible", "idif", "other"}, tier1 : {"MATCH", "NOMATCH", "UNKNOWN"},
              ext : BOOLEAN, nlink : Nat]
  /\ \A o \in Options :
       o \in [active : BOOLEAN, needs : BOOLEAN, show_internal : BOOLEAN,
              emit_unknown : BOOLEAN]

VARIABLES
  mpc, nthreads, made, total, rc,     \* lfu_scan(), the main thread
  cursor, done, error,                \* struct lfu_work, under its lock
  wpc, idx, pos, cdone, stop, st,     \* the workers
  backend, table, opts, limit,        \* the target and the options
  visits, failed, lost                \* history

mainVars == <<mpc, nthreads, made, total, rc>>
workVars == <<cursor, done, error>>
chunkVars == <<idx, pos, cdone>>
input == <<backend, table, opts, limit>>
hist == <<visits, failed, lost>>
vars == <<mainVars, workVars, wpc, chunkVars, stop, st, input, hist>>

Workers == 1..Threads
Ids == 1..MaxId

Present(i) == table[i].state # "absent"
(* The ids the chunk loop counts as seen: a csum_bad inode is not.         *)
Countable(i) == table[i].state \notin {"absent", "csum"}


(* First id of chunk k, less one: where the chunk's walk starts from.      *)
ChunkStart(b, k) ==
  IF b = "ldiskfs" THEN k * ChunkSize
  ELSE IF k = 0 THEN 0 ELSE k * ChunkSize - 1

(* Mutant: the end of a chunk is inclusive.                                *)
ChunkEndMut(b, k) ==
  IF b = "ldiskfs" THEN (k + 1) * ChunkSize + 1 ELSE (k + 1) * ChunkSize

(* Last id of chunk k.  ldiskfs group g holds [g*ipg + 1, (g+1)*ipg].      *)
ChunkEnd(b, k) ==
  IF b = "ldiskfs"
  THEN IF (k + 1) * ChunkSize > MaxId THEN MaxId ELSE (k + 1) * ChunkSize
  ELSE (k + 1) * ChunkSize - 1

Bumps(i) == IF backend = "ldiskfs" THEN ldiskfs_inode(opts, table[i])
            ELSE zfs_dnode(opts, table[i])

Bump(s, cs) == [c \in Counters |-> s[c] + (IF c \in cs THEN 1 ELSE 0)]

(* Mutant: a counter is assigned instead of summed.                        *)
stats_mergeMut(acc, s) ==
  [c \in Counters |-> IF c = "emitted" THEN s[c] ELSE acc[c] + s[c]]

(* lfu_stats_merge(): every counter is summed.                             *)
stats_merge(acc, s) == [c \in Counters |-> acc[c] + s[c]]

(* --limit forces a single worker (lfu_main()).                            *)
Init ==
  /\ mpc = "start" /\ nthreads \in 1..Threads /\ made = 0
  /\ limit \in Limits /\ (limit # 0 => nthreads = 1)
  /\ total = ZeroCounters /\ rc = 0
  /\ cursor = 0 /\ done = FALSE /\ error = FALSE
  /\ wpc = [w \in Workers |-> "none"]
  /\ idx = [w \in Workers |-> 0]
  /\ pos = [w \in Workers |-> 0]
  /\ cdone = [w \in Workers |-> FALSE]
  /\ stop = [w \in Workers |-> FALSE]
  /\ st = [w \in Workers |-> ZeroCounters]
  /\ backend \in Backends /\ table \in [Ids -> Entries(backend)]
  /\ opts \in Options
  /\ visits = [i \in Ids |-> 0] /\ failed = FALSE /\ lost = FALSE

-----------------------------------------------------------------------------
(* The main thread.                                                        *)

(* calloc of the workers fails: lfu_scan() returns 1.                      *)
NoMemory ==
  /\ mpc = "start" /\ made = 0 /\ nthreads > 0
  /\ mpc' = "exit" /\ rc' = 1 /\ failed' = TRUE
  /\ UNCHANGED <<nthreads, made, total, workVars, wpc, chunkVars, stop, st,
                 input, visits, lost>>

(* One worker runs in the main thread itself; several are created in turn. *)
Create ==
  /\ mpc = "start" /\ made < nthreads
  /\ made' = made + 1
  /\ wpc' = [wpc EXCEPT ![made + 1] = "init"]
  /\ UNCHANGED <<mpc, nthreads, total, rc, workVars, chunkVars, stop, st,
                 input, hist>>

(* pthread_create() fails: go on with the workers there are.               *)
CreateFails ==
  /\ mpc = "start" /\ made < nthreads /\ nthreads > 1
  /\ nthreads' = made
  /\ UNCHANGED <<mpc, made, total, rc, workVars, wpc, chunkVars, stop, st,
                 input, hist>>

(* All created: join them in turn.                                         *)
StartJoin ==
  /\ mpc = "start" /\ made = nthreads
  /\ mpc' = "join" /\ made' = 0
  /\ UNCHANGED <<nthreads, total, rc, workVars, wpc, chunkVars, stop, st,
                 input, hist>>

Join ==
  /\ mpc = "join" /\ made < nthreads /\ wpc[made + 1] = "dead"
  /\ made' = made + 1
  /\ UNCHANGED <<mpc, nthreads, total, rc, workVars, wpc, chunkVars, stop, st,
                 input, hist>>

StartMerge ==
  /\ mpc = "join" /\ made = nthreads
  /\ mpc' = "merge" /\ made' = 0
  /\ UNCHANGED <<nthreads, total, rc, workVars, wpc, chunkVars, stop, st,
                 input, hist>>

Merge ==
  /\ mpc = "merge" /\ made < nthreads
  /\ total' = stats_merge(total, st[made + 1])
  /\ made' = made + 1
  /\ UNCHANGED <<mpc, nthreads, rc, workVars, wpc, chunkVars, stop, st,
                 input, hist>>

Return ==
  /\ mpc = "merge" /\ made = nthreads
  /\ mpc' = "exit" /\ rc' = IF error THEN 1 ELSE 0
  /\ UNCHANGED <<nthreads, made, total, workVars, wpc, chunkVars, stop, st,
                 input, hist>>

(* Mutant: the last worker to finish overwrites the error.                 *)
set_doneMut(err) == done' = TRUE /\ error' = err

set_done(err) == done' = TRUE /\ error' = (error \/ err)

WorkerInit(w) ==
  /\ wpc[w] = "init"
  /\ wpc' = [wpc EXCEPT ![w] = "next"]
  /\ UNCHANGED <<mainVars, workVars, chunkVars, stop, st, input, hist>>

(* worker_init() returns NULL (ldiskfs opens a handle of its own).         *)
WorkerInitFails(w) ==
  /\ wpc[w] = "init" /\ backend = "ldiskfs"
  /\ set_done(TRUE) /\ failed' = TRUE
  /\ wpc' = [wpc EXCEPT ![w] = "dead"]
  /\ UNCHANGED <<mainVars, cursor, chunkVars, stop, st, input, visits, lost>>

(* Mutant: a worker that gets no chunk tries again.                        *)
NoMoreChunksMut(w) ==
  /\ wpc[w] = "next" /\ (stop[w] \/ done)
  /\ wpc' = [wpc EXCEPT ![w] = "init"]
  /\ UNCHANGED <<mainVars, workVars, chunkVars, stop, st, input, hist>>

(* lfu_next_chunk() and the head of the worker's loop.                     *)
NextChunk(w) ==
  /\ wpc[w] = "next" /\ ~stop[w] /\ ~done
  /\ idx' = [idx EXCEPT ![w] = cursor]
  /\ cursor' = cursor + 1
  /\ cdone' = [cdone EXCEPT ![w] = FALSE]
  /\ wpc' = [wpc EXCEPT ![w] = "chunk"]
  /\ UNCHANGED <<mainVars, done, error, pos, stop, st, input, hist>>

NoMoreChunks(w) ==
  /\ wpc[w] = "next" /\ (stop[w] \/ done)
  /\ wpc' = [wpc EXCEPT ![w] = "dead"]
  /\ UNCHANGED <<mainVars, workVars, chunkVars, stop, st, input, hist>>

(* Mutant: a chunk that reaches beyond the last group is not walked.       *)
EnterChunkMut(w) ==
  /\ wpc[w] = "chunk"
  /\ LET past == backend = "ldiskfs" /\ (idx[w] + 1) * ChunkSize > MaxId
     IN  /\ cdone' = [cdone EXCEPT ![w] = past]
         /\ wpc' = [wpc EXCEPT ![w] = IF past THEN "ret" ELSE "walk"]
  /\ pos' = [pos EXCEPT ![w] = ChunkStart(backend, idx[w])]
  /\ UNCHANGED <<mainVars, workVars, idx, stop, st, input, hist>>

(* Entry of scan_chunk().  ldiskfs: a chunk past the last group proves the *)
(* end, and so does one that reaches beyond the inode count.               *)
EnterChunk(w) ==
  /\ wpc[w] = "chunk"
  /\ LET past == backend = "ldiskfs" /\ idx[w] * ChunkSize >= MaxId
         short == backend = "ldiskfs" /\ (idx[w] + 1) * ChunkSize > MaxId
     IN  /\ cdone' = [cdone EXCEPT ![w] = past \/ short]
         /\ wpc' = [wpc EXCEPT ![w] = IF past THEN "ret" ELSE "walk"]
  /\ pos' = [pos EXCEPT ![w] = ChunkStart(backend, idx[w])]
  /\ UNCHANGED <<mainVars, workVars, idx, stop, st, input, hist>>

(* goto_blockgroup or get_next_inode fails: scan_chunk() returns -1.       *)
WalkFails(w) ==
  /\ wpc[w] = "walk" /\ ~stop[w] /\ backend = "ldiskfs"
  /\ set_done(TRUE) /\ failed' = TRUE
  /\ wpc' = [wpc EXCEPT ![w] = "dead"]
  /\ UNCHANGED <<mainVars, cursor, chunkVars, stop, st, input, visits, lost>>

(* dmu_object_next() fails with an I/O error; any failure means the end.   *)
NextObjectLost(w) ==
  /\ wpc[w] = "walk" /\ ~stop[w] /\ backend = "zfs"
  /\ cdone' = [cdone EXCEPT ![w] = TRUE]
  /\ wpc' = [wpc EXCEPT ![w] = "ret"] /\ lost' = TRUE
  /\ UNCHANGED <<mainVars, workVars, idx, pos, stop, st, input, visits,
                 failed>>

(* The loop sees cx->stop and returns from scan_chunk().                   *)
WalkStopped(w) ==
  /\ wpc[w] = "walk" /\ stop[w]
  /\ wpc' = [wpc EXCEPT ![w] = "ret"]
  /\ UNCHANGED <<mainVars, workVars, chunkVars, stop, st, input, hist>>

(* i is the next id the library returns after p.                           *)
IsNext(i, p) == /\ i \in Ids /\ i > p /\ Present(i)
                /\ \A j \in Ids : p < j /\ j < i => ~Present(j)

(* Nothing left in the table.                                              *)
WalkEnds(w) ==
  /\ wpc[w] = "walk" /\ ~stop[w]
  /\ \A i \in Ids : i > pos[w] => ~Present(i)
  /\ cdone' = [cdone EXCEPT ![w] = TRUE]
  /\ wpc' = [wpc EXCEPT ![w] = "ret"]
  /\ UNCHANGED <<mainVars, workVars, idx, pos, stop, st, input, hist>>

(* An inode in a bad block of the table is counted before its number is    *)
(* compared with the end of the chunk.                                     *)
WalkBadBlock(w) ==
  /\ wpc[w] = "walk" /\ ~stop[w] /\ backend = "ldiskfs"
  /\ \E i \in Ids : /\ IsNext(i, pos[w]) /\ ~Countable(i)
                    /\ pos' = [pos EXCEPT ![w] = i]
  /\ st' = [st EXCEPT ![w] = Bump(@, {"csum_bad"})]
  /\ UNCHANGED <<mainVars, workVars, wpc, idx, cdone, stop, input, hist>>

(* The next id belongs to a later chunk.                                   *)
WalkPastEnd(w) ==
  /\ wpc[w] = "walk" /\ ~stop[w]
  /\ \E i \in Ids : IsNext(i, pos[w]) /\ Countable(i) /\ i > ChunkEnd(backend, idx[w])
  /\ wpc' = [wpc EXCEPT ![w] = "ret"]
  /\ UNCHANGED <<mainVars, workVars, chunkVars, stop, st, input, hist>>

(* Mutant: the limit is tested with > instead of >=.                       *)
WalkObjectMut(w) ==
  /\ wpc[w] = "walk" /\ ~stop[w]
  /\ \E i \in Ids :
       /\ IsNext(i, pos[w]) /\ Countable(i) /\ i <= ChunkEnd(backend, idx[w])
       /\ pos' = [pos EXCEPT ![w] = i]
       /\ st' = [st EXCEPT ![w] = Bump(@, Bumps(i))]
       /\ visits' = [visits EXCEPT ![i] = @ + 1]
       /\ stop' = [stop EXCEPT ![w] =
                     /\ limit # 0 /\ "emitted" \in Bumps(i)
                     /\ st[w]["emitted"] + 1 > limit]
  /\ UNCHANGED <<mainVars, workVars, wpc, idx, cdone, input, failed, lost>>

(* One object through the pipeline; reaching --limit sets cx->stop.        *)
WalkObject(w) ==
  /\ wpc[w] = "walk" /\ ~stop[w]
  /\ \E i \in Ids :
       /\ IsNext(i, pos[w]) /\ Countable(i) /\ i <= ChunkEnd(backend, idx[w])
       /\ pos' = [pos EXCEPT ![w] = i]
       /\ st' = [st EXCEPT ![w] = Bump(@, Bumps(i))]
       /\ visits' = [visits EXCEPT ![i] = @ + 1]
       /\ stop' = [stop EXCEPT ![w] =
                     /\ limit # 0 /\ "emitted" \in Bumps(i)
                     /\ st[w]["emitted"] + 1 >= limit]
  /\ UNCHANGED <<mainVars, workVars, wpc, idx, cdone, input, failed, lost>>

(* Back in the worker's loop with scan_chunk()'s 0.                        *)
ChunkDone(w) ==
  /\ wpc[w] = "ret"
  /\ IF cdone[w] \/ stop[w]
     THEN set_done(FALSE) /\ wpc' = [wpc EXCEPT ![w] = "dead"]
     ELSE UNCHANGED <<done, error>> /\ wpc' = [wpc EXCEPT ![w] = "next"]
  /\ UNCHANGED <<mainVars, cursor, chunkVars, stop, st, input, hist>>

-----------------------------------------------------------------------------
Main == \/ NoMemory \/ Create \/ CreateFails \/ StartJoin
        \/ Join \/ StartMerge \/ Merge \/ Return

Worker(w) == \/ WorkerInit(w) \/ WorkerInitFails(w)
             \/ NextChunk(w) \/ NoMoreChunks(w) \/ EnterChunk(w)
             \/ WalkFails(w) \/ NextObjectLost(w) \/ WalkStopped(w)
             \/ WalkEnds(w) \/ WalkBadBlock(w) \/ WalkPastEnd(w)
             \/ WalkObject(w) \/ ChunkDone(w)

(* lfu_scan() has returned.                                                *)
Finished == mpc = "exit" /\ UNCHANGED vars

Next == Main \/ (\E w \in Workers : Worker(w)) \/ Finished

Spec == Init /\ [][Next]_vars

(* The operating system runs every thread.                                 *)
FairSpec == Spec /\ WF_vars(Main) /\ \A w \in Workers : WF_vars(Worker(w))

-----------------------------------------------------------------------------
(* Properties.                                                             *)

MainStates == {"start", "join", "merge", "exit"}
WorkerStates == {"none", "init", "next", "chunk", "walk", "ret", "dead"}

(* Every variable of the dispatcher, of the workers and of the history     *)
(* keeps its type; the cursor is never negative and no counter underflows. *)
MainType ==
  /\ mpc \in MainStates /\ nthreads \in 0..Threads /\ made \in 0..nthreads
  /\ total \in [Counters -> Nat] /\ rc \in {0, 1}
WorkType == cursor \in Nat /\ done \in BOOLEAN /\ error \in BOOLEAN
WorkerType ==
  /\ wpc \in [Workers -> WorkerStates]
  /\ idx \in [Workers -> Nat] /\ pos \in [Workers -> Nat]
  /\ cdone \in [Workers -> BOOLEAN] /\ stop \in [Workers -> BOOLEAN]
  /\ st \in [Workers -> [Counters -> Nat]]
InputType ==
  /\ backend \in Backends /\ table \in [Ids -> Entries(backend)]
  /\ opts \in Options /\ limit \in Limits
HistType == visits \in [Ids -> Nat] /\ failed \in BOOLEAN /\ lost \in BOOLEAN
TypeOK == MainType /\ WorkType /\ WorkerType /\ InputType /\ HistType

(* The ids of chunk k.                                                     *)
InChunk(b, i, k) == ChunkStart(b, k) < i /\ i <= ChunkEnd(b, k)

(* Worker w holds a chunk it has not finished.                             *)
Holds(w) == wpc[w] \in {"chunk", "walk", "ret"}

(* However the workers interleave, no object is processed twice: chunk     *)
(* indices are handed out once and the chunks of the backend are disjoint. *)
AtMostOnce == \A i \in Ids : visits[i] <= 1

(* "w->done" is only ever set on proof: while nothing failed, was lost or  *)
(* stopped at --limit, every object lies below the next chunk to hand out. *)
(* A worker that finishes early cannot cut off ids that nobody took.  (It  *)
(* may cut off bad inodes: it has counted those on its way to the end.)    *)
DoneProves ==
  (done /\ ~failed /\ ~lost /\ \A w \in Workers : ~stop[w]) =>
    \A i \in Ids : Countable(i) => i <= ChunkStart(backend, cursor)

(* The scan was asked to stop early by --limit, and did.                   *)
Limited == \E w \in Workers : stop[w]

(* When lfu_scan() returns 0 with at least one worker, no library failure  *)
(* taken for the end and no --limit, every object was processed exactly    *)
(* once, also when only some of the workers could be started.              *)
CompleteOnZero ==
  (mpc = "exit" /\ rc = 0 /\ nthreads > 0 /\ ~lost /\ ~Limited) =>
    \A i \in Ids : visits[i] = (IF Countable(i) THEN 1 ELSE 0)

(* The counters reported at the end are those of the target: each is the   *)
(* number of objects that bump it, whichever workers counted them.  Only   *)
(* csum_bad may count an inode again, from the chunk before.               *)
StatsExact ==
  (mpc = "exit" /\ rc = 0 /\ nthreads > 0 /\ ~lost /\ ~Limited) =>
    /\ \A c \in Counters \ {"csum_bad"} :
         total[c] = Cardinality({i \in Ids : Countable(i) /\ c \in Bumps(i)})
    /\ total["csum_bad"] >= Cardinality({i \in Ids : table[i].state = "csum"})

(* Counters that account for every object counted.                         *)
Balanced(s) ==
  LET classified == s["visible"] + s["internal"] + s["ost_obj"] + s["agent"]
                    + s["no_lma"] + s["bad"]
      shown == s["visible"] + (IF opts.show_internal THEN s["internal"] ELSE 0)
  IN  /\ IF backend = "ldiskfs"
         THEN s["in_use"] = s["filtered"] + classified
         ELSE s["seen"] = s["not_znode"] + s["sa_fail"] + s["filtered"]
                          + classified
      /\ shown = s["emitted"] + s["filtered1"]
                 + (IF opts.emit_unknown THEN 0 ELSE s["unknown"])

(* Every object a worker has counted is in exactly one place: of the       *)
(* objects in use (ldiskfs) or seen (zfs) each was filtered at tier 0,     *)
(* skipped or classified, and of the shown classes each was rejected,      *)
(* undecided or emitted -- twice counted only when --emit-unknown says so. *)
StatsBalance == \A w \in Workers : Balanced(st[w])

(* --limit N emits the first N matches, exactly N when there are as many,  *)
(* and looks at no object after the N-th match.                            *)
LimitExact ==
  LET matches == {i \in Ids : Countable(i) /\ "emitted" \in Bumps(i)}
      seen == {i \in Ids : visits[i] > 0}
  IN  limit # 0 =>
        /\ Cardinality(matches \cap seen) <= limit
        /\ (mpc = "exit" /\ rc = 0 /\ ~lost) =>
             total["emitted"] = IF Cardinality(matches) < limit
                                THEN Cardinality(matches) ELSE limit

(* The exit status is 1 exactly when some worker failed or none could be   *)
(* allocated: a later lfu_set_done(w, 0) does not clear an earlier error.  *)
ErrorReported == mpc = "exit" => (rc = 1 <=> failed)

(* lfu_scan() returns, whatever the order in which the workers run.        *)
Terminates == <>(mpc = "exit")

(* What the man page says of exit status 0: the scan completed.            *)
ZeroMeansComplete ==
  (mpc = "exit" /\ rc = 0 /\ limit = 0) =>
    \A i \in Ids : Countable(i) => visits[i] = 1

-----------------------------------------------------------------------------
(* The inductive invariant behind AtMostOnce, DoneProves, CompleteOnZero   *)
(* and ErrorReported.                                                      *)

(* Where the main thread stands and which workers exist; the error so far. *)
MainInv ==
  /\ \A w \in Workers : w > nthreads => wpc[w] = "none"
  /\ mpc = "start" => \A w \in Workers : w > made => wpc[w] = "none"
  /\ mpc = "join" => \A w \in 1..made : wpc[w] = "dead"
  /\ mpc = "merge" => \A w \in 1..nthreads : wpc[w] = "dead"
  /\ mpc = "exit" => \A w \in Workers : wpc[w] \in {"none", "dead"}
  /\ mpc = "exit" /\ rc = 0 => \A w \in 1..nthreads : wpc[w] = "dead"
  /\ mpc # "exit" => (failed <=> error)
  /\ mpc = "exit" => (failed <=> rc = 1)

(* A chunk is in one pair of hands, and nothing was seen beyond them.      *)
HandInv ==
  /\ \A w \in Workers : Holds(w) => idx[w] < cursor
  /\ \A v, w \in Workers : v # w /\ Holds(v) /\ Holds(w) => idx[v] # idx[w]
  /\ \A i \in Ids : i > ChunkStart(backend, cursor) => visits[i] = 0

(* Worker w has still to come to id i.                                     *)
Pending(w, i) ==
  /\ wpc[w] \in {"chunk", "walk"} /\ InChunk(backend, i, idx[w])
  /\ wpc[w] = "walk" => i > pos[w]

(* A walk sees nothing of its chunk early and nothing of a later chunk.    *)
VisitInv ==
  /\ \A i \in Ids : visits[i] \in {0, 1} /\ (visits[i] = 1 => Countable(i))
  /\ \A w \in Workers : \A i \in Ids : Pending(w, i) => visits[i] = 0
  /\ \A w \in Workers : wpc[w] = "walk" =>
       /\ pos[w] >= ChunkStart(backend, idx[w])
       /\ \A i \in Ids : Countable(i) /\ i <= pos[w] =>
                            i <= ChunkStart(backend, idx[w] + 1)

(* While nothing went wrong, every object below the cursor was seen or is  *)
(* pending, and whoever claims the end of the target is right.             *)
Ends(k) == \A i \in Ids : Countable(i) => i <= ChunkStart(backend, k)
Covered ==
  /\ \A i \in Ids : Countable(i) /\ i <= ChunkStart(backend, cursor) =>
       visits[i] = 1 \/ \E w \in Workers : Pending(w, i)
  /\ \A w \in Workers : wpc[w] \in {"walk", "ret"} /\ cdone[w] => Ends(idx[w] + 1)
  /\ done => Ends(cursor)
  /\ \A w \in Workers : wpc[w] = "dead" => done
CoverInv == (~failed /\ ~lost /\ ~Limited) => Covered

(* What every step of lfu_scan() preserves.                                *)
ScanInv == TypeOK /\ MainInv /\ HandInv /\ VisitInv /\ CoverInv

-----------------------------------------------------------------------------
(* Why the counters add up: who counted what.                              *)

(* The objects that the workers of W have counted in c, if by says who saw *)
(* which.                                                                  *)
Tally(by, W, c) == {i \in Ids : visits[i] = 1 /\ by[i] \in W /\ c \in Bumps(i)}
Exact == Counters \ {"csum_bad"}

(* Each counter of a worker is the number of the objects that it saw and   *)
(* that bump it; the total is that of the workers merged so far.           *)
SharedOut(by) ==
  /\ \A i \in Ids : visits[i] = 1 => wpc[by[i]] # "none"
  /\ \A w \in Workers : \A c \in Exact : st[w][c] = Cardinality(Tally(by, {w}, c))
  /\ mpc \in {"start", "join"} => total = ZeroCounters
  /\ mpc = "merge" \/ (mpc = "exit" /\ rc = 0) =>
       \A c \in Exact : total[c] = Cardinality(Tally(by, 1..made, c))
  /\ mpc = "exit" /\ rc = 0 => made = nthreads
CountInv == \E by \in [Ids -> Workers] : SharedOut(by)

(* --limit has one worker, and stops it at the match that reaches it.      *)
LimitInv ==
  /\ limit # 0 =>
       /\ nthreads = 1
       /\ st[1]["emitted"] <= limit
       /\ stop[1] <=> st[1]["emitted"] = limit
  /\ \A w \in Workers : stop[w] => wpc[w] # "none"

(* The bad inodes that the workers of W counted, if by says who first met  *)
(* which (0: nobody yet).                                                  *)
Bad(i) == table[i].state = "csum"
Met(by, W) == {i \in Ids : Bad(i) /\ by[i] \in W}
Left(by, k) == \A i \in Ids : Bad(i) => by[i] # 0 \/ i <= ChunkStart(backend, k)

(* A worker counts every bad inode it walks over, within its chunk or not. *)
Walked(by) ==
  \A w \in Workers : wpc[w] \in {"walk", "ret"} =>
    \A i \in Ids : Bad(i) /\ i > ChunkStart(backend, idx[w]) /\ i <= pos[w] => by[i] # 0

(* None is left out: those below the cursor are met or pending, and who    *)
(* claims the end has none beyond.                                         *)
NoneLeft(by) ==
  /\ \A i \in Ids : Bad(i) /\ i <= ChunkStart(backend, cursor) =>
       by[i] # 0 \/ \E w \in Workers : Pending(w, i)
  /\ \A w \in Workers : wpc[w] \in {"walk", "ret"} /\ cdone[w] => Left(by, idx[w] + 1)
  /\ done => Left(by, cursor)

(* csum_bad is at least the number of bad inodes met, in the workers and   *)
(* in the total; while nothing goes wrong none is left out.                *)
MetBy(by) ==
  /\ \A i \in Ids : by[i] # 0 => wpc[by[i]] # "none"
  /\ \A w \in Workers : st[w]["csum_bad"] >= Cardinality(Met(by, {w}))
  /\ mpc = "merge" \/ (mpc = "exit" /\ rc = 0) =>
       total["csum_bad"] >= Cardinality(Met(by, 1..made))
  /\ Walked(by)
  /\ ~failed /\ ~lost /\ ~Limited => NoneLeft(by)
BadInv == \E by \in [Ids -> 0..Threads] : MetBy(by)

StatsInv == ScanInv /\ CountInv /\ LimitInv /\ BadInv /\ StatsBalance
=============================================================================
