-------------------------------- MODULE LfuPar --------------------------------
(***************************************************************************)
(* The one-shot kernel module lfu_par: lfu_par_init() starts nthreads      *)
(* kernel threads that share a chunk cursor, waits for the counter of      *)
(* running threads to reach zero, prints the totals and returns an error,  *)
(* upon which the kernel unloads the module.  Each thread opens a private  *)
(* iterator per chunk.                                                     *)
(*                                                                         *)
(* Objects are positive positions.  The history variable counted says how  *)
(* often each was counted, faults says what failed.                        *)
(***************************************************************************)
EXTENDS Integers, FiniteSets, FiniteSetsExt

CONSTANTS Threads,   \* nthreads: threads 1 .. Threads
          Chunk,     \* chunk
          Tables,    \* the sets of objects the device may hold
          Limits,    \* values of limit (0: none)
          Modes      \* values of private

ASSUME ParAssumption ==
  /\ Threads \in Nat \ {0} /\ Chunk \in Nat \ {0}
  /\ Limits \subseteq Nat /\ Modes \subseteq BOOLEAN
  /\ \A t \in Tables : IsFiniteSet(t) /\ t \subseteq Nat \ {0}

VARIABLES table, limit, priv,                        \* the device, the parameters
          mpc, created, rc,                          \* lfu_par_init()
          cursor, running, done, err, objects,       \* struct lfu_par_state
          wpc, start, pos, n, wrc,                   \* each lfu_par_worker()
          counted, faults

params == <<table, limit, priv>>
main == <<mpc, created, rc>>
local == <<start, pos, n, wrc>>
vars == <<params, main, cursor, running, done, err, objects, wpc, local, counted, faults>>

(* The threads of this load; private=0 forces one.                         *)
nthreads == IF priv THEN Threads ELSE 1
Workers == 1 .. Threads
Nowhere == 0

Init ==
  /\ table \in Tables /\ limit \in Limits /\ priv \in Modes
  /\ mpc = "setup" /\ created = 0 /\ rc = 0
  /\ cursor = 0 /\ running = 0 /\ done = FALSE /\ err = 0 /\ objects = 0
  /\ wpc = [w \in Workers |-> "none"]
  /\ start = [w \in Workers |-> 0]
  /\ pos = [w \in Workers |-> Nowhere]
  /\ n = [w \in Workers |-> 0]
  /\ wrc = [w \in Workers |-> 0]
  /\ counted = [o \in table |-> 0]
  /\ faults = {}

-----------------------------------------------------------------------------
(* lfu_par_init().                                                         *)

(* Anything up to the allocation of the workers fails.                     *)
SetupFails ==
  /\ mpc = "setup"
  /\ mpc' = "gone" /\ rc' = 1 /\ faults' = faults \cup {"setup"}
  /\ UNCHANGED <<params, created, cursor, running, done, err, objects, wpc, local, counted>>

Setup ==
  /\ mpc = "setup"
  /\ mpc' = "start" /\ running' = nthreads
  /\ UNCHANGED <<params, created, rc, cursor, done, err, objects, wpc, local, counted, faults>>

StartWorker ==
  /\ mpc = "start" /\ created < nthreads
  /\ created' = created + 1
  /\ wpc' = [wpc EXCEPT ![created + 1] = "env"]
  /\ UNCHANGED <<params, mpc, rc, cursor, running, done, err, objects, local, counted, faults>>

(* kthread_run() fails: neither this thread nor the rest will run.         *)
StartFails ==
  /\ mpc = "start" /\ created < nthreads
  /\ running' = running - (nthreads - created)
  /\ err' = 1 /\ mpc' = "wait" /\ faults' = faults \cup {"kthread"}
  /\ UNCHANGED <<params, created, rc, cursor, done, objects, wpc, local, counted>>

Started ==
  /\ mpc = "start" /\ created = nthreads
  /\ mpc' = "wait"
  /\ UNCHANGED <<params, created, rc, cursor, running, done, err, objects, wpc, local, counted, faults>>

(* wait_event() returns; the report, the releases, and the return that     *)
(* unloads the module.                                                     *)
Finish ==
  /\ mpc = "wait" /\ running = 0
  /\ rc' = err /\ mpc' = "gone"
  /\ UNCHANGED <<params, created, cursor, running, done, err, objects, wpc, local, counted, faults>>

-----------------------------------------------------------------------------
(* lfu_par_worker().                                                       *)

Goto(w, label) == wpc' = [wpc EXCEPT ![w] = label]

EnvInit(w) ==
  /\ wpc[w] = "env"
  /\ Goto(w, IF priv THEN "check" ELSE "iter")
  /\ UNCHANGED <<params, main, cursor, running, done, err, objects, local, counted, faults>>

(* lu_env_init() fails: straight to out, past the assignment of st.err.    *)
EnvFails(w) ==
  /\ wpc[w] = "env"
  /\ Goto(w, "out") /\ wrc' = [wrc EXCEPT ![w] = 1] /\ faults' = faults \cup {"env"}
  /\ UNCHANGED <<params, main, cursor, running, done, err, objects, start, pos, n, counted>>

(* Mutant: a thread told to end keeps polling.                             *)
CheckMut(w) ==
  /\ wpc[w] = "check"
  /\ Goto(w, IF done \/ err # 0 THEN "check" ELSE "take")
  /\ UNCHANGED <<params, main, cursor, running, done, err, objects, local, counted, faults>>

(* The loop test, and the next chunk: atomic64_fetch_inc().                *)
Check(w) ==
  /\ wpc[w] = "check"
  /\ Goto(w, IF done \/ err # 0 THEN "exit" ELSE "take")
  /\ UNCHANGED <<params, main, cursor, running, done, err, objects, local, counted, faults>>

Take(w) ==
  /\ wpc[w] = "take"
  /\ start' = [start EXCEPT ![w] = cursor * Chunk] /\ cursor' = cursor + 1
  /\ Goto(w, "iter")
  /\ UNCHANGED <<params, main, running, done, err, objects, pos, n, wrc, counted, faults>>

After(h) == {o \in table : o > h}

(* Where an iterator loaded with hash h stands.                            *)
LoadAt(h) == IF After(h) = {} THEN Nowhere ELSE Min(After(h))

(* Mutant: the chunk begins after its first position.                      *)
LoadMut(w) ==
  /\ wpc[w] = "iter"
  /\ n' = [n EXCEPT ![w] = 0]
  /\ pos' = [pos EXCEPT ![w] = LoadAt(start[w])]
  /\ wrc' = [wrc EXCEPT ![w] = IF pos'[w] = Nowhere THEN 2 ELSE 0]
  /\ Goto(w, IF pos'[w] = Nowhere THEN "add" ELSE "object")
  /\ UNCHANGED <<params, main, cursor, running, done, err, objects, start, counted, faults>>

(* iops->init() and iops->load(start - 1); 2 stands for the positive       *)
(* return that says the table is exhausted.                                *)
Load(w) ==
  /\ wpc[w] = "iter"
  /\ n' = [n EXCEPT ![w] = 0]
  /\ pos' = [pos EXCEPT ![w] = LoadAt(IF start[w] = 0 THEN 0 ELSE start[w] - 1)]
  /\ wrc' = [wrc EXCEPT ![w] = IF pos'[w] = Nowhere THEN 2 ELSE 0]
  /\ Goto(w, IF pos'[w] = Nowhere THEN "add" ELSE "object")
  /\ UNCHANGED <<params, main, cursor, running, done, err, objects, start, counted, faults>>

(* pos >= end is tested before rec(); private=0 has no end.               *)
InRange(w) == priv => pos[w] < start[w] + Chunk

(* init, load, rec or next fails.                                          *)
IterFails(w) ==
  /\ wpc[w] \in {"iter", "next"} \/ (wpc[w] = "object" /\ InRange(w))
  /\ wrc' = [wrc EXCEPT ![w] = 1] /\ faults' = faults \cup {"iter"}
  /\ n' = [n EXCEPT ![w] = IF wpc[w] = "iter" THEN 0 ELSE @]
  /\ Goto(w, "add")
  /\ UNCHANGED <<params, main, cursor, running, done, err, objects, start, pos, counted>>

(* The end of the chunk, found on an object of the next one.               *)
RangeEnd(w) ==
  /\ wpc[w] = "object" /\ ~InRange(w)
  /\ wrc' = [wrc EXCEPT ![w] = 0]
  /\ Goto(w, "add")
  /\ UNCHANGED <<params, main, cursor, running, done, err, objects, start, pos, n, counted, faults>>

(* Mutant: the end of the chunk does not stop the count.                   *)
ObjectMut(w) ==
  /\ wpc[w] = "object"
  /\ n' = [n EXCEPT ![w] = @ + 1]
  /\ counted' = [counted EXCEPT ![pos[w]] = @ + 1]
  /\ IF limit > 0 /\ objects + n'[w] >= limit
       THEN Goto(w, "add") /\ wrc' = [wrc EXCEPT ![w] = 2]
       ELSE Goto(w, "next") /\ UNCHANGED wrc
  /\ UNCHANGED <<params, main, cursor, running, done, err, objects, start, pos, faults>>

Object(w) ==
  /\ wpc[w] = "object" /\ InRange(w)
  /\ n' = [n EXCEPT ![w] = @ + 1]
  /\ counted' = [counted EXCEPT ![pos[w]] = @ + 1]
  /\ IF limit > 0 /\ objects + n'[w] >= limit
       THEN Goto(w, "add") /\ wrc' = [wrc EXCEPT ![w] = 2]
       ELSE Goto(w, "next") /\ UNCHANGED wrc
  /\ UNCHANGED <<params, main, cursor, running, done, err, objects, start, pos, faults>>

IterNext(w) ==
  /\ wpc[w] = "next"
  /\ pos' = [pos EXCEPT ![w] = LoadAt(pos[w])]
  /\ wrc' = [wrc EXCEPT ![w] = IF pos'[w] = Nowhere THEN 2 ELSE 0]
  /\ Goto(w, IF pos'[w] = Nowhere THEN "add" ELSE "object")
  /\ UNCHANGED <<params, main, cursor, running, done, err, objects, start, n, counted, faults>>

(* The sums of the chunk, and what its result means for the loop.          *)
AddChunk(w) ==
  /\ wpc[w] = "add"
  /\ objects' = objects + n[w]
  /\ done' = (done \/ (priv /\ wrc[w] = 2))
  /\ wrc' = [wrc EXCEPT ![w] = IF @ = 2 THEN 0 ELSE @]
  /\ Goto(w, IF priv /\ wrc[w] = 0 THEN "check" ELSE "exit")
  /\ UNCHANGED <<params, main, cursor, running, err, start, pos, n, counted, faults>>

(* rc < 0 && !st.err, and after that test the assignment.                  *)
ErrTest(w) ==
  /\ wpc[w] = "exit"
  /\ Goto(w, IF wrc[w] # 0 /\ err = 0 THEN "seterr" ELSE "out")
  /\ UNCHANGED <<params, main, cursor, running, done, err, objects, local, counted, faults>>

SetErr(w) ==
  /\ wpc[w] = "seterr"
  /\ err' = wrc[w]
  /\ Goto(w, "out")
  /\ UNCHANGED <<params, main, cursor, running, done, objects, local, counted, faults>>

(* atomic_dec(&st.running), then wake_up_all(), then the return to the     *)
(* kernel: three steps of module text.                                     *)
Dec(w) ==
  /\ wpc[w] = "out"
  /\ running' = running - 1
  /\ Goto(w, "wake")
  /\ UNCHANGED <<params, main, cursor, done, err, objects, local, counted, faults>>

Wake(w) ==
  /\ wpc[w] = "wake"
  /\ Goto(w, "finished")
  /\ UNCHANGED <<params, main, cursor, running, done, err, objects, local, counted, faults>>

Worker(w) ==
  \/ EnvInit(w) \/ EnvFails(w) \/ Check(w) \/ Take(w) \/ Load(w) \/ IterFails(w)
  \/ RangeEnd(w) \/ Object(w) \/ IterNext(w) \/ AddChunk(w)
  \/ ErrTest(w) \/ SetErr(w) \/ Dec(w) \/ Wake(w)

Main == SetupFails \/ Setup \/ StartWorker \/ StartFails \/ Started \/ Finish

(* The module is unloaded and its threads have ended.                      *)
Over ==
  /\ mpc = "gone" /\ \A w \in Workers : wpc[w] \in {"none", "finished"}
  /\ UNCHANGED vars

Next == Main \/ (\E w \in Workers : Worker(w)) \/ Over

(* The kernel schedules the loading process and every runnable thread.     *)
Spec ==
  /\ Init /\ [][Next]_vars
  /\ WF_vars(Main)
  /\ \A w \in Workers : WF_vars(Worker(w))

-----------------------------------------------------------------------------
(* The threads share the table without overlap: the object that ends one   *)
(* chunk is found again by the next, and no object is counted twice, so    *)
(* that fidsum and attrsum compare between runs with different nthreads.   *)
CountedOnce == \A o \in table : counted[o] <= 1

(* A load that reports err = 0, with every environment set up, counted the *)
(* whole table, or with limit=N at least N objects if there are as many: a *)
(* thread that sees the end of the table and sets st.done never cuts off a *)
(* chunk another thread has taken.                                         *)
ZeroErrMeansAll ==
  mpc = "gone" /\ rc = 0 /\ "env" \notin faults =>
    /\ limit = 0 => objects = Cardinality(table) /\ \A o \in table : counted[o] = 1
    /\ limit > 0 => objects >= Min({limit, Cardinality(table)})

(* lfu_par_init() always returns: a thread or an iterator that fails never *)
(* leaves it waiting.                                                      *)
Returns == <>(mpc = "gone")

(* When lfu_par_init() has seen st.running at zero and the module goes     *)
(* away, its "worker threads not yet finished" are none: no thread has     *)
(* module text left to run.                                                *)
FinishedBeforeUnload ==
  mpc = "gone" => \A w \in Workers : wpc[w] \in {"none", "finished"}

-----------------------------------------------------------------------------
(* Why no object is counted twice: an inductive invariant.                 *)

(* Type invariant of what the threads share and of where they are.         *)
ParTypeOK ==
  /\ table \in Tables /\ priv \in BOOLEAN
  /\ cursor \in Nat /\ created \in 0 .. nthreads
  /\ wpc \in [Workers -> {"none", "env", "check", "take", "iter", "object", "next",
                          "add", "exit", "seterr", "out", "wake", "finished"}]
  /\ start \in [Workers -> Nat] /\ pos \in [Workers -> table \cup {Nowhere}]
  /\ counted \in [table -> 0 .. 1]
  /\ \A w \in Workers : w > created => wpc[w] = "none"

(* A thread inside a chunk, the objects of that chunk, and those it has    *)
(* still to come to.                                                       *)
Walking(w) == wpc[w] \in {"iter", "object", "next"}
Mine(w, o) == priv => start[w] <= o /\ o < start[w] + Chunk
Ahead(w, o) ==
  /\ Mine(w, o)
  /\ wpc[w] = "object" => pos[w] <= o
  /\ wpc[w] = "next" => pos[w] < o

(* private=0: the one thread walks the table, once.                        *)
Alone ==
  ~priv =>
    /\ \A w \in Workers : w # 1 => wpc[w] = "none"
    /\ wpc[1] \notin {"check", "take"}
    /\ wpc[1] \in {"none", "env"} => \A o \in table : counted[o] = 0

(* The chunks in hand lie below the cursor and apart from one another, and *)
(* so does all that was counted.                                           *)
ChunksApart ==
  priv =>
    /\ \A w \in Workers : Walking(w) => start[w] + Chunk <= cursor * Chunk
    /\ \A v, w \in Workers : v # w /\ Walking(v) /\ Walking(w) =>
         start[v] + Chunk <= start[w] \/ start[w] + Chunk <= start[v]
    /\ \A o \in table : counted[o] # 0 => o < cursor * Chunk

(* A thread counts no object behind its back.                              *)
Fresh ==
  \A w \in Workers : Walking(w) =>
    /\ wpc[w] # "iter" => pos[w] \in table /\ start[w] <= pos[w]
    /\ \A o \in table : Ahead(w, o) => counted[o] = 0

ParInv == ParTypeOK /\ Alone /\ ChunksApart /\ Fresh

-----------------------------------------------------------------------------
(* Why err = 0 means all of it: what the counters count, what of the table *)
(* is still to come, and why the threads end.                              *)

TallyTypeOK ==
  /\ limit \in Nat /\ objects \in Nat /\ running \in Int
  /\ mpc \in {"setup", "start", "wait", "gone"}
  /\ done \in BOOLEAN /\ err \in 0 .. 1
  /\ n \in [Workers -> Nat] /\ wrc \in [Workers -> 0 .. 2]
  /\ \A w \in Workers :
       wpc[w] \in {"none", "env", "check", "exit", "seterr"} => wrc[w] # 2
  /\ \A w \in Workers : wpc[w] = "seterr" => wrc[w] = 1

(* A thread between the start of its count and the adding of it.           *)
Carrying(w) == wpc[w] \in {"object", "next", "add"}
Share(w) == {o \in table : counted[o] = 1 /\ Mine(w, o)}
Added == {o \in table : counted[o] = 1 /\ \A w \in Workers : Carrying(w) => ~Mine(w, o)}

(* A thread's own count is of its chunk, and st.objects is of the rest.    *)
Tallies ==
  /\ priv => \A v, w \in Workers : v # w /\ Carrying(v) /\ (Carrying(w) \/ wpc[w] = "iter") =>
       start[v] + Chunk <= start[w] \/ start[w] + Chunk <= start[v]
  /\ priv => \A w \in Workers : Carrying(w) => start[w] + Chunk <= cursor * Chunk
  /\ \A w \in Workers : Carrying(w) => n[w] = Cardinality(Share(w))
  /\ objects = Cardinality(Added)

(* The limit is reached, or will be by the next sum.                       *)
Enough ==
  /\ limit > 0
  /\ objects >= limit \/ \E w \in Workers : wpc[w] = "add" /\ objects + n[w] >= limit

Whole == {"iter", "env"} \cap faults = {}
Taken(o) == IF priv THEN o < cursor * Chunk ELSE wpc[1] \notin {"none", "env"}
AllTaken == \A o \in table : Taken(o)

(* What a thread has taken is counted or still ahead of it; the table is   *)
(* called exhausted only when all of it is taken.                          *)
Covered ==
  /\ ~priv => \A w \in Workers : start[w] = 0
  /\ \A w \in Workers : wpc[w] = "next" => InRange(w)
  /\ Whole /\ ~Enough =>
       \A o \in table : Taken(o) =>
         counted[o] = 1 \/ \E w \in Workers : Walking(w) /\ Ahead(w, o)
  /\ \A w \in Workers : wpc[w] = "add" /\ wrc[w] = 2 => Enough \/ AllTaken
  /\ done => Enough \/ AllTaken

(* A thread ends when the table is done with, or on a failure that it will *)
(* report; the load ends when all of its threads have.                     *)
Left(w) == wpc[w] \in {"exit", "seterr", "out", "wake", "finished"}
Unfinished == {w \in Workers : wpc[w] \notin {"none", "wake", "finished"}}
Ends ==
  /\ "iter" \in faults =>
       err # 0 \/ \E w \in Workers : wpc[w] \in {"add", "exit", "seterr"} /\ wrc[w] = 1
  /\ \A w \in Workers : wpc[w] = "add" /\ wrc[w] = 1 => "iter" \in faults
  /\ priv => \A w \in Workers : Left(w) => done \/ err # 0 \/ ~Whole
  /\ running = Cardinality(Unfinished) + IF mpc = "start" THEN nthreads - created ELSE 0
  /\ \A w \in Workers : w <= created => wpc[w] # "none"
  /\ mpc = "setup" => created = 0
  /\ mpc = "wait" => err # 0 \/ created = nthreads
  /\ mpc = "gone" => rc # 0 \/ (err = 0 /\ created = nthreads /\ Unfinished = {})

AllInv == ParInv /\ TallyTypeOK /\ Tallies /\ Covered /\ Ends
=============================================================================
