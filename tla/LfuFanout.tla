------------------------------ MODULE LfuFanout ------------------------------
(***************************************************************************)
(* The one-shot kernel module lfu_fanout: lfu_fanout_init() starts         *)
(* nworkers kernel threads, walks the object table itself and puts every   *)
(* object into a kfifo; the threads take them out.  When the walk has      *)
(* ended it sets done, polls until no worker is up, frees the kfifo and    *)
(* returns an error, upon which the kernel unloads the module.             *)
(*                                                                         *)
(* An object is its position in the table.  What a worker reads of it, and *)
(* whether it is still there, decides nothing and is left out.  A wait     *)
(* queue is the set of the threads on it: wait_event() queues, tests and   *)
(* sleeps, and wake_up() takes off every one (none waits exclusively).     *)
(***************************************************************************)
EXTENDS Naturals, Sequences, FiniteSets

CONSTANTS
  FanWorkers,   \* the values of nworkers are 0 .. FanWorkers
  FifoSize,     \* LFU_RING_ORDER
  MaxTable      \* bound on the number of objects

ASSUME FanAssumption ==
  FanWorkers \in Nat /\ FifoSize \in Nat \ {0} /\ MaxTable \in Nat

VARIABLES
  nworkers, size,     \* the parameter, and the objects of the device
  ipc,                \* lfu_fanout_init()
  started,            \* threads it has started
  at,                 \* where the iterator stands
  fifo, up, fandone, abort, freed,   \* struct lfu_state
  prodq, consq,       \* wq_prod has the enumerator; the workers on wq_cons
  kpc, ent,           \* each lfu_worker(): where it is, the entry it has
  sent,               \* the objects counted (produced)
  handled,            \* how often each was handled
  dropped,            \* the objects counted and then not queued
  window              \* per worker: what was queued since it saw no entry
                      \* and before it tested done

fanvars == <<nworkers, size, ipc, started, at, fifo, up, fandone, abort, freed,
             prodq, consq, kpc, ent, sent, handled, dropped, window>>
state == <<fifo, up, fandone, abort, freed, prodq, consq>>
workers == <<kpc, ent>>
history == <<sent, handled, dropped, window>>
given == <<nworkers, size>>

Fan == 1 .. FanWorkers
NoEnt == 0

FanInit ==
  /\ nworkers \in 0 .. FanWorkers /\ size \in 0 .. MaxTable
  /\ ipc = "setup" /\ started = 0 /\ at = 1
  /\ fifo = <<>> /\ up = 0 /\ fandone = FALSE /\ abort = FALSE /\ freed = FALSE
  /\ prodq = FALSE /\ consq = {}
  /\ kpc = [w \in Fan |-> "none"] /\ ent = [w \in Fan |-> NoEnt]
  /\ sent = {} /\ handled = [o \in 1 .. size |-> 0] /\ dropped = {}
  /\ window = [w \in Fan |-> {}]

-----------------------------------------------------------------------------
(* lfu_fanout_init(): set-up and the start of the threads.                 *)

SetupFanFails ==
  /\ ipc = "setup"
  /\ ipc' = "gone"
  /\ UNCHANGED <<given, started, at, state, workers, history>>

SetupFan ==
  /\ ipc = "setup"
  /\ ipc' = "start" /\ up' = nworkers
  /\ UNCHANGED <<given, started, at, fifo, fandone, abort, freed, prodq, consq,
                 workers, history>>

StartFan ==
  /\ ipc = "start" /\ started < nworkers
  /\ started' = started + 1
  /\ kpc' = [kpc EXCEPT ![started'] = "env"]
  /\ UNCHANGED <<given, ipc, at, state, ent, history>>

\* kthread_run() fails: this thread and the rest never run.
StartFanFails ==
  /\ ipc = "start" /\ started < nworkers
  /\ up' = up - (nworkers - started)
  /\ abort' = TRUE /\ ipc' = "top"
  /\ UNCHANGED <<given, started, at, fifo, fandone, freed, prodq, consq, workers,
                 history>>

AllStarted ==
  /\ ipc = "start" /\ started = nworkers
  /\ ipc' = "top"
  /\ UNCHANGED <<given, started, at, state, workers, history>>

-----------------------------------------------------------------------------
(* The enumerator loop.                                                    *)

LoopTop ==
  /\ ipc = "top"
  /\ ipc' = IF abort THEN "done" ELSE "rec"
  /\ UNCHANGED <<given, started, at, state, workers, history>>

Rec ==
  /\ ipc = "rec" /\ at <= size
  /\ sent' = sent \cup {at}
  /\ ipc' = IF nworkers > 0 THEN "push" ELSE "next"
  /\ UNCHANGED <<given, started, at, state, workers, handled, dropped, window>>

\* rec() fails, or load() found no object: nothing is counted.
RecFails ==
  /\ ipc = "rec"
  /\ ipc' = "next"
  /\ UNCHANGED <<given, started, at, state, workers, history>>

\* kfifo_in_spinlocked()
Push ==
  /\ ipc = "push"
  /\ IF Len(fifo) < FifoSize
     THEN /\ fifo' = Append(fifo, at)
          /\ window' = [w \in Fan |-> IF kpc[w] = "test" THEN window[w] \cup {at}
                                      ELSE window[w]]
          /\ ipc' = "pushed"
     ELSE ipc' = "full" /\ UNCHANGED <<fifo, window>>
  /\ UNCHANGED <<given, started, at, up, fandone, abort, freed, prodq, consq,
                 workers, sent, handled, dropped>>

\* wake_up(&st.wq_cons), before the wait on a full kfifo and after a push.
WakeCons ==
  /\ ipc \in {"full", "pushed"}
  /\ consq' = {}
  /\ ipc' = IF ipc = "full" THEN "queue" ELSE "next"
  /\ UNCHANGED <<given, started, at, fifo, up, fandone, abort, freed, prodq,
                 workers, history>>

\* wait_event(st.wq_prod, ...)
QueueProd ==
  /\ ipc = "queue"
  /\ prodq' = TRUE /\ ipc' = "test"
  /\ UNCHANGED <<given, started, at, fifo, up, fandone, abort, freed, consq,
                 workers, history>>

TestProd ==
  /\ ipc = "test"
  /\ IF Len(fifo) < FifoSize \/ abort
     THEN prodq' = FALSE /\ ipc' = "waited"
     ELSE ipc' = "asleep" /\ UNCHANGED prodq
  /\ UNCHANGED <<given, started, at, fifo, up, fandone, abort, freed, consq,
                 workers, history>>

ProdAwake ==
  /\ ipc = "asleep" /\ ~prodq
  /\ ipc' = "queue"
  /\ UNCHANGED <<given, started, at, state, workers, history>>

\* Mutants: the object is given up after the wait; abort is not looked at.
WaitedMut ==
  /\ ipc = "waited"
  /\ ipc' = "pushed"
  /\ UNCHANGED <<given, started, at, state, workers, history>>
WaitedSpin ==
  /\ ipc = "waited"
  /\ ipc' = "push"
  /\ UNCHANGED <<given, started, at, state, workers, history>>

\* Try again, or give the object up when a worker could not run.
Waited ==
  /\ ipc = "waited"
  /\ IF abort THEN ipc' = "pushed" /\ dropped' = dropped \cup {at}
     ELSE ipc' = "push" /\ UNCHANGED dropped
  /\ UNCHANGED <<given, started, at, state, workers, sent, handled, window>>

FanNext ==
  /\ ipc = "next" /\ at < size
  /\ at' = at + 1 /\ ipc' = "top"
  /\ UNCHANGED <<given, started, state, workers, history>>

\* next() fails, or is at the end: the loop ends either way.
FanEnds ==
  /\ ipc = "next"
  /\ ipc' = "done"
  /\ UNCHANGED <<given, started, at, state, workers, history>>

-----------------------------------------------------------------------------
(* After the loop.                                                         *)

SetDone ==
  /\ ipc = "done"
  /\ fandone' = TRUE /\ ipc' = "poll"
  /\ UNCHANGED <<given, started, at, fifo, up, abort, freed, prodq, consq,
                 workers, history>>

\* wake_up_all(&st.wq_cons), once after done and again in every turn.
Poll ==
  /\ ipc = "poll" /\ consq # {}
  /\ consq' = {}
  /\ UNCHANGED <<given, ipc, started, at, fifo, up, fandone, abort, freed, prodq,
                 workers, history>>

\* No worker is up: the report, kfifo_free(), the return.
PollEnds ==
  /\ ipc = "poll" /\ up = 0
  /\ freed' = TRUE /\ ipc' = "gone"
  /\ UNCHANGED <<given, started, at, fifo, up, fandone, abort, prodq, consq,
                 workers, history>>

Enumerator ==
  \/ SetupFanFails \/ SetupFan \/ StartFan \/ StartFanFails \/ AllStarted
  \/ LoopTop \/ Rec \/ RecFails \/ Push \/ WakeCons \/ QueueProd \/ TestProd
  \/ ProdAwake \/ Waited \/ FanNext \/ FanEnds \/ SetDone \/ Poll \/ PollEnds

-----------------------------------------------------------------------------
(* lfu_worker().                                                           *)

Step(w, label) == kpc' = [kpc EXCEPT ![w] = label]

FanEnv(w) ==
  /\ kpc[w] = "env"
  /\ Step(w, "pop")
  /\ UNCHANGED <<given, ipc, started, at, state, ent, history>>

\* lu_env_init() fails: abort, then out the same way as a worker that ends.
FanEnvFails(w) ==
  /\ kpc[w] = "env"
  /\ abort' = TRUE
  /\ Step(w, "dec")
  /\ UNCHANGED <<given, ipc, started, at, fifo, up, fandone, freed, prodq,
                 consq, ent, history>>

\* kfifo_out_spinlocked()
Pop(w) ==
  /\ kpc[w] = "pop"
  /\ IF fifo = <<>>
     THEN /\ Step(w, "test")
          /\ window' = [window EXCEPT ![w] = {}]
          /\ UNCHANGED <<fifo, ent>>
     ELSE /\ Step(w, "popped")
          /\ ent' = [ent EXCEPT ![w] = Head(fifo)]
          /\ fifo' = Tail(fifo)
          /\ UNCHANGED window
  /\ UNCHANGED <<given, ipc, started, at, up, fandone, abort, freed, prodq,
                 consq, sent, handled, dropped>>

\* The kfifo was empty: the end, if there is nothing to come.
TestDone(w) ==
  /\ kpc[w] = "test"
  /\ Step(w, IF fandone \/ abort THEN "dec" ELSE "queue")
  /\ UNCHANGED <<given, ipc, started, at, state, ent, history>>

\* wait_event(st.wq_cons, ...), and once more from the top.
QueueCons(w) ==
  /\ kpc[w] = "queue"
  /\ consq' = consq \cup {w}
  /\ Step(w, "wait")
  /\ UNCHANGED <<given, ipc, started, at, fifo, up, fandone, abort, freed,
                 prodq, ent, history>>

\* Mutant: a worker that is woken by done ends at once.
TestConsMut(w) ==
  /\ kpc[w] = "wait"
  /\ IF fifo # <<>> \/ fandone \/ abort
     THEN consq' = consq \ {w} /\ Step(w, IF fandone THEN "dec" ELSE "pop")
     ELSE Step(w, "asleep") /\ UNCHANGED consq
  /\ UNCHANGED <<given, ipc, started, at, fifo, up, fandone, abort, freed,
                 prodq, ent, history>>

TestCons(w) ==
  /\ kpc[w] = "wait"
  /\ IF fifo # <<>> \/ fandone \/ abort
     THEN consq' = consq \ {w} /\ Step(w, "pop")
     ELSE Step(w, "asleep") /\ UNCHANGED consq
  /\ UNCHANGED <<given, ipc, started, at, fifo, up, fandone, abort, freed,
                 prodq, ent, history>>

ConsAwake(w) ==
  /\ kpc[w] = "asleep" /\ w \notin consq
  /\ Step(w, "queue")
  /\ UNCHANGED <<given, ipc, started, at, state, ent, history>>

\* wake_up(&st.wq_prod): there is room.
WakeProd(w) ==
  /\ kpc[w] = "popped"
  /\ prodq' = FALSE
  /\ Step(w, "work")
  /\ UNCHANGED <<given, ipc, started, at, fifo, up, fandone, abort, freed,
                 consq, ent, history>>

\* The attributes of the object, or nothing; then it is handled.
Work(w) ==
  /\ kpc[w] = "work"
  /\ handled' = [handled EXCEPT ![ent[w]] = @ + 1]
  /\ ent' = [ent EXCEPT ![w] = NoEnt]
  /\ Step(w, "pop")
  /\ UNCHANGED <<given, ipc, started, at, state, sent, dropped, window>>

\* atomic_dec(&st.workers_up), then wake_up_all(&st.wq_prod), then the end.
FanDec(w) ==
  /\ kpc[w] = "dec"
  /\ up' = up - 1
  /\ Step(w, "wake")
  /\ UNCHANGED <<given, ipc, started, at, fifo, fandone, abort, freed, prodq,
                 consq, ent, history>>

FanWake(w) ==
  /\ kpc[w] = "wake"
  /\ prodq' = FALSE
  /\ Step(w, "finished")
  /\ UNCHANGED <<given, ipc, started, at, fifo, up, fandone, abort, freed,
                 consq, ent, history>>

FanWorker(w) ==
  \/ FanEnv(w) \/ FanEnvFails(w) \/ Pop(w) \/ TestDone(w) \/ QueueCons(w)
  \/ TestCons(w) \/ ConsAwake(w) \/ WakeProd(w) \/ Work(w) \/ FanDec(w)
  \/ FanWake(w)

FanStep == Enumerator \/ \E w \in Fan : FanWorker(w)

\* The kernel schedules the loading process and every runnable thread.
FanSpec ==
  /\ FanInit /\ [][FanStep]_fanvars
  /\ WF_fanvars(Enumerator)
  /\ \A w \in Fan : WF_fanvars(FanWorker(w))

-----------------------------------------------------------------------------
(***************************************************************************)
(* Properties.                                                             *)
(***************************************************************************)
\* The threads that have still to take themselves off st.workers_up, and what
\* it counts for threads that are not started yet.
Busy == {w \in Fan : kpc[w] \notin {"none", "wake", "finished"}}
Unstarted == IF ipc = "start" THEN nworkers - started ELSE 0
UpCounts == up = Cardinality(Busy) + Unstarted

\* Type invariant; st.workers_up counts exactly the threads that are busy or
\* not started yet, through failed starts and environments, and never falls
\* below zero.
FanTypeOK ==
  /\ nworkers \in 0 .. FanWorkers /\ size \in 0 .. MaxTable
  /\ ipc \in {"setup", "start", "top", "rec", "push", "full", "pushed", "queue",
              "test", "asleep", "waited", "next", "done", "poll", "gone"}
  /\ at \in Nat \ {0} /\ started \in 0 .. nworkers
  /\ fandone \in BOOLEAN /\ abort \in BOOLEAN /\ freed \in BOOLEAN
  /\ fifo \in Seq(1 .. size) /\ Len(fifo) <= FifoSize
  /\ sent \subseteq 1 .. size /\ dropped \subseteq sent
  /\ handled \in [1 .. size -> 0 .. 1]
  /\ kpc \in [Fan -> {"none", "env", "pop", "test", "queue", "wait", "asleep",
                      "popped", "work", "dec", "wake", "finished"}]
  /\ ent \in [Fan -> 0 .. size] /\ window \in [Fan -> SUBSET (1 .. size)]
  /\ consq \subseteq Fan /\ prodq \in BOOLEAN
  /\ UpCounts

InHand(o) == \E w \in Fan : kpc[w] \in {"popped", "work"} /\ ent[w] = o
Queued(o) == \E j \in 1 .. Len(fifo) : fifo[j] = o
\* The enumerator has counted o and not queued it yet.
Offering == ipc \in {"push", "full", "queue", "test", "asleep", "waited"}
Offered(o) == o = at /\ Offering

\* Workers and enumerator hand over each object exactly once: of the places an
\* object can be after it was counted (offered, queued, in one worker's hand,
\* handled, or given up after an abort) it is in one.
HandedOnce ==
  nworkers > 0 =>
    /\ \A o \in sent :
         /\ Offered(o) \/ Queued(o) \/ InHand(o) \/ handled[o] = 1 \/ o \in dropped
         /\ Queued(o) => ~InHand(o) /\ handled[o] = 0
         /\ InHand(o) => handled[o] = 0
    /\ \A v, w \in Fan : ent[v] = ent[w] /\ ent[v] # NoEnt => v = w
    /\ dropped # {} => abort

\* A worker that finds no entry tests done afterwards, so entries queued in
\* between may be left in the kfifo and produced be more than handled.  No
\* other entry is: without an abort, each one that is left was queued while
\* every worker stood between its last look and that test.
OnlyLateEntriesLeft ==
  ipc = "gone" /\ freed /\ nworkers > 0 /\ ~abort =>
    \A o \in sent : handled[o] = 0 => \A w \in 1 .. nworkers : o \in window[w]

\* kfifo_free() comes after the last access of a worker to the kfifo.
FifoOutlives ==
  freed => \A w \in Fan : kpc[w] \in {"none", "wake", "finished"}

\* What the proofs rest on.  Threads start in order and, without an abort, all
\* of them; done is set after the last push; nobody is busy at the end.
Phases ==
  /\ \A w \in Fan : w <= started <=> kpc[w] # "none"
  /\ ipc = "setup" => started = 0
  /\ ipc \notin {"setup", "start"} /\ ~abort => started = nworkers \/ (ipc = "gone" /\ ~freed)
  /\ fandone => ipc \in {"poll", "gone"}
  /\ freed => ipc = "gone"
  /\ ipc = "gone" => Busy = {}

\* Where an object can be, and that it is in one place.
Apart ==
  /\ \A j, l \in 1 .. Len(fifo) : fifo[j] = fifo[l] => j = l
  /\ \A w \in Fan : ent[w] # NoEnt <=> kpc[w] \in {"popped", "work"}
  /\ \A v, w \in Fan : ent[v] = ent[w] /\ ent[v] # NoEnt => v = w
Placed(o) ==
  /\ Queued(o) => o \in sent /\ ~Offered(o) /\ ~InHand(o) /\ handled[o] = 0
  /\ InHand(o) => o \in sent /\ ~Offered(o) /\ handled[o] = 0
  /\ handled[o] = 1 => o \in sent /\ ~Offered(o)
  /\ o \in sent => o < at \/ (o = at /\ ipc \notin {"setup", "start", "top", "rec"})
  /\ o \in sent /\ nworkers > 0 =>
       Offered(o) \/ Queued(o) \/ InHand(o) \/ handled[o] = 1 \/ o \in dropped
Places ==
  /\ Apart
  /\ \A o \in 1 .. size : Placed(o)
  /\ Offering => at \in sent
  /\ dropped # {} => abort

\* A worker that found the kfifo empty and has not looked again knows of what
\* is queued only what came before it tested done.
Late ==
  ~abort => \A w \in Fan : kpc[w] \in {"test", "dec", "wake", "finished"} =>
    /\ \A o \in 1 .. size : Queued(o) => o \in window[w]
    /\ kpc[w] # "test" => fandone

\* The inductive invariant behind the properties above.
FanInv == FanTypeOK /\ Phases /\ Places /\ Late

\* lfu_fanout_init() always returns: a full kfifo, sleeping workers, workers
\* that fail while it waits for room, and a failed start all end.
FanReturns == <>(ipc = "gone")
=============================================================================
