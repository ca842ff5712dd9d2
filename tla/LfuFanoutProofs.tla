--------------------------- MODULE LfuFanoutProofs ---------------------------
(***************************************************************************)
(* The hand-over in lfu_fanout is correct for any number of workers, any   *)
(* size of the kfifo and any number of objects.                            *)
(***************************************************************************)
EXTENDS LfuFanout, FiniteSetTheorems, SequenceTheorems, Integers, TLAPS

(* The set of busy threads is finite, so that st.workers_up can count it.  *)
LEMMA BusyFinite == IsFiniteSet(Busy) /\ Cardinality(Busy) \in Nat
<1>1. IsFiniteSet(Fan)
  BY FS_Interval, FanAssumption DEF Fan
<1>2. Busy \subseteq Fan
  BY DEF Busy
<1> QED
  BY <1>1, <1>2, FS_Subset, FS_CardinalityType

(* FanInv holds when the module is loaded.                                 *)
LEMMA FanInvInit == FanInit => FanInv
<1> SUFFICES ASSUME FanInit PROVE FanInv
  OBVIOUS
<1>1. Busy = {} /\ Unstarted = 0
  BY DEF FanInit, Busy, Unstarted
<1>a. UpCounts
  BY <1>1, FS_EmptySet DEF UpCounts, FanInit
<1>b. fifo \in Seq(1 .. size) /\ Len(fifo) <= FifoSize
  BY FanAssumption DEF FanInit
<1>2. FanTypeOK
  <2>1. size \in Nat /\ nworkers \in Nat
    BY FanAssumption DEF FanInit
  <2>2. /\ handled \in [1 .. size -> 0 .. 1] /\ ent \in [Fan -> 0 .. size]
        /\ window \in [Fan -> SUBSET (1 .. size)]
    BY <2>1 DEF FanInit, NoEnt
  <2>3. started \in 0 .. nworkers /\ at \in Nat \ {0}
    BY <2>1 DEF FanInit
  <2> QED
    BY <1>a, <1>b, <2>2, <2>3, Zenon DEF FanInit, FanTypeOK
<1>3. Phases
  BY <1>1 DEF FanInit, Phases, Fan
<1>4. Places
  BY DEF FanInit, Places, Queued, Apart, Placed, InHand, Offering, NoEnt, Fan
<1>5. Late
  BY DEF FanInit, Late
<1> QED
  BY <1>2, <1>3, <1>4, <1>5 DEF FanInv

-----------------------------------------------------------------------------
(* A step that leaves the threads where they are leaves Busy alone.        *)
LEMMA BusySame == ASSUME kpc' = kpc PROVE Busy' = Busy
  BY DEF Busy

(* So does one that moves a busy thread to a place where it is busy.       *)
LEMMA BusyMoved ==
  ASSUME FanTypeOK, NEW w \in Fan, NEW label, kpc' = [kpc EXCEPT ![w] = label],
         kpc[w] \notin {"none", "wake", "finished"},
         label \notin {"none", "wake", "finished"}
  PROVE  Busy' = Busy
  BY DEF Busy, FanTypeOK

(* The steps of lfu_fanout_init() after the start of the threads, with the *)
(* threads where they are, keep the types.                                 *)
LEMMA EnumTypes == ASSUME FanInv, Enumerator PROVE FanTypeOK'
<1> USE DEF FanInv
<1>1. CASE SetupFanFails \/ SetupFan
  <2>1. Busy' = Busy /\ Cardinality(Busy) = 0
    <3>1. Busy = {}
      BY <1>1 DEF SetupFanFails, SetupFan, Phases, Busy, Fan, FanTypeOK
    <3> QED
      BY <1>1, <3>1, FS_EmptySet, BusySame DEF SetupFanFails, SetupFan, workers
  <2> QED
    <3>1. UpCounts'
      BY <1>1, <2>1 DEF SetupFanFails, SetupFan, FanTypeOK, UpCounts, Unstarted, given, state, Phases
    <3> QED
      BY <1>1, <3>1, Zenon DEF SetupFanFails, SetupFan, FanTypeOK, given, state, workers, history
<1>2. CASE StartFan
  <2>1. started + 1 \in Fan /\ kpc[started + 1] = "none"
    BY <1>2, FanAssumption DEF StartFan, FanTypeOK, Phases, Fan
  <2>2. Busy' = Busy \cup {started + 1} /\ started + 1 \notin Busy
    BY <1>2, <2>1 DEF StartFan, Busy, FanTypeOK
  <2>3. Cardinality(Busy') = Cardinality(Busy) + 1
    BY <2>2, BusyFinite, FS_AddElement
  <2> QED
    <3>1. UpCounts'
      BY <1>2, <2>3, BusyFinite DEF StartFan, FanTypeOK, UpCounts, Unstarted, given, state
    <3> QED
      BY <1>2, <2>1, <3>1 DEF StartFan, FanTypeOK, given, state, history
<1>3. CASE StartFanFails \/ AllStarted
  <2>1. Busy' = Busy
    BY <1>3, BusySame DEF StartFanFails, AllStarted, workers
  <2>2. UpCounts'
    BY <1>3, <2>1, BusyFinite DEF StartFanFails, AllStarted, FanTypeOK, UpCounts, Unstarted, given, state
  <2> QED
    BY <1>3, <2>2, Zenon
    DEF StartFanFails, AllStarted, FanTypeOK, given, state, workers, history
<1>4. CASE Push
  <2>1. UpCounts'
    BY <1>4, BusySame DEF Push, workers, UpCounts, Unstarted, given, FanTypeOK
  <2>2. at \in 1 .. size
    BY <1>4 DEF Push, Places, Offering, FanTypeOK
  <2>3. CASE Len(fifo) < FifoSize
    <3>0. /\ fifo \in Seq(1 .. size) /\ fifo' = Append(fifo, at)
          /\ window \in [Fan -> SUBSET (1 .. size)]
          /\ window' = [w \in Fan |-> IF kpc[w] = "test" THEN window[w] \cup {at} ELSE window[w]]
      BY <1>4, <2>3 DEF Push, FanTypeOK
    <3>1. fifo' \in Seq(1 .. size) /\ Len(fifo') = Len(fifo) + 1
      BY <2>2, <3>0
    <3>2. window' \in [Fan -> SUBSET (1 .. size)]
      BY <2>2, <3>0
    <3>3. Len(fifo') <= FifoSize
      BY <2>3, <3>1, FanAssumption DEF FanTypeOK
    <3> QED
      BY <1>4, <2>1, <2>3, <3>1, <3>2, <3>3 DEF Push, FanTypeOK, given, workers
  <2>4. CASE ~(Len(fifo) < FifoSize)
    BY <1>4, <2>1, <2>4 DEF Push, FanTypeOK, given, workers
  <2> QED
    BY <2>3, <2>4
<1>5. CASE \/ LoopTop \/ Rec \/ RecFails \/ WakeCons \/ QueueProd \/ TestProd
           \/ ProdAwake \/ Waited \/ FanNext \/ FanEnds \/ SetDone \/ Poll \/ PollEnds
  <2>1. kpc' = kpc /\ ipc' # "start" /\ ipc # "start" /\ up' = up
    BY <1>5 DEF LoopTop, Rec, RecFails, WakeCons, QueueProd, TestProd, ProdAwake, Waited,
                FanNext, FanEnds, SetDone, Poll, PollEnds, workers, state
  <2>2. UpCounts'
    BY <2>1, BusySame DEF UpCounts, Unstarted, FanTypeOK
  <2>3. CASE Rec \/ FanNext
    <3>1. sent' \subseteq 1 .. size /\ dropped \subseteq sent' /\ at' \in Nat \ {0}
      <4>1. at \in Nat \ {0} /\ size \in Nat /\ sent \subseteq 1 .. size /\ dropped \subseteq sent
        BY FanAssumption DEF FanTypeOK
      <4>2. \/ sent' = sent \cup {at} /\ at' = at /\ at <= size
            \/ sent' = sent /\ at' = at + 1
        BY <2>3 DEF Rec, FanNext, history
      <4>3. at' \in Nat \ {0}
        BY <4>1, <4>2
      <4>4. at <= size => at \in 1 .. size
        BY <4>1
      <4> QED
        BY <4>1, <4>2, <4>3, <4>4, Zenon DEF Rec
    <3>2. /\ nworkers' = nworkers /\ size' = size /\ started' = started /\ fandone' = fandone
          /\ abort' = abort /\ freed' = freed /\ fifo' = fifo /\ dropped' = dropped
          /\ handled' = handled /\ ent' = ent /\ window' = window /\ consq' = consq
          /\ prodq' = prodq /\ ipc' \in {"push", "next", "top"}
      BY <2>3 DEF Rec, FanNext, given, state, workers, history
    <3> QED
      <4>1. sent' \subseteq 1 .. size' /\ dropped' \subseteq sent'
        BY <3>1, <3>2
      <4>2. FanTypeOK
        OBVIOUS
      <4> HIDE DEF FanInv
      <4> QED
        BY <2>1, <2>2, <3>1, <3>2, <4>1, <4>2 DEF FanTypeOK
  <2>6. CASE Waited
    <3>1. at \in sent
      BY <2>6 DEF Waited, Places, Offering
    <3> QED
      BY <2>1, <2>2, <2>6, <3>1, Zenon DEF Waited, FanTypeOK, given, state, workers
  <2>4. CASE LoopTop \/ RecFails \/ WakeCons \/ QueueProd \/ TestProd \/ ProdAwake
    BY <2>1, <2>2, <2>4, Zenon
    DEF LoopTop, RecFails, WakeCons, QueueProd, TestProd, ProdAwake, FanTypeOK,
        given, state, workers, history
  <2>5. CASE FanEnds \/ SetDone \/ Poll \/ PollEnds
    BY <2>1, <2>2, <2>5, Zenon
    DEF FanEnds, SetDone, Poll, PollEnds, FanTypeOK, given, state, workers, history
  <2> QED
    BY <1>5, <2>3, <2>4, <2>5, <2>6
<1> QED
  BY <1>1, <1>2, <1>3, <1>4, <1>5 DEF Enumerator
(* A step of a worker keeps st.workers_up right.                           *)
LEMMA WorkerUp == ASSUME FanInv, NEW w \in Fan, FanWorker(w) PROVE UpCounts'
<1> USE DEF FanInv
<1>0. FanTypeOK /\ ipc' = ipc /\ nworkers' = nworkers /\ started' = started
  BY DEF FanWorker, FanEnv, FanEnvFails, Pop, TestDone, QueueCons, TestCons, ConsAwake,
         WakeProd, Work, FanDec, FanWake, given
<1>1. CASE FanDec(w)
  <2>1. Busy' = Busy \ {w} /\ w \in Busy
    BY <1>0, <1>1 DEF FanDec, Step, Busy, FanTypeOK
  <2>2. Cardinality(Busy') = Cardinality(Busy) - 1
    BY <2>1, BusyFinite, FS_RemoveElement
  <2> QED
    BY <1>0, <1>1, <2>2, BusyFinite DEF FanDec, UpCounts, Unstarted, FanTypeOK
<1>2. CASE FanWake(w)
  <2>1. Busy' = Busy
    BY <1>0, <1>2 DEF FanWake, Step, Busy, FanTypeOK
  <2> QED
    BY <1>0, <1>2, <2>1 DEF FanWake, UpCounts, Unstarted, FanTypeOK
<1>3. CASE \/ FanEnv(w) \/ FanEnvFails(w) \/ Pop(w) \/ TestDone(w) \/ QueueCons(w)
           \/ TestCons(w) \/ ConsAwake(w) \/ WakeProd(w) \/ Work(w)
  <2>1. /\ \E label \in {"pop", "dec", "test", "popped", "queue", "wait", "asleep", "work"} :
             kpc' = [kpc EXCEPT ![w] = label]
        /\ kpc[w] \notin {"none", "wake", "finished"}
        /\ up' = up
    BY <1>3 DEF FanEnv, FanEnvFails, Pop, TestDone, QueueCons, TestCons, ConsAwake,
                WakeProd, Work, Step, state
  <2>2. Busy' = Busy
    BY <1>0, <2>1, BusyMoved, Zenon
  <2> QED
    BY <1>0, <2>1, <2>2 DEF UpCounts, Unstarted, FanTypeOK
<1> QED
  BY <1>1, <1>2, <1>3 DEF FanWorker

(* A step of a worker keeps the types.                                     *)
LEMMA WorkerTypes == ASSUME FanInv, NEW w \in Fan, FanWorker(w) PROVE FanTypeOK'
<1>0. FanTypeOK /\ UpCounts'
  BY WorkerUp DEF FanInv
<1>1. CASE Pop(w)
  <2>1. CASE fifo = <<>>
    BY <1>0, <1>1, <2>1, Zenon DEF Pop, Step, FanTypeOK, given
  <2>2. CASE fifo # <<>>
    <3>1. /\ fifo \in Seq(1 .. size) /\ Len(fifo) <= FifoSize
          /\ fifo' = Tail(fifo) /\ ent' = [ent EXCEPT ![w] = Head(fifo)]
          /\ window' = window /\ size' = size
      BY <1>0, <1>1, <2>2 DEF Pop, FanTypeOK, given
    <3>2. fifo' \in Seq(1 .. size) /\ Len(fifo') <= FifoSize /\ Head(fifo) \in 1 .. size
      <4>1. fifo' \in Seq(1 .. size) /\ Len(fifo') = Len(fifo) - 1 /\ Len(fifo) \in Nat
        BY <2>2, <3>1
      <4>2. Head(fifo) \in 1 .. size
        BY <2>2, <3>1, HeadTailProperties, Zenon
      <4> QED
        BY <3>1, <4>1, <4>2, FanAssumption
    <3>3. Head(fifo) \in 0 .. size
      <4>1. size \in Nat
        BY <1>0, FanAssumption DEF FanTypeOK
      <4> QED
        BY <3>2, <4>1
    <3>4. ent' \in [Fan -> 0 .. size]
      BY <1>0, <3>1, <3>3 DEF FanTypeOK
    <3> QED
      BY <1>0, <1>1, <2>2, <3>1, <3>2, <3>4, Zenon DEF Pop, Step, FanTypeOK, given
  <2> QED
    BY <2>1, <2>2
<1>2. CASE Work(w)
  <2>1. ent[w] \in 1 .. size /\ handled[ent[w]] = 0
    <3>1. ent[w] \in 0 .. size /\ ent[w] # 0 /\ size \in Nat
      BY <1>0, <1>2, FanAssumption DEF Work, FanInv, Places, Apart, NoEnt, FanTypeOK
    <3>2. ent[w] \in 1 .. size /\ InHand(ent[w])
      BY <1>2, <3>1 DEF Work, InHand
    <3> QED
      BY <3>2 DEF FanInv, Places, Placed
  <2>2. handled' = [handled EXCEPT ![ent[w]] = 1]
    BY <1>2, <2>1 DEF Work
  <2>3. handled' \in [1 .. size -> 0 .. 1]
    BY <1>0, <2>1, <2>2 DEF FanTypeOK
  <2>4. ent' \in [Fan -> 0 .. size]
    BY <1>0, <1>2, FanAssumption DEF Work, NoEnt, FanTypeOK
  <2> QED
    BY <1>0, <1>2, <2>3, <2>4 DEF Work, Step, FanTypeOK, given, state
<1>3. CASE FanEnv(w) \/ FanEnvFails(w)
  BY <1>0, <1>3, ZenonT(40) DEF FanEnv, FanEnvFails, Step, FanTypeOK, given, state, history
<1>7. CASE TestDone(w) \/ QueueCons(w)
  BY <1>0, <1>7, ZenonT(40) DEF TestDone, QueueCons, Step, FanTypeOK, given, state, history
<1>4. CASE TestCons(w)
  BY <1>0, <1>4, Zenon DEF TestCons, Step, FanTypeOK, given, history
<1>6. CASE ConsAwake(w) \/ WakeProd(w)
  BY <1>0, <1>6, ZenonT(40) DEF ConsAwake, WakeProd, Step, FanTypeOK, given, state, history
<1>5. CASE FanDec(w) \/ FanWake(w)
  BY <1>0, <1>5, ZenonT(40) DEF FanDec, FanWake, Step, FanTypeOK, given, state, history
<1> QED
  BY <1>1, <1>2, <1>3, <1>4, <1>5, <1>6, <1>7 DEF FanWorker

-----------------------------------------------------------------------------
(* The steps of lfu_fanout_init() keep the order of its phases.            *)
LEMMA EnumPhases == ASSUME FanInv, Enumerator PROVE Phases'
<1>0. FanTypeOK /\ Phases
  BY DEF FanInv
<1>1. CASE StartFan
  <2>1. started + 1 \in Fan /\ started \in Nat /\ kpc' = [kpc EXCEPT ![started + 1] = "env"]
    BY <1>0, <1>1, FanAssumption DEF StartFan, FanTypeOK, Fan
  <2>2. \A w \in Fan : w <= started' <=> kpc'[w] # "none"
    BY <1>0, <1>1, <2>1 DEF StartFan, FanTypeOK, Phases, Fan
  <2> QED
    BY <1>0, <1>1, <2>2 DEF StartFan, Phases, state
<1>2. CASE SetupFanFails \/ SetupFan
  <2>1. Busy' = Busy /\ Busy = {}
    BY <1>0, <1>2, BusySame, FanAssumption
    DEF SetupFanFails, SetupFan, Phases, Busy, Fan, FanTypeOK, workers
  <2> QED
    BY <1>0, <1>2, <2>1 DEF SetupFanFails, SetupFan, Phases, workers, state, given
<1>3. CASE StartFanFails \/ AllStarted
  BY <1>0, <1>3 DEF StartFanFails, AllStarted, Phases, workers, state, given
<1>4. CASE PollEnds
  <2>1. Busy' = Busy /\ Cardinality(Busy) = 0
    BY <1>0, <1>4, BusySame, BusyFinite DEF PollEnds, FanTypeOK, UpCounts, Unstarted, workers
  <2>2. Busy = {}
    BY <2>1, BusyFinite, FS_EmptySet
  <2> QED
    BY <1>0, <1>4, <2>1, <2>2 DEF PollEnds, Phases, workers, given
<1>5. CASE LoopTop \/ Rec \/ RecFails \/ Push \/ WakeCons \/ QueueProd
  BY <1>0, <1>5 DEF LoopTop, Rec, RecFails, Push, WakeCons, QueueProd, Phases,
                    workers, state, given
<1>6. CASE TestProd \/ ProdAwake \/ Waited \/ FanNext \/ FanEnds \/ SetDone \/ Poll
  BY <1>0, <1>6 DEF TestProd, ProdAwake, Waited, FanNext, FanEnds, SetDone, Poll, Phases,
                    workers, state, given
<1> QED
  BY <1>1, <1>2, <1>3, <1>4, <1>5, <1>6 DEF Enumerator

(* The steps of a worker keep the phases; once all is over, the only step  *)
(* left is the return of a thread that has taken itself off.               *)
LEMMA WorkerPhases == ASSUME FanInv, NEW w \in Fan, FanWorker(w) PROVE Phases'
<1>0. FanTypeOK /\ Phases
  BY DEF FanInv
<1>1. /\ \E label \in {"pop", "dec", "test", "popped", "queue", "wait", "asleep", "work",
                       "wake", "finished"} : kpc' = [kpc EXCEPT ![w] = label]
      /\ kpc[w] # "none" /\ (kpc[w] = "wake" => kpc' = [kpc EXCEPT ![w] = "finished"])
      /\ kpc[w] # "finished"
      /\ ipc' = ipc /\ started' = started /\ nworkers' = nworkers
      /\ fandone' = fandone /\ freed' = freed /\ (~abort' => ~abort)
  BY SMTT(60)
  DEF FanWorker, FanEnv, FanEnvFails, Pop, TestDone, QueueCons, TestCons, ConsAwake,
      WakeProd, Work, FanDec, FanWake, Step, state, given
<1>2. \A v \in Fan : v <= started' <=> kpc'[v] # "none"
  BY <1>0, <1>1 DEF Phases, FanTypeOK
<1>3. ipc = "gone" => Busy' = {}
  <2>1. ipc = "gone" => kpc[w] = "wake" /\ Busy = {}
    BY <1>0, <1>1 DEF Phases, Busy, FanTypeOK
  <2> QED
    BY <1>0, <1>1, <2>1 DEF Busy, FanTypeOK
<1> QED
  BY <1>0, <1>1, <1>2, <1>3 DEF Phases

-----------------------------------------------------------------------------
(* A step that moves no object, and neither begins nor ends the offer of   *)
(* one, leaves every object where it is.                                   *)
LEMMA PlacesKept ==
  ASSUME Places, size' = size, nworkers' = nworkers, at' = at, fifo' = fifo, ent' = ent,
         sent' = sent, handled' = handled, dropped' = dropped, abort => abort',
         \A w \in Fan : kpc'[w] \in {"popped", "work"} <=> kpc[w] \in {"popped", "work"},
         Offering' <=> Offering,
         ipc' \in {"setup", "start", "top", "rec"} => ipc \in {"setup", "start", "top", "rec"}
  PROVE  Places'
<1>1. \A o : (Queued(o)' <=> Queued(o)) /\ (InHand(o)' <=> InHand(o)) /\ (Offered(o)' <=> Offered(o))
  BY DEF Queued, InHand, Offered
<1> QED
  BY <1>1 DEF Places, Apart, Placed

(* The steps of lfu_fanout_init() keep every object in one place.          *)
LEMMA EnumPlaces == ASSUME FanInv, Enumerator PROVE Places'
<1>0. FanTypeOK /\ Places
  BY DEF FanInv
<1>1. CASE StartFan
  <2>1. \A w \in Fan : kpc'[w] \in {"popped", "work"} <=> kpc[w] \in {"popped", "work"}
    BY <1>0, <1>1, FanAssumption DEF StartFan, FanInv, Phases, FanTypeOK, Fan
  <2>2. Offering' <=> Offering
    BY <1>1 DEF StartFan, Offering
  <2> QED
    BY <1>0, <1>1, <2>1, <2>2, PlacesKept DEF StartFan, given, state, history
<1>2. CASE \/ SetupFanFails \/ SetupFan \/ StartFanFails \/ AllStarted \/ LoopTop
           \/ RecFails \/ WakeCons \/ QueueProd \/ TestProd \/ ProdAwake
           \/ FanEnds \/ SetDone \/ Poll \/ PollEnds
  <2>1. /\ size' = size /\ nworkers' = nworkers /\ at' = at /\ fifo' = fifo /\ ent' = ent
        /\ sent' = sent /\ handled' = handled /\ dropped' = dropped /\ (abort => abort')
        /\ kpc' = kpc
    <3>1. CASE SetupFanFails
      BY <3>1 DEF SetupFanFails, given, state, workers, history
    <3>2. CASE SetupFan
      BY <3>2 DEF SetupFan, given, state, workers, history
    <3>3. CASE StartFanFails
      BY <3>3 DEF StartFanFails, given, state, workers, history
    <3>4. CASE AllStarted
      BY <3>4 DEF AllStarted, given, state, workers, history
    <3>5. CASE LoopTop
      BY <3>5 DEF LoopTop, given, state, workers, history
    <3>6. CASE RecFails
      BY <3>6 DEF RecFails, given, state, workers, history
    <3>7. CASE WakeCons
      BY <3>7 DEF WakeCons, given, state, workers, history
    <3>8. CASE QueueProd
      BY <3>8 DEF QueueProd, given, state, workers, history
    <3>9. CASE TestProd
      BY <3>9 DEF TestProd, given, state, workers, history
    <3>10. CASE ProdAwake
      BY <3>10 DEF ProdAwake, given, state, workers, history
    <3>11. CASE FanEnds
      BY <3>11 DEF FanEnds, given, state, workers, history
    <3>12. CASE SetDone
      BY <3>12 DEF SetDone, given, state, workers, history
    <3>13. CASE Poll
      BY <3>13 DEF Poll, given, state, workers, history
    <3>14. CASE PollEnds
      BY <3>14 DEF PollEnds, given, state, workers, history
    <3> QED
      BY <1>2, <3>1, <3>2, <3>3, <3>4, <3>5, <3>6, <3>7, <3>8, <3>9, <3>10, <3>11, <3>12,
         <3>13, <3>14
  <2>2. /\ Offering' <=> Offering
        /\ ipc' \in {"setup", "start", "top", "rec"} => ipc \in {"setup", "start", "top", "rec"}
    BY <1>2, SMTT(30)
    DEF SetupFanFails, SetupFan, StartFanFails, AllStarted, LoopTop, RecFails,
        WakeCons, QueueProd, TestProd, ProdAwake, FanEnds, SetDone, Poll, PollEnds,
        Offering
  <2> QED
    BY <1>0, <2>1, <2>2, PlacesKept
<1>3. CASE Rec
  <2>1. at \notin sent /\ at \in 1 .. size
    BY <1>0, <1>3, FanAssumption DEF Rec, Places, Placed, FanTypeOK
  <2>2. /\ size' = size /\ nworkers' = nworkers /\ at' = at /\ fifo' = fifo /\ ent' = ent
        /\ sent' = sent \cup {at} /\ handled' = handled /\ dropped' = dropped
        /\ abort' = abort /\ kpc' = kpc /\ ipc' = IF nworkers > 0 THEN "push" ELSE "next"
        /\ ~Offering
    BY <1>3 DEF Rec, given, state, workers, Offering
  <2>3. \A o : (Queued(o)' <=> Queued(o)) /\ (InHand(o)' <=> InHand(o))
    BY <2>2 DEF Queued, InHand
  <2>4. \A o : (Offered(o)' <=> (o = at /\ nworkers > 0)) /\ ~Offered(o)
    BY <2>2 DEF Offered, Offering
  <2>5. Apart'
    BY <1>0, <2>2 DEF Places, Apart
  <2>6. ASSUME NEW o \in 1 .. size PROVE Placed(o)'
    <3>1. Placed(o)
      BY <1>0 DEF Places
    <3>2. o # at => Placed(o)'
      BY <2>2, <2>3, <2>4, <3>1 DEF Placed
    <3>3. Placed(at)
      BY <1>0, <2>1 DEF Places
    <3>4. ~Queued(at) /\ ~InHand(at) /\ handled[at] # 1
      BY <2>1, <3>3 DEF Placed
    <3>5. Placed(at)'
      BY <2>2, <2>3, <2>4, <3>4 DEF Placed
    <3> QED
      BY <2>2, <3>2, <3>5 DEF Placed, Queued, InHand, Offered, Offering
  <2> QED
    BY <1>0, <2>2, <2>5, <2>6 DEF Places
<1>4. CASE Push
  <2>1. at \in sent /\ at \in 1 .. size /\ ipc = "push" /\ Offered(at)
    BY <1>0, <1>4 DEF Push, Places, Offered, Offering, FanTypeOK
  <2>2. /\ size' = size /\ nworkers' = nworkers /\ at' = at /\ ent' = ent /\ kpc' = kpc
        /\ sent' = sent /\ handled' = handled /\ dropped' = dropped /\ abort' = abort
    BY <1>4 DEF Push, given, workers
  <2>3. CASE Len(fifo) < FifoSize
    <3>1. fifo \in Seq(1 .. size) /\ fifo' = Append(fifo, at) /\ ~Offering'
      BY <1>0, <1>4, <2>3 DEF Push, FanTypeOK, Offering
    <3>2. /\ Len(fifo') = Len(fifo) + 1 /\ Len(fifo) \in Nat /\ fifo'[Len(fifo) + 1] = at
          /\ \A j \in 1 .. Len(fifo) : fifo'[j] = fifo[j]
      BY <2>1, <3>1
    <3>4. ~Queued(at) /\ ~InHand(at) /\ handled[at] # 1
      BY <1>0, <2>1 DEF Places, Placed
    <3>5. Apart'
      <4>1. \A j \in 1 .. Len(fifo) : fifo[j] # at
        BY <3>4 DEF Queued
      <4>2. \A j, l \in 1 .. Len(fifo') : fifo'[j] = fifo'[l] => j = l
        BY <1>0, <3>2, <4>1 DEF Places, Apart
      <4> QED
        BY <1>0, <2>2, <4>2 DEF Places, Apart
    <3>6. handled[at] = 0
      BY <1>0, <2>1, <3>4 DEF FanTypeOK
    <3>7. ipc' = "pushed"
      BY <1>4, <2>3 DEF Push
    <3> QED
      <4>1. ASSUME NEW o \in 1 .. size PROVE Placed(o)'
        <5>1. Placed(o)
          BY <1>0 DEF Places
        <5>2. /\ InHand(o)' <=> InHand(o)
              /\ ~Offered(o)'
              /\ Offered(o) => o = at
          BY <2>2, <3>1 DEF InHand, Offered
        <5>a. Queued(o)' <=> (Queued(o) \/ o = at)
          BY <3>2 DEF Queued
        <5>3. CASE o = at
          BY <5>2, <5>a, <5>3, <2>1, <2>2, <3>4, <3>6, <3>7 DEF Placed
        <5>4. CASE o # at
          BY <5>1, <5>2, <5>a, <5>4, <2>2, <3>7 DEF Placed
        <5> QED
          BY <5>3, <5>4
      <4> QED
        BY <1>0, <2>2, <3>1, <3>5, <4>1 DEF Places
  <2>4. CASE ~(Len(fifo) < FifoSize)
    BY <1>0, <1>4, <2>1, <2>2, <2>4, PlacesKept DEF Push, Offering
  <2> QED
    BY <2>3, <2>4
<1>5. CASE Waited
  <2>1. CASE abort
    <3>1. /\ size' = size /\ nworkers' = nworkers /\ at' = at /\ ent' = ent /\ kpc' = kpc
          /\ sent' = sent /\ handled' = handled /\ dropped' = dropped \cup {at}
          /\ abort' = abort /\ fifo' = fifo /\ ipc' = "pushed"
      BY <1>5, <2>1 DEF Waited, given, state, workers
    <3>2. \A o : (Queued(o)' <=> Queued(o)) /\ (InHand(o)' <=> InHand(o))
      BY <3>1 DEF Queued, InHand
    <3>3. ~Offering' /\ ipc = "waited"
      BY <1>5, <3>1 DEF Waited, Offering
    <3>4. \A o : ~Offered(o)' /\ (Offered(o) => o = at)
      BY <3>3 DEF Offered
    <3>5. Apart'
      BY <1>0, <3>1 DEF Places, Apart
    <3>6. ASSUME NEW o \in 1 .. size PROVE Placed(o)'
      BY <1>0, <3>1, <3>2, <3>3, <3>4 DEF Places, Placed
    <3> QED
      BY <2>1, <3>1, <3>3, <3>5, <3>6 DEF Places
  <2>2. CASE ~abort
    <3>1. /\ size' = size /\ nworkers' = nworkers /\ at' = at /\ ent' = ent /\ kpc' = kpc
          /\ sent' = sent /\ handled' = handled /\ dropped' = dropped
          /\ abort' = abort /\ fifo' = fifo /\ ipc' = "push" /\ ipc = "waited"
      BY <1>5, <2>2 DEF Waited, given, state, workers
    <3> QED
      BY <1>0, <3>1, PlacesKept DEF Offering
  <2> QED
    BY <2>1, <2>2
<1>6. CASE FanNext
  <2>1. /\ size' = size /\ nworkers' = nworkers /\ at' = at + 1 /\ ent' = ent /\ kpc' = kpc
        /\ sent' = sent /\ handled' = handled /\ dropped' = dropped
        /\ abort' = abort /\ fifo' = fifo /\ ipc' = "top"
    BY <1>6 DEF FanNext, given, state, workers, history
  <2>2. ~Offering /\ ~Offering'
    BY <1>6, <2>1 DEF FanNext, Offering
  <2>5. Apart'
    BY <1>0, <2>1 DEF Places, Apart
  <2>4. \A o \in 1 .. size : o \in sent => o < at'
    <3>1. at \in Nat /\ size \in Nat
      BY <1>0, FanAssumption DEF FanTypeOK
    <3>2. \A o \in 1 .. size : o \in sent => o < at \/ o = at
      BY <1>0 DEF Places, Placed
    <3> QED
      BY <2>1, <3>1, <3>2
  <2>6. ASSUME NEW o \in 1 .. size PROVE Placed(o)'
    <3>1. Placed(o)
      BY <1>0 DEF Places
    <3>2. /\ (Queued(o)' <=> Queued(o)) /\ (InHand(o)' <=> InHand(o))
          /\ ~Offered(o)' /\ ~Offered(o) /\ (o \in sent => o < at')
      BY <2>1, <2>2, <2>4 DEF Queued, InHand, Offered
    <3> QED
      BY <2>1, <3>1, <3>2 DEF Placed
  <2> QED
    BY <1>0, <2>1, <2>2, <2>5, <2>6 DEF Places
<1> QED
  BY <1>1, <1>2, <1>3, <1>4, <1>5, <1>6 DEF Enumerator

(* The steps of a worker keep every object in one place: kfifo_out() moves *)
(* the first entry from the kfifo into its hand, and the work ends there.  *)
LEMMA WorkerPlaces == ASSUME FanInv, NEW w \in Fan, FanWorker(w) PROVE Places'
<1>0. FanTypeOK /\ Places /\ Apart
  BY DEF FanInv, Places
<1>1. CASE Pop(w) /\ fifo # <<>>
  <2>0. PICK e : e = Head(fifo)
    OBVIOUS
  <2>1. /\ size' = size /\ nworkers' = nworkers /\ at' = at /\ ipc' = ipc /\ abort' = abort
        /\ sent' = sent /\ handled' = handled /\ dropped' = dropped
        /\ kpc[w] = "pop" /\ kpc' = [kpc EXCEPT ![w] = "popped"]
        /\ ent' = [ent EXCEPT ![w] = e] /\ fifo' = Tail(fifo)
    BY <1>1, <2>0 DEF Pop, Step, given
  <2>2. /\ fifo \in Seq(1 .. size) /\ ent \in [Fan -> 0 .. size]
        /\ \A v \in Fan : kpc'[v] = IF v = w THEN "popped" ELSE kpc[v]
        /\ handled \in [1 .. size -> 0 .. 1] /\ size \in Nat
    BY <1>0, <2>1, FanAssumption DEF FanTypeOK
  <2>3. /\ e \in 1 .. size /\ e = fifo[1] /\ Len(fifo) \in Nat /\ Len(fifo) >= 1
        /\ Len(fifo') = Len(fifo) - 1 /\ \A j \in 1 .. Len(fifo') : fifo'[j] = fifo[j + 1]
    BY <1>1, <2>0, <2>1, <2>2, HeadTailProperties
  <2>4. Queued(e) /\ Placed(e) /\ ent[w] = NoEnt
    BY <1>0, <2>1, <2>3 DEF Queued, Places, Apart
  <2>5. e \in sent /\ ~Offered(e) /\ ~InHand(e) /\ handled[e] = 0
    BY <2>4 DEF Placed
  <2>6. Apart'
    <3>1. \A j, l \in 1 .. Len(fifo') : fifo'[j] = fifo'[l] => j = l
      BY <1>0, <2>3 DEF Apart
    <3>2. \A v \in Fan : ent'[v] # NoEnt <=> kpc'[v] \in {"popped", "work"}
      BY <1>0, <2>1, <2>2, <2>3 DEF Apart, NoEnt
    <3>3. \A v \in Fan : v # w => ent'[v] = ent[v] /\ ent[v] # e
      BY <1>0, <2>1, <2>2, <2>3, <2>5 DEF Apart, InHand, NoEnt
    <3>4. ent'[w] = e
      BY <2>1, <2>2
    <3>5. \A v, x \in Fan : ent'[v] = ent'[x] /\ ent'[v] # NoEnt => v = x
      BY <1>0, <3>3, <3>4 DEF Apart
    <3> QED
      BY <3>1, <3>2, <3>5 DEF Apart
  <2>7. ASSUME NEW o \in 1 .. size PROVE Placed(o)'
    <3>1. Placed(o)
      BY <1>0 DEF Places
    <3>2. Queued(o)' <=> (Queued(o) /\ o # e)
      <4>1. Queued(o)' => Queued(o)
        BY <2>3 DEF Queued
      <4>2. ~Queued(e)'
        BY <1>0, <2>3 DEF Queued, Apart
      <4>3. Queued(o) /\ o # e => Queued(o)'
        <5> SUFFICES ASSUME NEW j \in 1 .. Len(fifo), fifo[j] = o, o # e
                     PROVE  Queued(o)'
          BY DEF Queued
        <5>1. j - 1 \in 1 .. Len(fifo') /\ fifo'[j - 1] = o
          BY <2>3
        <5> QED
          BY <5>1 DEF Queued
      <4> QED
        BY <4>1, <4>2, <4>3
    <3>3. InHand(o)' <=> (InHand(o) \/ o = e)
      BY <2>1, <2>2 DEF InHand
    <3>4. Offered(o)' <=> Offered(o)
      BY <2>1 DEF Offered, Offering
    <3>5. CASE o = e
      BY <2>1, <2>5, <3>1, <3>2, <3>3, <3>4, <3>5 DEF Placed
    <3>6. CASE o # e
      BY <2>1, <3>1, <3>2, <3>3, <3>4, <3>6 DEF Placed
    <3> QED
      BY <3>5, <3>6
  <2> QED
    BY <1>0, <2>1, <2>6, <2>7 DEF Places, Offering
<1>2. CASE Work(w)
  <2>0. PICK e : e = ent[w]
    OBVIOUS
  <2>1. /\ size' = size /\ nworkers' = nworkers /\ at' = at /\ ipc' = ipc /\ abort' = abort
        /\ sent' = sent /\ dropped' = dropped /\ fifo' = fifo
        /\ kpc[w] = "work" /\ kpc' = [kpc EXCEPT ![w] = "pop"]
        /\ ent' = [ent EXCEPT ![w] = NoEnt]
        /\ handled' = [handled EXCEPT ![e] = handled[e] + 1]
    BY <1>2, <2>0 DEF Work, Step, given, state
  <2>2. /\ ent \in [Fan -> 0 .. size]
        /\ \A v \in Fan : kpc'[v] = IF v = w THEN "pop" ELSE kpc[v]
        /\ handled \in [1 .. size -> 0 .. 1] /\ size \in Nat
    BY <1>0, <2>1, FanAssumption DEF FanTypeOK
  <2>3. e \in 1 .. size /\ InHand(e) /\ e # NoEnt
    BY <1>0, <2>0, <2>1, <2>2 DEF Apart, NoEnt, InHand
  <2>4. e \in sent /\ ~Offered(e) /\ handled[e] = 0 /\ ~Queued(e)
    BY <1>0, <2>3 DEF Places, Placed
  <2>5. Apart'
    BY <1>0, <2>1, <2>2 DEF Apart
  <2>6. \A v \in Fan : v # w => ent[v] # e
    BY <1>0, <2>0, <2>3 DEF Apart
  <2>7. ASSUME NEW o \in 1 .. size PROVE Placed(o)'
    <3>1. Placed(o)
      BY <1>0 DEF Places
    <3>2. (Queued(o)' <=> Queued(o)) /\ (Offered(o)' <=> Offered(o))
      BY <2>1 DEF Queued, Offered, Offering
    <3>3. InHand(o)' <=> (InHand(o) /\ o # e)
      BY <2>0, <2>1, <2>2, <2>6 DEF InHand, NoEnt
    <3>4. handled'[o] = IF o = e THEN 1 ELSE handled[o]
      BY <2>1, <2>2, <2>3, <2>4
    <3>5. CASE o = e
      BY <2>1, <2>4, <3>1, <3>2, <3>3, <3>4, <3>5 DEF Placed
    <3>6. CASE o # e
      BY <2>1, <3>1, <3>2, <3>3, <3>4, <3>6 DEF Placed
    <3> QED
      BY <3>5, <3>6
  <2> QED
    BY <1>0, <2>1, <2>5, <2>7 DEF Places, Offering
<1>3. CASE \/ FanEnv(w) \/ FanEnvFails(w) \/ (Pop(w) /\ fifo = <<>>) \/ TestDone(w)
           \/ QueueCons(w) \/ TestCons(w) \/ ConsAwake(w) \/ WakeProd(w)
           \/ FanDec(w) \/ FanWake(w)
  <2>1. /\ size' = size /\ nworkers' = nworkers /\ at' = at /\ fifo' = fifo /\ ent' = ent
        /\ sent' = sent /\ handled' = handled /\ dropped' = dropped /\ ipc' = ipc
    <3>1. CASE FanEnv(w)
      BY <3>1 DEF FanEnv, given, state, history
    <3>2. CASE FanEnvFails(w)
      BY <3>2 DEF FanEnvFails, given, state, history
    <3>3. CASE Pop(w) /\ fifo = <<>>
      BY <3>3 DEF Pop, given, state, history
    <3>4. CASE TestDone(w)
      BY <3>4 DEF TestDone, given, state, history
    <3>5. CASE QueueCons(w)
      BY <3>5 DEF QueueCons, given, state, history
    <3>6. CASE TestCons(w)
      BY <3>6 DEF TestCons, given, state, history
    <3>7. CASE ConsAwake(w)
      BY <3>7 DEF ConsAwake, given, state, history
    <3>8. CASE WakeProd(w)
      BY <3>8 DEF WakeProd, given, state, history
    <3>9. CASE FanDec(w)
      BY <3>9 DEF FanDec, given, state, history
    <3>10. CASE FanWake(w)
      BY <3>10 DEF FanWake, given, state, history
    <3> QED
      BY <1>3, <3>1, <3>2, <3>3, <3>4, <3>5, <3>6, <3>7, <3>8, <3>9, <3>10
  <2>5. abort => abort'
    BY <1>3, ZenonT(40)
    DEF FanEnv, FanEnvFails, Pop, TestDone, QueueCons, TestCons, ConsAwake,
        WakeProd, FanDec, FanWake, given, state
  <2>2. \E label : /\ kpc' = [kpc EXCEPT ![w] = label]
                   /\ label \in {"popped", "work"} <=> kpc[w] \in {"popped", "work"}
    BY <1>3, Zenon DEF FanEnv, FanEnvFails, Pop, TestDone, QueueCons, TestCons, ConsAwake,
                WakeProd, FanDec, FanWake, Step
  <2>3. \A v \in Fan : kpc'[v] \in {"popped", "work"} <=> kpc[v] \in {"popped", "work"}
    BY <1>0, <2>2 DEF FanTypeOK
  <2>4. Offering' <=> Offering
    BY <2>1 DEF Offering
  <2> QED
    BY <1>0, <2>1, <2>3, <2>4, <2>5, PlacesKept
<1> QED
  BY <1>1, <1>2, <1>3 DEF FanWorker

-----------------------------------------------------------------------------
(* A step that queues nothing and lets no worker come to a test or an end  *)
(* it was not at keeps Late.                                               *)
LEMMA LateKept ==
  ASSUME Late, ~abort' => ~abort, size' = size, fandone => fandone',
         \A o \in 1 .. size : Queued(o)' => Queued(o),
         \A w \in Fan : kpc'[w] \in {"test", "dec", "wake", "finished"} =>
           /\ kpc[w] \in {"test", "dec", "wake", "finished"} /\ window'[w] = window[w]
           /\ kpc'[w] # "test" => kpc[w] # "test" \/ fandone \/ abort
  PROVE  Late'
<1> SUFFICES ASSUME ~abort', NEW w \in Fan,
                    kpc'[w] \in {"test", "dec", "wake", "finished"}
             PROVE  /\ \A o \in 1 .. size' : Queued(o)' => o \in window'[w]
                    /\ kpc'[w] # "test" => fandone'
  BY DEF Late
<1>1. /\ \A o \in 1 .. size : Queued(o) => o \in window[w]
      /\ kpc[w] # "test" => fandone
  BY DEF Late
<1> QED
  BY <1>1, Zenon

(* The steps of lfu_fanout_init() keep Late: nothing is queued after done, *)
(* and what is queued before is seen to be by the workers at their test.   *)
LEMMA EnumLate == ASSUME FanInv, Enumerator PROVE Late'
<1>0. FanTypeOK /\ Phases /\ Late
  BY DEF FanInv
<1>1. CASE StartFan
  <2>1. /\ \A w \in Fan : kpc'[w] = IF w = started + 1 THEN "env" ELSE kpc[w]
        /\ fifo' = fifo /\ size' = size /\ window' = window /\ fandone' = fandone /\ abort' = abort
    BY <1>0, <1>1 DEF StartFan, FanTypeOK, given, state, history
  <2> QED
    BY <1>0, <2>1, LateKept DEF Queued
<1>2. CASE StartFanFails
  BY <1>2 DEF StartFanFails, Late
<1>3. CASE Push /\ Len(fifo) < FifoSize
  <2>1. /\ fifo \in Seq(1 .. size) /\ at \in 1 .. size /\ ~fandone
    BY <1>0, <1>3 DEF Push, FanTypeOK, Phases, FanInv, Places, Offering
  <2>2. /\ fifo' = Append(fifo, at) /\ size' = size /\ kpc' = kpc /\ abort' = abort
        /\ window' = [w \in Fan |-> IF kpc[w] = "test" THEN window[w] \cup {at} ELSE window[w]]
    BY <1>3 DEF Push, given, workers
  <2>3. /\ Len(fifo') = Len(fifo) + 1 /\ Len(fifo) \in Nat /\ fifo'[Len(fifo) + 1] = at
        /\ \A j \in 1 .. Len(fifo) : fifo'[j] = fifo[j]
    BY <2>1, <2>2
  <2> SUFFICES ASSUME ~abort', NEW w \in Fan,
                      kpc'[w] \in {"test", "dec", "wake", "finished"}
               PROVE  /\ \A o \in 1 .. size' : Queued(o)' => o \in window'[w]
                      /\ kpc'[w] # "test" => fandone'
    BY DEF Late
  <2>4. /\ \A o \in 1 .. size : Queued(o) => o \in window[w]
        /\ kpc[w] = "test"
    BY <1>0, <2>1, <2>2 DEF Late
  <2>5. window'[w] = window[w] \cup {at}
    BY <2>2, <2>4
  <2>6. ASSUME NEW o \in 1 .. size, Queued(o)' PROVE o \in window'[w]
    <3>1. Queued(o) \/ o = at
      BY <2>3, <2>6 DEF Queued
    <3> QED
      BY <2>4, <2>5, <3>1
  <2> QED
    BY <2>2, <2>4, <2>6
<1>4. CASE \/ SetupFanFails \/ SetupFan \/ AllStarted \/ LoopTop \/ Rec \/ RecFails
           \/ (Push /\ ~(Len(fifo) < FifoSize)) \/ WakeCons \/ QueueProd \/ TestProd
           \/ ProdAwake \/ Waited \/ FanNext \/ FanEnds \/ SetDone \/ Poll \/ PollEnds
  <2>1. CASE SetDone
    <3>1. /\ kpc' = kpc /\ fifo' = fifo /\ size' = size /\ window' = window /\ abort' = abort
          /\ fandone'
      BY <2>1 DEF SetDone, given, state, workers, history
    <3> QED
      BY <1>0, <3>1, LateKept DEF Queued
  <2>2. CASE ~SetDone
    <3>1. /\ kpc' = kpc /\ fifo' = fifo /\ size' = size /\ window' = window /\ abort' = abort
          /\ fandone' = fandone
      <4>1. CASE SetupFanFails
        BY <4>1 DEF SetupFanFails, given, state, workers, history
      <4>2. CASE SetupFan
        BY <4>2 DEF SetupFan, given, state, workers, history
      <4>3. CASE AllStarted
        BY <4>3 DEF AllStarted, given, state, workers, history
      <4>4. CASE LoopTop
        BY <4>4 DEF LoopTop, given, state, workers, history
      <4>5. CASE Rec
        BY <4>5 DEF Rec, given, state, workers, history
      <4>6. CASE RecFails
        BY <4>6 DEF RecFails, given, state, workers, history
      <4>7. CASE Push /\ ~(Len(fifo) < FifoSize)
        BY <4>7 DEF Push, given, state, workers, history
      <4>8. CASE WakeCons
        BY <4>8 DEF WakeCons, given, state, workers, history
      <4>9. CASE QueueProd
        BY <4>9 DEF QueueProd, given, state, workers, history
      <4>10. CASE TestProd
        BY <4>10 DEF TestProd, given, state, workers, history
      <4>11. CASE ProdAwake
        BY <4>11 DEF ProdAwake, given, state, workers, history
      <4>12. CASE Waited
        BY <4>12 DEF Waited, given, state, workers, history
      <4>13. CASE FanNext
        BY <4>13 DEF FanNext, given, state, workers, history
      <4>14. CASE FanEnds
        BY <4>14 DEF FanEnds, given, state, workers, history
      <4>15. CASE Poll
        BY <4>15 DEF Poll, given, state, workers, history
      <4>16. CASE PollEnds
        BY <4>16 DEF PollEnds, given, state, workers, history
      <4> QED
        BY <1>4, <2>2, <4>1, <4>2, <4>3, <4>4, <4>5, <4>6, <4>7, <4>8, <4>9, <4>10, <4>11,
           <4>12, <4>13, <4>14, <4>15, <4>16
    <3> QED
      BY <1>0, <3>1, LateKept DEF Queued
  <2> QED
    BY <2>1, <2>2
<1> QED
  BY <1>1, <1>2, <1>3, <1>4 DEF Enumerator

(* The steps of a worker keep Late.                                        *)
LEMMA WorkerLate == ASSUME FanInv, NEW w \in Fan, FanWorker(w) PROVE Late'
<1>0. FanTypeOK /\ Late
  BY DEF FanInv
<1>1. CASE FanEnvFails(w)
  BY <1>1 DEF FanEnvFails, Late
<1>2. CASE Pop(w) /\ fifo = <<>>
  <2>1. /\ fifo' = <<>> /\ size' = size /\ fandone' = fandone /\ abort' = abort
        /\ \A v \in Fan : kpc'[v] = IF v = w THEN "test" ELSE kpc[v]
    BY <1>0, <1>2 DEF Pop, Step, FanTypeOK, given
  <2>2. \A o \in 1 .. size' : ~Queued(o)'
    BY <2>1 DEF Queued
  <2> QED
    BY <1>0, <2>1, <2>2 DEF Late
<1>3. CASE Pop(w) /\ fifo # <<>>
  <2>1. /\ fifo' = Tail(fifo) /\ size' = size /\ fandone' = fandone /\ abort' = abort
        /\ window' = window /\ \A v \in Fan : kpc'[v] = IF v = w THEN "popped" ELSE kpc[v]
        /\ fifo \in Seq(1 .. size)
    BY <1>0, <1>3 DEF Pop, Step, FanTypeOK, given
  <2>2. /\ Len(fifo) \in Nat /\ Len(fifo') = Len(fifo) - 1
        /\ \A j \in 1 .. Len(fifo') : fifo'[j] = fifo[j + 1]
    BY <1>3, <2>1, HeadTailProperties
  <2>3. \A o \in 1 .. size : Queued(o)' => Queued(o)
    BY <2>2 DEF Queued
  <2> QED
    BY <1>0, <2>1, <2>3, LateKept
<1>4. CASE \/ FanEnv(w) \/ TestDone(w) \/ QueueCons(w) \/ TestCons(w) \/ ConsAwake(w)
           \/ WakeProd(w) \/ Work(w) \/ FanDec(w) \/ FanWake(w)
  <2>1. /\ fifo' = fifo /\ size' = size /\ window' = window /\ fandone' = fandone
        /\ abort' = abort
    BY <1>4 DEF FanEnv, TestDone, QueueCons, TestCons, ConsAwake, WakeProd, Work, FanDec,
                FanWake, given, state, history
  <2>2. \A v \in Fan : kpc'[v] \in {"test", "dec", "wake", "finished"} =>
          /\ kpc[v] \in {"test", "dec", "wake", "finished"}
          /\ kpc'[v] # "test" => kpc[v] # "test" \/ fandone \/ abort
    <3>1. CASE TestDone(w)
      BY <1>0, <3>1 DEF TestDone, Step, FanTypeOK
    <3>2. CASE FanDec(w) \/ FanWake(w)
      BY <1>0, <3>2 DEF FanDec, FanWake, Step, FanTypeOK
    <3>3. CASE FanEnv(w) \/ QueueCons(w) \/ TestCons(w) \/ ConsAwake(w) \/ WakeProd(w) \/ Work(w)
      BY <1>0, <3>3 DEF FanEnv, QueueCons, TestCons, ConsAwake, WakeProd, Work, Step, FanTypeOK
    <3> QED
      BY <1>4, <3>1, <3>2, <3>3, Zenon
  <2> QED
    BY <1>0, <2>1, <2>2, LateKept DEF Queued
<1> QED
  BY <1>1, <1>2, <1>3, <1>4 DEF FanWorker

-----------------------------------------------------------------------------
(* FanInv is an invariant of lfu_fanout, however its threads interleave.   *)
THEOREM FanInvHolds == FanSpec => []FanInv
<1>1. FanInit => FanInv
  BY FanInvInit
<1>2. FanInv /\ [FanStep]_fanvars => FanInv'
  <2> SUFFICES ASSUME FanInv, [FanStep]_fanvars PROVE FanInv'
    OBVIOUS
  <2>1. CASE Enumerator
    BY <2>1, EnumTypes, EnumPhases, EnumPlaces, EnumLate DEF FanInv
  <2>2. CASE \E w \in Fan : FanWorker(w)
    BY <2>2, WorkerTypes, WorkerPhases, WorkerPlaces, WorkerLate DEF FanInv
  <2>3. CASE UNCHANGED fanvars
    <3>1. FanTypeOK'
      BY <2>3, BusySame DEF fanvars, FanInv, FanTypeOK, UpCounts, Unstarted
    <3>2. Phases'
      BY <2>3, BusySame DEF fanvars, FanInv, Phases
    <3>3. Places'
      BY <2>3, PlacesKept DEF fanvars, FanInv, Offering
    <3>4. Late'
      BY <2>3, LateKept DEF fanvars, FanInv, Queued
    <3> QED
      BY <3>1, <3>2, <3>3, <3>4 DEF FanInv
  <2> QED
    BY <2>1, <2>2, <2>3 DEF FanStep
<1> QED
  BY <1>1, <1>2, PTL DEF FanSpec

(* Each object the walk counted is offered, queued, in one hand, handled   *)
(* or given up, and in one of these only.                                  *)
THEOREM FanHandsOnce == FanSpec => []HandedOnce
<1>1. FanInv => HandedOnce
  <2> SUFFICES ASSUME FanInv, nworkers > 0 PROVE HandedOnce
    BY DEF HandedOnce
  <2>1. ASSUME NEW o \in sent
        PROVE  /\ Offered(o) \/ Queued(o) \/ InHand(o) \/ handled[o] = 1 \/ o \in dropped
               /\ Queued(o) => ~InHand(o) /\ handled[o] = 0
               /\ InHand(o) => handled[o] = 0
    <3>1. o \in 1 .. size
      BY DEF FanInv, FanTypeOK
    <3>2. Placed(o)
      BY <3>1 DEF FanInv, Places
    <3> QED
      BY <3>2 DEF Placed
  <2> QED
    BY <2>1 DEF HandedOnce, FanInv, Places, Apart
<1> QED
  BY <1>1, FanInvHolds, PTL

(* An entry that is left in the kfifo at the end, without an abort, was    *)
(* queued while every worker stood between its last look and its test.     *)
THEOREM FanLeavesOnlyLate == FanSpec => []OnlyLateEntriesLeft
<1>1. FanInv => OnlyLateEntriesLeft
  <2> SUFFICES ASSUME FanInv, ipc = "gone", freed, nworkers > 0, ~abort,
                      NEW o \in sent, handled[o] = 0, NEW w \in 1 .. nworkers
               PROVE  o \in window[w]
    BY DEF OnlyLateEntriesLeft
  <2>1. w \in Fan /\ o \in 1 .. size /\ started = nworkers /\ Busy = {}
    BY FanAssumption DEF FanInv, FanTypeOK, Phases, Fan
  <2>2. kpc[w] \in {"wake", "finished"}
    <3>1. w <= started /\ w \notin Busy
      BY <2>1
    <3>2. kpc[w] # "none"
      BY <2>1, <3>1 DEF FanInv, Phases
    <3> QED
      BY <2>1, <3>1, <3>2 DEF Busy
  <2>3. ~InHand(o) /\ ~Offered(o) /\ o \notin dropped
    BY <2>1 DEF InHand, Busy, Offered, Offering, FanInv, Places
  <2>4. Queued(o)
    BY <2>1, <2>3 DEF FanInv, Places, Placed
  <2> QED
    BY <2>1, <2>2, <2>4 DEF FanInv, Late
<1> QED
  BY <1>1, FanInvHolds, PTL

(* The kfifo is freed after the last access of any worker to it.           *)
THEOREM FanFifoOutlives == FanSpec => []FifoOutlives
<1>1. FanInv => FifoOutlives
  BY DEF FanInv, Phases, Busy, FifoOutlives
<1> QED
  BY <1>1, FanInvHolds, PTL

==============================================================================
