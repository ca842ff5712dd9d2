------------------------------- MODULE MCKernel -------------------------------
(***************************************************************************)
(* The kernel side apart from the scan itself, for TLC: the measurement    *)
(* modules lfu_par and lfu_fanout, and the control plane of lfu_ring.      *)
(* They share nothing; each behaviour follows one of them, and the         *)
(* variables of the other two rest.                                        *)
(***************************************************************************)
EXTENDS LfuPar, LfuFanout, LfuRingCtl

VARIABLE machine    \* "par", "fanout" or "ring"

MCTables == SUBSET (1 .. 4)

MCAsked == {[needs |-> {}, attrs |-> {}],
            [needs |-> {"lov"}, attrs |-> {}],
            [needs |-> {"som", "link"}, attrs |-> {"compressed"}]}

\* No OSD found; ZFS; ldiskfs, with and without the otable-xattr patch.
MCDevices == {[can_supply |-> {}, attr_mask |-> {}],
              [can_supply |-> Scratch, attr_mask |-> {"append"}],
              [can_supply |-> Scratch, attr_mask |-> {"append", "compressed"}],
              [can_supply |-> {}, attr_mask |-> {"append", "compressed"}]}

kernelvars == <<machine, vars, fanvars, ctlvars>>

-----------------------------------------------------------------------------
ParIdle ==
  /\ table = {} /\ limit = 0 /\ priv = TRUE
  /\ mpc = "gone" /\ created = 0 /\ rc = 0
  /\ cursor = 0 /\ running = 0 /\ done = FALSE /\ err = 0 /\ objects = 0
  /\ wpc = [w \in Workers |-> "none"] /\ start = [w \in Workers |-> 0]
  /\ pos = [w \in Workers |-> Nowhere] /\ n = [w \in Workers |-> 0]
  /\ wrc = [w \in Workers |-> 0]
  /\ counted = [o \in {} |-> 0] /\ faults = {}

FanIdle ==
  /\ nworkers = 0 /\ size = 0 /\ ipc = "gone" /\ started = 0 /\ at = 1
  /\ fifo = <<>> /\ up = 0 /\ fandone = FALSE /\ abort = FALSE /\ freed = FALSE
  /\ prodq = FALSE /\ consq = {}
  /\ kpc = [w \in Fan |-> "none"] /\ ent = [w \in Fan |-> NoEnt]
  /\ sent = {} /\ handled = [o \in {} |-> 0] /\ dropped = {}
  /\ window = [w \in Fan |-> {}]

CtlIdle == CtlInit /\ device = [can_supply |-> {}, attr_mask |-> {}]

KernelInit ==
  \/ machine = "par" /\ Init /\ FanIdle /\ CtlIdle
  \/ machine = "fanout" /\ ParIdle /\ FanInit /\ CtlIdle
  \/ machine = "ring" /\ ParIdle /\ FanIdle /\ CtlInit

\* A module that is gone stays so once its threads have ended.
Ended ==
  \/ machine = "par" /\ mpc = "gone" /\ \A w \in Workers : wpc[w] \in {"none", "finished"}
  \/ machine = "fanout" /\ ipc = "gone" /\ \A w \in Fan : kpc[w] \in {"none", "finished"}

ParStep == Main \/ \E w \in Workers : Worker(w)

KernelNext ==
  \/ machine = "par" /\ ParStep /\ UNCHANGED <<machine, fanvars, ctlvars>>
  \/ machine = "fanout" /\ FanStep /\ UNCHANGED <<machine, vars, ctlvars>>
  \/ machine = "ring" /\ CtlStep /\ UNCHANGED <<machine, vars, fanvars>>
  \/ Ended /\ UNCHANGED kernelvars

\* The fairness of the two modules; nothing obliges a process to use the ring.
KernelSpec ==
  /\ KernelInit /\ [][KernelNext]_kernelvars
  /\ WF_vars(Main) /\ \A w \in Workers : WF_vars(Worker(w))
  /\ WF_fanvars(Enumerator) /\ \A w \in Fan : WF_fanvars(FanWorker(w))
=============================================================================
