------------------------------ MODULE LfuRingCtl ------------------------------
(***************************************************************************)
(* The control plane of /dev/lfu_ring: open, SET_FILTER, the start of the  *)
(* scan by the first read, and release, with every allocation they make.   *)
(* LfuRing models the scan between start and release.                      *)
(*                                                                         *)
(* SET_FILTER and the start run entirely under r->lock and are one step    *)
(* each; open and release hold nothing but lfu_open_cnt.  Calls that       *)
(* change nothing (INFO, STATS, a busy open, a refused filter, a failed    *)
(* kthread_create()) are stutters.                                         *)
(***************************************************************************)
EXTENDS Naturals, FiniteSets

CONSTANTS
  Openers,     \* processes that open the device
  Asked,       \* the filters they set: records [needs, attrs]
  Devices,     \* what lfu_ring_probe() may find: [can_supply, attr_mask]
  MaxFails,    \* bound on failed calls of lfu_ring_alloc_scratch()
  Null         \* the null pointer

Scratch == {"som", "lov", "lmv", "link"}

ASSUME CtlAssumption ==
  /\ MaxFails \in Nat /\ Null \notin Openers \cup Asked
  /\ \A d \in Devices : d.can_supply \subseteq Scratch

VARIABLES
  device,      \* the OSD under dev
  cnt, lr,     \* lfu_open_cnt and lr
  opc,         \* per process: its file, or where it is in open or release
  begun,       \* r->started
  filt,        \* r->filter
  scratch,     \* which of r->xa_som, xa_lov, xa_lmv, xa_link are not NULL
  heap,        \* live allocations of each kind
  fails        \* failed calls of lfu_ring_alloc_scratch() so far

ctlvars == <<device, cnt, lr, opc, begun, filt, scratch, heap, fails>>

Kinds == Scratch \cup {"ring", "buf", "filter"}

CtlInit ==
  /\ device \in Devices
  /\ cnt = 0 /\ lr = Null
  /\ opc = [p \in Openers |-> "closed"]
  /\ begun = [p \in Openers |-> FALSE]
  /\ filt = [p \in Openers |-> Null]
  /\ scratch = [p \in Openers |-> {}]
  /\ heap = [kind \in Kinds |-> 0]
  /\ fails = 0

-----------------------------------------------------------------------------
(* lfu_ring_open()                                                         *)

At(p, label) == opc' = [opc EXCEPT ![p] = label]
Alloc(kinds) == [kind \in Kinds |-> heap[kind] + (IF kind \in kinds THEN 1 ELSE 0)]
Free(kinds) == [kind \in Kinds |-> heap[kind] - (IF kind \in kinds THEN 1 ELSE 0)]

\* atomic_cmpxchg(&lfu_open_cnt, 0, 1)
Claim(p) ==
  /\ opc[p] = "closed" /\ cnt = 0
  /\ cnt' = 1 /\ At(p, "ring")
  /\ UNCHANGED <<device, lr, begun, filt, scratch, heap, fails>>

\* kzalloc() and vmalloc(); one that fails undoes the other.
AllocRing(p) ==
  /\ opc[p] = "ring"
  /\ heap' = Alloc({"ring", "buf"}) /\ At(p, "publish")
  /\ UNCHANGED <<device, cnt, lr, begun, filt, scratch, fails>>

AllocFails(p) ==
  /\ opc[p] = "ring"
  /\ At(p, "unclaim")
  /\ UNCHANGED <<device, cnt, lr, begun, filt, scratch, heap, fails>>

Publish(p) ==
  /\ opc[p] = "publish"
  /\ lr' = p /\ At(p, "open")
  /\ UNCHANGED <<device, cnt, begun, filt, scratch, heap, fails>>

\* atomic_set(&lfu_open_cnt, 0), the last step of a failed open and of release.
Unclaim(p) ==
  /\ opc[p] = "unclaim"
  /\ cnt' = 0 /\ At(p, "closed")
  /\ UNCHANGED <<device, lr, begun, filt, scratch, heap, fails>>

-----------------------------------------------------------------------------
(* SET_FILTER and the first read                                           *)

\* lfu_ring_alloc_scratch() is taken for done when xa_som is there.
Allocates(p, f) == f.needs # {} /\ "som" \notin scratch[p]

\* Mutant: the last of the four pointers is not tested.
AllocatedMut(got) == Scratch \ {"link"} \subseteq got
Allocated(got) == got = Scratch

\* Not started, and the OSD can answer it.
Accepts(p, f) ==
  /\ opc[p] = "open" /\ ~begun[p]
  /\ f.needs \subseteq device.can_supply /\ f.attrs \subseteq device.attr_mask

\* Mutant: the old filter is not freed.
InstallMut(p, got) == Alloc(got \cup {"filter"})

\* kfree(r->filter); r->filter = rf
Install(p, got) == IF filt[p] = Null THEN Alloc(got \cup {"filter"}) ELSE Alloc(got)

\* Nothing to allocate, or all four allocations succeed.
SetFilter(p, f, got) ==
  /\ Accepts(p, f)
  /\ IF Allocates(p, f)
     THEN Allocated(got) /\ scratch' = [scratch EXCEPT ![p] = got]
     ELSE got = {} /\ UNCHANGED scratch
  /\ filt' = [filt EXCEPT ![p] = f]
  /\ heap' = Install(p, got)
  /\ UNCHANGED <<device, cnt, lr, opc, begun, fails>>

\* -ENOMEM: the pointers stay as far as they were got, the filter does not.
SetFilterFails(p, f, got) ==
  /\ Accepts(p, f) /\ Allocates(p, f) /\ ~Allocated(got) /\ fails < MaxFails
  /\ scratch' = [scratch EXCEPT ![p] = got]
  /\ heap' = Alloc(got) /\ fails' = fails + 1
  /\ UNCHANGED <<device, cnt, lr, opc, begun, filt>>

\* lfu_ring_start()
RingStart(p) ==
  /\ opc[p] = "open" /\ ~begun[p]
  /\ begun' = [begun EXCEPT ![p] = TRUE]
  /\ UNCHANGED <<device, cnt, lr, opc, filt, scratch, heap, fails>>

-----------------------------------------------------------------------------
(* lfu_ring_release(), after the last call on the file                     *)

Close(p) ==
  /\ opc[p] = "open"
  /\ begun' = [begun EXCEPT ![p] = FALSE] /\ At(p, "free")
  /\ UNCHANGED <<device, cnt, lr, filt, scratch, heap, fails>>

\* What the ring of process p points to, and the ring.
Reached(p) ==
  (IF opc[p] \in {"publish", "open", "free"} THEN {"ring", "buf"} ELSE {})
  \cup scratch[p] \cup (IF filt[p] = Null THEN {} ELSE {"filter"})

FreeRing(p) ==
  /\ opc[p] = "free"
  /\ heap' = Free(Reached(p)) /\ At(p, "unlr")
  /\ scratch' = [scratch EXCEPT ![p] = {}] /\ filt' = [filt EXCEPT ![p] = Null]
  /\ UNCHANGED <<device, cnt, lr, begun, fails>>

\* Mutant: the device is given back before lr is cleared.
ClearLrMut(p) ==
  \/ /\ opc[p] = "unlr"
     /\ cnt' = 0 /\ At(p, "late")
     /\ UNCHANGED <<device, lr, begun, filt, scratch, heap, fails>>
  \/ /\ opc[p] = "late"
     /\ lr' = Null /\ At(p, "closed")
     /\ UNCHANGED <<device, cnt, begun, filt, scratch, heap, fails>>

ClearLr(p) ==
  /\ opc[p] = "unlr"
  /\ lr' = Null /\ At(p, "unclaim")
  /\ UNCHANGED <<device, cnt, begun, filt, scratch, heap, fails>>

CtlStep ==
  \E p \in Openers :
    \/ Claim(p) \/ AllocRing(p) \/ AllocFails(p) \/ Publish(p) \/ Unclaim(p)
    \/ RingStart(p) \/ Close(p) \/ FreeRing(p) \/ ClearLr(p)
    \/ \E f \in Asked, got \in SUBSET Scratch :
         SetFilter(p, f, got) \/ SetFilterFails(p, f, got)

CtlSpec == CtlInit /\ [][CtlStep]_ctlvars

-----------------------------------------------------------------------------
(* Properties                                                              *)

\* "one open at a time": no two processes are between the exchange that claims
\* the device and the store that gives it back, and lr, set by one process and
\* cleared by another, is the ring of the file that is open.  Nor is the device
\* left busy with nobody there to give it back.
OneOpener ==
  /\ \A p, q \in Openers : opc[p] # "closed" /\ opc[q] # "closed" => p = q
  /\ \A p \in Openers : opc[p] = "open" => lr = p
  /\ cnt = 1 => \E p \in Openers : opc[p] # "closed"

\* A scan never sees its filter or its scratch buffers change: whatever call
\* comes after the first read, on any file, leaves both alone until release.
FilterFixed ==
  [][\A p \in Openers : begun[p] /\ begun'[p] =>
       filt'[p] = filt[p] /\ scratch'[p] = scratch[p]]_ctlvars

\* A scan whose filter demands extended attributes has the buffers for them,
\* as long as no allocation of the four failed before.  (After one did, a second
\* SET_FILTER takes the four for allocated because xa_som is.)
ScratchReady ==
  fails = 0 => \A p \in Openers :
    begun[p] /\ filt[p] # Null => filt[p].needs \subseteq scratch[p]

\* Every live allocation is one that some open ring points to, through any
\* sequence of failed opens, replaced filters and releases without a failed
\* allocation of the scratch buffers.  (After one failed for xa_som only, a
\* second attempt overwrites the pointers to the others.)
HeapAccounted ==
  fails = 0 => \A kind \in Kinds :
    heap[kind] = Cardinality({p \in Openers : kind \in Reached(p)})

\* The parts of the inductive invariant.  Whoever is past the exchange holds
\* the count; only an open file has begun, and only one that is open or being
\* freed has a filter or buffers.
Types ==
  /\ device \in Devices /\ cnt \in {0, 1} /\ fails \in Nat
  /\ opc \in [Openers -> {"closed", "ring", "publish", "open", "free", "unlr", "unclaim"}]
  /\ begun \in [Openers -> BOOLEAN] /\ filt \in [Openers -> Asked \cup {Null}]
  /\ scratch \in [Openers -> SUBSET Scratch] /\ heap \in [Kinds -> Nat]
Holder ==
  /\ cnt = 1 => \E p \in Openers : opc[p] # "closed"
  /\ \A p \in Openers :
       /\ opc[p] # "closed" => cnt = 1 /\ \A q \in Openers \ {p} : opc[q] = "closed"
       /\ opc[p] = "open" => lr = p
       /\ begun[p] => opc[p] = "open"
       /\ opc[p] \notin {"open", "free"} => filt[p] = Null /\ scratch[p] = {}

\* The buffers come together, and with the filter that needs them.
Served ==
  fails = 0 => \A p \in Openers :
    /\ scratch[p] \in {{}, Scratch}
    /\ filt[p] # Null => filt[p].needs \subseteq scratch[p]

\* What is reached is there, and there once unless buffers were lost.
Live(kind) == \E p \in Openers : kind \in Reached(p)
Counted ==
  \A kind \in Kinds :
    /\ Live(kind) => heap[kind] >= 1
    /\ fails = 0 => heap[kind] = IF Live(kind) THEN 1 ELSE 0

\* The inductive invariant behind the properties above: types, one holder of
\* the device, filters served by their buffers, allocations counted.
CtlInv == Types /\ Holder /\ Served /\ Counted
=============================================================================
