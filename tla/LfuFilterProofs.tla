--------------------------- MODULE LfuFilterProofs ---------------------------
(***************************************************************************)
(* A query and the ring that is asked to evaluate it.                      *)
(*                                                                         *)
(* The control plane of /dev/lfu_ring, which takes the filter and serves   *)
(* it, is correct for any number of processes, any filters and any OSD.    *)
(*                                                                         *)
(* For every command line, every set of objects and every backend, the     *)
(* verdict on an object whose demanded xattrs were read is the three-      *)
(* valued conjunction of the predicates over the whole object.             *)
(* The argument: lfu_pred_new() adds what its field needs to the demanded  *)
(* xattrs (FilterInv); a predicate asked of the demanded xattrs answers as *)
(* it does when asked of all of them (DemandedSuffice); and the two loops  *)
(* leave behind them only predicates that hold or are undecided (LoopInv). *)
(* What the options compile to is what lfu_filter_validate() lets through. *)
(***************************************************************************)
EXTENDS LfuQuery, LfuRingCtl, FiniteSetTheorems, TLAPS

-----------------------------------------------------------------------------
(* The control plane.                                                      *)

(* CtlInv holds of the ring before the first open.                         *)
LEMMA CtlInvInit == CtlInit => CtlInv
<1> SUFFICES ASSUME CtlInit PROVE CtlInv
  OBVIOUS
<1>1. Types /\ Holder /\ Served
  BY DEF CtlInit, Types, Holder, Served, Scratch, Kinds
<1>2. \A p \in Openers : Reached(p) = {}
  BY DEF CtlInit, Reached
<1>3. Counted
  BY <1>2 DEF Counted, Live, CtlInit
<1> QED
  BY <1>1, <1>3 DEF CtlInv

(* A step of one process that holds the device changes what is reached     *)
(* only through that process: the others have nothing.                     *)
LEMMA OnlyHolderReaches ==
  ASSUME CtlInv, NEW p \in Openers, opc[p] # "closed"
  PROVE  \A q \in Openers \ {p} : Reached(q) = {}
  BY DEF CtlInv, Holder, Reached

(* With one holder, an allocation is live when the holder reaches it.      *)
LEMMA LiveIsReached ==
  ASSUME NEW p \in Openers, \A q \in Openers \ {p} : Reached(q) = {}
  PROVE  \A kind : Live(kind) <=> kind \in Reached(p)
  BY DEF Live

-----------------------------------------------------------------------------
(* Steps that leave heap and what is reached alone keep the count right.   *)
LEMMA CountedKept ==
  ASSUME Counted, heap' = heap, fails' = fails,
         \A q \in Openers : Reached(q)' = Reached(q)
  PROVE  Counted'
<1>1. \A kind : Live(kind)' <=> Live(kind)
  BY DEF Live
<1> QED
  BY <1>1 DEF Counted

(* The steps of open and release that allocate and free nothing, and the   *)
(* start of the scan, keep CtlInv.                                         *)
LEMMA CtlInvQuiet ==
  ASSUME CtlInv, NEW p \in Openers,
         \/ Claim(p) \/ AllocFails(p) \/ Publish(p) \/ Unclaim(p)
         \/ RingStart(p) \/ Close(p) \/ ClearLr(p)
  PROVE  CtlInv'
<1> USE DEF CtlInv, At
<1>1. CASE Claim(p)
  <2>1. Types'
    BY <1>1 DEF Claim, Types
  <2>2. Holder'
    BY <1>1, CtlAssumption DEF Claim, Types, Holder
  <2>3. Served'
    BY <1>1 DEF Claim, Served
  <2>4. \A q \in Openers : Reached(q)' = Reached(q)
    BY <1>1 DEF Claim, Types, Reached
  <2>5. Counted'
    BY <1>1, <2>4, CountedKept DEF Claim
  <2> QED
    BY <2>1, <2>2, <2>3, <2>5
<1>2. CASE AllocFails(p)
  <2>1. Types'
    BY <1>2 DEF AllocFails, Types
  <2>2. Holder'
    BY <1>2, CtlAssumption DEF AllocFails, Types, Holder
  <2>3. Served'
    BY <1>2 DEF AllocFails, Served
  <2>4. \A q \in Openers : Reached(q)' = Reached(q)
    BY <1>2 DEF AllocFails, Types, Reached
  <2>5. Counted'
    BY <1>2, <2>4, CountedKept DEF AllocFails
  <2> QED
    BY <2>1, <2>2, <2>3, <2>5
<1>3. CASE Publish(p)
  <2>1. Types'
    BY <1>3 DEF Publish, Types
  <2>2. Holder'
    BY <1>3, CtlAssumption DEF Publish, Types, Holder
  <2>3. Served'
    BY <1>3 DEF Publish, Served
  <2>4. \A q \in Openers : Reached(q)' = Reached(q)
    BY <1>3 DEF Publish, Types, Reached
  <2>5. Counted'
    BY <1>3, <2>4, CountedKept DEF Publish
  <2> QED
    BY <2>1, <2>2, <2>3, <2>5
<1>4. CASE Unclaim(p)
  <2>1. Types'
    BY <1>4 DEF Unclaim, Types
  <2>2. Holder'
    BY <1>4, CtlAssumption DEF Unclaim, Types, Holder
  <2>3. Served'
    BY <1>4 DEF Unclaim, Served
  <2>4. \A q \in Openers : Reached(q)' = Reached(q)
    BY <1>4 DEF Unclaim, Types, Reached
  <2>5. Counted'
    BY <1>4, <2>4, CountedKept DEF Unclaim
  <2> QED
    BY <2>1, <2>2, <2>3, <2>5
<1>5. CASE RingStart(p)
  <2>1. Types'
    BY <1>5 DEF RingStart, Types
  <2>2. Holder'
    BY <1>5, CtlAssumption DEF RingStart, Types, Holder
  <2>3. Served'
    BY <1>5 DEF RingStart, Served
  <2>4. \A q \in Openers : Reached(q)' = Reached(q)
    BY <1>5 DEF RingStart, Types, Reached
  <2>5. Counted'
    BY <1>5, <2>4, CountedKept DEF RingStart
  <2> QED
    BY <2>1, <2>2, <2>3, <2>5
<1>6. CASE Close(p)
  <2>1. Types'
    BY <1>6 DEF Close, Types
  <2>2. Holder'
    BY <1>6, CtlAssumption DEF Close, Types, Holder
  <2>3. Served'
    BY <1>6 DEF Close, Served
  <2>4. \A q \in Openers : Reached(q)' = Reached(q)
    BY <1>6 DEF Close, Types, Reached
  <2>5. Counted'
    BY <1>6, <2>4, CountedKept DEF Close
  <2> QED
    BY <2>1, <2>2, <2>3, <2>5
<1>7. CASE ClearLr(p)
  <2>1. Types'
    BY <1>7 DEF ClearLr, Types
  <2>2. Holder'
    BY <1>7, CtlAssumption DEF ClearLr, Types, Holder
  <2>3. Served'
    BY <1>7 DEF ClearLr, Served
  <2>4. \A q \in Openers : Reached(q)' = Reached(q)
    BY <1>7 DEF ClearLr, Types, Reached
  <2>5. Counted'
    BY <1>7, <2>4, CountedKept DEF ClearLr
  <2> QED
    BY <2>1, <2>2, <2>3, <2>5
<1> QED
  BY <1>1, <1>2, <1>3, <1>4, <1>5, <1>6, <1>7

-----------------------------------------------------------------------------
(* What the allocators return, kind by kind.                               *)
LEMMA HeapAfter ==
  ASSUME Types, NEW kinds
  PROVE  /\ \A kind \in Kinds : Alloc(kinds)[kind] = IF kind \in kinds THEN heap[kind] + 1 ELSE heap[kind]
         /\ \A kind \in Kinds : Free(kinds)[kind] = IF kind \in kinds THEN heap[kind] - 1 ELSE heap[kind]
         /\ Alloc(kinds) \in [Kinds -> Nat]
         /\ (\A kind \in kinds \cap Kinds : heap[kind] >= 1) => Free(kinds) \in [Kinds -> Nat]
  BY DEF Types, Alloc, Free

(* The steps that allocate or free, by the process that holds the device,  *)
(* keep the count right if they change heap by what they change of what    *)
(* that process reaches; a failed call may only add.                       *)
LEMMA CountedMoved ==
  ASSUME CtlInv, NEW p \in Openers, opc[p] # "closed",
         \A q \in Openers \ {p} : Reached(q)' = Reached(q),
         heap' \in [Kinds -> Nat], fails' \in Nat,
         \A kind \in Kinds : kind \in Reached(p)' => heap'[kind] >= 1,
         fails' = 0 => /\ fails = 0
                       /\ \A kind \in Kinds :
                            heap'[kind] = IF kind \in Reached(p)' THEN 1 ELSE 0
  PROVE  Counted'
<1>1. \A q \in Openers \ {p} : Reached(q)' = {}
  BY OnlyHolderReaches
<1>2. \A kind : Live(kind)' <=> kind \in Reached(p)'
  BY <1>1 DEF Live
<1> QED
  BY <1>2 DEF Counted

(* What is live now, seen from the holder.                                 *)
LEMMA HolderCount ==
  ASSUME CtlInv, NEW p \in Openers, opc[p] # "closed"
  PROVE  \A kind \in Kinds :
           /\ kind \in Reached(p) => heap[kind] >= 1
           /\ fails = 0 => heap[kind] = IF kind \in Reached(p) THEN 1 ELSE 0
<1>1. \A kind : Live(kind) <=> kind \in Reached(p)
  BY OnlyHolderReaches, LiveIsReached
<1> QED
  BY <1>1 DEF CtlInv, Counted

(* The allocation of the ring and its release keep CtlInv.                 *)
LEMMA CtlInvRing ==
  ASSUME CtlInv, NEW p \in Openers, AllocRing(p) \/ FreeRing(p)
  PROVE  CtlInv'
<1> USE DEF CtlInv, At
<1>1. CASE AllocRing(p)
  <2>1. Types'
    BY <1>1, HeapAfter DEF AllocRing, Types
  <2>2. Holder' /\ Served'
    BY <1>1 DEF AllocRing, Types, Holder, Served
  <2>3. Reached(p) = {} /\ Reached(p)' = {"ring", "buf"}
    BY <1>1 DEF AllocRing, Types, Holder, Reached
  <2>4. \A q \in Openers \ {p} : Reached(q)' = Reached(q)
    BY <1>1 DEF AllocRing, Types, Reached
  <2>5. \A kind \in Kinds : heap'[kind] = IF kind \in Reached(p)' THEN heap[kind] + 1 ELSE heap[kind]
    BY <1>1, <2>3, HeapAfter DEF AllocRing
  <2>6. opc[p] # "closed" /\ fails' = fails
    BY <1>1 DEF AllocRing
  <2>7. Counted'
    BY <2>1, <2>3, <2>4, <2>5, <2>6, HolderCount, CountedMoved DEF Types
  <2> QED
    BY <2>1, <2>2, <2>7
<1>2. CASE FreeRing(p)
  <2>1. opc[p] # "closed" /\ fails' = fails /\ heap' = Free(Reached(p))
    BY <1>2 DEF FreeRing
  <2>2. Types'
    BY <1>2, <2>1, HeapAfter, HolderCount DEF FreeRing, Types
  <2>3. Holder' /\ Served'
    BY <1>2 DEF FreeRing, Types, Holder, Served
  <2>4. Reached(p)' = {}
    BY <1>2 DEF FreeRing, Types, Reached
  <2>5. \A q \in Openers \ {p} : Reached(q)' = Reached(q)
    BY <1>2 DEF FreeRing, Types, Reached
  <2>6. \A kind \in Kinds : heap'[kind] = IF kind \in Reached(p) THEN heap[kind] - 1 ELSE heap[kind]
    BY <2>1, HeapAfter
  <2>7. Counted'
    BY <2>1, <2>2, <2>4, <2>5, <2>6, HolderCount, CountedMoved DEF Types
  <2> QED
    BY <2>2, <2>3, <2>7
<1> QED
  BY <1>1, <1>2

(* A filter that is set, and one that is refused for lack of memory, keep  *)
(* CtlInv.                                                                 *)
LEMMA CtlInvFilter ==
  ASSUME CtlInv, NEW p \in Openers, NEW f \in Asked, NEW got \in SUBSET Scratch,
         SetFilter(p, f, got) \/ SetFilterFails(p, f, got)
  PROVE  CtlInv'
<1> USE DEF CtlInv
<1>0. /\ opc[p] = "open" /\ opc' = opc /\ ~begun[p]
      /\ \A q \in Openers \ {p} : Reached(q)' = Reached(q)
  BY DEF SetFilter, SetFilterFails, Accepts, Types, Reached
<1>a. got \subseteq Kinds /\ "filter" \notin got /\ "ring" \notin Scratch /\ "buf" \notin Scratch
      /\ "filter" \notin Scratch
  BY DEF Kinds, Scratch
<1>1. CASE SetFilter(p, f, got)
  <2>1. /\ fails' = fails /\ heap' = Install(p, got) /\ filt' = [filt EXCEPT ![p] = f]
        /\ scratch' = [scratch EXCEPT ![p] = IF Allocates(p, f) THEN got ELSE scratch[p]]
        /\ device' = device /\ cnt' = cnt /\ lr' = lr /\ begun' = begun
    BY <1>1 DEF SetFilter, Types
  <2>2. Types'
    BY <1>0, <2>1, HeapAfter DEF Install, Types
  <2>3. Holder'
    BY <1>0, <2>1 DEF Types, Holder
  <2>4. Served'
    BY <1>1, <2>1, CtlAssumption DEF SetFilter, Accepts, Allocates, Allocated, Types, Served, Scratch
  <2>5. Reached(p)' = Reached(p) \cup got \cup {"filter"}
    <3>1. CASE Allocates(p, f)
      BY <3>1, <1>0, <1>1, <2>1, CtlAssumption DEF SetFilter, Allocated, Reached, Types
    <3>2. CASE ~Allocates(p, f)
      BY <3>2, <1>0, <1>1, <2>1, CtlAssumption DEF SetFilter, Reached, Types
    <3> QED
      BY <3>1, <3>2
  <2>6. fails = 0 => Reached(p) \cap got = {}
    BY <1>0, <1>1, <1>a DEF SetFilter, Allocates, Served, Reached, Scratch
  <2>7. "filter" \in Reached(p) <=> filt[p] # Null
    BY <1>a DEF Reached, Types
  <2>8. \A kind \in Kinds :
          heap'[kind] = IF kind \in got \/ (kind = "filter" /\ filt[p] = Null)
                        THEN heap[kind] + 1 ELSE heap[kind]
    BY <2>1, <1>a, HeapAfter DEF Install
  <2>9. \A kind \in Kinds : /\ kind \in Reached(p) => heap[kind] >= 1
                            /\ fails = 0 => heap[kind] = IF kind \in Reached(p) THEN 1 ELSE 0
    BY <1>0, HolderCount
  <2>10. \A kind \in Kinds :
           /\ kind \in Reached(p)' => heap'[kind] >= 1
           /\ fails = 0 => heap'[kind] = IF kind \in Reached(p)' THEN 1 ELSE 0
    BY <2>5, <2>6, <2>7, <2>8, <2>9 DEF Types
  <2>11. Counted'
    BY <1>0, <2>1, <2>2, <2>10, CountedMoved DEF Types
  <2> QED
    BY <2>2, <2>3, <2>4, <2>11
<1>2. CASE SetFilterFails(p, f, got)
  <2>1. /\ fails' = fails + 1 /\ heap' = Alloc(got) /\ filt' = filt
        /\ scratch' = [scratch EXCEPT ![p] = got]
        /\ device' = device /\ cnt' = cnt /\ lr' = lr /\ begun' = begun
    BY <1>2 DEF SetFilterFails
  <2>2. Types'
    BY <1>0, <2>1, HeapAfter DEF Types
  <2>3. Holder' /\ fails' # 0
    BY <1>0, <2>1 DEF Types, Holder
  <2>4. Served'
    BY <2>3 DEF Served
  <2>5. Reached(p)' \subseteq Reached(p) \cup got
    BY <1>0, <2>1 DEF Reached, Types
  <2>6. \A kind \in Kinds : heap'[kind] = IF kind \in got THEN heap[kind] + 1 ELSE heap[kind]
    BY <2>1, HeapAfter
  <2>7. \A kind \in Kinds : kind \in Reached(p) => heap[kind] >= 1
    BY <1>0, HolderCount
  <2>8. \A kind \in Kinds : kind \in Reached(p)' => heap'[kind] >= 1
    BY <2>5, <2>6, <2>7 DEF Types
  <2>9. Counted'
    BY <1>0, <2>2, <2>3, <2>8, CountedMoved DEF Types
  <2> QED
    BY <2>2, <2>3, <2>4, <2>9
<1> QED
  BY <1>1, <1>2

-----------------------------------------------------------------------------
(* CtlInv is an invariant of open, SET_FILTER, start and release.          *)
THEOREM CtlInvHolds == CtlSpec => []CtlInv
<1>1. CtlInit => CtlInv
  BY CtlInvInit
<1>2. CtlInv /\ [CtlStep]_ctlvars => CtlInv'
  <2> SUFFICES ASSUME CtlInv, [CtlStep]_ctlvars PROVE CtlInv'
    OBVIOUS
  <2>1. CASE CtlStep
    BY <2>1, CtlInvQuiet, CtlInvRing, CtlInvFilter DEF CtlStep
  <2>2. CASE UNCHANGED ctlvars
    <3>1. Types' /\ Holder' /\ Served'
      BY <2>2 DEF ctlvars, CtlInv, Types, Holder, Served
    <3>2. \A q \in Openers : Reached(q)' = Reached(q)
      BY <2>2 DEF ctlvars, Reached
    <3>3. Counted'
      BY <2>2, <3>2, CountedKept DEF ctlvars, CtlInv
    <3> QED
      BY <3>1, <3>3 DEF CtlInv
  <2> QED
    BY <2>1, <2>2
<1> QED
  BY <1>1, <1>2, PTL DEF CtlSpec

(* Any number of processes may race to open and release the device: one    *)
(* holds it at a time, and lr is the ring of the one whose file is open.   *)
THEOREM OneOpenerHolds == CtlSpec => []OneOpener
<1>1. CtlInv => OneOpener
  BY DEF CtlInv, Types, Holder, OneOpener
<1> QED
  BY <1>1, CtlInvHolds, PTL

(* Whatever filters are tried and replaced before the first read, the one  *)
(* the scan runs with has its buffers, unless an allocation failed.        *)
THEOREM ScratchReadyHolds == CtlSpec => []ScratchReady
<1>1. CtlInv => ScratchReady
  BY DEF CtlInv, Served, ScratchReady
<1> QED
  BY <1>1, CtlInvHolds, PTL

(* Failed opens, replaced filters and releases leave no allocation behind, *)
(* unless an allocation of the buffers failed.                             *)
THEOREM HeapAccountedHolds == CtlSpec => []HeapAccounted
<1>1. CtlInv => HeapAccounted
  <2> SUFFICES ASSUME CtlInv, fails = 0, NEW kind \in Kinds
               PROVE  heap[kind] = Cardinality({p \in Openers : kind \in Reached(p)})
    BY DEF HeapAccounted
  <2> DEFINE S == {p \in Openers : kind \in Reached(p)}
  <2>1. heap[kind] = IF Live(kind) THEN 1 ELSE 0
    BY DEF CtlInv, Counted
  <2>2. CASE ~Live(kind)
    <3>1. S = {}
      BY <2>2 DEF Live
    <3> QED
      BY <2>1, <2>2, <3>1, FS_EmptySet
  <2>3. CASE Live(kind)
    <3>1. PICK p \in Openers : kind \in Reached(p)
      BY <2>3 DEF Live
    <3>2. opc[p] # "closed"
      BY <3>1 DEF CtlInv, Holder, Reached
    <3>3. S = {p}
      BY <3>1, <3>2, OnlyHolderReaches
    <3> QED
      BY <2>1, <2>3, <3>3, FS_Singleton, Zenon
  <2> QED
    BY <2>2, <2>3
<1> QED
  BY <1>1, CtlInvHolds, PTL

(* No call of any process changes the filter or the buffers of a scan that *)
(* has begun.                                                              *)
THEOREM FilterFixedHolds == CtlSpec => FilterFixed
<1> DEFINE Fixed ==
      \A p \in Openers : begun[p] /\ begun'[p] =>
        filt'[p] = filt[p] /\ scratch'[p] = scratch[p]
<1>1. CtlInv /\ [CtlStep]_ctlvars => [Fixed]_ctlvars
  <2> SUFFICES ASSUME CtlInv, CtlStep, NEW q \in Openers, begun[q], begun'[q]
               PROVE  filt'[q] = filt[q] /\ scratch'[q] = scratch[q]
    OBVIOUS
  <2>1. opc[q] = "open"
    BY DEF CtlInv, Holder
  <2>2. PICK p \in Openers :
          \/ Claim(p) \/ AllocRing(p) \/ AllocFails(p) \/ Publish(p) \/ Unclaim(p)
          \/ RingStart(p) \/ Close(p) \/ FreeRing(p) \/ ClearLr(p)
          \/ \E f \in Asked, got \in SUBSET Scratch :
               SetFilter(p, f, got) \/ SetFilterFails(p, f, got)
    BY DEF CtlStep
  <2>3. CASE FreeRing(p)
    BY <2>1, <2>3 DEF FreeRing, CtlInv, Types
  <2>4. CASE \E f \in Asked, got \in SUBSET Scratch :
               SetFilter(p, f, got) \/ SetFilterFails(p, f, got)
    BY <2>4 DEF SetFilter, SetFilterFails, Accepts, CtlInv, Types
  <2>5. CASE \/ Claim(p) \/ AllocRing(p) \/ AllocFails(p) \/ Publish(p) \/ Unclaim(p)
             \/ RingStart(p) \/ Close(p) \/ ClearLr(p)
    BY <2>5 DEF Claim, AllocRing, AllocFails, Publish, Unclaim, RingStart, Close, ClearLr
  <2> QED
    BY <2>2, <2>3, <2>4, <2>5
<1> QED
  BY <1>1, CtlInvHolds, PTL DEF CtlSpec, FilterFixed

-----------------------------------------------------------------------------
(* The query.                                                              *)

Fields == Tier0Fields \cup Tier1Fields

(* The predicates the options of the command lines can compile to.         *)
Words == UNION {Range(c) : c \in Commands}
Tests == {t \in {Tested(Spelled(o)) : o \in Words} : t.op \in Ops}

PredSet == [field : Fields, neg : BOOLEAN, test : Tests, nlist : 0 .. MaxList]

(* The state the proofs are about: TypeOK and the sequence of predicates.  *)
Typed ==
  /\ TypeOK
  /\ cmd \in Commands
  /\ filter.p \in Seq(PredSet)

-----------------------------------------------------------------------------
(* The tiers split the fields, and a tier-1 field demands something.       *)
LEMMA Tiers ==
  ASSUME NEW f
  PROVE  /\ ~(f \in Tier0Fields /\ f \in Tier1Fields)
         /\ f \in Tier1Fields => field_needs(f) # {}
         /\ f \in {"SIZE", "BLOCKS"} => f \in Tier1Fields
         /\ field_needs(f) \subseteq Needs
  <1>1. ~(f \in Tier0Fields /\ f \in Tier1Fields)
    BY DEF Tier0Fields, Tier1Fields, Times, LovFields
  <1>2. f \in Tier1Fields => field_needs(f) # {}
    BY DEF Tier1Fields, LovFields, field_needs
  <1>3. f \in {"SIZE", "BLOCKS"} => f \in Tier1Fields
    BY DEF Tier1Fields
  <1>4. field_needs(f) \subseteq Needs
    BY DEF field_needs, Needs, LovFields
  <1> QED
    BY <1>1, <1>2, <1>3, <1>4

(* A predicate of the switch of lfu_filter_tier1() looks at the decoded    *)
(* and raw xattrs its field demands, and at no other.                      *)
LEMMA LooksAt ==
  ASSUME NEW p, NEW rec, NEW t, NEW u, NEW e, NEW f,
         p.field \in Tier1Fields,
         "LOV" \in field_needs(p.field) => t.lov = u.lov /\ e["LOV"] = f["LOV"],
         "SOM" \in field_needs(p.field) => t.som = u.som,
         "LMV" \in field_needs(p.field) => t.lmv = u.lmv,
         "LINK" \in field_needs(p.field) => e["LINK"] = f["LINK"]
  PROVE  /\ Hit1(p, rec, t, e) = Hit1(p, rec, u, f)
         /\ Undecided(p, rec, t) = Undecided(p, rec, u)
  <1>1. CASE p.field \in {"SIZE", "BLOCKS"}
    <2>1. t.lov = u.lov /\ t.som = u.som
      BY <1>1 DEF field_needs, LovFields
    <2>2. /\ size_unknown(rec, t) = size_unknown(rec, u)
          /\ resolve_size(rec, t, TRUE) = resolve_size(rec, u, TRUE)
          /\ resolve_size(rec, t, FALSE) = resolve_size(rec, u, FALSE)
      BY <2>1 DEF size_unknown, resolve_size
    <2> QED
      BY <1>1, <2>2, ZenonT(30) DEF Hit1, Undecided
  <1>2. CASE p.field \in LovFields
    <2>1. t.lov = u.lov /\ e["LOV"] = f["LOV"]
      BY <1>2 DEF field_needs, LovFields
    <2>2. CASE p.field = "OST"
      BY <2>1, <2>2 DEF Hit1, Undecided
    <2>3. CASE p.field \in {"LAYOUT", "POOL"}
      BY <2>1, <2>3, Zenon DEF Hit1, Undecided
    <2>4. CASE p.field \in {"STRIPE_COUNT", "STRIPE_SIZE"}
      BY <2>1, <2>4, Zenon DEF Hit1, Undecided
    <2>5. CASE p.field \in {"MIRROR_COUNT", "COMP_COUNT"}
      BY <2>1, <2>5, Zenon DEF Hit1, Undecided
    <2> QED
      BY <1>2, <2>2, <2>3, <2>4, <2>5 DEF LovFields
  <1>3. CASE p.field \in {"MDT_COUNT", "MDT_HASH"}
    <2>1. t.lmv = u.lmv
      BY <1>3 DEF field_needs, LovFields
    <2> QED
      BY <1>3, <2>1, ZenonT(30) DEF Hit1, Undecided
  <1>4. CASE p.field = "NAME"
    <2>1. e["LINK"] = f["LINK"]
      BY <1>4 DEF field_needs, LovFields
    <2> QED
      BY <1>4, <2>1 DEF Hit1, Undecided
  <1> QED
    BY <1>1, <1>2, <1>3, <1>4 DEF Tier1Fields

(* lfu_filter_tier1() asked of the demanded xattrs says what it says of    *)
(* all of them, once the needs of the predicate's field are demanded.      *)
LEMMA DemandedSuffice ==
  ASSUME NEW p, NEW rec, NEW all, NEW needs, NEW got,
         p.field \in Tier1Fields,
         field_needs(p.field) \subseteq needs,
         got = [x \in Needs |-> IF x \in needs THEN all[x] ELSE NoEA]
  PROVE  /\ Hit1(p, rec, ea_decode(got), got) = Hit1(p, rec, ea_decode(all), all)
         /\ Undecided(p, rec, ea_decode(got)) = Undecided(p, rec, ea_decode(all))
  <1>1. \A x \in Needs : x \in field_needs(p.field) => got[x] = all[x]
    OBVIOUS
  <1>2. /\ "LOV" \in field_needs(p.field) =>
             ea_decode(got).lov = ea_decode(all).lov /\ got["LOV"] = all["LOV"]
        /\ "SOM" \in field_needs(p.field) => ea_decode(got).som = ea_decode(all).som
        /\ "LMV" \in field_needs(p.field) => ea_decode(got).lmv = ea_decode(all).lmv
        /\ "LINK" \in field_needs(p.field) => got["LINK"] = all["LINK"]
    BY <1>1 DEF Needs, ea_decode
  <1> DEFINE t == ea_decode(got)
             u == ea_decode(all)
  <1> HIDE DEF t, u
  <1>3. /\ "LOV" \in field_needs(p.field) => t.lov = u.lov /\ got["LOV"] = all["LOV"]
        /\ "SOM" \in field_needs(p.field) => t.som = u.som
        /\ "LMV" \in field_needs(p.field) => t.lmv = u.lmv
        /\ "LINK" \in field_needs(p.field) => got["LINK"] = all["LINK"]
    BY <1>2 DEF t, u
  <1>4. /\ Hit1(p, rec, t, got) = Hit1(p, rec, u, all)
        /\ Undecided(p, rec, t) = Undecided(p, rec, u)
    BY <1>3, LooksAt
  <1> QED
    BY <1>4 DEF t, u

-----------------------------------------------------------------------------
(* Every option of a field has an operator lfu_filter_validate() knows.    *)
LEMMA TestedOp ==
  ASSUME NEW o, o.opt \in Fields
  PROVE  Tested(o).op \in Ops
  <1>1. parse_sign(o.sign) \in Ops
    BY DEF parse_sign, Ops
  <1>2. CASE o.opt \in Times \cup Counts \cup Quantities
    <2>1. o.opt \in Times => Tested(o).op = parse_sign(o.sign)
      BY DEF Tested, Times, Counts, Quantities
    <2>2. o.opt \in Counts => Tested(o).op = parse_sign(o.sign)
      BY DEF Tested, Times, Counts, Quantities
    <2>3. o.opt \in Quantities => Tested(o).op = parse_sign(o.sign)
      BY DEF Tested, Times, Counts, Quantities
    <2> QED
      BY <1>1, <1>2, <2>1, <2>2, <2>3
  <1>3. CASE o.opt \in {"UID", "GID", "PROJID", "MDT_HASH", "TYPE"}
    BY <1>3 DEF Tested, Times, Counts, Quantities, Ops
  <1>4. CASE o.opt = "PERM"
    BY <1>4 DEF Tested, Times, Counts, Quantities, Ops
  <1>5. CASE o.opt \in {"ATTRS", "LAYOUT", "OST", "POOL", "NAME"}
    BY <1>5 DEF Tested, Times, Counts, Quantities, Ops
  <1>6. Fields \subseteq Times \cup Counts \cup Quantities
          \cup {"UID", "GID", "PROJID", "MDT_HASH", "TYPE", "PERM", "ATTRS",
                "LAYOUT", "OST", "POOL", "NAME"}
    BY DEF Fields, Tier0Fields, Tier1Fields, LovFields, Times, Counts, Quantities
  <1> QED
    BY <1>2, <1>3, <1>4, <1>5, <1>6

(* A list that the parser accepts has no more entries than p->list has.    *)
LEMMA ListFits ==
  ASSUME NEW o, Parses(o)
  PROVE  list_len(o) \in 0 .. MaxList
  BY FilterAssumption DEF Parses, list_len

(* A word of a command line that is not `!` compiles to a predicate.       *)
LEMMA OptionTyped ==
  ASSUME NEW c \in Commands, NEW k \in 1 .. Len(c)
  PROVE  /\ Spelled(c[k]).opt \in Fields \cup {"NOT"}
         /\ Spelled(c[k]).opt # "NOT" => Tested(Spelled(c[k])) \in Tests
  <1>1. c \in Seq(Range(c)) /\ k \in DOMAIN c
    BY QueryAssumption
  <1>2. c[k] \in Words
    BY <1>1 DEF Words, Range
  <1>3. Spelled(c[k]).opt \in Fields \cup {"NOT"}
    BY <1>1, QueryAssumption DEF Fields
  <1>4. Spelled(c[k]).opt # "NOT" => Tested(Spelled(c[k])).op \in Ops
    BY <1>3, TestedOp
  <1> QED
    BY <1>2, <1>3, <1>4, Zenon DEF Tests

(* One option: the filter stays a bounded sequence of predicates, each of  *)
(* whose needs is demanded.                                                *)
LEMMA OptionStep ==
  ASSUME Typed, FilterInv, Option
  PROVE  /\ Typed'
         /\ FilterInv'
  <1> DEFINE o == Spelled(cmd[i])
  <1>0. /\ pc = "parse" /\ i \in 1 .. Len(cmd)
        /\ o.opt \in Fields \cup {"NOT"}
        /\ o.opt # "NOT" => Tested(o) \in Tests
    <2>1. Len(cmd) \in Nat
      BY QueryAssumption DEF Typed
    <2>2. i \in 1 .. Len(cmd)
      <3>1. i \in Nat /\ i >= 1 /\ i <= Len(cmd)
        BY <2>1 DEF Typed, TypeOK, Option
      <3> QED
        BY <2>1, <3>1
    <2> QED
      BY <2>2, OptionTyped DEF Typed, Option
  <1> HIDE DEF o
  <1>u. /\ backend' = backend /\ cmd' = cmd /\ unknown' = unknown /\ verdict' = verdict
        /\ obj' = obj /\ eas' = eas /\ t1' = t1 /\ complete' = complete
    BY DEF Option, object
  <1>1. CASE ~opt_ok(filter, o)
    <2>1. filter' = filter /\ i' = i /\ pc' = "usage"
      BY <1>1 DEF Option, o
    <2> QED
      BY <2>1, <1>u DEF Typed, TypeOK, FilterInv
  <1>2. CASE opt_ok(filter, o) /\ o.opt = "NOT"
    <2>1. /\ filter' = [filter EXCEPT !.neg_pending = TRUE] /\ i' = i + 1 /\ pc' = pc
      BY <1>2 DEF Option, filter_opt, o
    <2>2. filter'.p = filter.p /\ filter'.needs = filter.needs /\ filter'.neg_pending \in BOOLEAN
      BY <2>1 DEF Typed, TypeOK
    <2> QED
      <3>1. i' \in Nat \ {0} /\ pc' = "parse"
        BY <2>1, <1>0 DEF Typed, TypeOK
      <3> QED
        BY <2>2, <3>1, <1>u DEF Typed, TypeOK, FilterInv
  <1>3. CASE opt_ok(filter, o) /\ o.opt # "NOT"
    <2> DEFINE q == [field |-> o.opt, neg |-> filter.neg_pending, test |-> Tested(o),
                     nlist |-> list_len(o)]
    <2>0. list_len(o) \in 0 .. MaxList
      BY <1>3, ListFits DEF opt_ok
    <2>1. filter' = pred_new(filter, o) /\ i' = i + 1 /\ pc' = pc
      BY <1>3 DEF Option, filter_opt, o
    <2>2. /\ filter'.p = Append(filter.p, q)
          /\ filter'.needs = filter.needs \cup field_needs(o.opt)
          /\ filter'.neg_pending = FALSE
      BY <2>1 DEF pred_new
    <2>3. q \in PredSet /\ q.field = o.opt
      BY <1>0, <1>3, <2>0 DEF PredSet, Typed, TypeOK
    <2> HIDE DEF q
    <2>4. /\ filter'.p \in Seq(PredSet)
          /\ Len(filter'.p) = Len(filter.p) + 1
          /\ \A k \in 1 .. Len(filter.p) : filter'.p[k] = filter.p[k]
          /\ filter'.p[Len(filter.p) + 1] = q
          /\ DOMAIN filter.p = 1 .. Len(filter.p)
          /\ DOMAIN filter'.p = 1 .. Len(filter.p) + 1
          /\ Len(filter.p) \in Nat
      BY <2>2, <2>3 DEF Typed
    <2>5. Len(filter'.p) <= MaxPred
      BY <1>3, <2>4, FilterAssumption DEF opt_ok
    <2>6. filter'.needs \subseteq Needs
      BY <2>2, Tiers DEF Typed, TypeOK
    <2>7. Typed'
      <3>1. i' \in Nat \ {0} /\ pc' = "parse"
        BY <2>1, <1>0 DEF Typed, TypeOK
      <3>2. filter'.neg_pending \in BOOLEAN
        BY <2>2, ZenonT(30)
      <3> QED
        BY <2>4, <2>5, <2>6, <3>1, <3>2, <1>u DEF Typed, TypeOK
    <2>8. ASSUME NEW k \in DOMAIN filter'.p
          PROVE  /\ filter'.p[k].field \in Tier0Fields \cup Tier1Fields
                 /\ field_needs(filter'.p[k].field) \subseteq filter'.needs
      <3>1. CASE k \in 1 .. Len(filter.p)
        BY <3>1, <2>2, <2>4 DEF FilterInv
      <3>2. CASE k = Len(filter.p) + 1
        <4>1. filter'.p[k].field = o.opt
          BY <3>2, <2>3, <2>4
        <4> QED
          BY <4>1, <1>0, <1>3, <2>2 DEF Fields
      <3> QED
        BY <3>1, <3>2, <2>4
    <2> QED
      BY <2>7, <2>8 DEF FilterInv
  <1> QED
    BY <1>1, <1>2, <1>3

-----------------------------------------------------------------------------
(* The steps other than Option keep the filter, and their types.           *)
LEMMA OtherTyped ==
  ASSUME Typed, [Next]_vars, ~Option
  PROVE  /\ Typed'
         /\ filter' = filter /\ cmd' = cmd /\ backend' = backend
  <1>1. CASE Check \/ Negotiate \/ FetchUnsupported
    BY <1>1 DEF Typed, TypeOK, Check, Negotiate, FetchUnsupported, query, object
  <1>2. ASSUME NEW o \in Targets, NextObject(o) PROVE Typed' /\ filter' = filter /\ cmd' = cmd /\ backend' = backend
    <2>1. DOMAIN eas' = Needs
      BY <1>2 DEF NextObject, NoObject
    <2>2. pc' = "tier0" /\ i' = 1 /\ verdict' = "NONE" /\ UNCHANGED query
      BY <1>2 DEF NextObject
    <2>3. unknown' \in BOOLEAN /\ complete' \in BOOLEAN
      BY <1>2, ZenonT(30) DEF NextObject
    <2>4. filter' = filter /\ cmd' = cmd /\ backend' = backend
      BY <2>2 DEF query
    <2>5. i' \in Nat \ {0}
      BY <2>2
    <2> QED
      BY <2>1, <2>2, <2>3, <2>4, <2>5, Zenon DEF Typed, TypeOK
  <1>3. CASE Tier0Pred \/ Tier0End
    <2>1. /\ filter' = filter /\ cmd' = cmd /\ backend' = backend
          /\ eas' = eas /\ complete' = complete /\ unknown' = unknown
      BY <1>3 DEF Tier0Pred, Tier0End, query, object
    <2>2. i' \in Nat \ {0} /\ pc' \in {"tier0", "fetch", "done"}
      BY <1>3 DEF Typed, TypeOK, Tier0Pred, Tier0End
    <2>3. verdict' \in {"NONE", "MATCH", "NOMATCH", "UNKNOWN"}
      BY <1>3 DEF Typed, TypeOK, Tier0Pred, Tier0End
    <2> QED
      BY <2>1, <2>2, <2>3, Zenon DEF Typed, TypeOK
  <1>4. ASSUME NEW lost \in SUBSET Needs, Fetch(lost) PROVE Typed' /\ filter' = filter /\ cmd' = cmd /\ backend' = backend
    <2>1. DOMAIN eas' = Needs
      BY <1>4, Zenon DEF Fetch
    <2>2. complete' \in BOOLEAN
      BY <1>4, ZenonT(30) DEF Fetch
    <2>3. /\ pc' \in {"done", "tier1"} /\ verdict' \in {verdict, "UNKNOWN"}
          /\ i' \in {i, 1} /\ UNCHANGED <<query, obj, unknown>>
      BY <1>4, ZenonT(30) DEF Fetch
    <2> QED
      BY <2>1, <2>2, <2>3 DEF Typed, TypeOK, query
  <1>5. CASE Tier1Pred
    <2>1. /\ pc' \in {"done", pc} /\ verdict' \in {verdict, "NOMATCH"}
          /\ i' \in {i, i + 1} /\ UNCHANGED <<query, object>>
          /\ unknown' = unknown \/ unknown' = TRUE
      BY <1>5 DEF Tier1Pred
    <2>2. unknown' \in BOOLEAN
      BY <2>1, ZenonT(30) DEF Typed, TypeOK
    <2> QED
      BY <2>1, <2>2 DEF Typed, TypeOK, query, object
  <1>6. CASE Tier1End
    BY <1>6 DEF Typed, TypeOK, Tier1End, query, object
  <1>7. CASE Exited \/ UNCHANGED vars
    BY <1>7 DEF Typed, TypeOK, Exited, vars
  <1> QED
    BY <1>1, <1>2, <1>3, <1>4, <1>5, <1>6, <1>7 DEF Next

-----------------------------------------------------------------------------
(* A predicate of tier 0 is never undecided.                               *)
LEMMA Tier0Decided ==
  ASSUME NEW p, NEW ob, p.field \in Tier0Fields
  PROVE  ~PredUnknown(p, ob)
  BY Tiers DEF PredUnknown, Undecided

(* A predicate answers in the tier-1 loop as it does in the reference.     *)
LEMMA Tier1Answers ==
  ASSUME Typed, LoopInv, pc = "tier1", complete,
         NEW k \in DOMAIN filter.p, filter.p[k].field \in Tier1Fields
  PROVE  /\ Undecided(filter.p[k], obj.rec, t1) = PredUnknown(filter.p[k], obj)
         /\ Passes(filter.p[k], Hit1(filter.p[k], obj.rec, t1, eas))
              = PredTrue(filter.p[k], obj)
  <1> DEFINE p == filter.p[k]
  <1>1. /\ eas = [x \in Needs |-> IF x \in filter.needs THEN obj.eas[x] ELSE NoEA]
        /\ t1 = ea_decode(eas)
    BY Zenon DEF LoopInv
  <1>2. field_needs(p.field) \subseteq filter.needs
    BY Zenon DEF LoopInv, FilterInv
  <1>3. /\ Hit1(p, obj.rec, ea_decode(eas), eas)
            = Hit1(p, obj.rec, ea_decode(obj.eas), obj.eas)
        /\ Undecided(p, obj.rec, ea_decode(eas)) = Undecided(p, obj.rec, ea_decode(obj.eas))
    BY <1>1, <1>2, DemandedSuffice, ZenonT(30)
  <1>4. p.field \notin Tier0Fields
    BY Tiers
  <1> HIDE DEF p
  <1>5. /\ Undecided(p, obj.rec, t1) = PredUnknown(p, obj)
        /\ Passes(p, Hit1(p, obj.rec, t1, eas)) = PredTrue(p, obj)
    BY <1>1, <1>3, <1>4, ZenonT(30) DEF PredUnknown, PredTrue
  <1> QED
    BY <1>5 DEF p

(* One turn of the tier-0 loop.                                            *)
LEMMA Tier0PredStep ==
  ASSUME Typed, LoopInv, Tier0Pred
  PROVE  LoopInv'
  <1>1. /\ pc = "tier0" /\ i \in DOMAIN filter.p
        /\ filter' = filter /\ obj' = obj /\ unknown' = unknown
    BY DEF Tier0Pred, Typed, TypeOK, query, object
  <1>2. ~unknown /\ FilterInv'
    BY <1>1, Zenon DEF LoopInv, FilterInv
  <1> DEFINE p == filter.p[i]
  <1>3. CASE p.field \in Tier0Fields /\ ~Passes(p, Hit0(p, obj.rec, Now))
    <2>1. pc' = "done" /\ verdict' = "NOMATCH"
      BY <1>3, Zenon DEF Tier0Pred
    <2>2. ~PredTrue(p, obj) /\ ~PredUnknown(p, obj)
      BY <1>3, Tier0Decided DEF PredTrue
    <2>3. verdict' = Kleene(filter.p, obj)
      BY <1>1, <2>1, <2>2 DEF Kleene
    <2> QED
      BY <1>1, <1>2, <2>1, <2>3, Zenon DEF LoopInv, VerdictKleene
  <1>4. CASE ~(p.field \in Tier0Fields /\ ~Passes(p, Hit0(p, obj.rec, Now)))
    <2>1. i' = i + 1 /\ pc' = "tier0"
      BY <1>1, <1>4, Zenon DEF Tier0Pred
    <2>2. p.field \in Tier0Fields => PredTrue(p, obj)
      BY <1>4 DEF PredTrue
    <2>3. ASSUME NEW k \in DOMAIN filter.p, k < i + 1, filter.p[k].field \in Tier0Fields
          PROVE  PredTrue(filter.p[k], obj)
      <3>1. k < i \/ k = i
        BY <2>3 DEF Typed, TypeOK
      <3> QED
        BY <3>1, <2>3, <2>2, <1>1, Zenon DEF LoopInv
    <2> QED
      BY <1>1, <1>2, <2>1, <2>3, Zenon DEF LoopInv, VerdictKleene
  <1> QED
    BY <1>3, <1>4

(* The end of the tier-0 loop.                                             *)
LEMMA Tier0EndStep ==
  ASSUME Typed, LoopInv, Tier0End
  PROVE  LoopInv'
  <1>1. /\ pc = "tier0" /\ i > Len(filter.p)
        /\ filter' = filter /\ obj' = obj /\ unknown' = unknown
    BY DEF Tier0End, query, object
  <1>2. ~unknown /\ FilterInv'
    BY <1>1, Zenon DEF LoopInv, FilterInv
  <1>3. \A k \in DOMAIN filter.p : filter.p[k].field \in Tier0Fields => PredTrue(filter.p[k], obj)
    <2>1. \A k \in DOMAIN filter.p : k < i
      BY <1>1 DEF Typed, TypeOK
    <2> QED
      BY <1>1, <2>1, Zenon DEF LoopInv
  <1>4. CASE filter.needs = {}
    <2>1. pc' = "done" /\ verdict' = "MATCH"
      BY <1>4 DEF Tier0End
    <2>2. \A k \in DOMAIN filter.p : filter.p[k].field \in Tier0Fields
      BY <1>4, Tiers, Zenon DEF LoopInv, FilterInv
    <2>3. \A k \in DOMAIN filter.p : PredTrue(filter.p[k], obj) /\ ~PredUnknown(filter.p[k], obj)
      BY <1>3, <2>2, Tier0Decided
    <2>4. verdict' = Kleene(filter.p, obj)
      BY <2>1, <2>3 DEF Kleene
    <2> QED
      BY <1>1, <1>2, <2>1, <2>4, Zenon DEF LoopInv, VerdictKleene
  <1>5. CASE filter.needs # {}
    <2>1. pc' = "fetch"
      BY <1>5 DEF Tier0End
    <2> QED
      BY <1>1, <1>2, <1>3, <2>1, Zenon DEF LoopInv, VerdictKleene
  <1> QED
    BY <1>4, <1>5

(* The fetch: a complete one leaves exactly the demanded xattrs.           *)
LEMMA FetchStep ==
  ASSUME Typed, LoopInv, NEW lost \in SUBSET Needs, Fetch(lost)
  PROVE  LoopInv'
  <1>1. /\ pc = "fetch"
        /\ filter' = filter /\ obj' = obj /\ unknown' = unknown
    BY Zenon DEF Fetch, query
  <1>2. ~unknown /\ FilterInv'
    BY <1>1, Zenon DEF LoopInv, FilterInv
  <1>3. \A k \in DOMAIN filter.p : filter.p[k].field \in Tier0Fields => PredTrue(filter.p[k], obj)
    BY <1>1, Zenon DEF LoopInv
  <1> DEFINE large == IF Pushdown(backend) THEN (filter.needs \ lost) \cap obj.big ELSE {}
  <1>4. CASE large # {}
    <2>1. pc' = "done" /\ ~complete'
      BY <1>4, ZenonT(30) DEF Fetch
    <2> QED
      BY <1>1, <1>2, <2>1, Zenon DEF LoopInv, VerdictKleene
  <1>5. CASE large = {}
    <2>1. pc' = "tier1" /\ i' = 1
      BY <1>5, Zenon DEF Fetch
    <2>2. complete' => eas' = [x \in Needs |-> IF x \in filter.needs THEN obj.eas[x] ELSE NoEA]
      BY <1>5, ZenonT(30) DEF Fetch
    <2>3. t1' = ea_decode(eas')
      BY Zenon DEF Fetch
    <2>4. \A k \in DOMAIN filter.p : ~(k < 1)
      BY DEF Typed
    <2>5. unknown' = \E k \in DOMAIN filter.p : k < 1 /\ PredUnknown(filter.p[k], obj)
      BY <1>1, <1>2, <2>4, Zenon DEF Typed, TypeOK
    <2> QED
      BY <1>1, <1>2, <1>3, <2>1, <2>2, <2>3, <2>4, <2>5, Zenon DEF LoopInv, VerdictKleene
  <1> QED
    BY <1>4, <1>5

(* One turn of the tier-1 loop after a complete fetch.                     *)
LEMMA Tier1PredStep ==
  ASSUME Typed, LoopInv, Tier1Pred
  PROVE  LoopInv'
  <1>1. /\ pc = "tier1" /\ i \in DOMAIN filter.p /\ filter' = filter /\ obj' = obj
        /\ eas' = eas /\ t1' = t1 /\ complete' = complete
    BY DEF Tier1Pred, Typed, TypeOK, query, object
  <1>2. FilterInv'
    BY <1>1, Zenon DEF LoopInv, FilterInv
  <1>3. (i' = i + 1 /\ pc' = "tier1") \/ pc' = "done"
    BY <1>1 DEF Tier1Pred
  <1>4. \A k \in DOMAIN filter.p : filter.p[k].field \in Tier0Fields => PredTrue(filter.p[k], obj)
    BY <1>1, Zenon DEF LoopInv
  <1>5. CASE ~complete
    BY <1>1, <1>2, <1>3, <1>4, <1>5, ZenonT(30) DEF LoopInv, VerdictKleene
  <1>6. CASE complete
    <2> DEFINE p == filter.p[i]
    <2>0. /\ eas = [x \in Needs |-> IF x \in filter.needs THEN obj.eas[x] ELSE NoEA]
          /\ t1 = ea_decode(eas)
          /\ \A k \in DOMAIN filter.p :
               k < i => PredUnknown(filter.p[k], obj) \/ PredTrue(filter.p[k], obj)
          /\ unknown = \E k \in DOMAIN filter.p : k < i /\ PredUnknown(filter.p[k], obj)
      BY <1>1, <1>6, Zenon DEF LoopInv
    <2>a. \A k \in DOMAIN filter.p : k < i + 1 <=> k < i \/ k = i
      BY DEF Typed, TypeOK
    <2>1. ASSUME pc' = "tier1", i' = i + 1,
                 PredUnknown(p, obj) \/ PredTrue(p, obj),
                 unknown' = (unknown \/ PredUnknown(p, obj))
          PROVE  LoopInv'
      <3>1. \A k \in DOMAIN filter.p :
              k < i + 1 => PredUnknown(filter.p[k], obj) \/ PredTrue(filter.p[k], obj)
        BY <2>0, <2>a, <2>1, Zenon
      <3>2. unknown' = \E k \in DOMAIN filter.p : k < i + 1 /\ PredUnknown(filter.p[k], obj)
        BY <1>1, <2>0, <2>a, <2>1, ZenonT(30)
      <3> QED
        BY <1>1, <1>2, <1>4, <2>0, <2>1, <3>1, <3>2, ZenonT(30) DEF LoopInv, VerdictKleene
    <2>2. CASE p.field \notin Tier1Fields
      <3>1. p.field \in Tier0Fields
        BY <1>1, <2>2, Zenon DEF LoopInv, FilterInv
      <3>2. PredTrue(p, obj) /\ ~PredUnknown(p, obj)
        BY <1>1, <1>4, <3>1, Tier0Decided
      <3>3. i' = i + 1 /\ pc' = "tier1" /\ unknown' = unknown
        BY <1>1, <2>2 DEF Tier1Pred
      <3>4. unknown' = (unknown \/ PredUnknown(p, obj))
        BY <3>2, <3>3, ZenonT(30) DEF Typed, TypeOK
      <3> QED
        BY <2>1, <3>2, <3>3, <3>4, Zenon
    <2>3. CASE p.field \in Tier1Fields /\ Undecided(p, obj.rec, t1)
      <3>1. i' = i + 1 /\ pc' = "tier1" /\ unknown' = TRUE
        BY <1>1, <2>3 DEF Tier1Pred
      <3>2. PredUnknown(p, obj)
        BY <1>1, <1>6, <2>3, Tier1Answers
      <3>3. unknown' = (unknown \/ PredUnknown(p, obj))
        BY <3>1, <3>2, ZenonT(30)
      <3> QED
        BY <2>1, <3>1, <3>2, <3>3
    <2>4. CASE p.field \in Tier1Fields /\ ~Undecided(p, obj.rec, t1)
      <3>1. /\ ~PredUnknown(p, obj)
            /\ Passes(p, Hit1(p, obj.rec, t1, eas)) = PredTrue(p, obj)
        BY <1>1, <1>6, <2>4, Tier1Answers
      <3>2. CASE Passes(p, Hit1(p, obj.rec, t1, eas))
        <4>1. i' = i + 1 /\ pc' = "tier1" /\ unknown' = unknown
          BY <1>1, <2>4, <3>2 DEF Tier1Pred
        <4>2. PredTrue(p, obj)
          BY <3>1, <3>2
        <4>3. unknown' = (unknown \/ PredUnknown(p, obj))
          BY <3>1, <4>1, ZenonT(30) DEF Typed, TypeOK
        <4> QED
          BY <2>1, <4>1, <4>2, <4>3
      <3>3. CASE ~Passes(p, Hit1(p, obj.rec, t1, eas))
        <4>1. pc' = "done" /\ verdict' = "NOMATCH"
          BY <2>4, <3>3 DEF Tier1Pred
        <4>2. ~PredTrue(p, obj)
          BY <3>1, <3>3
        <4>3. verdict' = Kleene(filter.p, obj)
          BY <1>1, <3>1, <4>1, <4>2 DEF Kleene
        <4> QED
          BY <1>1, <1>2, <4>1, <4>3, Zenon DEF LoopInv, VerdictKleene
      <3> QED
        BY <3>2, <3>3
    <2> QED
      BY <2>2, <2>3, <2>4
  <1> QED
    BY <1>5, <1>6

(* The end of the tier-1 loop.                                             *)
LEMMA Tier1EndStep ==
  ASSUME Typed, LoopInv, Tier1End
  PROVE  LoopInv'
  <1>1. /\ pc = "tier1" /\ i > Len(filter.p) /\ filter' = filter /\ obj' = obj
        /\ complete' = complete /\ pc' = "done"
        /\ verdict' = IF unknown THEN "UNKNOWN" ELSE "MATCH"
    BY DEF Tier1End, query, object
  <1>2. FilterInv'
    BY <1>1, Zenon DEF LoopInv, FilterInv
  <1>3. ASSUME complete PROVE verdict' = Kleene(filter.p, obj)
    <2>1. \A k \in DOMAIN filter.p : k < i
      BY <1>1 DEF Typed, TypeOK
    <2>2. /\ \A k \in DOMAIN filter.p :
               PredUnknown(filter.p[k], obj) \/ PredTrue(filter.p[k], obj)
          /\ unknown = \E k \in DOMAIN filter.p : k < i /\ PredUnknown(filter.p[k], obj)
      BY <1>1, <1>3, <2>1, Zenon DEF LoopInv
    <2>3. unknown <=> \E k \in DOMAIN filter.p : PredUnknown(filter.p[k], obj)
      BY <2>1, <2>2
    <2> QED
      BY <1>1, <2>2, <2>3, Zenon DEF Kleene
  <1> QED
    BY <1>1, <1>2, <1>3, Zenon DEF LoopInv, VerdictKleene

(* The inductive invariant.                                                *)
THEOREM QueryInvariant == Spec => [](Typed /\ LoopInv)
  <1>1. Init => Typed /\ LoopInv
    <2> SUFFICES ASSUME Init PROVE Typed /\ LoopInv
      OBVIOUS
    <2>1. filter.p = <<>> /\ filter.needs = {} /\ filter.neg_pending = FALSE
      BY DEF Init, EmptyFilter
    <2>2. filter.neg_pending \in BOOLEAN /\ unknown \in BOOLEAN /\ complete \in BOOLEAN
      BY <2>1, ZenonT(30) DEF Init
    <2>3. filter.p \in Seq(PredSet) /\ Len(filter.p) <= MaxPred /\ DOMAIN filter.p = {}
      BY <2>1, FilterAssumption
    <2>4. DOMAIN eas = Needs
      BY DEF Init, NoObject
    <2>5. Typed
      BY <2>1, <2>2, <2>3, <2>4, QueryAssumption DEF Typed, TypeOK, Init
    <2> QED
      BY <2>3, <2>5, Zenon DEF LoopInv, FilterInv, VerdictKleene, Init
  <1>2. Typed /\ LoopInv /\ [Next]_vars => (Typed /\ LoopInv)'
    <2> SUFFICES ASSUME Typed, LoopInv, [Next]_vars PROVE Typed' /\ LoopInv'
      OBVIOUS
    <2>1. CASE Option
      <3>1. Typed' /\ FilterInv'
        BY <2>1, OptionStep, Zenon DEF LoopInv
      <3>2. pc' \in {"parse", "usage"}
        BY <2>1 DEF Option
      <3> QED
        BY <3>1, <3>2, ZenonT(30) DEF LoopInv, VerdictKleene
    <2>2. CASE ~Option
      <3>1. Typed' /\ filter' = filter /\ FilterInv'
        BY <2>2, OtherTyped, Zenon DEF LoopInv, FilterInv
      <3>2. CASE Check \/ Negotiate \/ FetchUnsupported
        <4>1. pc' \notin {"tier0", "fetch", "tier1", "done"}
          BY <3>2, Zenon DEF Check, Negotiate, FetchUnsupported
        <4> QED
          BY <3>1, <4>1, ZenonT(30) DEF LoopInv, VerdictKleene
      <3>3. ASSUME NEW o \in Targets, NextObject(o) PROVE LoopInv'
        <4>1. pc' = "tier0" /\ i' = 1 /\ ~unknown'
          BY <3>3 DEF NextObject
        <4>2. \A k \in DOMAIN filter'.p : ~(k < 1)
          BY <3>1 DEF Typed
        <4> QED
          BY <3>1, <4>1, <4>2, Zenon DEF LoopInv, VerdictKleene
      <3>4. CASE Tier0Pred \/ Tier0End
        BY <3>1, <3>4, Tier0PredStep, Tier0EndStep
      <3>5. ASSUME NEW lost \in SUBSET Needs, Fetch(lost) PROVE LoopInv'
        BY <3>5, FetchStep
      <3>6. CASE Tier1Pred \/ Tier1End
        BY <3>1, <3>6, Tier1PredStep, Tier1EndStep
      <3>7. CASE Exited \/ UNCHANGED vars
        <4>1. /\ pc' = pc /\ filter' = filter /\ obj' = obj /\ i' = i /\ eas' = eas
              /\ t1' = t1 /\ unknown' = unknown /\ verdict' = verdict
              /\ complete' = complete
          BY <3>7 DEF Exited, vars
        <4>2. LoopInv'
          BY <4>1, <3>1, ZenonT(30), ZenonT(30) DEF LoopInv, VerdictKleene
        <4> QED
          BY <3>1, <4>2
      <3> QED
        BY <2>2, <3>1, <3>2, <3>3, <3>4, <3>5, <3>6, <3>7 DEF Next
    <2> QED
      BY <2>1, <2>2
  <1> QED
    BY <1>1, <1>2, PTL DEF Spec

(* Splitting a filter over two tiers, cutting it short at the first miss   *)
(* and reading only the demanded xattrs never changes what                 *)
(* lfu_filter_tier0() and lfu_filter_tier1() say of an object.             *)
THEOREM VerdictExact == Spec => []VerdictKleene
  <1>1. Typed /\ LoopInv => VerdictKleene
    BY Zenon DEF LoopInv
  <1> QED
    BY <1>1, QueryInvariant, PTL

(* Whatever lfu_filter_opt() compiles and lfu_main() lets through passes   *)
(* lfu_filter_validate(), for every command line: a dangling `!` is caught *)
(* before the filter is handed on, and lists, operators and numbers of     *)
(* predicates stay in the ranges the ring tests.                           *)
THEOREM FilterValidates == Spec => []CompiledValidates
  <1> DEFINE Past == {"open", "scan", "tier0", "fetch", "tier1", "done"}
             Closed == pc \in Past => ~filter.neg_pending
  <1>1. Init => Closed
    BY DEF Init
  <1>2. Typed /\ Closed /\ [Next]_vars => Closed'
    <2> SUFFICES ASSUME Typed, Closed, [Next]_vars, pc' \in Past
                 PROVE  ~filter'.neg_pending
      OBVIOUS
    <2>1. CASE Option
      BY <2>1 DEF Option, Typed, TypeOK
    <2>2. CASE ~Option
      <3>1. filter' = filter
        BY <2>2, OtherTyped
      <3>2. CASE Check
        BY <3>1, <3>2 DEF Check, Refused
      <3>3. CASE ~Check
        <4>1. pc \in Past
          BY <2>2, <3>3, Zenon DEF Next, Negotiate, NextObject, Tier0Pred, Tier0End, Fetch,
             FetchUnsupported, Tier1Pred, Tier1End, Exited, vars
        <4> QED
          BY <3>1, <4>1
      <3> QED
        BY <3>2, <3>3
    <2> QED
      BY <2>1, <2>2
  <1>3. Typed /\ Closed => CompiledValidates
    <2> SUFFICES ASSUME Typed, Closed, pc \in Past
                 PROVE  validate(filter)
      BY DEF CompiledValidates
    <2>1. \A k \in DOMAIN filter.p : filter.p[k] \in PredSet
      BY DEF Typed
    <2>2. ASSUME NEW k \in DOMAIN filter.p
          PROVE  /\ filter.p[k].field \in Tier0Fields \cup Tier1Fields
                 /\ filter.p[k].test.op \in Ops
                 /\ filter.p[k].neg \in BOOLEAN
                 /\ filter.p[k].nlist \in 0 .. MaxList
      <3>1. filter.p[k] \in PredSet
        BY <2>1
      <3> QED
        BY <3>1 DEF PredSet, Tests, Fields
    <2>3. Len(filter.p) <= MaxPred /\ ~filter.neg_pending
      BY DEF Typed, TypeOK
    <2> QED
      BY <2>2, <2>3, Zenon DEF validate
  <1> QED
    BY <1>1, <1>2, <1>3, QueryInvariant, PTL DEF Spec

(* The option loop never builds more than LFU_MAX_PRED predicates, and the *)
(* scan keeps its types.                                                   *)
THEOREM QueryTyped == Spec => []TypeOK
  <1>1. Typed /\ LoopInv => TypeOK
    BY DEF Typed
  <1> QED
    BY <1>1, QueryInvariant, PTL
==============================================================================
