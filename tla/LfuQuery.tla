------------------------------- MODULE LfuQuery -------------------------------
(***************************************************************************)
(* One query, from the command line to the verdict on each object: the     *)
(* option loop and the refusals of lfu_main(), for the kmdt scanner the    *)
(* negotiation with the kernel ring, then for every object the tier-0      *)
(* loop, the fetch of the demanded xattrs and the tier-1 loop.  The loops  *)
(* are lfu_filter_tier0() and lfu_filter_tier1() in both homes; the kernel *)
(* ring (lfu_filter_object()) differs in how it fetches.                   *)
(*                                                                         *)
(* An object is [rec, eas, big]: its inode attributes, its four xattrs and *)
(* those of them that do not fit the ring's scratch buffers.               *)
(***************************************************************************)
EXTENDS LfuFilter

CONSTANTS Commands,   \* command lines: sequences of options
          Targets,    \* the objects of the targets
          Backends,   \* subset of AllBackends
          Now         \* the time of the scan

AllBackends ==
  {"ldiskfs", "zfs", "kmdt_ldiskfs", "kmdt_zfs", "kmdt_noxattr", "kmdt_nodev"}

ASSUME QueryAssumption ==
  /\ Backends \subseteq AllBackends
  /\ \A c \in Commands :
       /\ c \in Seq(Range(c))
       /\ \A k \in DOMAIN c : Spelled(c[k]).opt \in Tier0Fields \cup Tier1Fields \cup {"NOT"}

VARIABLES pc, backend, cmd, filter, obj, i, eas, t1, unknown, verdict,
          complete  \* history: every demanded xattr the object has was read

vars == <<pc, backend, cmd, filter, obj, i, eas, t1, unknown, verdict, complete>>
query == <<backend, cmd, filter>>
object == <<obj, eas, t1, complete>>

AllAttrs == {"compressed", "immutable", "append", "nodump", "encrypted"}
ZfsAttrs == {"immutable", "append", "nodump"}

Pushdown(b) == b \notin {"ldiskfs", "zfs"}

(* The ops tables of the three scanners; what kmdt says is the most that   *)
(* any module could do.                                                    *)
can_supply(b) == Needs
attr_mask(b) == IF b = "zfs" THEN ZfsAttrs ELSE AllAttrs
missing_fields(b) == {}

(* lfu_ring_probe(), sent back by LFU_RING_IOC_INFO.                       *)
ri_can_supply(b) == IF b \in {"kmdt_ldiskfs", "kmdt_zfs"} THEN Needs ELSE {}
ri_attr_mask(b) ==
  CASE b \in {"kmdt_ldiskfs", "kmdt_noxattr"} -> AllAttrs
    [] b = "kmdt_zfs" -> ZfsAttrs
    [] OTHER -> {}

(* The attribute bits the backend's records carry.                         *)
Visible(b) == IF b \in {"zfs", "kmdt_zfs"} THEN ZfsAttrs ELSE AllAttrs

NoObject == [rec |-> NoEA, eas |-> [x \in Needs |-> NoEA], big |-> {}]

Init ==
  /\ pc = "parse"
  /\ backend \in Backends
  /\ cmd \in Commands
  /\ filter = EmptyFilter
  /\ obj = NoObject
  /\ i = 1
  /\ eas = NoObject.eas
  /\ t1 = ea_decode(NoObject.eas)
  /\ unknown = FALSE
  /\ verdict = "NONE"
  /\ complete = TRUE

-----------------------------------------------------------------------------
(* lfu_main()'s loop: one filter option, or `!`.  i is the next word.      *)
Option ==
  /\ pc = "parse" /\ i <= Len(cmd)
  /\ LET o == Spelled(cmd[i])
     IN  IF opt_ok(filter, o)
           THEN /\ filter' = filter_opt(filter, o)
                /\ i' = i + 1
                /\ UNCHANGED pc
           ELSE pc' = "usage" /\ UNCHANGED <<filter, i>>
  /\ UNCHANGED <<backend, cmd, object, unknown, verdict>>

(* The --attrs bits are not compared with what the backend sees.           *)
RefusedMut ==
  \/ filter.neg_pending
  \/ ~(filter.needs \subseteq can_supply(backend))
  \/ fields_used(filter) \cap missing_fields(backend) # {}

(* A trailing `!` is let through.                                           *)
RefusedDangling ==
  \/ ~(filter.needs \subseteq can_supply(backend))
  \/ fields_used(filter) \cap missing_fields(backend) # {}
  \/ ~(attrs_used(filter) \subseteq attr_mask(backend))

(* lfu_filter_check() and the three refusals after it.                     *)
Refused ==
  \/ filter.neg_pending
  \/ ~(filter.needs \subseteq can_supply(backend))
  \/ fields_used(filter) \cap missing_fields(backend) # {}
  \/ ~(attrs_used(filter) \subseteq attr_mask(backend))

Check ==
  /\ pc = "parse" /\ i > Len(cmd)
  /\ pc' = IF Refused THEN "usage"
           ELSE IF Pushdown(backend) THEN "open" ELSE "scan"
  /\ UNCHANGED <<query, object, i, unknown, verdict>>

(* An active filter must pass lfu_kmdt_negotiate()'s comparison with INFO  *)
(* and then the same tests and lfu_filter_validate() on SET_FILTER.        *)
Accepted ==
  /\ filter.needs \subseteq ri_can_supply(backend)
  /\ attrs_used(filter) \subseteq ri_attr_mask(backend)
  /\ validate(filter)

(* lfu_kmdt_open().  Any of its ioctls may also fail on its own.           *)
Negotiate ==
  /\ pc = "open"
  /\ \/ pc' = "refused"
     \/ (filter.p = <<>> \/ Accepted) /\ pc' = "scan"
  /\ UNCHANGED <<query, object, i, unknown, verdict>>

-----------------------------------------------------------------------------
(* The next object of the target: the backend clears the record and the    *)
(* xattrs and fills in what the inode holds.                               *)
NextObject(o) ==
  /\ pc \in {"scan", "done"}
  /\ obj' = [o EXCEPT !.rec.flags = @ \cap Visible(backend)]
  /\ eas' = NoObject.eas /\ t1' = ea_decode(NoObject.eas) /\ complete' = TRUE
  /\ pc' = "tier0" /\ i' = 1 /\ verdict' = "NONE" /\ unknown' = FALSE
  /\ UNCHANGED query

Passes(p, hit) == IF p.neg THEN ~hit ELSE hit

(* One turn of lfu_filter_tier0()'s loop.                                  *)
Tier0Pred ==
  /\ pc = "tier0" /\ i <= Len(filter.p)
  /\ LET p == filter.p[i]
     IN  IF p.field \in Tier0Fields /\ ~Passes(p, Hit0(p, obj.rec, Now))
           THEN pc' = "done" /\ verdict' = "NOMATCH" /\ UNCHANGED i
           ELSE i' = i + 1 /\ UNCHANGED <<pc, verdict>>
  /\ UNCHANGED <<query, object, unknown>>

(* It passed; with no xattr to ask for, that is the verdict.               *)
Tier0End ==
  /\ pc = "tier0" /\ i > Len(filter.p)
  /\ IF filter.needs = {}
       THEN pc' = "done" /\ verdict' = "MATCH"
       ELSE pc' = "fetch" /\ UNCHANGED verdict
  /\ UNCHANGED <<query, object, i, unknown>>

(* The demanded xattrs, and their decoding.  A read that fails leaves the  *)
(* xattr absent.  In the ring a value too large for its buffer leaves the  *)
(* object undecided and tier 1 is not run.                                 *)
Fetch(lost) ==
  /\ pc = "fetch"
  /\ lost \subseteq filter.needs
  /\ LET large == IF Pushdown(backend) THEN (filter.needs \ lost) \cap obj.big ELSE {}
         got == [x \in Needs |-> IF x \in filter.needs \ (lost \cup large)
                                   THEN obj.eas[x] ELSE NoEA]
     IN  /\ eas' = got
         /\ t1' = ea_decode(got)
         /\ complete' = (lost = {} /\ large = {})
         /\ IF large # {}
              THEN pc' = "done" /\ verdict' = "UNKNOWN" /\ UNCHANGED i
              ELSE pc' = "tier1" /\ i' = 1 /\ UNCHANGED verdict
  /\ UNCHANGED <<query, obj, unknown>>

(* The OSD does not serve the xattr after all: the ring ends the scan.     *)
FetchUnsupported ==
  /\ pc = "fetch" /\ Pushdown(backend)
  /\ pc' = "ended"
  /\ UNCHANGED <<query, object, i, unknown, verdict>>

(* One turn of lfu_filter_tier1()'s loop.                                  *)
Tier1Pred ==
  /\ pc = "tier1" /\ i <= Len(filter.p)
  /\ LET p == filter.p[i]
     IN  CASE p.field \notin Tier1Fields ->
                i' = i + 1 /\ UNCHANGED <<pc, unknown, verdict>>
           [] p.field \in Tier1Fields /\ Undecided(p, obj.rec, t1) ->
                i' = i + 1 /\ unknown' = TRUE /\ UNCHANGED <<pc, verdict>>
           [] OTHER ->
                IF Passes(p, Hit1(p, obj.rec, t1, eas))
                  THEN i' = i + 1 /\ UNCHANGED <<pc, unknown, verdict>>
                  ELSE /\ pc' = "done" /\ verdict' = "NOMATCH"
                       /\ UNCHANGED <<i, unknown>>
  /\ UNCHANGED <<query, object>>

Tier1End ==
  /\ pc = "tier1" /\ i > Len(filter.p)
  /\ pc' = "done"
  /\ verdict' = IF unknown THEN "UNKNOWN" ELSE "MATCH"
  /\ UNCHANGED <<query, object, i, unknown>>

(* The scanner has exited.                                                 *)
Exited ==
  /\ pc \in {"usage", "refused", "ended"}
  /\ UNCHANGED vars

Next ==
  \/ Option \/ Check \/ Negotiate
  \/ \E o \in Targets : NextObject(o)
  \/ Tier0Pred \/ Tier0End
  \/ \E lost \in SUBSET Needs : Fetch(lost)
  \/ FetchUnsupported \/ Tier1Pred \/ Tier1End
  \/ Exited

Spec == Init /\ [][Next]_vars

-----------------------------------------------------------------------------
(* What the conjunction of a filter's predicates says of an object, each   *)
(* predicate asked of all the xattrs the object has, in three values.      *)

PredUnknown(p, ob) == Undecided(p, ob.rec, ea_decode(ob.eas))

PredTrue(p, ob) ==
  Passes(p, IF p.field \in Tier0Fields
              THEN Hit0(p, ob.rec, Now)
              ELSE Hit1(p, ob.rec, ea_decode(ob.eas), ob.eas))

Kleene(preds, ob) ==
  IF \E k \in DOMAIN preds : ~PredUnknown(preds[k], ob) /\ ~PredTrue(preds[k], ob)
    THEN "NOMATCH"
  ELSE IF \E k \in DOMAIN preds : PredUnknown(preds[k], ob)
    THEN "UNKNOWN"
  ELSE "MATCH"

TypeOK ==
  /\ pc \in {"parse", "usage", "open", "refused", "scan", "tier0", "fetch",
             "tier1", "done", "ended"}
  /\ backend \in AllBackends
  /\ i \in Nat \ {0}
  /\ filter.needs \subseteq Needs
  /\ filter.neg_pending \in BOOLEAN
  /\ Len(filter.p) <= MaxPred
  /\ DOMAIN eas = Needs
  /\ unknown \in BOOLEAN
  /\ complete \in BOOLEAN
  /\ verdict \in {"NONE", "MATCH", "NOMATCH", "UNKNOWN"}

(* Splitting the filter in two tiers, stopping at the first miss, skipping *)
(* what cannot be decided and fetching only the demanded xattrs does not   *)
(* change the answer: the verdict of lfu_filter_tier0() and                *)
(* lfu_filter_tier1() is the three-valued conjunction of all predicates    *)
(* over the whole object.                                                  *)
VerdictKleene ==
  pc = "done" /\ complete => verdict = Kleene(filter.p, obj)

(* What the two loops have established so far, with the facts about the    *)
(* compiled filter they rest on: every predicate's xattrs are demanded     *)
(* (lfu_pred_new()), tier 0 has passed before anything is fetched, and of  *)
(* the predicates behind the tier-1 loop none is refuted and "unknown"     *)
(* says whether one is undecided.                                          *)
FilterInv ==
  \A k \in DOMAIN filter.p :
    /\ filter.p[k].field \in Tier0Fields \cup Tier1Fields
    /\ field_needs(filter.p[k].field) \subseteq filter.needs

LoopInv ==
  /\ FilterInv
  /\ pc = "tier0" =>
       \A k \in DOMAIN filter.p :
         k < i /\ filter.p[k].field \in Tier0Fields => PredTrue(filter.p[k], obj)
  /\ pc \in {"fetch", "tier1"} =>
       \A k \in DOMAIN filter.p :
         filter.p[k].field \in Tier0Fields => PredTrue(filter.p[k], obj)
  /\ pc \in {"tier0", "fetch"} => ~unknown
  /\ pc = "tier1" /\ complete =>
       /\ eas = [x \in Needs |-> IF x \in filter.needs THEN obj.eas[x] ELSE NoEA]
       /\ t1 = ea_decode(eas)
       /\ \A k \in DOMAIN filter.p :
            k < i => \/ PredUnknown(filter.p[k], obj)
                     \/ PredTrue(filter.p[k], obj)
       /\ unknown = \E k \in DOMAIN filter.p : k < i /\ PredUnknown(filter.p[k], obj)
  /\ VerdictKleene

(* Whatever lfu_filter_opt() compiles and lfu_main() lets through passes    *)
(* lfu_filter_validate() when the ring checks it again on SET_FILTER, so a *)
(* kmdt scan is refused only for what the OSD cannot supply.               *)
CompiledValidates ==
  pc \in {"open", "scan", "tier0", "fetch", "tier1", "done"} => validate(filter)

(* The two walks of a LOV agree: for an object with no released component  *)
(* --stripe-count compares the number of objects that --ost looks at, also *)
(* when the value is cut short or its entries point outside it.            *)
WalksAgree ==
  LET lov == eas["LOV"]
  IN  pc = "tier1" /\ lov.len = "full" /\ "released" \notin t1.lov.pattern
        => t1.lov.stripe_count =
             FoldFunctionOnSet(LAMBDA m, n : m + n, 0,
                               [k \in DOMAIN lov.comps |-> Len(Objects(lov.comps[k]))],
                               Walked(lov))
=============================================================================
