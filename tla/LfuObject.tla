------------------------------ MODULE LfuObject ------------------------------
(***************************************************************************)
(* What the scan core and the two device backends do with ONE object of    *)
(* the target: the backend's own checks, the tier-0 prefilter, the         *)
(* classification ladder and the tier-1 verdict, each step bumping one of  *)
(* the counters of struct lfu_stats.  An object's whole passage is the set *)
(* of counters it bumps (no counter is bumped twice by one object).        *)
(*                                                                         *)
(* An entry of the target is a record:                                     *)
(*   state      what the backend finds in the slot (see the two Bumps)     *)
(*   tier0      lfu_filter_tier0() passes it                               *)
(*   lma, flags, seq   what the ladder looks at: whether there is an LMA,  *)
(*              the lma_compat and lma_incompat bits, the class of f_seq   *)
(*   tier1      lfu_filter_tier1()'s verdict                               *)
(*   ext        it has an external xattr block                             *)
(*   nlink      its link count                                             *)
(* Options are a record [active, needs, show_internal, emit_unknown].      *)
(***************************************************************************)
EXTENDS Naturals, FiniteSets

Classes == {"visible", "internal", "ost_obj", "agent", "no_lma", "bad"}

Counters == Classes \cup
            {"seen", "emitted", "filtered", "filtered1", "unknown",
             "free_ino", "deleted", "in_use", "tier2", "tier2_read",
             "csum_bad", "validate_bad",
             "not_znode", "sa_fail", "unlinked", "no_dxattr"}

ZeroCounters == [c \in Counters |-> 0]

(* The ladder of lfu_classify(): the first test that applies decides.      *)
classify(e) ==
  CASE ~e.lma                        -> "no_lma"
    [] e.lma /\ "UNSUPP" \in e.flags -> "bad"
    [] OTHER ->
         IF "NOT_IN_OI" \in e.flags THEN "internal"
         ELSE IF "AGENT" \in e.flags THEN "agent"
         ELSE IF "FID_ON_OST" \in e.flags \/ e.seq = "idif" THEN "ost_obj"
         ELSE IF e.seq = "visible" THEN "visible"
         ELSE "internal"

(* lfu_prefilter(), for a backend that does not push the filter down.      *)
prefilter(o, e) == o.active => e.tier0

(* An object of class cls goes on to tier 1 and may be emitted.            *)
Shown(o, cls) == cls = "visible" \/ (o.show_internal /\ cls = "internal")

(* Mutant: no return after an undecided verdict.                           *)
lfu_objectMut(o, e) ==
  LET cls == classify(e)
      verdict == IF o.needs THEN e.tier1 ELSE "MATCH"
  IN  {cls}
      \cup (IF o.needs /\ e.ext THEN {"tier2_read"} ELSE {})
      \cup (IF ~Shown(o, cls) THEN {}
            ELSE CASE verdict = "NOMATCH" -> {"filtered1"}
                   [] verdict = "UNKNOWN" -> {"unknown", "emitted"}
                   [] verdict = "MATCH" -> {"emitted"})

(* lfu_object(): class counter, decode, tier 1, emission.                  *)
lfu_object(o, e) ==
  LET cls == classify(e)
      verdict == IF o.needs THEN e.tier1 ELSE "MATCH"
  IN  {cls}
      \cup (IF o.needs /\ e.ext THEN {"tier2_read"} ELSE {})
      \cup (IF ~Shown(o, cls) THEN {}
            ELSE CASE verdict = "NOMATCH" -> {"filtered1"}
                   [] verdict = "UNKNOWN" ->
                        {"unknown"} \cup
                        (IF o.emit_unknown THEN {"emitted"} ELSE {})
                   [] verdict = "MATCH" -> {"emitted"})

(* One inode of lfu_ldiskfs_scan_chunk()'s loop, after the range check:    *)
(* reserved, free in the bitmap, deleted, implausible, or an object.       *)
ldiskfs_inode(o, e) ==
  {"seen"} \cup
  CASE e.state = "reserved"    -> {}
    [] e.state = "free"        -> {"free_ino"}
    [] e.state = "deleted"     -> {"deleted"}
    [] e.state = "implausible" -> {"validate_bad"}
    [] e.state = "object"      ->
         {"in_use"}
         \cup (IF e.ext THEN {"tier2"} ELSE {})
         \cup (IF prefilter(o, e) THEN lfu_object(o, e) ELSE {"filtered"})

(* One dnode of lfu_zfs_scan_chunk()'s loop: lfu_zfs_read_obj() and the    *)
(* counting of its result.  "sa_fail" fails before the prefilter, and      *)
(* "xattr_fail" after it.  "no_xattr" has no SA xattrs at all: no LMA and  *)
(* none of the tier-1 values.  The tier-1 values come with the one unpack, *)
(* never from outside the dnode.                                           *)
zfs_dnode(o, e) ==
  {"seen"} \cup
  CASE e.state = "not_znode" -> {"not_znode"}
    [] e.state = "sa_fail"   -> {"sa_fail"}
    [] e.state \in {"xattr_fail", "no_xattr", "object"} ->
         (IF e.nlink = 0 THEN {"unlinked"} ELSE {})
         \cup (CASE ~prefilter(o, e)         -> {"filtered"}
                 [] prefilter(o, e) /\ e.state = "xattr_fail" -> {"sa_fail"}
                 [] prefilter(o, e) /\ e.state = "no_xattr" ->
                      {"no_dxattr"} \cup
                      lfu_object(o, [e EXCEPT !.lma = FALSE, !.ext = FALSE])
                 [] prefilter(o, e) /\ e.state = "object" ->
                      lfu_object(o, [e EXCEPT !.ext = FALSE]))
=============================================================================
