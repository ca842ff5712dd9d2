---------------------------- MODULE LfuScanProofs ----------------------------
(***************************************************************************)
(* For every number of workers, chunk size, target and --limit: the chunk  *)
(* dispatcher of lfu_core.c processes no object twice, ends only when no   *)
(* object is left, and an exit status of 0 means that every object was     *)
(* processed -- up to the two exceptions the model names.  And the         *)
(* counters of every worker, and the sums that lfu_stats_merge() makes of  *)
(* them, balance for every target and every set of options.                *)
(***************************************************************************)
EXTENDS LfuScan, TLAPS

(* A truth value as a count.                                               *)
One(b) == IF b THEN 1 ELSE 0

(* An object's passage through lfu_object(): one class counter, and of a   *)
(* shown class one of rejected, undecided or emitted.                      *)
LEMMA ObjectBumps ==
  ASSUME NEW o, NEW e, o.needs \in BOOLEAN, o.emit_unknown \in BOOLEAN, e.lma \in BOOLEAN,
         e.tier1 \in {"MATCH", "NOMATCH", "UNKNOWN"}
  PROVE  /\ classify(e) \in Classes
         /\ \A c \in Classes : c \in lfu_object(o, e) <=> c = classify(e)
         /\ {"filtered", "in_use", "seen", "not_znode", "sa_fail"} \cap lfu_object(o, e) = {}
         /\ IF Shown(o, classify(e))
            THEN \/ /\ "filtered1" \in lfu_object(o, e)
                    /\ {"emitted", "unknown"} \cap lfu_object(o, e) = {}
                 \/ /\ {"unknown", "filtered1"} \cap lfu_object(o, e) = {}
                    /\ "emitted" \in lfu_object(o, e)
                 \/ /\ "unknown" \in lfu_object(o, e) /\ "filtered1" \notin lfu_object(o, e)
                    /\ "emitted" \in lfu_object(o, e) <=> o.emit_unknown
            ELSE {"emitted", "unknown", "filtered1"} \cap lfu_object(o, e) = {}
<1>1. classify(e) \in Classes
  BY DEF classify, Classes
<1> DEFINE cls == classify(e)
           verdict == IF o.needs THEN e.tier1 ELSE "MATCH"
           rest == IF ~Shown(o, cls) THEN {}
                   ELSE CASE verdict = "NOMATCH" -> {"filtered1"}
                          [] verdict = "UNKNOWN" ->
                               {"unknown"} \cup (IF o.emit_unknown THEN {"emitted"} ELSE {})
                          [] verdict = "MATCH" -> {"emitted"}
           read == IF o.needs /\ e.ext THEN {"tier2_read"} ELSE {}
<1>2. lfu_object(o, e) = ({cls} \cup read) \cup rest
  BY DEF lfu_object
<1>3. verdict \in {"MATCH", "NOMATCH", "UNKNOWN"}
  OBVIOUS
<1> HIDE DEF cls, verdict
<1>4. read \subseteq {"tier2_read"}
  OBVIOUS
<1>5. IF Shown(o, cls)
      THEN \/ rest = {"filtered1"} \/ rest = {"emitted"}
           \/ rest = {"unknown"} \cup (IF o.emit_unknown THEN {"emitted"} ELSE {})
      ELSE rest = {}
  BY <1>3
<1> HIDE DEF rest, read
<1>6. rest \subseteq {"filtered1", "emitted", "unknown"}
  BY <1>5
<1>7. cls \in Classes
  BY <1>1 DEF cls
<1>8. \A c \in Classes : c \in lfu_object(o, e) <=> c = cls
  <2>1. \A c \in Classes : c \notin {"tier2_read", "filtered1", "emitted", "unknown"}
    BY DEF Classes
  <2> QED
    BY <1>2, <1>4, <1>6, <2>1, Zenon
<1>9. \A c : c \in lfu_object(o, e) /\ c \notin Classes => c \in {"tier2_read"} \/ c \in rest
  BY <1>2, <1>4, <1>7, Zenon
<1>10. {"filtered", "in_use", "seen", "not_znode", "sa_fail", "emitted", "unknown", "filtered1"}
         \cap Classes = {}
  BY DEF Classes
<1>11. \A c \in {"emitted", "unknown", "filtered1"} : c \in lfu_object(o, e) <=> c \in rest
  BY <1>2, <1>9, <1>10
<1>12. {"filtered", "in_use", "seen", "not_znode", "sa_fail"} \cap lfu_object(o, e) = {}
  BY <1>6, <1>9, <1>10
<1>13. IF Shown(o, cls)
       THEN \/ "filtered1" \in rest /\ {"emitted", "unknown"} \cap rest = {}
            \/ {"unknown", "filtered1"} \cap rest = {} /\ "emitted" \in rest
            \/ /\ "unknown" \in rest /\ "filtered1" \notin rest
               /\ "emitted" \in rest <=> o.emit_unknown
       ELSE {"emitted", "unknown", "filtered1"} \cap rest = {}
  BY <1>5
<1>14. IF Shown(o, cls)
       THEN \/ /\ "filtered1" \in lfu_object(o, e)
               /\ {"emitted", "unknown"} \cap lfu_object(o, e) = {}
            \/ /\ {"unknown", "filtered1"} \cap lfu_object(o, e) = {}
               /\ "emitted" \in lfu_object(o, e)
            \/ /\ "unknown" \in lfu_object(o, e) /\ "filtered1" \notin lfu_object(o, e)
               /\ "emitted" \in lfu_object(o, e) <=> o.emit_unknown
       ELSE {"emitted", "unknown", "filtered1"} \cap lfu_object(o, e) = {}
  BY <1>11, <1>13
<1> QED
  BY <1>7, <1>8, <1>12, <1>14, Zenon DEF cls

(* Bumping adds one to the counters bumped.                                *)
LEMMA BumpAdds ==
  ASSUME NEW s \in [Counters -> Nat], NEW B
  PROVE  /\ Bump(s, B) \in [Counters -> Nat]
         /\ \A c \in Counters : Bump(s, B)[c] = s[c] + Bump(ZeroCounters, B)[c]
         /\ \A c \in Counters : Bump(ZeroCounters, B)[c] = One(c \in B)
         /\ \A c \in Counters : Bump(ZeroCounters, B)[c] \in Nat
<1>1. \A c \in Counters : Bump(s, B)[c] = s[c] + One(c \in B)
  BY DEF Bump, One
<1>2. \A c \in Counters : Bump(ZeroCounters, B)[c] = One(c \in B)
  BY DEF Bump, One, ZeroCounters
<1>3. \A c \in Counters : One(c \in B) \in Nat /\ s[c] \in Nat /\ s[c] + One(c \in B) \in Nat
  BY DEF One
<1>4. Bump(s, B) \in [Counters -> Nat]
  BY <1>3 DEF Bump, One
<1> QED
  BY <1>1, <1>2, <1>3, <1>4

(* The balance is kept by adding what is balanced.                         *)
LEMMA BalanceAdds ==
  ASSUME NEW s \in [Counters -> Nat], NEW d, NEW t, Balanced(s), Balanced(d),
         opts.show_internal \in BOOLEAN, opts.emit_unknown \in BOOLEAN,
         \A c \in Counters : d[c] \in Nat /\ t[c] = s[c] + d[c]
  PROVE  Balanced(t)
<1> DEFINE K == {"visible", "internal", "ost_obj", "agent", "no_lma", "bad", "in_use", "filtered",
                 "seen", "not_znode", "sa_fail", "emitted", "filtered1", "unknown"}
<1>1. K \subseteq Counters
  BY DEF Counters, Classes
<1>2. \A c \in K : s[c] \in Nat /\ d[c] \in Nat /\ t[c] = s[c] + d[c]
  BY <1>1
<1>3. /\ s["visible"] \in Nat /\ d["visible"] \in Nat /\ t["visible"] = s["visible"] + d["visible"]
      /\ s["internal"] \in Nat /\ d["internal"] \in Nat /\ t["internal"] = s["internal"] + d["internal"]
      /\ s["emitted"] \in Nat /\ d["emitted"] \in Nat /\ t["emitted"] = s["emitted"] + d["emitted"]
      /\ s["filtered1"] \in Nat /\ d["filtered1"] \in Nat /\ t["filtered1"] = s["filtered1"] + d["filtered1"]
      /\ s["unknown"] \in Nat /\ d["unknown"] \in Nat /\ t["unknown"] = s["unknown"] + d["unknown"]
  BY <1>2
<1>4. /\ s["ost_obj"] \in Nat /\ d["ost_obj"] \in Nat /\ t["ost_obj"] = s["ost_obj"] + d["ost_obj"]
      /\ s["agent"] \in Nat /\ d["agent"] \in Nat /\ t["agent"] = s["agent"] + d["agent"]
      /\ s["no_lma"] \in Nat /\ d["no_lma"] \in Nat /\ t["no_lma"] = s["no_lma"] + d["no_lma"]
      /\ s["bad"] \in Nat /\ d["bad"] \in Nat /\ t["bad"] = s["bad"] + d["bad"]
      /\ s["in_use"] \in Nat /\ d["in_use"] \in Nat /\ t["in_use"] = s["in_use"] + d["in_use"]
      /\ s["filtered"] \in Nat /\ d["filtered"] \in Nat /\ t["filtered"] = s["filtered"] + d["filtered"]
      /\ s["seen"] \in Nat /\ d["seen"] \in Nat /\ t["seen"] = s["seen"] + d["seen"]
      /\ s["not_znode"] \in Nat /\ d["not_znode"] \in Nat /\ t["not_znode"] = s["not_znode"] + d["not_znode"]
      /\ s["sa_fail"] \in Nat /\ d["sa_fail"] \in Nat /\ t["sa_fail"] = s["sa_fail"] + d["sa_fail"]
  BY <1>2, Zenon
<1> DEFINE Class(x) == x["visible"] + x["internal"] + x["ost_obj"] + x["agent"] + x["no_lma"] + x["bad"]
           Show(x) == x["visible"] + (IF opts.show_internal THEN x["internal"] ELSE 0)
           Out(x) == x["emitted"] + x["filtered1"] + (IF opts.emit_unknown THEN 0 ELSE x["unknown"])
<1>5. Show(t) = Out(t)
  <2>1. Show(s) = Out(s) /\ Show(d) = Out(d)
    BY DEF Balanced
  <2> HIDE DEF Show, Out
  <2>2. CASE opts.show_internal /\ opts.emit_unknown
    <3>1. \A x : Show(x) = x["visible"] + x["internal"] /\ Out(x) = x["emitted"] + x["filtered1"] + 0
      BY <2>2 DEF Show, Out
    <3>2. s["visible"] + s["internal"] = s["emitted"] + s["filtered1"] + 0
      BY <2>1, <3>1, Zenon
    <3>3. d["visible"] + d["internal"] = d["emitted"] + d["filtered1"] + 0
      BY <2>1, <3>1, Zenon
    <3>4. t["visible"] + t["internal"] = t["emitted"] + t["filtered1"] + 0
      BY <1>3, <3>2, <3>3, SMTT(30)
    <3> QED
      BY <3>1, <3>4, Zenon
  <2>3. CASE opts.show_internal /\ ~opts.emit_unknown
    <3>1. \A x : Show(x) = x["visible"] + x["internal"] /\ Out(x) = x["emitted"] + x["filtered1"] + x["unknown"]
      BY <2>3 DEF Show, Out
    <3>2. s["visible"] + s["internal"] = s["emitted"] + s["filtered1"] + s["unknown"]
      BY <2>1, <3>1, Zenon
    <3>3. d["visible"] + d["internal"] = d["emitted"] + d["filtered1"] + d["unknown"]
      BY <2>1, <3>1, Zenon
    <3>4. t["visible"] + t["internal"] = t["emitted"] + t["filtered1"] + t["unknown"]
      BY <1>3, <3>2, <3>3, SMTT(30)
    <3> QED
      BY <3>1, <3>4, Zenon
  <2>4. CASE ~opts.show_internal /\ opts.emit_unknown
    <3>1. \A x : Show(x) = x["visible"] + 0 /\ Out(x) = x["emitted"] + x["filtered1"] + 0
      BY <2>4 DEF Show, Out
    <3>2. s["visible"] + 0 = s["emitted"] + s["filtered1"] + 0
      BY <2>1, <3>1, Zenon
    <3>3. d["visible"] + 0 = d["emitted"] + d["filtered1"] + 0
      BY <2>1, <3>1, Zenon
    <3>4. t["visible"] + 0 = t["emitted"] + t["filtered1"] + 0
      BY <1>3, <3>2, <3>3, SMTT(30)
    <3> QED
      BY <3>1, <3>4, Zenon
  <2>5. CASE ~opts.show_internal /\ ~opts.emit_unknown
    <3>1. \A x : Show(x) = x["visible"] + 0 /\ Out(x) = x["emitted"] + x["filtered1"] + x["unknown"]
      BY <2>5 DEF Show, Out
    <3>2. s["visible"] + 0 = s["emitted"] + s["filtered1"] + s["unknown"]
      BY <2>1, <3>1, Zenon
    <3>3. d["visible"] + 0 = d["emitted"] + d["filtered1"] + d["unknown"]
      BY <2>1, <3>1, Zenon
    <3>4. t["visible"] + 0 = t["emitted"] + t["filtered1"] + t["unknown"]
      BY <1>3, <3>2, <3>3, SMTT(30)
    <3> QED
      BY <3>1, <3>4, Zenon
  <2> QED
    BY <2>2, <2>3, <2>4, <2>5, Zenon
<1>c. Class(t) = Class(s) + Class(d) /\ Class(s) \in Nat /\ Class(d) \in Nat
  <2>1. \A a1, a2, a3, a4, a5, a6, b1, b2, b3, b4, b5, b6 \in Nat :
          (a1 + b1) + (a2 + b2) + (a3 + b3) + (a4 + b4) + (a5 + b5) + (a6 + b6)
            = (a1 + a2 + a3 + a4 + a5 + a6) + (b1 + b2 + b3 + b4 + b5 + b6)
    OBVIOUS
  <2>2. \A a1, a2, a3, a4, a5, a6 \in Nat : a1 + a2 + a3 + a4 + a5 + a6 \in Nat
    OBVIOUS
  <2>3. Class(t) = (s["visible"] + d["visible"]) + (s["internal"] + d["internal"])
                   + (s["ost_obj"] + d["ost_obj"]) + (s["agent"] + d["agent"])
                   + (s["no_lma"] + d["no_lma"]) + (s["bad"] + d["bad"])
    BY <1>3, <1>4, Zenon
  <2> QED
    BY <1>3, <1>4, <2>1, <2>2, <2>3
<1>6. CASE backend = "ldiskfs"
  <2>1. s["in_use"] = s["filtered"] + Class(s) /\ d["in_use"] = d["filtered"] + Class(d)
    BY <1>6, Zenon DEF Balanced
  <2>2. t["in_use"] = t["filtered"] + Class(t)
    <3> HIDE DEF Class
    <3> QED
      BY <1>4, <1>c, <2>1, SMTT(30)
  <2> QED
    BY <1>5, <1>6, <2>2, Zenon DEF Balanced
<1>7. CASE backend # "ldiskfs"
  <2>1. /\ s["seen"] = s["not_znode"] + s["sa_fail"] + s["filtered"] + Class(s)
        /\ d["seen"] = d["not_znode"] + d["sa_fail"] + d["filtered"] + Class(d)
    BY <1>7, Zenon DEF Balanced
  <2>2. t["seen"] = t["not_znode"] + t["sa_fail"] + t["filtered"] + Class(t)
    <3> HIDE DEF Class
    <3> QED
      BY <1>4, <1>c, <2>1, SMTT(30)
  <2> QED
    BY <1>5, <1>7, <2>2, Zenon DEF Balanced
<1> QED
  BY <1>6, <1>7

(* An object that reaches lfu_object() is classified once, and shown once. *)
LEMMA ObjectBalances ==
  ASSUME NEW e, NEW B, opts.needs \in BOOLEAN, opts.emit_unknown \in BOOLEAN,
         opts.show_internal \in BOOLEAN, e.lma \in BOOLEAN,
         e.tier1 \in {"MATCH", "NOMATCH", "UNKNOWN"},
         \A c \in Classes \cup {"filtered", "not_znode", "sa_fail", "emitted", "unknown",
                                "filtered1"} : c \in B <=> c \in lfu_object(opts, e),
         "seen" \in B, backend = "ldiskfs" => "in_use" \in B
  PROVE  Balanced(Bump(ZeroCounters, B))
<1> DEFINE d == Bump(ZeroCounters, B)
           O == lfu_object(opts, e)
           cls == classify(e)
<1>1. \A c \in Counters : d[c] = One(c \in B)
  BY DEF Bump, One, ZeroCounters
<1>2. /\ cls \in Classes
      /\ \A c \in Classes : c \in O <=> c = cls
      /\ {"filtered", "in_use", "seen", "not_znode", "sa_fail"} \cap O = {}
      /\ IF Shown(opts, cls)
         THEN \/ "filtered1" \in O /\ {"emitted", "unknown"} \cap O = {}
              \/ {"unknown", "filtered1"} \cap O = {} /\ "emitted" \in O
              \/ /\ "unknown" \in O /\ "filtered1" \notin O
                 /\ "emitted" \in O <=> opts.emit_unknown
         ELSE {"emitted", "unknown", "filtered1"} \cap O = {}
  BY ObjectBumps, SMTT(30)
<1> HIDE DEF d, O, cls
<1>3. /\ \A c \in Classes : c \in B <=> c = cls
      /\ "filtered" \notin B /\ "not_znode" \notin B /\ "sa_fail" \notin B
      /\ "emitted" \in B <=> "emitted" \in O
      /\ "filtered1" \in B <=> "filtered1" \in O
      /\ "unknown" \in B <=> "unknown" \in O
  BY <1>2 DEF O
<1>4. Classes \cup {"seen", "in_use", "filtered", "not_znode", "sa_fail", "emitted", "unknown",
                    "filtered1"} \subseteq Counters
  BY DEF Counters
<1>5. /\ d["visible"] = One(cls = "visible") /\ d["internal"] = One(cls = "internal")
      /\ d["ost_obj"] = One(cls = "ost_obj") /\ d["agent"] = One(cls = "agent")
      /\ d["no_lma"] = One(cls = "no_lma") /\ d["bad"] = One(cls = "bad")
  <2>1. \A c \in Classes : d[c] = One(cls = c)
    BY <1>1, <1>3, <1>4 DEF One
  <2> QED
    BY <2>1 DEF Classes
<1>6. /\ d["filtered"] = 0 /\ d["not_znode"] = 0 /\ d["sa_fail"] = 0 /\ d["seen"] = 1
      /\ backend = "ldiskfs" => d["in_use"] = 1
      /\ d["emitted"] = One("emitted" \in O) /\ d["filtered1"] = One("filtered1" \in O)
      /\ d["unknown"] = One("unknown" \in O)
  BY <1>1, <1>3, <1>4 DEF One
<1>7. d["visible"] + d["internal"] + d["ost_obj"] + d["agent"] + d["no_lma"] + d["bad"] = 1
  BY <1>2, <1>5 DEF One, Classes
<1>8. d["visible"] + (IF opts.show_internal THEN d["internal"] ELSE 0) = One(Shown(opts, cls))
  BY <1>5 DEF One, Shown
<1>9. d["emitted"] + d["filtered1"] + (IF opts.emit_unknown THEN 0 ELSE d["unknown"])
        = One(Shown(opts, cls))
  <2>1. CASE ~Shown(opts, cls)
    BY <1>2, <1>6, <2>1 DEF One
  <2>2. CASE Shown(opts, cls) /\ "filtered1" \in O /\ {"emitted", "unknown"} \cap O = {}
    BY <1>6, <2>2 DEF One
  <2>3. CASE Shown(opts, cls) /\ {"unknown", "filtered1"} \cap O = {} /\ "emitted" \in O
    BY <1>6, <2>3 DEF One
  <2>4. CASE /\ Shown(opts, cls) /\ "unknown" \in O /\ "filtered1" \notin O
             /\ "emitted" \in O <=> opts.emit_unknown
    BY <1>6, <2>4 DEF One
  <2> QED
    BY <1>2, <2>1, <2>2, <2>3, <2>4, Zenon
<1>10. Balanced(d)
  BY <1>6, <1>7, <1>8, <1>9 DEF Balanced
<1> QED
  BY <1>10 DEF d

(* One that does not is filtered at tier 0, skipped, or not in use.        *)
LEMMA OtherBalances ==
  ASSUME NEW B,
         \A c \in Classes \cup {"emitted", "unknown", "filtered1"} : c \notin B,
         opts.emit_unknown \in BOOLEAN, opts.show_internal \in BOOLEAN,
         backend = "ldiskfs" => ("in_use" \in B <=> "filtered" \in B),
         backend # "ldiskfs" =>
           \/ "seen" \in B /\ "filtered" \in B /\ "not_znode" \notin B /\ "sa_fail" \notin B
           \/ "seen" \in B /\ "filtered" \notin B /\ "not_znode" \in B /\ "sa_fail" \notin B
           \/ "seen" \in B /\ "filtered" \notin B /\ "not_znode" \notin B /\ "sa_fail" \in B
           \/ "seen" \notin B /\ "filtered" \notin B /\ "not_znode" \notin B /\ "sa_fail" \notin B
  PROVE  Balanced(Bump(ZeroCounters, B))
<1> DEFINE d == Bump(ZeroCounters, B)
<1>1. \A c \in Counters : d[c] = One(c \in B)
  BY DEF Bump, One, ZeroCounters
<1> HIDE DEF d
<1>2. \A c \in Classes \cup {"emitted", "unknown", "filtered1"} : d[c] = 0
  BY <1>1 DEF One, Counters
<1>3. /\ d["visible"] = 0 /\ d["internal"] = 0 /\ d["ost_obj"] = 0 /\ d["agent"] = 0
      /\ d["no_lma"] = 0 /\ d["bad"] = 0 /\ d["emitted"] = 0 /\ d["unknown"] = 0
      /\ d["filtered1"] = 0
  BY <1>2 DEF Classes
<1>4. \A c \in {"seen", "in_use", "filtered", "not_znode", "sa_fail"} : d[c] = One(c \in B)
  BY <1>1 DEF Counters
<1>5. CASE backend = "ldiskfs"
  <2>1. d["in_use"] = d["filtered"] /\ d["filtered"] \in Nat
    BY <1>4, <1>5 DEF One
  <2>2. Balanced(d)
    BY <1>3, <1>5, <2>1 DEF Balanced
  <2> QED
    BY <2>2 DEF d
<1>6. CASE backend # "ldiskfs"
  <2>1. d["seen"] = d["not_znode"] + d["sa_fail"] + d["filtered"] /\ d["seen"] \in Nat
    BY <1>4, <1>6 DEF One
  <2>2. Balanced(d)
    BY <1>3, <1>6, <2>1 DEF Balanced
  <2> QED
    BY <2>2 DEF d
<1> QED
  BY <1>5, <1>6

(* What one object of the target adds to the counters is balanced.         *)
LEMMA BumpsBalance ==
  ASSUME TypeOK, NEW i \in Ids, Countable(i) PROVE Balanced(Bump(ZeroCounters, Bumps(i)))
<1> DEFINE e == table[i]
           B == Bumps(i)
<1>1. /\ e \in [state : States(backend), tier0 : BOOLEAN, lma : BOOLEAN, flags : SUBSET Flags,
                seq : {"visible", "idif", "other"}, tier1 : {"MATCH", "NOMATCH", "UNKNOWN"},
                ext : BOOLEAN, nlink : Nat]
      /\ opts \in [active : BOOLEAN, needs : BOOLEAN, show_internal : BOOLEAN,
                   emit_unknown : BOOLEAN]
  BY TargetAssumption DEF TypeOK, InputType
<1>2. e.state # "absent" /\ e.state # "csum"
  BY DEF Countable
<1>3. /\ opts.needs \in BOOLEAN /\ opts.show_internal \in BOOLEAN /\ opts.emit_unknown \in BOOLEAN
      /\ e.lma \in BOOLEAN /\ e.tier1 \in {"MATCH", "NOMATCH", "UNKNOWN"}
  BY <1>1
<1> DEFINE O(x) == lfu_object(opts, x)
<1>o. ASSUME NEW x, x.lma \in BOOLEAN, x.tier1 \in {"MATCH", "NOMATCH", "UNKNOWN"}
      PROVE  \A c \in {"filtered", "not_znode", "sa_fail"} : c \notin O(x)
  <2>1. {"filtered", "in_use", "seen", "not_znode", "sa_fail"} \cap lfu_object(opts, x) = {}
    BY <1>3, <1>o, ObjectBumps
  <2> QED
    BY <2>1
<1>k. \A c \in Classes \cup {"emitted", "unknown", "filtered1"} :
        c \notin {"seen", "free_ino", "deleted", "validate_bad", "in_use", "tier2", "filtered",
                  "unlinked", "no_dxattr", "not_znode", "sa_fail"}
  BY DEF Classes
<1>4. CASE backend = "ldiskfs"
  <2>1. B = ldiskfs_inode(opts, e)
    BY <1>4 DEF Bumps
  <2>2. e.state \in {"reserved", "free", "deleted", "implausible", "object"}
    BY <1>1, <1>2, <1>4 DEF States
  <2>3. CASE e.state # "object"
    <3>1. B \subseteq {"seen", "free_ino", "deleted", "validate_bad"}
      BY <2>1, <2>2, <2>3 DEF ldiskfs_inode
    <3>2. \A c \in Classes \cup {"emitted", "unknown", "filtered1"} : c \notin B
      BY <1>k, <3>1
    <3>3. "in_use" \notin B /\ "filtered" \notin B
      BY <3>1
    <3> QED
      BY <1>3, <1>4, <3>2, <3>3, OtherBalances, Zenon DEF B
  <2>4. CASE e.state = "object"
    <3> DEFINE T == IF e.ext THEN {"tier2"} ELSE {}
    <3>1. B = {"seen"} \cup (({"in_use"} \cup T)
               \cup (IF prefilter(opts, e) THEN O(e) ELSE {"filtered"}))
      BY <2>1, <2>4 DEF ldiskfs_inode
    <3>2. T \subseteq {"tier2"}
      OBVIOUS
    <3> HIDE DEF T, O
    <3>3. CASE prefilter(opts, e)
      <4>1. B = {"seen"} \cup (({"in_use"} \cup T) \cup O(e))
        BY <3>1, <3>3
      <4>2. \A c \in Classes \cup {"filtered", "not_znode", "sa_fail", "emitted", "unknown",
                                   "filtered1"} : c \in B <=> c \in O(e)
        <5>1. \A c \in Classes \cup {"filtered", "not_znode", "sa_fail", "emitted", "unknown",
                                     "filtered1"} : c \notin {"seen", "in_use", "tier2"}
          BY DEF Classes
        <5> QED
          BY <3>2, <4>1, <5>1, Zenon
      <4>3. "seen" \in B /\ "in_use" \in B
        BY <4>1
      <4> QED
        BY <1>3, <4>2, <4>3, ObjectBalances, SMTT(30) DEF O, B
    <3>4. CASE ~prefilter(opts, e)
      <4>1. B = {"seen"} \cup (({"in_use"} \cup T) \cup {"filtered"})
        BY <3>1, <3>4
      <4>2. \A c \in Classes \cup {"emitted", "unknown", "filtered1"} : c \notin B
        BY <1>k, <3>2, <4>1, Zenon
      <4>3. "in_use" \in B /\ "filtered" \in B
        BY <4>1
      <4> QED
        BY <1>3, <1>4, <4>2, <4>3, OtherBalances DEF B
    <3> QED
      BY <3>3, <3>4
  <2> QED
    BY <2>3, <2>4, Zenon
<1>5. CASE backend # "ldiskfs"
  <2>1. B = zfs_dnode(opts, e)
    BY <1>5 DEF Bumps
  <2>2. e.state \in {"not_znode", "sa_fail", "xattr_fail", "no_xattr", "object"}
    BY <1>1, <1>2, <1>5 DEF States
  <2>3. CASE e.state = "not_znode"
    <3>1. B = {"seen"} \cup {"not_znode"}
      BY <2>1, <2>3 DEF zfs_dnode
    <3>2. \A c \in Classes \cup {"emitted", "unknown", "filtered1"} : c \notin B
      BY <1>k, <3>1
    <3> QED
      BY <1>3, <1>5, <3>1, <3>2, OtherBalances DEF B
  <2>4. CASE e.state = "sa_fail"
    <3>1. B = {"seen"} \cup {"sa_fail"}
      BY <2>1, <2>4 DEF zfs_dnode
    <3>2. \A c \in Classes \cup {"emitted", "unknown", "filtered1"} : c \notin B
      BY <1>k, <3>1
    <3> QED
      BY <1>3, <1>5, <3>1, <3>2, OtherBalances DEF B
  <2>5. CASE e.state \in {"xattr_fail", "no_xattr", "object"}
    <3> DEFINE U == IF e.nlink = 0 THEN {"unlinked"} ELSE {}
               R == CASE ~prefilter(opts, e)         -> {"filtered"}
                      [] prefilter(opts, e) /\ e.state = "xattr_fail" -> {"sa_fail"}
                      [] prefilter(opts, e) /\ e.state = "no_xattr" ->
                           {"no_dxattr"} \cup O([e EXCEPT !.lma = FALSE, !.ext = FALSE])
                      [] prefilter(opts, e) /\ e.state = "object" ->
                           O([e EXCEPT !.ext = FALSE])
    <3>1. B = {"seen"} \cup (U \cup R)
      BY <2>1, <2>5 DEF zfs_dnode
    <3>2. U \subseteq {"unlinked"}
      OBVIOUS
    <3> HIDE DEF U, O
    <3>3. CASE ~prefilter(opts, e)
      <4>1. R = {"filtered"}
        BY <3>3
      <4>2. \A c \in Classes \cup {"emitted", "unknown", "filtered1"} : c \notin B
        BY <1>k, <3>1, <3>2, <4>1, Zenon
      <4>3. "seen" \in B /\ "filtered" \in B /\ "not_znode" \notin B /\ "sa_fail" \notin B
        BY <3>1, <3>2, <4>1, Zenon
      <4> QED
        BY <1>3, <1>5, <4>2, <4>3, OtherBalances DEF B
    <3>4. CASE prefilter(opts, e) /\ e.state = "xattr_fail"
      <4>1. R = {"sa_fail"}
        BY <3>4
      <4>2. \A c \in Classes \cup {"emitted", "unknown", "filtered1"} : c \notin B
        BY <1>k, <3>1, <3>2, <4>1, Zenon
      <4>3. "seen" \in B /\ "filtered" \notin B /\ "not_znode" \notin B /\ "sa_fail" \in B
        BY <3>1, <3>2, <4>1, Zenon
      <4> QED
        BY <1>3, <1>5, <4>2, <4>3, OtherBalances, Zenon DEF B
    <3>5. CASE prefilter(opts, e) /\ e.state \in {"no_xattr", "object"}
      <4>1. PICK x, X :
              /\ X \subseteq {"no_dxattr"}
              /\ x.lma \in BOOLEAN /\ x.tier1 \in {"MATCH", "NOMATCH", "UNKNOWN"}
              /\ R = X \cup O(x)
        <5>1. CASE e.state = "no_xattr"
          <6> DEFINE x == [e EXCEPT !.lma = FALSE, !.ext = FALSE]
          <6>1. x.lma \in BOOLEAN /\ x.tier1 \in {"MATCH", "NOMATCH", "UNKNOWN"}
            BY <1>1
          <6>2. R = {"no_dxattr"} \cup O(x)
            BY <3>5, <5>1
          <6> HIDE DEF x, R
          <6> QED
            BY <6>1, <6>2, Zenon
        <5>2. CASE e.state = "object"
          <6> DEFINE x == [e EXCEPT !.ext = FALSE]
          <6>1. x.lma \in BOOLEAN /\ x.tier1 \in {"MATCH", "NOMATCH", "UNKNOWN"}
            BY <1>1
          <6>2. R = O(x)
            BY <3>5, <5>2
          <6>3. O(x) = {} \cup O(x)
            OBVIOUS
          <6> HIDE DEF x, R
          <6> QED
            BY <6>1, <6>2, <6>3, Zenon
        <5> QED
          BY <3>5, <5>1, <5>2, Zenon
      <4> HIDE DEF R
      <4>2. B = {"seen"} \cup (U \cup (X \cup O(x)))
        BY <3>1, <4>1
      <4>3. \A c \in Classes \cup {"filtered", "not_znode", "sa_fail", "emitted", "unknown",
                                   "filtered1"} : c \in B <=> c \in O(x)
        <5>1. \A c \in Classes \cup {"filtered", "not_znode", "sa_fail", "emitted", "unknown",
                                     "filtered1"} : c \notin {"seen", "unlinked", "no_dxattr"}
          BY DEF Classes
        <5> QED
          BY <3>2, <4>1, <4>2, <5>1, Zenon
      <4>4. "seen" \in B
        BY <4>2
      <4> QED
        BY <1>3, <1>5, <4>1, <4>3, <4>4, ObjectBalances, SMTT(30) DEF O, B
    <3> QED
      BY <2>5, <3>3, <3>4, <3>5, Zenon
  <2> QED
    BY <2>2, <2>3, <2>4, <2>5, Zenon
<1> QED
  BY <1>4, <1>5

-----------------------------------------------------------------------------
(* The dispatcher and the workers.                                         *)

(* Chunks are laid end to end: the arithmetic of both backends.            *)
LEMMA StartStep ==
  ASSUME ScanAssumption, NEW b, NEW k \in Nat
  PROVE  /\ ChunkStart(b, k) \in Nat
         /\ ChunkStart(b, k) <= ChunkStart(b, k + 1)
         /\ \A i \in Ids : i <= ChunkEnd(b, k) <=> i <= ChunkStart(b, k + 1)
         /\ \A i \in Ids : InChunk(b, i, k) <=>
                             ChunkStart(b, k) < i /\ i <= ChunkStart(b, k + 1)
<1>1. PICK c \in Nat : c = ChunkSize /\ c >= 1
  BY DEF ScanAssumption
<1>2. k * c \in Nat /\ (k + 1) * c \in Nat /\ (k + 1) * c = k * c + c
  BY <1>1
<1>3. k # 0 => k * c >= 1
  BY <1>1
<1>4. PICK a \in Nat : a = k * ChunkSize /\ (k + 1) * ChunkSize = a + c
                       /\ (k # 0 => a >= 1)
  BY <1>1, <1>2, <1>3
<1>5. MaxId \in Nat
  BY DEF ScanAssumption
<1>6. QED
  BY <1>1, <1>4, <1>5 DEF ChunkStart, ChunkEnd, InChunk, Ids

(* An earlier chunk ends where a later one starts, or before.              *)
LEMMA StartMonotone ==
  ASSUME ScanAssumption, NEW b, NEW j \in Nat, NEW k \in Nat, j < k
  PROVE  ChunkStart(b, j + 1) <= ChunkStart(b, k)
<1>1. PICK c \in Nat : c = ChunkSize /\ c >= 1
  BY DEF ScanAssumption
<1>2. PICK d \in Nat : k = (j + 1) + d
  <2>1. k - (j + 1) \in Nat /\ k = (j + 1) + (k - (j + 1))
    OBVIOUS
  <2>2. QED BY <2>1
<1>3. k * c = (j + 1) * c + d * c /\ d * c \in Nat
  BY <1>1, <1>2
<1>4. (j + 1) * c \in Nat /\ k * c \in Nat /\ (j + 1) * c <= k * c
  BY <1>1, <1>2, <1>3
<1>5. QED
  BY <1>1, <1>4 DEF ChunkStart

(* Facts about the order of ids.                                           *)
LEMMA Order ==
  /\ \A a, b \in Nat : ~(a > b) => a <= b
  /\ \A a, b \in Nat : a > b => b < a
  /\ \A a, b \in Nat : a # b /\ ~(a < b) => a > b
OBVIOUS

(* An id below a chunk's start is below what the start is below.           *)
LEMMA Chain == \A c, b, a \in Nat : b <= c => (a <= b => a <= c)
OBVIOUS

(* What is not at or below c lies beyond every id that is.                 *)
LEMMA Beyond == \A c, b, a \in Nat : ~(b <= c) => (a <= c => a < b)
OBVIOUS

(* What is past a later position is past an earlier one.                   *)
LEMMA Further == \A c, b, a \in Nat : b >= c => (a > b => a >= c)
OBVIOUS

(* Every step keeps the types, once MainInv bounds the worker started.     *)
LEMMA TypeStep == ScanInv /\ [Next]_vars => TypeOK'
<1> SUFFICES ASSUME ScanInv, [Next]_vars PROVE TypeOK'
  OBVIOUS
<1> USE ScanAssumption DEF ScanInv, TypeOK, mainVars, workVars, chunkVars, input, hist
<1> USE DEF Workers
<1>1. MainType'
  <2>1. CASE NoMemory
    BY <2>1 DEF NoMemory, MainType, MainStates
  <2>2. CASE Create
    BY <2>2 DEF Create, MainType, MainStates
  <2>3. CASE CreateFails
    BY <2>3 DEF CreateFails, MainType, MainStates
  <2>4. CASE StartJoin
    BY <2>4 DEF StartJoin, MainType, MainStates
  <2>5. CASE Join
    BY <2>5 DEF Join, MainType, MainStates
  <2>6. CASE StartMerge
    BY <2>6 DEF StartMerge, MainType, MainStates
  <2>7. CASE Merge
    BY <2>7 DEF Merge, MainType, MainStates, stats_merge, WorkerType
  <2>8. CASE Return
    BY <2>8 DEF Return, MainType, MainStates
  <2>9. ASSUME NEW w \in Workers,
                WorkerInit(w) \/ WorkerInitFails(w) \/ NextChunk(w) \/ NoMoreChunks(w)
                \/ EnterChunk(w) \/ WalkFails(w) \/ NextObjectLost(w) \/ WalkStopped(w)
                \/ WalkEnds(w) \/ WalkBadBlock(w) \/ WalkPastEnd(w) \/ WalkObject(w) \/
                ChunkDone(w)
         PROVE  MainType'
    BY <2>9, Zenon DEF MainType, WorkerInit, WorkerInitFails, NextChunk, NoMoreChunks,
          EnterChunk, WalkFails, NextObjectLost, WalkStopped, WalkEnds,
          WalkBadBlock, WalkPastEnd, WalkObject, ChunkDone
  <2>10. CASE UNCHANGED vars
    BY <2>10 DEF vars, MainType
  <2>11. QED
    BY <2>1, <2>2, <2>3, <2>4, <2>5, <2>6, <2>7, <2>8, <2>9, <2>10
    DEF Next, Main, Worker, Finished
<1>2. WorkType'
  <2>1. ASSUME NEW w \in Workers, WorkerInitFails(w) PROVE WorkType'
    BY <2>1 DEF WorkerInitFails, WorkType, set_done
  <2>2. ASSUME NEW w \in Workers, NextChunk(w) PROVE WorkType'
    BY <2>2 DEF NextChunk, WorkType
  <2>3. ASSUME NEW w \in Workers, WalkFails(w) PROVE WorkType'
    BY <2>3 DEF WalkFails, WorkType, set_done
  <2>4. ASSUME NEW w \in Workers, ChunkDone(w) PROVE WorkType'
    BY <2>4, ZenonT(30) DEF ChunkDone, WorkType, set_done
  <2>5. CASE NoMemory \/ Create \/ CreateFails \/ StartJoin \/ Join \/ StartMerge \/
            Merge \/ Return
    BY <2>5 DEF WorkType, NoMemory, Create, CreateFails, StartJoin, Join, StartMerge,
          Merge, Return
  <2>6. ASSUME NEW w \in Workers,
                WorkerInit(w) \/ NoMoreChunks(w) \/ EnterChunk(w) \/ NextObjectLost(w)
                \/ WalkStopped(w) \/ WalkEnds(w) \/ WalkBadBlock(w) \/ WalkPastEnd(w) \/
                WalkObject(w)
         PROVE  WorkType'
    BY <2>6, Zenon DEF WorkType, WorkerInit, NoMoreChunks, EnterChunk, NextObjectLost,
          WalkStopped, WalkEnds, WalkBadBlock, WalkPastEnd, WalkObject
  <2>7. CASE UNCHANGED vars
    BY <2>7 DEF vars, WorkType
  <2>8. QED
    BY <2>1, <2>2, <2>3, <2>4, <2>5, <2>6, <2>7
    DEF Next, Main, Worker, Finished
<1>3. InputType'
  <2>1. CASE NoMemory \/ Create \/ CreateFails \/ StartJoin \/ Join \/ StartMerge \/
            Merge \/ Return
    BY <2>1 DEF InputType, NoMemory, Create, CreateFails, StartJoin, Join, StartMerge,
          Merge, Return
  <2>2. ASSUME NEW w \in Workers,
                WorkerInit(w) \/ WorkerInitFails(w) \/ NextChunk(w) \/ NoMoreChunks(w)
                \/ EnterChunk(w) \/ WalkFails(w) \/ NextObjectLost(w) \/ WalkStopped(w)
                \/ WalkEnds(w) \/ WalkBadBlock(w) \/ WalkPastEnd(w) \/ WalkObject(w) \/
                ChunkDone(w)
         PROVE  InputType'
    BY <2>2, Zenon DEF InputType, WorkerInit, WorkerInitFails, NextChunk, NoMoreChunks,
          EnterChunk, WalkFails, NextObjectLost, WalkStopped, WalkEnds,
          WalkBadBlock, WalkPastEnd, WalkObject, ChunkDone
  <2>3. CASE UNCHANGED vars
    BY <2>3 DEF vars, InputType
  <2>4. QED
    BY <2>1, <2>2, <2>3
    DEF Next, Main, Worker, Finished
<1>4. HistType'
  <2>1. CASE NoMemory
    BY <2>1 DEF NoMemory, HistType
  <2>2. ASSUME NEW w \in Workers, WorkerInitFails(w) PROVE HistType'
    BY <2>2 DEF WorkerInitFails, HistType
  <2>3. ASSUME NEW w \in Workers, WalkFails(w) PROVE HistType'
    BY <2>3 DEF WalkFails, HistType
  <2>4. ASSUME NEW w \in Workers, NextObjectLost(w) PROVE HistType'
    BY <2>4 DEF NextObjectLost, HistType
  <2>5. ASSUME NEW w \in Workers, WalkObject(w) PROVE HistType'
    BY <2>5 DEF WalkObject, HistType, IsNext
  <2>6. CASE Create \/ CreateFails \/ StartJoin \/ Join \/ StartMerge \/ Merge \/
            Return
    BY <2>6 DEF HistType, Create, CreateFails, StartJoin, Join, StartMerge, Merge,
          Return
  <2>7. ASSUME NEW w \in Workers,
                WorkerInit(w) \/ NextChunk(w) \/ NoMoreChunks(w) \/ EnterChunk(w) \/
                WalkStopped(w) \/ WalkEnds(w) \/ WalkBadBlock(w) \/ WalkPastEnd(w) \/
                ChunkDone(w)
         PROVE  HistType'
    BY <2>7, Zenon DEF HistType, WorkerInit, NextChunk, NoMoreChunks, EnterChunk, WalkStopped,
          WalkEnds, WalkBadBlock, WalkPastEnd, ChunkDone
  <2>8. CASE UNCHANGED vars
    BY <2>8 DEF vars, HistType
  <2>9. QED
    BY <2>1, <2>2, <2>3, <2>4, <2>5, <2>6, <2>7, <2>8
    DEF Next, Main, Worker, Finished
<1>5. WorkerType'
  <2>1. CASE Create
    BY <2>1, Zenon DEF Create, WorkerType, WorkerStates, MainType
  <2>2. ASSUME NEW w \in Workers, WorkerInit(w) PROVE WorkerType'
    BY <2>2, Zenon DEF WorkerInit, WorkerType, WorkerStates
  <2>3. ASSUME NEW w \in Workers, WorkerInitFails(w) PROVE WorkerType'
    BY <2>3, Zenon DEF WorkerInitFails, WorkerType, WorkerStates
  <2>4. ASSUME NEW w \in Workers, NextChunk(w) PROVE WorkerType'
    BY <2>4 DEF NextChunk, WorkerType, WorkerStates, WorkType
  <2>5. ASSUME NEW w \in Workers, NoMoreChunks(w) PROVE WorkerType'
    BY <2>5, Zenon DEF NoMoreChunks, WorkerType, WorkerStates
  <2>6. ASSUME NEW w \in Workers, EnterChunk(w) PROVE WorkerType'
    BY <2>6, StartStep, Zenon DEF EnterChunk, WorkerType, WorkerStates
  <2>7. ASSUME NEW w \in Workers, WalkFails(w) PROVE WorkerType'
    BY <2>7, Zenon DEF WalkFails, WorkerType, WorkerStates
  <2>8. ASSUME NEW w \in Workers, NextObjectLost(w) PROVE WorkerType'
    BY <2>8, Zenon DEF NextObjectLost, WorkerType, WorkerStates
  <2>9. ASSUME NEW w \in Workers, WalkStopped(w) PROVE WorkerType'
    BY <2>9, Zenon DEF WalkStopped, WorkerType, WorkerStates
  <2>10. ASSUME NEW w \in Workers, WalkEnds(w) PROVE WorkerType'
    BY <2>10, Zenon DEF WalkEnds, WorkerType, WorkerStates
  <2>11. ASSUME NEW w \in Workers, WalkBadBlock(w) PROVE WorkerType'
    BY <2>11 DEF WalkBadBlock, WorkerType, WorkerStates, Bump, IsNext, Ids
  <2>12. ASSUME NEW w \in Workers, WalkPastEnd(w) PROVE WorkerType'
    BY <2>12, Zenon DEF WalkPastEnd, WorkerType, WorkerStates
  <2>13. ASSUME NEW w \in Workers, WalkObject(w) PROVE WorkerType'
    BY <2>13, SMTT(30) DEF WalkObject, WorkerType, WorkerStates, Bump, IsNext, Ids
  <2>14. ASSUME NEW w \in Workers, ChunkDone(w) PROVE WorkerType'
    BY <2>14, Zenon DEF ChunkDone, WorkerType, WorkerStates
  <2>15. CASE NoMemory \/ CreateFails \/ StartJoin \/ Join \/ StartMerge \/ Merge \/
            Return
    BY <2>15 DEF WorkerType, NoMemory, CreateFails, StartJoin, Join, StartMerge, Merge,
          Return
  <2>16. CASE UNCHANGED vars
    BY <2>16 DEF vars, WorkerType
  <2>17. QED
    BY <2>1, <2>2, <2>3, <2>4, <2>5, <2>6, <2>7, <2>8, <2>9, <2>10, <2>11,
       <2>12, <2>13, <2>14, <2>15, <2>16
    DEF Next, Main, Worker, Finished
<1>6. QED BY <1>1, <1>2, <1>3, <1>4, <1>5

(* A worker moves only its own pc, and only while it is alive.             *)
LEMMA WorkerMoves ==
  ASSUME ScanInv, NEW w \in Workers, Worker(w)
  PROVE  /\ UNCHANGED <<mpc, nthreads, made, total, rc, backend, table>>
         /\ wpc[w] \notin {"none", "dead"}
         /\ \E x \in WorkerStates \ {"none"} : wpc' = [wpc EXCEPT ![w] = x]
<1> USE DEF mainVars, input, WorkerStates
<1>1. wpc \in [Workers -> WorkerStates]
  BY DEF ScanInv, TypeOK, WorkerType
<1>2. CASE WorkerInit(w)
  BY <1>1, <1>2, Zenon DEF WorkerInit
<1>3. CASE WorkerInitFails(w)
  BY <1>1, <1>3, Zenon DEF WorkerInitFails
<1>4. CASE NextChunk(w)
  BY <1>1, <1>4, Zenon DEF NextChunk
<1>5. CASE NoMoreChunks(w)
  BY <1>1, <1>5, Zenon DEF NoMoreChunks
<1>6. CASE EnterChunk(w)
  BY <1>1, <1>6, Zenon DEF EnterChunk
<1>7. CASE WalkFails(w)
  BY <1>1, <1>7, Zenon DEF WalkFails
<1>8. CASE NextObjectLost(w)
  BY <1>1, <1>8, Zenon DEF NextObjectLost
<1>9. CASE WalkStopped(w)
  BY <1>1, <1>9, Zenon DEF WalkStopped
<1>10. CASE WalkEnds(w)
  BY <1>1, <1>10, Zenon DEF WalkEnds
<1>11. CASE WalkBadBlock(w)
  BY <1>1, <1>11 DEF WalkBadBlock
<1>12. CASE WalkPastEnd(w)
  BY <1>1, <1>12, Zenon DEF WalkPastEnd
<1>13. CASE WalkObject(w)
  BY <1>1, <1>13 DEF WalkObject
<1>14. CASE ChunkDone(w)
  BY <1>1, <1>14, Zenon DEF ChunkDone
<1>15. QED
  BY <1>2, <1>3, <1>4, <1>5, <1>6, <1>7, <1>8, <1>9, <1>10, <1>11, <1>12,
     <1>13, <1>14 DEF Worker

(* The main thread leaves the workers' chunks and counters alone.          *)
LEMMA MainSame ==
  ASSUME Main PROVE UNCHANGED <<st, visits, stop, idx, pos, cdone, cursor, done, lost>>
BY Zenon DEF Main, NoMemory, Create, CreateFails, StartJoin, Join, StartMerge, Merge, Return,
             hist, chunkVars, workVars

(* A failure, a lost end and a reached limit are never taken back.         *)
LEMMA FlawsStay ==
  ASSUME ScanInv, [Next]_vars
  PROVE  /\ (failed => failed') /\ (lost => lost') /\ \A w \in Workers : stop[w] => stop'[w]
         /\ ~Limited' => ~Limited
<1>0. failed \in BOOLEAN /\ lost \in BOOLEAN
  BY DEF ScanInv, TypeOK, HistType
<1>1. CASE Main
  <2>1. UNCHANGED <<lost, stop>>
    BY <1>1, MainSame
  <2>2. failed' = failed \/ failed' = TRUE
    BY <1>1, Zenon DEF Main, NoMemory, Create, CreateFails, StartJoin, Join, StartMerge, Merge,
          Return, hist
  <2>3. failed => failed'
    BY <2>2, Zenon
  <2> QED
    BY <2>1, <2>3, Zenon DEF Limited
<1>2. ASSUME NEW w \in Workers, Worker(w)
      PROVE  /\ (failed => failed') /\ (lost => lost') /\ \A v \in Workers : stop[v] => stop'[v]
             /\ ~Limited' => ~Limited
  <2>1. CASE WalkObject(w)
    <3>1. stop \in [Workers -> BOOLEAN]
      BY DEF ScanInv, TypeOK, WorkerType
    <3>2. ~stop[w] /\ UNCHANGED <<failed, lost>>
      BY <2>1 DEF WalkObject
    <3>3. \A v \in Workers : v # w => stop'[v] = stop[v]
      BY <2>1, <3>1 DEF WalkObject
    <3> QED
      BY <3>2, <3>3, Zenon DEF Limited
  <2>2. CASE ~WalkObject(w)
    <3>1. /\ UNCHANGED stop /\ (failed' = failed \/ failed' = TRUE)
          /\ (lost' = lost \/ lost' = TRUE)
      BY <1>2, <2>2, Zenon DEF Worker, WorkerInit, WorkerInitFails, NextChunk, NoMoreChunks,
            EnterChunk, WalkFails, NextObjectLost, WalkStopped, WalkEnds, WalkBadBlock,
            WalkPastEnd, ChunkDone, hist
    <3>2. (failed => failed') /\ (lost => lost')
      BY <3>1
    <3> QED
      BY <3>1, <3>2, Zenon DEF Limited
  <2> QED
    BY <2>1, <2>2
<1>3. CASE UNCHANGED vars
  BY <1>3, Zenon DEF vars, hist, Limited
<1> QED
  BY <1>1, <1>2, <1>3, Zenon DEF Next, Finished

(* No worker that was created is undone.                                   *)
LEMMA CreatedStays ==
  ASSUME ScanInv, [Next]_vars
  PROVE  \A v \in Workers : wpc[v] # "none" => wpc'[v] # "none"
<1>0. wpc \in [Workers -> WorkerStates]
  BY DEF ScanInv, TypeOK, WorkerType
<1>1. CASE Create
  <2>1. wpc' = [wpc EXCEPT ![made + 1] = "init"]
    BY <1>1 DEF Create
  <2> QED
    BY <1>0, <2>1
<1>2. CASE Main /\ ~Create
  <2>1. UNCHANGED wpc
    BY <1>2, Zenon DEF Main, NoMemory, CreateFails, StartJoin, Join, StartMerge, Merge, Return
  <2> QED
    BY <2>1
<1>3. ASSUME NEW w \in Workers, Worker(w)
      PROVE  \A v \in Workers : wpc[v] # "none" => wpc'[v] # "none"
  <2>1. PICK x \in WorkerStates \ {"none"} : wpc' = [wpc EXCEPT ![w] = x]
    BY <1>3, WorkerMoves
  <2> QED
    BY <1>0, <2>1
<1>4. CASE UNCHANGED vars
  BY <1>4 DEF vars
<1> QED
  BY <1>1, <1>2, <1>3, <1>4, Zenon DEF Next, Finished

(* A step of a worker or of the main thread, invariant by invariant.       *)
LEMMA ScanStep == ScanInv /\ [Next]_vars => ScanInv'
<1> SUFFICES ASSUME ScanInv, [Next]_vars PROVE ScanInv'
  OBVIOUS
<1> USE ScanAssumption DEF mainVars, workVars, chunkVars, input, hist
<1>1. TypeOK'
  BY TypeStep
<1>2. /\ wpc \in [Workers -> WorkerStates] /\ cursor \in Nat
      /\ idx \in [Workers -> Nat] /\ pos \in [Workers -> Nat]
      /\ stop \in [Workers -> BOOLEAN] /\ cdone \in [Workers -> BOOLEAN]
      /\ visits \in [Ids -> Nat] /\ Ids \subseteq Nat
      /\ made \in Nat /\ nthreads \in Nat /\ made <= nthreads /\ nthreads <= Threads
  BY DEF ScanInv, TypeOK, MainType, WorkType, WorkerType, HistType, Ids
<1>3. MainInv /\ HandInv /\ VisitInv /\ CoverInv
  BY DEF ScanInv
<1>4. \A b : \A k \in Nat :
         /\ ChunkStart(b, k) \in Nat
         /\ ChunkStart(b, k) <= ChunkStart(b, k + 1)
         /\ \A i \in Ids : i <= ChunkEnd(b, k) <=> i <= ChunkStart(b, k + 1)
         /\ \A i \in Ids : InChunk(b, i, k) <=>
                             ChunkStart(b, k) < i /\ i <= ChunkStart(b, k + 1)
  BY StartStep
<1>5. \A b : \A j, k \in Nat : j < k => ChunkStart(b, j + 1) <= ChunkStart(b, k)
  BY StartMonotone
<1>6. Workers = 1..Threads /\ Threads \in Nat
  BY DEF Workers
<1> USE <1>2, <1>3, <1>6 DEF WorkerStates
<1>7. MainInv'
  <2>1. CASE NoMemory
    BY <2>1 DEF NoMemory, MainInv
  <2>2. CASE Create
    BY <2>2 DEF Create, MainInv
  <2>3. CASE CreateFails
    BY <2>3 DEF CreateFails, MainInv
  <2>4. CASE StartJoin
    BY <2>4 DEF StartJoin, MainInv
  <2>5. CASE Join
    BY <2>5 DEF Join, MainInv
  <2>6. CASE StartMerge
    BY <2>6 DEF StartMerge, MainInv
  <2>7. CASE Merge
    BY <2>7 DEF Merge, MainInv
  <2>8. CASE Return
    BY <2>8 DEF Return, MainInv
  <2>9. ASSUME NEW w \in Workers, Worker(w) PROVE MainInv'
    <3>1. PICK x \in WorkerStates \ {"none"} : wpc' = [wpc EXCEPT ![w] = x]
      BY <2>9, WorkerMoves
    <3>2. UNCHANGED <<mpc, nthreads, made, rc>> /\ wpc[w] \notin {"none", "dead"}
      BY <2>9, WorkerMoves
    <3>3. mpc # "exit" /\ mpc # "merge" /\ w <= nthreads
          /\ (mpc = "start" => w <= made) /\ (mpc = "join" => w > made)
      BY <3>2 DEF MainInv
    <3>4. failed' <=> error'
      <4>1. failed <=> error
        BY <3>3 DEF MainInv
      <4>2. CASE WorkerInitFails(w) \/ WalkFails(w)
        BY <4>2, Zenon DEF WorkerInitFails, WalkFails, set_done
      <4>3. CASE ChunkDone(w)
        <5>1. UNCHANGED failed /\ (error' = error \/ error' = (error \/ FALSE))
          BY <4>3 DEF ChunkDone, set_done
        <5>2. error \in BOOLEAN
          BY DEF ScanInv, TypeOK, WorkType
        <5>3. QED BY <4>1, <5>1, <5>2
      <4>4. CASE UNCHANGED <<failed, error>>
        BY <4>1, <4>4
      <4>5. QED
        BY <2>9, <4>2, <4>3, <4>4, Zenon DEF Worker, WorkerInit, NextChunk, NoMoreChunks, EnterChunk,
              NextObjectLost, WalkStopped, WalkEnds, WalkBadBlock, WalkPastEnd, WalkObject
    <3>5. QED BY <3>1, <3>2, <3>3, <3>4 DEF MainInv
  <2>10. CASE UNCHANGED vars
    BY <2>10 DEF vars, MainInv
  <2>11. QED
    BY <2>1, <2>2, <2>3, <2>4, <2>5, <2>6, <2>7, <2>8, <2>9, <2>10
    DEF Next, Main, Finished
<1>8. HandInv'
  <2>1. CASE NoMemory \/ CreateFails \/ StartJoin \/ Join \/ StartMerge \/ Merge \/
            Return
    <3>1. UNCHANGED <<wpc, idx, cursor, visits, backend>>
      BY <2>1, Zenon DEF NoMemory, CreateFails, StartJoin, Join, StartMerge, Merge, Return
    <3>2. QED BY <3>1 DEF HandInv, Holds
  <2>2. CASE Create \/ \E w \in Workers : WorkerInit(w) \/ WorkerInitFails(w)
              \/ NoMoreChunks(w) \/ WalkFails(w)
    <3>1. PICK w \in Workers, x \in {"init", "next", "dead"} :
            wpc' = [wpc EXCEPT ![w] = x]
      <4>1. CASE Create
        <5>1. made + 1 \in Workers /\ wpc' = [wpc EXCEPT ![made + 1] = "init"]
          BY <4>1 DEF Create
        <5>2. QED BY <5>1, Zenon
      <4>2. CASE \E w \in Workers : WorkerInit(w) \/ WorkerInitFails(w)
                                      \/ NoMoreChunks(w) \/ WalkFails(w)
        BY <4>2, Zenon DEF WorkerInit, WorkerInitFails, NoMoreChunks, WalkFails
      <4>3. QED BY <2>2, <4>1, <4>2
    <3>2. UNCHANGED <<idx, cursor, visits, backend>>
      BY <2>2, Zenon DEF Create, WorkerInit, WorkerInitFails, NoMoreChunks, WalkFails
    <3>3. QED BY <3>1, <3>2, SMTT(30) DEF HandInv, Holds
  <2>3. ASSUME NEW w \in Workers, NextChunk(w) PROVE HandInv'
    <3>1. /\ idx' = [idx EXCEPT ![w] = cursor] /\ cursor' = cursor + 1
          /\ wpc' = [wpc EXCEPT ![w] = "chunk"] /\ UNCHANGED <<visits, backend>>
      BY <2>3 DEF NextChunk
    <3>2. \A v \in Workers : Holds(v)' => idx'[v] < cursor'
      BY <3>1 DEF HandInv, Holds
    <3>3. ASSUME NEW u \in Workers, NEW v \in Workers, u # v, Holds(u)', Holds(v)'
          PROVE  idx'[u] # idx'[v]
      <4>1. \A x \in Workers : x # w => idx'[x] = idx[x] /\ (Holds(x)' => Holds(x))
        BY <3>1 DEF Holds
      <4>2. idx'[w] = cursor /\ \A x \in Workers : Holds(x) => idx[x] # cursor
        BY <3>1 DEF HandInv
      <4>3. \A x, y \in Workers : x # y /\ Holds(x) /\ Holds(y) => idx[x] # idx[y]
        BY Zenon DEF HandInv
      <4>4. QED BY <3>3, <4>1, <4>2, <4>3, Zenon
    <3>4. \A i \in Ids : i > ChunkStart(backend, cursor + 1) => visits[i] = 0
      BY <1>4 DEF HandInv
    <3>5. QED BY <3>1, <3>2, <3>3, <3>4 DEF HandInv
  <2>4. ASSUME NEW w \in Workers, WalkObject(w) PROVE HandInv'
    <3>1. PICK i \in Ids : /\ i <= ChunkEnd(backend, idx[w])
                           /\ visits' = [visits EXCEPT ![i] = @ + 1]
      BY <2>4, Zenon DEF WalkObject
    <3>2. UNCHANGED <<wpc, idx, cursor, backend>> /\ wpc[w] = "walk"
      BY <2>4 DEF WalkObject
    <3>3. idx[w] < cursor /\ idx[w] \in Nat
      BY <3>2 DEF HandInv, Holds
    <3>4. i <= ChunkStart(backend, cursor)
      <4>1. i <= ChunkStart(backend, idx[w] + 1)
        BY <3>1, <3>3, <1>4
      <4>2. ChunkStart(backend, idx[w] + 1) <= ChunkStart(backend, cursor)
        BY <3>3, <1>5
      <4>3. /\ ChunkStart(backend, idx[w] + 1) \in Nat
            /\ ChunkStart(backend, cursor) \in Nat
        BY <3>3, <1>4
      <4>4. QED BY <4>1, <4>2, <4>3
    <3>5. ASSUME NEW j \in Ids, j > ChunkStart(backend, cursor)
          PROVE  visits'[j] = 0
      <4>1. j # i
        BY <3>4, <3>5, <1>4
      <4>2. QED BY <4>1, <3>1, <3>5 DEF HandInv
    <3>6. QED BY <3>2, <3>5 DEF HandInv, Holds
  <2>5. ASSUME NEW w \in Workers, EnterChunk(w) \/ ChunkDone(w) \/ NextObjectLost(w)
                \/ WalkStopped(w) \/ WalkEnds(w) \/ WalkBadBlock(w) \/ WalkPastEnd(w)
         PROVE  HandInv'
    <3>1. PICK x \in WorkerStates : wpc' = [wpc EXCEPT ![w] = x]
      BY <2>5, WorkerMoves, Zenon DEF Worker
    <3>2. Holds(w) /\ UNCHANGED <<idx, cursor, visits, backend>>
      BY <2>5, Zenon DEF EnterChunk, ChunkDone, NextObjectLost, WalkStopped, WalkEnds,
            WalkBadBlock, WalkPastEnd, Holds
    <3>3. \A v \in Workers : Holds(v)' => Holds(v)
      BY <3>1, <3>2 DEF Holds
    <3>4. QED BY <3>2, <3>3 DEF HandInv
  <2>6. CASE UNCHANGED vars
    BY <2>6 DEF vars, HandInv, Holds
  <2>7. QED
    BY <2>1, <2>2, <2>3, <2>4, <2>5, <2>6 DEF Next, Main, Worker, Finished
<1>9. VisitInv'
  <2>chunks. ASSUME NEW v \in Workers
             PROVE  /\ ChunkStart(backend, idx[v]) \in Nat
                    /\ ChunkStart(backend, idx[v] + 1) \in Nat
                    /\ ChunkStart(backend, idx[v]) <= ChunkStart(backend, idx[v] + 1)
    <3>1. idx[v] \in Nat /\ idx[v] + 1 \in Nat
      OBVIOUS
    <3>2. QED BY <3>1, <1>4
  <2>1. CASE NoMemory \/ CreateFails \/ StartJoin \/ Join \/ StartMerge \/ Merge \/
            Return
    <3>1. UNCHANGED <<wpc, idx, pos, visits, backend, table>>
      BY <2>1, Zenon DEF NoMemory, CreateFails, StartJoin, Join, StartMerge, Merge, Return
    <3>2. QED BY <3>1 DEF VisitInv, Pending, Countable
  <2>2. CASE Create
    <3>1. made + 1 \in Workers /\ wpc' = [wpc EXCEPT ![made + 1] = "init"]
      BY <2>2 DEF Create
    <3>2. UNCHANGED <<idx, pos, visits, backend, table>>
      BY <2>2 DEF Create
    <3>3. QED BY <3>1, <3>2, ZenonT(30) DEF VisitInv, Pending, Countable
  <2>3. ASSUME NEW w \in Workers, WorkerInit(w) \/ WorkerInitFails(w)
                \/ NoMoreChunks(w) \/ WalkFails(w) \/ NextObjectLost(w) \/ WalkStopped(w)
                \/ WalkEnds(w) \/ WalkPastEnd(w) \/ ChunkDone(w)
         PROVE  VisitInv'
    <3>1. PICK x \in {"next", "ret", "dead"} : wpc' = [wpc EXCEPT ![w] = x]
      BY <2>3, ZenonT(30) DEF WorkerInit, WorkerInitFails, NoMoreChunks, WalkFails, NextObjectLost,
            WalkStopped, WalkEnds, WalkPastEnd, ChunkDone
    <3>2. UNCHANGED <<idx, pos, visits, backend, table>>
      BY <2>3, ZenonT(30) DEF WorkerInit, WorkerInitFails, NoMoreChunks, WalkFails, NextObjectLost,
            WalkStopped, WalkEnds, WalkPastEnd, ChunkDone
    <3>3. QED BY <3>1, <3>2 DEF VisitInv, Pending, Countable
  <2>4. ASSUME NEW w \in Workers, NextChunk(w) PROVE VisitInv'
    <3>1. /\ wpc' = [wpc EXCEPT ![w] = "chunk"] /\ idx' = [idx EXCEPT ![w] = cursor]
          /\ UNCHANGED <<pos, visits, backend, table>>
      BY <2>4 DEF NextChunk
    <3>2. \A i \in Ids : InChunk(backend, i, cursor) => visits[i] = 0
      <4> SUFFICES ASSUME NEW i \in Ids, InChunk(backend, i, cursor) PROVE visits[i] = 0
        OBVIOUS
      <4>1. ChunkStart(backend, cursor) < i /\ ChunkStart(backend, cursor) \in Nat
        BY <1>4
      <4>2. i > ChunkStart(backend, cursor)
        BY <4>1
      <4>3. QED BY <4>2 DEF HandInv
    <3>3. \A v \in Workers, i \in Ids : Pending(v, i)' => visits[i] = 0
      BY <3>1, <3>2 DEF VisitInv, Pending
    <3>4. \A v \in Workers : wpc'[v] = "walk" => v # w /\ wpc[v] = "walk"
      BY <3>1
    <3>5. \A i \in Ids : visits'[i] \in {0, 1} /\ (visits'[i] = 1 => Countable(i)')
      BY <3>1 DEF VisitInv, Countable
    <3>6. ASSUME NEW v \in Workers, wpc'[v] = "walk"
          PROVE  /\ pos'[v] >= ChunkStart(backend', idx'[v])
                 /\ \A i \in Ids : Countable(i)' /\ i <= pos'[v] =>
                                      i <= ChunkStart(backend', idx'[v] + 1)
      <4>1. idx'[v] = idx[v] /\ wpc[v] = "walk"
        BY <3>1, <3>4, <3>6
      <4>2. /\ pos[v] >= ChunkStart(backend, idx[v])
            /\ \A i \in Ids : Countable(i) /\ i <= pos[v] =>
                                 i <= ChunkStart(backend, idx[v] + 1)
        BY <4>1, Zenon DEF VisitInv
      <4>3. QED BY <3>1, <4>1, <4>2, Zenon DEF Countable
    <3>7. \A v \in Workers, i \in Ids : Pending(v, i)' => visits'[i] = 0
      BY <3>1, <3>3, Zenon
    <3>8. QED BY <3>5, <3>6, <3>7, Zenon DEF VisitInv
  <2>5. ASSUME NEW w \in Workers, EnterChunk(w) PROVE VisitInv'
    <3>1. /\ wpc[w] = "chunk" /\ pos' = [pos EXCEPT ![w] = ChunkStart(backend, idx[w])]
          /\ UNCHANGED <<idx, visits, backend, table>>
      BY <2>5 DEF EnterChunk
    <3>2. PICK x \in {"ret", "walk"} : wpc' = [wpc EXCEPT ![w] = x]
      BY <2>5, Zenon DEF EnterChunk
    <3>3. \A v \in Workers, i \in Ids : Pending(v, i)' => Pending(v, i)
      BY <3>1, <3>2 DEF Pending
    <3>4. ASSUME NEW v \in Workers, wpc'[v] = "walk"
          PROVE  /\ pos'[v] >= ChunkStart(backend, idx[v])
                 /\ \A i \in Ids : Countable(i) /\ i <= pos'[v] =>
                                      i <= ChunkStart(backend, idx[v] + 1)
      <4>1. CASE v = w
        <5>1. /\ ChunkStart(backend, idx[w]) \in Nat
              /\ ChunkStart(backend, idx[w] + 1) \in Nat
              /\ ChunkStart(backend, idx[w]) <= ChunkStart(backend, idx[w] + 1)
          BY <1>4
        <5>2. QED BY <3>1, <4>1, <5>1
      <4>2. CASE v # w
        BY <3>1, <3>2, <3>4, <4>2 DEF VisitInv
      <4>3. QED BY <4>1, <4>2
    <3>5. QED BY <3>1, <3>3, <3>4 DEF VisitInv, Countable
  <2>6. ASSUME NEW w \in Workers, WalkBadBlock(w) PROVE VisitInv'
    <3>1. PICK n \in Ids : /\ n > pos[w] /\ ~Countable(n) /\ pos' = [pos EXCEPT ![w] = n]
                           /\ \A j \in Ids : pos[w] < j /\ j < n => ~Countable(j)
      BY <2>6, ZenonT(30) DEF WalkBadBlock, IsNext, Present, Countable
    <3>2. wpc[w] = "walk" /\ UNCHANGED <<wpc, idx, visits, backend, table>>
      BY <2>6 DEF WalkBadBlock
    <3>3. \A v \in Workers, i \in Ids : Pending(v, i)' => Pending(v, i)
      BY <3>1, <3>2 DEF Pending
    <3>4. ASSUME NEW v \in Workers, wpc'[v] = "walk"
          PROVE  /\ pos'[v] >= ChunkStart(backend, idx[v])
                 /\ \A i \in Ids : Countable(i) /\ i <= pos'[v] =>
                                      i <= ChunkStart(backend, idx[v] + 1)
      <4>1. /\ ChunkStart(backend, idx[v]) \in Nat
            /\ pos[v] >= ChunkStart(backend, idx[v])
            /\ \A i \in Ids : Countable(i) /\ i <= pos[v] =>
                                i <= ChunkStart(backend, idx[v] + 1)
        BY <3>2, <3>4, <1>4 DEF VisitInv
      <4>2. CASE v = w
        <5>1. pos'[v] = n
          BY <3>1, <4>2
        <5>2. ASSUME NEW i \in Ids, Countable(i), i <= n
              PROVE  i <= ChunkStart(backend, idx[v] + 1)
          <6>1. i <= pos[w]
            BY <3>1, <5>2, SMTT(30)
          <6>2. QED BY <4>1, <4>2, <5>2, <6>1
        <5>3. n >= ChunkStart(backend, idx[v])
          BY <3>1, <4>1, <4>2
        <5>4. QED BY <5>1, <5>2, <5>3
      <4>3. CASE v # w
        BY <3>1, <4>1, <4>3
      <4>4. QED BY <4>2, <4>3
    <3>5. QED BY <3>2, <3>3, <3>4, Zenon DEF VisitInv, Countable
  <2>7. ASSUME NEW w \in Workers, WalkObject(w) PROVE VisitInv'
    <3>1. PICK n \in Ids : /\ n > pos[w] /\ Countable(n) /\ pos' = [pos EXCEPT ![w] = n]
                           /\ \A j \in Ids : pos[w] < j /\ j < n => ~Countable(j)
                           /\ n <= ChunkEnd(backend, idx[w])
                           /\ visits' = [visits EXCEPT ![n] = @ + 1]
      BY <2>7, ZenonT(30) DEF WalkObject, IsNext, Present, Countable
    <3>2. wpc[w] = "walk" /\ UNCHANGED <<wpc, idx, backend, table>>
      BY <2>7 DEF WalkObject
    <3>3. /\ ChunkStart(backend, idx[w]) < n /\ n <= ChunkStart(backend, idx[w] + 1)
          /\ InChunk(backend, n, idx[w])
      <4>1. ChunkStart(backend, idx[w]) \in Nat /\ pos[w] >= ChunkStart(backend, idx[w])
        BY <3>2, <1>4 DEF VisitInv
      <4>2. n <= ChunkEnd(backend, idx[w]) <=> n <= ChunkStart(backend, idx[w] + 1)
        BY <1>4, Zenon
      <4>3. ChunkStart(backend, idx[w]) < n
        BY <3>1, <4>1
      <4>4. QED BY <3>1, <4>2, <4>3, <1>4
    <3>4. Pending(w, n) /\ visits[n] = 0
      BY <3>1, <3>2, <3>3 DEF Pending, VisitInv
    <3>5. ASSUME NEW v \in Workers, NEW i \in Ids, Pending(v, i)'
          PROVE  Pending(v, i) /\ i # n
      <4>1. CASE v = w
        BY <3>1, <3>2, <3>5, <4>1 DEF Pending
      <4>2. CASE v # w
        <5>1. Pending(v, i)
          BY <3>1, <3>2, <3>5, <4>2 DEF Pending
        <5>2. idx[v] # idx[w]
          BY <3>2, <4>2, <5>1 DEF Pending, HandInv, Holds
        <5>3. ChunkStart(backend, idx[v]) < i /\ i <= ChunkStart(backend, idx[v] + 1)
          BY <5>1, <1>4, Zenon DEF Pending
        <5>4. /\ ChunkStart(backend, idx[v]) \in Nat
              /\ ChunkStart(backend, idx[v] + 1) \in Nat
              /\ ChunkStart(backend, idx[w]) \in Nat
              /\ ChunkStart(backend, idx[w] + 1) \in Nat
          BY <2>chunks
        <5>5. CASE idx[v] < idx[w]
          <6>1. ChunkStart(backend, idx[v] + 1) <= ChunkStart(backend, idx[w])
            BY <5>5, <1>5
          <6>2. QED BY <3>3, <5>1, <5>3, <5>4, <6>1
        <5>6. CASE idx[w] < idx[v]
          <6>1. ChunkStart(backend, idx[w] + 1) <= ChunkStart(backend, idx[v])
            BY <5>6, <1>5, Zenon
          <6>2. QED BY <3>3, <5>1, <5>3, <5>4, <6>1
        <5>7. QED BY <5>2, <5>5, <5>6
      <4>3. QED BY <4>1, <4>2
    <3>6. ASSUME NEW v \in Workers, wpc'[v] = "walk"
          PROVE  /\ pos'[v] >= ChunkStart(backend, idx[v])
                 /\ \A i \in Ids : Countable(i) /\ i <= pos'[v] =>
                                      i <= ChunkStart(backend, idx[v] + 1)
      <4>1. /\ ChunkStart(backend, idx[v]) \in Nat
            /\ pos[v] >= ChunkStart(backend, idx[v])
            /\ \A i \in Ids : Countable(i) /\ i <= pos[v] =>
                                i <= ChunkStart(backend, idx[v] + 1)
        BY <3>2, <3>6, <1>4 DEF VisitInv
      <4>2. CASE v = w
        <5>1. pos'[w] = n
          BY <3>1
        <5>2. /\ pos[w] \in Nat /\ n \in Nat /\ ChunkStart(backend, idx[w] + 1) \in Nat
              /\ \A i \in Ids : i \in Nat
          BY <2>chunks
        <5>3. n >= ChunkStart(backend, idx[w])
          BY <3>1, <4>1, <4>2, <5>2, Further, ZenonT(30)
        <5>4. \A i \in Ids : i <= n => i <= ChunkStart(backend, idx[w] + 1)
          BY <3>3, <5>2, Chain, ZenonT(30)
        <5>5. QED BY <4>2, <5>1, <5>3, <5>4, ZenonT(30)
      <4>3. CASE v # w
        BY <3>1, <4>1, <4>3
      <4>4. QED BY <4>2, <4>3
    <3>7. \A i \in Ids : visits'[i] \in {0, 1} /\ (visits'[i] = 1 => Countable(i))
      <4> TAKE i \in Ids
      <4>1. CASE i = n
        <5>1. visits'[n] = visits[n] + 1
          BY <3>1
        <5>2. visits'[n] = 1
          BY <3>4, <5>1
        <5>3. QED BY <3>1, <4>1, <5>2, ZenonT(30)
      <4>2. CASE i # n
        <5>1. visits'[i] = visits[i]
          BY <3>1, <4>2
        <5>2. QED BY <5>1, Zenon DEF VisitInv
      <4>3. QED BY <4>1, <4>2
    <3>8. \A v \in Workers, i \in Ids : Pending(v, i)' => visits'[i] = 0
      BY <3>1, <3>5 DEF VisitInv
    <3>9. QED BY <3>2, <3>6, <3>7, <3>8 DEF VisitInv, Countable
  <2>8. CASE UNCHANGED vars
    BY <2>8, Zenon DEF vars, VisitInv, Pending, Countable
  <2>9. QED
    BY <2>1, <2>2, <2>3, <2>4, <2>5, <2>6, <2>7, <2>8 DEF Next, Main, Worker, Finished
<1>10. CoverInv'
  <2>chunks. ASSUME NEW v \in Workers
             PROVE  /\ ChunkStart(backend, idx[v]) \in Nat
                    /\ ChunkStart(backend, idx[v] + 1) \in Nat
                    /\ ChunkStart(backend, idx[v]) <= ChunkStart(backend, idx[v] + 1)
    <3>1. idx[v] \in Nat /\ idx[v] + 1 \in Nat
      OBVIOUS
    <3>2. QED BY <3>1, <1>4
  <2> USE DEF Countable
  <2> SUFFICES ASSUME ~failed', ~lost', ~Limited' PROVE Covered'
    BY DEF CoverInv
  <2>1. Covered /\ \A w \in Workers : ~stop[w]
    BY FlawsStay, Zenon DEF CoverInv, Limited
  <2> USE DEF Covered
  <2>2. CASE NoMemory
    BY <2>2, Zenon DEF NoMemory
  <2>3. CASE CreateFails \/ StartJoin \/ Join \/ StartMerge \/ Merge \/ Return \/ UNCHANGED vars
    <3>1. UNCHANGED <<wpc, idx, pos, cdone, visits, backend, table, cursor, done>>
      BY <2>3, Zenon DEF CreateFails, StartJoin, Join, StartMerge, Merge, Return, vars
    <3>2. QED BY <2>1, <3>1 DEF Pending, Ends
  <2>4. CASE Create
    <3>1. /\ made + 1 \in Workers /\ wpc' = [wpc EXCEPT ![made + 1] = "init"]
          /\ UNCHANGED <<idx, pos, cdone, visits, backend, table, cursor, done>>
      BY <2>4 DEF Create
    <3>2. wpc[made + 1] = "none"
      BY <2>4, <3>1 DEF Create, MainInv
    <3>3. \A v \in Workers, i \in Ids : Pending(v, i) => Pending(v, i)'
      BY <3>1, <3>2 DEF Pending
    <3>4. QED BY <2>1, <3>1, <3>3, ZenonT(30) DEF Ends
  <2>5. ASSUME NEW w \in Workers, WorkerInitFails(w) \/ WalkFails(w) \/ NextObjectLost(w)
                \/ WalkStopped(w)
         PROVE  Covered'
    BY <2>1, <2>5, ZenonT(30) DEF WorkerInitFails, WalkFails, NextObjectLost, WalkStopped
  <2>6. ASSUME NEW w \in Workers, WorkerInit(w) \/ NoMoreChunks(w) PROVE Covered'
    <3>1. PICK x \in {"next", "dead"} : wpc' = [wpc EXCEPT ![w] = x] /\ (x = "dead" => done)
      BY <2>1, <2>6, ZenonT(30) DEF WorkerInit, NoMoreChunks
    <3>2. /\ wpc[w] \in {"init", "next"}
          /\ UNCHANGED <<idx, pos, cdone, visits, backend, table, cursor, done>>
      BY <2>6 DEF WorkerInit, NoMoreChunks
    <3>3. \A v \in Workers, i \in Ids : Pending(v, i) => Pending(v, i)'
      BY <3>1, <3>2 DEF Pending
    <3>4. QED BY <2>1, <3>1, <3>2, <3>3, ZenonT(30) DEF Ends
  <2>7. ASSUME NEW w \in Workers, NextChunk(w) PROVE Covered'
    <3>1. /\ wpc[w] = "next" /\ ~done /\ cursor' = cursor + 1
          /\ wpc' = [wpc EXCEPT ![w] = "chunk"] /\ idx' = [idx EXCEPT ![w] = cursor]
          /\ cdone' = [cdone EXCEPT ![w] = FALSE]
          /\ UNCHANGED <<pos, visits, backend, table, done>>
      BY <2>7 DEF NextChunk
    <3>2. \A v \in Workers, i \in Ids : Pending(v, i) => Pending(v, i)'
      BY <3>1 DEF Pending
    <3>3. \A i \in Ids : InChunk(backend, i, cursor) => Pending(w, i)'
      BY <3>1 DEF Pending
    <3>4. ASSUME NEW i \in Ids, Countable(i), i <= ChunkStart(backend, cursor + 1)
          PROVE  visits[i] = 1 \/ \E v \in Workers : Pending(v, i)'
      <4>1. CASE i <= ChunkStart(backend, cursor)
        BY <2>1, <3>2, <3>4, <4>1
      <4>2. CASE ~(i <= ChunkStart(backend, cursor))
        <5>1. ChunkStart(backend, cursor) \in Nat
          BY <1>4
        <5>2. ChunkStart(backend, cursor) < i
          BY <4>2, <5>1
        <5>3. InChunk(backend, i, cursor)
          BY <1>4, <3>4, <5>2
        <5>4. QED BY <3>3, <5>3
      <4>3. QED BY <4>1, <4>2
    <3>5. \A v \in Workers : wpc'[v] \in {"walk", "ret"} /\ cdone'[v] => Ends(idx'[v] + 1)
      BY <2>1, <3>1
    <3>6. \A v \in Workers : wpc'[v] # "dead"
      BY <2>1, <3>1
    <3>7. QED BY <3>1, <3>4, <3>5, <3>6, Zenon DEF Ends
  <2>8. ASSUME NEW w \in Workers, EnterChunk(w) PROVE Covered'
    <3>1. /\ wpc[w] = "chunk" /\ pos' = [pos EXCEPT ![w] = ChunkStart(backend, idx[w])]
          /\ UNCHANGED <<idx, visits, backend, table, cursor, done>>
      BY <2>8 DEF EnterChunk
    <3>2. PICK x \in {"ret", "walk"}, y \in BOOLEAN :
            /\ wpc' = [wpc EXCEPT ![w] = x] /\ cdone' = [cdone EXCEPT ![w] = y]
            /\ x = "ret" => MaxId <= ChunkStart(backend, idx[w])
            /\ y => MaxId <= ChunkStart(backend, idx[w] + 1)
      <4>1. PICK x \in {"ret", "walk"}, y \in BOOLEAN :
              /\ wpc' = [wpc EXCEPT ![w] = x] /\ cdone' = [cdone EXCEPT ![w] = y]
              /\ x = "ret" => backend = "ldiskfs" /\ idx[w] * ChunkSize >= MaxId
              /\ y => backend = "ldiskfs" /\ (idx[w] + 1) * ChunkSize >= MaxId
        <5> DEFINE past == backend = "ldiskfs" /\ idx[w] * ChunkSize >= MaxId
                   short == backend = "ldiskfs" /\ (idx[w] + 1) * ChunkSize > MaxId
        <5>1. /\ wpc' = [wpc EXCEPT ![w] = IF past THEN "ret" ELSE "walk"]
              /\ cdone' = [cdone EXCEPT ![w] = past \/ short]
          BY <2>8 DEF EnterChunk
        <5>2. (past \/ short) \in BOOLEAN /\ (IF past THEN "ret" ELSE "walk") \in {"ret", "walk"}
          OBVIOUS
        <5>3. (IF past THEN "ret" ELSE "walk") = "ret" => past
          OBVIOUS
        <5>4. past => (idx[w] + 1) * ChunkSize >= MaxId
          OBVIOUS
        <5>5. short => (idx[w] + 1) * ChunkSize >= MaxId
          OBVIOUS
        <5>6. past \/ short => backend = "ldiskfs" /\ (idx[w] + 1) * ChunkSize >= MaxId
          BY <5>4, <5>5
        <5> HIDE DEF short
        <5>7. QED BY <5>1, <5>2, <5>3, <5>6, ZenonT(30)
      <4>2. QED BY <4>1, Zenon DEF ChunkStart
    <3>3. Ids = 1..MaxId
      BY DEF Ids
    <3>4. \A v \in Workers, i \in Ids : Pending(v, i) => Pending(v, i)'
      <4> TAKE v \in Workers, i \in Ids
      <4>1. CASE v = w
        <5>1. Pending(w, i) => ChunkStart(backend, idx[w]) < i /\ i <= MaxId
          BY <1>4, <3>3 DEF Pending
        <5>2. Pending(w, i) => x = "walk"
          <6>1. ChunkStart(backend, idx[w]) \in Nat /\ MaxId \in Nat
            BY <2>chunks
          <6>2. QED BY <3>2, <5>1, <6>1
        <5>3. Pending(w, i) => InChunk(backend, i, idx[w]) /\ i > ChunkStart(backend, idx[w])
          BY <2>chunks, <5>1 DEF Pending
        <5>4. wpc'[w] = x /\ pos'[w] = ChunkStart(backend, idx[w])
          BY <3>1, <3>2
        <5>5. QED BY <3>1, <4>1, <5>2, <5>3, <5>4 DEF Pending
      <4>2. CASE v # w
        BY <3>1, <3>2, <4>2 DEF Pending
      <4>3. QED BY <4>1, <4>2
    <3>5. ASSUME NEW v \in Workers, wpc'[v] \in {"walk", "ret"}, cdone'[v] PROVE Ends(idx[v] + 1)
      <4>1. CASE v = w
        <5>1. MaxId <= ChunkStart(backend, idx[w] + 1) /\ MaxId \in Nat
          BY <3>2, <3>5, <4>1
        <5>2. ChunkStart(backend, idx[w] + 1) \in Nat
          BY <2>chunks
        <5>3. \A i \in Ids : i \in Nat /\ i <= MaxId
          BY <3>3, <5>1
        <5>4. \A i \in Ids : i <= ChunkStart(backend, idx[w] + 1)
          BY <5>1, <5>2, <5>3, Chain, ZenonT(30)
        <5>5. QED BY <4>1, <5>4, ZenonT(30) DEF Ends
      <4>2. CASE v # w
        BY <2>1, <3>2, <3>5, <4>2
      <4>3. QED BY <4>1, <4>2
    <3>6. QED BY <2>1, <3>1, <3>2, <3>4, <3>5, Zenon DEF Ends
  <2>9. ASSUME NEW w \in Workers, WalkEnds(w) PROVE Covered'
    <3>1. /\ wpc[w] = "walk" /\ wpc' = [wpc EXCEPT ![w] = "ret"]
          /\ cdone' = [cdone EXCEPT ![w] = TRUE]
          /\ UNCHANGED <<idx, pos, visits, backend, table, cursor, done>>
      BY <2>9 DEF WalkEnds
    <3>2. \A i \in Ids : Countable(i) => ~(i > pos[w])
      BY <2>9, Zenon DEF WalkEnds, Present
    <3>3. \A v \in Workers, i \in Ids : Countable(i) /\ Pending(v, i) => Pending(v, i)'
      BY <3>1, <3>2 DEF Pending
    <3>4. Ends(idx[w] + 1)
      <4>1. pos[w] \in Nat /\ \A i \in Ids : i \in Nat
        OBVIOUS
      <4>2. \A i \in Ids : Countable(i) => i <= pos[w]
        BY <3>2, <4>1, Order, ZenonT(30)
      <4>3. QED BY <3>1, <4>2, Zenon DEF Ends, VisitInv
    <3>5. \A v \in Workers : wpc'[v] \in {"walk", "ret"} /\ cdone'[v] => Ends(idx[v] + 1)
      BY <2>1, <3>1, <3>4
    <3>6. QED BY <2>1, <3>1, <3>3, <3>5, Zenon DEF Ends
  <2>10. ASSUME NEW w \in Workers, WalkBadBlock(w) PROVE Covered'
    <3>1. PICK n \in Ids : /\ n > pos[w] /\ ~Countable(n) /\ pos' = [pos EXCEPT ![w] = n]
                           /\ \A j \in Ids : pos[w] < j /\ j < n => ~Countable(j)
      BY <2>10, Zenon DEF WalkBadBlock, IsNext, Present
    <3>2. UNCHANGED <<wpc, idx, cdone, visits, backend, table, cursor, done>>
      BY <2>10, Zenon DEF WalkBadBlock
    <3>3. \A v \in Workers, i \in Ids : Countable(i) /\ Pending(v, i) => Pending(v, i)'
      <4> SUFFICES ASSUME NEW v \in Workers, NEW i \in Ids, Countable(i), Pending(v, i)
                   PROVE  Pending(v, i)'
        BY ZenonT(30)
      <4>1. CASE v = w /\ wpc[w] = "walk"
        <5>1. i > pos[w]
          BY <4>1 DEF Pending
        <5>2. i > n
          <6>1. pos[w] \in Nat /\ n \in Nat /\ i \in Nat
            OBVIOUS
          <6>2. pos[w] < i
            BY <5>1, <6>1, Order, ZenonT(30)
          <6>3. ~(i < n) /\ i # n
            BY <3>1, <6>2, ZenonT(30)
          <6>4. QED BY <6>1, <6>3, Order, ZenonT(30)
        <5>3. QED BY <3>1, <3>2, <4>1, <5>2, Zenon DEF Pending
      <4>2. CASE v # w \/ wpc[w] # "walk"
        BY <3>1, <3>2, <4>2 DEF Pending
      <4>3. QED BY <4>1, <4>2
    <3>4. QED BY <2>1, <3>2, <3>3, Zenon DEF Ends
  <2>11. ASSUME NEW w \in Workers, WalkPastEnd(w) PROVE Covered'
    <3>1. PICK n \in Ids : /\ n > pos[w] /\ ~(n <= ChunkEnd(backend, idx[w]))
                           /\ \A j \in Ids : pos[w] < j /\ j < n => ~Countable(j)
      <4>1. PICK n \in Ids : /\ n > pos[w] /\ n > ChunkEnd(backend, idx[w])
                             /\ \A j \in Ids : pos[w] < j /\ j < n => ~Countable(j)
        BY <2>11, ZenonT(30) DEF WalkPastEnd, IsNext, Present
      <4>2. ChunkEnd(backend, idx[w]) \in Int /\ idx[w] \in Nat
        BY DEF ChunkEnd
      <4>3. \A e \in Int : n > e => ~(n <= e)
        <5>1. n \in Int
          OBVIOUS
        <5>2. QED BY <5>1
      <4>4. ~(n <= ChunkEnd(backend, idx[w]))
        BY <4>1, <4>2, <4>3
      <4>5. QED BY <4>1, <4>4, Zenon
    <3>2. /\ wpc[w] = "walk" /\ wpc' = [wpc EXCEPT ![w] = "ret"]
          /\ UNCHANGED <<idx, pos, cdone, visits, backend, table, cursor, done>>
      BY <2>11, Zenon DEF WalkPastEnd
    <3>3. \A v \in Workers, i \in Ids : Countable(i) /\ Pending(v, i) => Pending(v, i)'
      <4> SUFFICES ASSUME NEW v \in Workers, NEW i \in Ids, Countable(i), Pending(v, i)
                   PROVE  Pending(v, i)'
        BY ZenonT(30)
      <4>1. CASE v = w
        <5>1. i > pos[w] /\ i <= ChunkStart(backend, idx[w] + 1)
          BY <1>4, <3>2, <4>1, Zenon DEF Pending
        <5>2. ~(n <= ChunkStart(backend, idx[w] + 1))
          BY <1>4, <3>1
        <5>3. i < n
          <6>1. ChunkStart(backend, idx[w] + 1) \in Nat /\ n \in Nat /\ i \in Nat
            BY <2>chunks, Zenon
          <6>2. QED BY <5>1, <5>2, <6>1, Beyond, ZenonT(30)
        <5>4. QED BY <3>1, <5>1, <5>3, Zenon
      <4>2. CASE v # w
        BY <3>2, <4>2 DEF Pending
      <4>3. QED BY <4>1, <4>2
    <3>4. QED BY <2>1, <3>2, <3>3, Zenon DEF Ends
  <2>12. ASSUME NEW w \in Workers, WalkObject(w) PROVE Covered'
    <3>1. PICK n \in Ids : /\ n > pos[w] /\ pos' = [pos EXCEPT ![w] = n]
                           /\ \A j \in Ids : pos[w] < j /\ j < n => ~Countable(j)
                           /\ visits' = [visits EXCEPT ![n] = @ + 1]
      BY <2>12, ZenonT(30) DEF WalkObject, IsNext, Present
    <3>2. wpc[w] = "walk" /\ UNCHANGED <<wpc, idx, cdone, backend, table, cursor, done>>
      BY <2>12, Zenon DEF WalkObject
    <3>3. visits'[n] = 1
      <4>1. visits[n] \in {0, 1} /\ visits'[n] \in {0, 1}
        BY <1>9, Zenon DEF VisitInv
      <4>2. visits'[n] = visits[n] + 1
        BY <3>1
      <4>3. QED BY <4>1, <4>2
    <3>4. \A v \in Workers, i \in Ids : Countable(i) /\ i # n /\ Pending(v, i) => Pending(v, i)'
      <4> SUFFICES ASSUME NEW v \in Workers, NEW i \in Ids, Countable(i), i # n, Pending(v, i)
                   PROVE  Pending(v, i)'
        BY ZenonT(30)
      <4>1. CASE v = w
        <5>1. i > pos[w]
          BY <3>2, <4>1, ZenonT(30) DEF Pending
        <5>2. i > n
          <6>1. pos[w] \in Nat /\ n \in Nat /\ i \in Nat
            OBVIOUS
          <6>2. pos[w] < i
            BY <5>1, <6>1, Order, ZenonT(30)
          <6>3. ~(i < n) /\ i # n
            BY <3>1, <6>2, ZenonT(30)
          <6>4. QED BY <6>1, <6>3, Order, ZenonT(30)
        <5>3. QED BY <3>1, <3>2, <4>1, <5>2, ZenonT(30) DEF Pending
      <4>2. CASE v # w
        BY <3>1, <3>2, <4>2 DEF Pending
      <4>3. QED BY <4>1, <4>2, ZenonT(30)
    <3>5. \A i \in Ids : i # n => visits'[i] = visits[i]
      BY <3>1
    <3>6. QED BY <2>1, <3>2, <3>3, <3>4, <3>5, Zenon DEF Ends
  <2>13. ASSUME NEW w \in Workers, ChunkDone(w) PROVE Covered'
    <3>1. PICK x \in {"next", "dead"} :
            /\ wpc' = [wpc EXCEPT ![w] = x] /\ (x = "dead" => done')
            /\ done' = done \/ (done' /\ cdone[w])
      BY <2>1, <2>13, ZenonT(30) DEF ChunkDone, set_done
    <3>2. wpc[w] = "ret" /\ UNCHANGED <<idx, pos, cdone, visits, backend, table, cursor>>
      BY <2>13 DEF ChunkDone
    <3>3. \A v \in Workers, i \in Ids : Pending(v, i) => Pending(v, i)'
      BY <3>1, <3>2 DEF Pending
    <3>4. done' => Ends(cursor)
      <4>1. CASE cdone[w]
        <5>1. Ends(idx[w] + 1)
          BY <2>1, <3>2, <4>1
        <5>2. ChunkStart(backend, idx[w] + 1) <= ChunkStart(backend, cursor)
          BY <1>5, <3>2 DEF HandInv, Holds
        <5>3. ChunkStart(backend, cursor) \in Nat
          BY <1>4
        <5>4. ChunkStart(backend, idx[w] + 1) \in Nat
          BY <2>chunks
        <5>5. ASSUME NEW i \in Ids, Countable(i) PROVE i <= ChunkStart(backend, cursor)
          <6>1. i <= ChunkStart(backend, idx[w] + 1) /\ i \in Nat
            BY <5>1, <5>5, Zenon DEF Ends
          <6>2. QED BY <5>2, <5>3, <5>4, <6>1
        <5>6. QED BY <5>5 DEF Ends
      <4>2. CASE ~cdone[w]
        BY <2>1, <3>1, <4>2, Zenon
      <4>3. QED BY <4>1, <4>2
    <3>5. done => done'
      BY <2>13, ZenonT(30) DEF ChunkDone, set_done
    <3>6. QED BY <2>1, <3>1, <3>2, <3>3, <3>4, <3>5, Zenon DEF Ends
  <2>14. QED
    BY <2>2, <2>3, <2>4, <2>5, <2>6, <2>7, <2>8, <2>9, <2>10, <2>11, <2>12, <2>13, ZenonT(30)
       DEF Next, Main, Worker, Finished
<1>11. QED BY <1>1, <1>7, <1>8, <1>9, <1>10 DEF ScanInv

(* Before the first worker starts nothing was handed out.                  *)
LEMMA ScanStart == Init => ScanInv
<1> SUFFICES ASSUME Init PROVE ScanInv
  OBVIOUS
<1> USE ScanAssumption DEF Init
<1>1. ZeroCounters \in [Counters -> Nat]
  BY DEF ZeroCounters
<1>2. TypeOK
  <2>1. MainType
    BY <1>1 DEF MainType, MainStates
  <2>2. WorkerType
    BY <1>1 DEF WorkerType, WorkerStates
  <2>3. WorkType /\ InputType /\ HistType
    BY ZenonT(30) DEF WorkType, InputType, HistType
  <2>4. QED BY <2>1, <2>2, <2>3 DEF TypeOK
<1>3. \A w \in Workers : wpc[w] = "none" /\ ~cdone[w]
  OBVIOUS
<1>4. \A i \in Ids : visits[i] = 0
  OBVIOUS
<1>5. MainInv
  BY <1>3 DEF MainInv
<1>6. HandInv
  BY <1>3, <1>4 DEF HandInv, Holds
<1>7. VisitInv
  BY <1>3, <1>4 DEF VisitInv, Pending
<1>8. CoverInv
  <2>1. \A i \in Ids : ~(i <= ChunkStart(backend, cursor))
    BY DEF ChunkStart, Ids
  <2>2. ~done
    OBVIOUS
  <2>3. QED BY <1>3, <2>1, <2>2 DEF CoverInv, Covered
<1>9. QED BY <1>2, <1>5, <1>6, <1>7, <1>8 DEF ScanInv

(* A status of 0 means that every object was processed.                    *)
LEMMA CompleteAtExit == ScanInv => CompleteOnZero
<1> SUFFICES ASSUME ScanInv, mpc = "exit", rc = 0, nthreads > 0, ~lost, ~Limited,
                    NEW i \in Ids
             PROVE  visits[i] = (IF Countable(i) THEN 1 ELSE 0)
  BY DEF CompleteOnZero
<1>1. ~failed /\ \A w \in 1..nthreads : wpc[w] = "dead"
  BY DEF ScanInv, MainInv
<1>2. nthreads \in Nat /\ 1 \in 1..nthreads /\ 1 \in Workers
  BY ScanAssumption DEF ScanInv, TypeOK, MainType, Workers
<1>3. Covered /\ done
  BY <1>1, <1>2 DEF ScanInv, CoverInv, Covered
<1>4. CASE Countable(i)
  <2>1. visits[i] = 1 \/ \E w \in Workers : Pending(w, i)
    BY <1>3, <1>4, Zenon DEF Covered, Ends
  <2>2. \A w \in Workers : wpc[w] \in {"none", "dead"}
    BY DEF ScanInv, MainInv
  <2>3. QED BY <1>4, <2>1, <2>2 DEF Pending
<1>5. CASE ~Countable(i)
  BY <1>5 DEF ScanInv, VisitInv
<1>6. QED BY <1>4, <1>5

(* Every reachable state of lfu_scan() satisfies the inductive invariant,  *)
(* for any number of threads, any chunk size and any table.                *)
THEOREM ScanInvariant == Spec => []ScanInv
  BY ScanStart, ScanStep, PTL DEF Spec

(* Every variable keeps its type.                                          *)
THEOREM ScanTyped == Spec => []TypeOK
<1>1. ScanInv => TypeOK
  BY DEF ScanInv
<1>2. QED BY <1>1, ScanInvariant, PTL

(* No object is processed twice, whatever order the workers run in:        *)
(* lfu_next_chunk() hands out each chunk once and the chunks of both       *)
(* backends are disjoint.                                                  *)
THEOREM ScanOnce == Spec => []AtMostOnce
<1>1. ScanInv => AtMostOnce
  <2> SUFFICES ASSUME ScanInv, NEW i \in Ids PROVE visits[i] <= 1
    BY DEF AtMostOnce
  <2>1. visits[i] \in {0, 1}
    BY Zenon DEF ScanInv, VisitInv
  <2> QED
    BY <2>1
<1>2. QED BY <1>1, ScanInvariant, PTL

(* w->done is set by a worker's success only when no object lies beyond    *)
(* the chunks handed out so far.                                           *)
THEOREM ScanDoneProves == Spec => []DoneProves
<1>1. ScanInv => DoneProves
  BY DEF ScanInv, CoverInv, Covered, Ends, Limited, DoneProves
<1>2. QED BY <1>1, ScanInvariant, PTL

(* lfu_scan() returning 0 with at least one worker, nothing lost and no    *)
(* --limit reached has processed every object exactly once.                *)
THEOREM ScanComplete == Spec => []CompleteOnZero
  BY CompleteAtExit, ScanInvariant, PTL

(* The status is 1 exactly when a worker failed or memory ran out: a later *)
(* success does not clear w->error.                                        *)
THEOREM ScanErrorReported == Spec => []ErrorReported
<1>1. ScanInv => ErrorReported
  BY DEF ScanInv, TypeOK, HistType, MainInv, ErrorReported
<1>2. QED BY <1>1, ScanInvariant, PTL

-----------------------------------------------------------------------------
(* The counters, step by step.                                             *)

(* The target and the options do not change.                               *)
LEMMA InputSame ==
  ASSUME [Next]_vars
  PROVE  /\ UNCHANGED <<backend, table, opts, limit>>
         /\ \A i : Bumps(i)' = Bumps(i) /\ Countable(i)' = Countable(i) /\ Bad(i)' = Bad(i)
         /\ \A s : Balanced(s)' = Balanced(s)
<1>1. UNCHANGED <<backend, table, opts, limit>>
  <2>1. CASE Main
    BY <2>1, Zenon DEF Main, NoMemory, Create, CreateFails, StartJoin, Join, StartMerge, Merge, Return, input
  <2>2. ASSUME NEW w \in Workers, Worker(w) PROVE UNCHANGED <<backend, table, opts, limit>>
    <3>1. CASE WorkerInit(w) \/ WorkerInitFails(w) \/ NextChunk(w) \/ NoMoreChunks(w)
      BY <3>1, Zenon DEF WorkerInit, WorkerInitFails, NextChunk, NoMoreChunks, input
    <3>2. CASE EnterChunk(w) \/ WalkFails(w) \/ NextObjectLost(w) \/ WalkStopped(w) \/ WalkEnds(w)
      BY <3>2, Zenon DEF EnterChunk, WalkFails, NextObjectLost, WalkStopped, WalkEnds, input
    <3>3. CASE WalkBadBlock(w) \/ WalkPastEnd(w) \/ WalkObject(w) \/ ChunkDone(w)
      BY <3>3, Zenon DEF WalkBadBlock, WalkPastEnd, WalkObject, ChunkDone, input
    <3> QED
      BY <2>2, <3>1, <3>2, <3>3, Zenon DEF Worker
  <2>3. CASE UNCHANGED vars
    BY <2>3 DEF vars, input
  <2> QED
    BY <2>1, <2>2, <2>3, Zenon DEF Next, Finished
<1>2. \A i : Bumps(i)' = Bumps(i) /\ Countable(i)' = Countable(i) /\ Bad(i)' = Bad(i)
  BY <1>1, Zenon DEF Bumps, Countable, Bad
<1>3. \A s : Balanced(s)' = Balanced(s)
  BY <1>1, Zenon DEF Balanced
<1> QED
  BY <1>1, <1>2, <1>3, Zenon

(* The steps of a worker that count nothing.                               *)
Quiet(w) ==
  \/ WorkerInit(w) \/ WorkerInitFails(w) \/ NextChunk(w) \/ NoMoreChunks(w) \/ EnterChunk(w)
  \/ WalkFails(w) \/ NextObjectLost(w) \/ WalkStopped(w) \/ WalkEnds(w) \/ WalkPastEnd(w)
  \/ ChunkDone(w)

(* They leave the counters and the history alone.                         *)
LEMMA QuietSame ==
  ASSUME NEW w \in Workers, Quiet(w) PROVE UNCHANGED <<st, visits, stop>>
<1>1. CASE WorkerInit(w) \/ WorkerInitFails(w) \/ NextChunk(w) \/ NoMoreChunks(w) \/ EnterChunk(w)
  BY <1>1, Zenon DEF WorkerInit, WorkerInitFails, NextChunk, NoMoreChunks, EnterChunk, hist
<1>2. CASE \/ WalkFails(w) \/ NextObjectLost(w) \/ WalkStopped(w) \/ WalkEnds(w) \/ WalkPastEnd(w)
           \/ ChunkDone(w)
  BY <1>2, Zenon DEF WalkFails, NextObjectLost, WalkStopped, WalkEnds, WalkPastEnd, ChunkDone, hist
<1> QED
  BY <1>1, <1>2, Zenon DEF Quiet

(* The counters of every worker stay balanced.                             *)
LEMMA BalanceStep == ASSUME ScanInv, StatsBalance, [Next]_vars PROVE StatsBalance'
<1>0. /\ TypeOK /\ st \in [Workers -> [Counters -> Nat]] /\ opts \in Options
      /\ opts.show_internal \in BOOLEAN /\ opts.emit_unknown \in BOOLEAN
  BY TargetAssumption DEF ScanInv, TypeOK, WorkerType, InputType
<1>1. ASSUME UNCHANGED st PROVE StatsBalance'
  BY <1>1, InputSame, Zenon DEF StatsBalance
<1>2. ASSUME NEW w \in Workers, NEW B, Balanced(Bump(ZeroCounters, B)),
             st' = [st EXCEPT ![w] = Bump(st[w], B)]
      PROVE  StatsBalance'
  <2>1. \A v \in Workers : st'[v] = IF v = w THEN Bump(st[w], B) ELSE st[v]
    BY <1>0, <1>2
  <2>2. /\ st[w] \in [Counters -> Nat]
        /\ \A c \in Counters : /\ Bump(ZeroCounters, B)[c] \in Nat
                               /\ Bump(st[w], B)[c] = st[w][c] + Bump(ZeroCounters, B)[c]
    BY <1>0, BumpAdds
  <2>3. Balanced(st[w])
    BY DEF StatsBalance
  <2>4. Balanced(Bump(st[w], B))
    BY <1>0, <1>2, <2>2, <2>3, BalanceAdds, Zenon
  <2> QED
    BY <2>1, <2>4, InputSame, Zenon DEF StatsBalance
<1>3. ASSUME NEW w \in Workers, WalkBadBlock(w) PROVE StatsBalance'
  <2>1. Balanced(Bump(ZeroCounters, {"csum_bad"}))
    <3>1. \A c \in Classes \cup {"emitted", "unknown", "filtered1"} : c \notin {"csum_bad"}
      BY DEF Classes
    <3> QED
      BY <1>0, <3>1, OtherBalances
  <2> QED
    BY <1>2, <1>3, <2>1, Zenon DEF WalkBadBlock
<1>4. ASSUME NEW w \in Workers, WalkObject(w) PROVE StatsBalance'
  <2>1. PICK i \in Ids : Countable(i) /\ st' = [st EXCEPT ![w] = Bump(st[w], Bumps(i))]
    BY <1>4, Zenon DEF WalkObject
  <2> QED
    BY <1>0, <1>2, <2>1, BumpsBalance, Zenon
<1>5. ASSUME NEW w \in Workers, Worker(w) PROVE StatsBalance'
  BY <1>1, <1>3, <1>4, <1>5, QuietSame, Zenon DEF Worker, Quiet
<1>6. CASE UNCHANGED vars
  BY <1>1, <1>6, Zenon DEF vars
<1> QED
  BY <1>1, <1>5, <1>6, MainSame, Zenon DEF Next, Finished

(* A worker that stops at --limit is the only one, and stops at the match  *)
(* that reaches it.                                                        *)
LEMMA LimitStep == ASSUME ScanInv, LimitInv, [Next]_vars PROVE LimitInv'
<1>0. /\ st \in [Workers -> [Counters -> Nat]] /\ stop \in [Workers -> BOOLEAN]
      /\ wpc \in [Workers -> WorkerStates] /\ limit \in Nat
      /\ Workers = 1..Threads /\ Threads \in Nat /\ 1 \in Workers
      /\ made \in 0..nthreads /\ nthreads \in 0..Threads
  BY ScanAssumption
  DEF ScanAssumption, ScanInv, TypeOK, WorkerType, MainType, InputType, Workers
<1>1. UNCHANGED limit
  BY InputSame
<1>2. \A v \in Workers : wpc[v] # "none" => wpc'[v] # "none"
  BY CreatedStays, Zenon
<1>3. limit # 0 => nthreads' = 1
  <2>1. CASE CreateFails
    BY <2>1 DEF CreateFails, LimitInv
  <2>2. CASE Main /\ ~CreateFails
    <3>1. UNCHANGED nthreads
      BY <2>2, Zenon DEF Main, NoMemory, Create, StartJoin, Join, StartMerge, Merge, Return
    <3> QED
      BY <3>1 DEF LimitInv
  <2>3. ASSUME NEW w \in Workers, Worker(w) PROVE limit # 0 => nthreads' = 1
    BY <2>3, WorkerMoves, Zenon DEF LimitInv
  <2>4. CASE UNCHANGED vars
    BY <2>4, Zenon DEF vars, mainVars, LimitInv
  <2> QED
    BY <2>1, <2>2, <2>3, <2>4, Zenon DEF Next, Finished
<1>4. ASSUME UNCHANGED stop, st'[1]["emitted"] = st[1]["emitted"] PROVE LimitInv'
  BY <1>1, <1>2, <1>3, <1>4, Zenon DEF LimitInv
<1>5. ASSUME NEW w \in Workers, WalkBadBlock(w) PROVE LimitInv'
  <2>1. UNCHANGED stop /\ st' = [st EXCEPT ![w] = Bump(@, {"csum_bad"})]
    BY <1>5, Zenon DEF WalkBadBlock
  <2>2. "emitted" \in Counters /\ "emitted" # "csum_bad"
    BY DEF Counters
  <2>3. st'[1]["emitted"] = st[1]["emitted"]
    BY <1>0, <2>1, <2>2 DEF Bump
  <2> QED
    BY <1>4, <2>1, <2>3
<1>6. ASSUME NEW w \in Workers, WalkObject(w) PROVE LimitInv'
  <2>1. PICK n \in Ids :
          /\ st' = [st EXCEPT ![w] = Bump(@, Bumps(n))]
          /\ stop' = [stop EXCEPT ![w] = /\ limit # 0 /\ "emitted" \in Bumps(n)
                                         /\ st[w]["emitted"] + 1 >= limit]
    BY <1>6, Zenon DEF WalkObject
  <2>2. wpc[w] = "walk" /\ ~stop[w]
    BY <1>6, Zenon DEF WalkObject
  <2>3. \A v \in Workers : stop'[v] => wpc'[v] # "none"
    <3>1. \A v \in Workers : v # w => stop'[v] = stop[v]
      BY <1>0, <2>1
    <3> QED
      BY <1>2, <2>2, <3>1 DEF LimitInv
  <2>4. ASSUME limit # 0
        PROVE  st'[1]["emitted"] <= limit /\ (stop'[1] <=> st'[1]["emitted"] = limit)
    <3>1. w = 1 /\ st[1]["emitted"] <= limit /\ (stop[1] <=> st[1]["emitted"] = limit)
      <4>1. nthreads = 1 /\ w \in Nat /\ w >= 1
        BY <1>0, <2>4 DEF LimitInv
      <4>2. ~(w > nthreads)
        BY <2>2 DEF ScanInv, MainInv
      <4> QED
        BY <2>4, <4>1, <4>2 DEF LimitInv
    <3>2. "emitted" \in Counters
      BY DEF Counters
    <3> DEFINE e == st[1]["emitted"]
    <3>3. e \in Nat /\ e < limit
      BY <1>0, <2>2, <3>1, <3>2
    <3>4. st'[1]["emitted"] = e + (IF "emitted" \in Bumps(n) THEN 1 ELSE 0)
      BY <1>0, <2>1, <3>1, <3>2 DEF Bump
    <3>5. stop'[1] <=> ("emitted" \in Bumps(n) /\ e + 1 >= limit)
      BY <1>0, <2>1, <2>4, <3>1
    <3> HIDE DEF e
    <3> QED
      BY <1>0, <3>3, <3>4, <3>5
  <2> QED
    BY <1>1, <1>3, <2>3, <2>4, Zenon DEF LimitInv
<1>7. ASSUME NEW w \in Workers, Worker(w) PROVE LimitInv'
  <2>1. CASE Quiet(w)
    <3>1. UNCHANGED <<st, stop>>
      BY <2>1, QuietSame
    <3> QED
      BY <1>4, <3>1, Zenon
  <2> QED
    BY <1>5, <1>6, <1>7, <2>1, Zenon DEF Worker, Quiet
<1>8. CASE Main
  <2>1. UNCHANGED <<st, stop>>
    BY <1>8, MainSame
  <2> QED
    BY <1>4, <2>1, Zenon
<1>9. CASE UNCHANGED vars
  <2>1. UNCHANGED <<st, stop>>
    BY <1>9 DEF vars
  <2> QED
    BY <1>4, <2>1, Zenon
<1> QED
  BY <1>7, <1>8, <1>9, Zenon DEF Next, Finished

(* Nothing is counted when lfu_scan() starts.                              *)
LEMMA BalanceStart == Init => StatsBalance
<1> SUFFICES ASSUME Init PROVE StatsBalance
  OBVIOUS
<1>1. \A w \in Workers : st[w] = ZeroCounters
  BY DEF Init
<1>2. \A c \in Counters : ZeroCounters[c] = 0
  BY DEF ZeroCounters
<1>3. Balanced(ZeroCounters)
  <2> DEFINE z == ZeroCounters
  <2>1. \A c \in Classes : z[c] = 0
    BY <1>2 DEF Counters
  <2>2. /\ z["visible"] = 0 /\ z["internal"] = 0 /\ z["ost_obj"] = 0 /\ z["agent"] = 0
        /\ z["no_lma"] = 0 /\ z["bad"] = 0
    BY <2>1 DEF Classes
  <2>3. /\ z["in_use"] = 0 /\ z["filtered"] = 0 /\ z["seen"] = 0 /\ z["not_znode"] = 0
        /\ z["sa_fail"] = 0 /\ z["emitted"] = 0 /\ z["filtered1"] = 0 /\ z["unknown"] = 0
    BY <1>2 DEF Counters
  <2> HIDE DEF z
  <2>4. Balanced(z)
    BY <2>2, <2>3 DEF Balanced
  <2> QED
    BY <2>4 DEF z
<1> QED
  BY <1>1, <1>3, Zenon DEF StatsBalance

(* Every object a worker counted is in one place: the classes, the filters *)
(* and the emitted ones add up in every state of every worker.             *)
THEOREM ScanBalances == Spec => []StatsBalance
<1>1. Init => StatsBalance
  BY BalanceStart
<1>2. ASSUME ScanInv, StatsBalance, [Next]_vars PROVE StatsBalance'
  BY <1>2, BalanceStep
<1> QED
  BY <1>1, <1>2, ScanInvariant, PTL DEF Spec
=============================================================================
