------------------------------ MODULE MCLfuScan ------------------------------
(***************************************************************************)
(* Instances of LfuScan for TLC: the slots a target may hold, and the      *)
(* option sets, from a few that tell the properties apart to all of them.  *)
(***************************************************************************)
EXTENDS LfuScan

Obj == [state |-> "object", tier0 |-> TRUE, lma |-> TRUE, flags |-> {},
        seq |-> "visible", tier1 |-> "MATCH", ext |-> FALSE, nlink |-> 1]
Slot(s) == [Obj EXCEPT !.state = s]

(* No filter, no options.                                                  *)
Plain == {[active |-> FALSE, needs |-> FALSE, show_internal |-> FALSE,
           emit_unknown |-> FALSE]}
(* No filter, a tier-0 one, a tier-1 one, and a tier-1 one that shows all. *)
FilterOptions ==
  Plain \cup {[active |-> TRUE, needs |-> ns[1], show_internal |-> ns[2],
               emit_unknown |-> ns[2]] :
                 ns \in {<<FALSE, FALSE>>, <<TRUE, FALSE>>, <<TRUE, TRUE>>}}

(* Enough to tell chunks, holes and bad blocks apart.                      *)
FewEntries(b) == {Obj, Slot(IF b = "ldiskfs" THEN "csum" ELSE "absent")}

(* Objects of every class and of every verdict.                            *)
ObjKinds ==
  {Obj, [Obj EXCEPT !.tier0 = FALSE], [Obj EXCEPT !.lma = FALSE],
   [Obj EXCEPT !.tier1 = "NOMATCH"], [Obj EXCEPT !.tier1 = "UNKNOWN"],
   [Obj EXCEPT !.flags = {"UNSUPP", "AGENT"}],
   [Obj EXCEPT !.flags = {"NOT_IN_OI"}], [Obj EXCEPT !.flags = {"AGENT"}],
   [Obj EXCEPT !.flags = {"FID_ON_OST"}], [Obj EXCEPT !.seq = "idif"],
   [Obj EXCEPT !.seq = "other", !.tier1 = "UNKNOWN"],
   [Obj EXCEPT !.ext = TRUE, !.nlink = 0]}
AllEntries(b) ==
  ObjKinds \cup
  {Slot(s) : s \in
     IF b = "ldiskfs"
     THEN {"csum", "reserved", "free", "deleted", "implausible"}
     ELSE {"absent", "not_znode", "sa_fail", "xattr_fail", "no_xattr"}}

LdiskfsOnly == {"ldiskfs"}
Both == {"ldiskfs", "zfs"}
NoLimit == {0}
SomeLimits == {0, 2}

(* Two kinds of target in one instance.  Every placement of a few entries, *)
(* with and without --limit, is about who scans what.  An entry of any     *)
(* kind beside a plain object or another of its kind, on either side of    *)
(* the end of a chunk of an otherwise unused table, under every filter     *)
(* option, is about what is counted.                                       *)
Unused(b) == Slot(IF b = "ldiskfs" THEN "free" ELSE "absent")
PairTables(b) ==
  {[i \in Ids |-> IF i = ChunkSize THEN ef[1]
                  ELSE IF i = ChunkSize + 1 THEN ef[2] ELSE Unused(b)] :
     ef \in UNION {{<<e, Obj>>, <<Obj, e>>, <<e, e>>} : e \in AllEntries(b)}}

MCInit ==
  /\ backend \in Backends
  /\ \/ /\ opts \in Plain /\ limit \in Limits
        /\ table \in [Ids -> FewEntries(backend)]
     \/ /\ opts \in Options /\ limit = 0
        /\ table \in PairTables(backend)
  /\ Init

MCFairSpec ==
  /\ MCInit /\ [][Next]_vars
  /\ WF_vars(Main) /\ \A w \in Workers : WF_vars(Worker(w))
=============================================================================
