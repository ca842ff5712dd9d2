------------------------------ MODULE LfuMeaning ------------------------------
(***************************************************************************)
(* What a command line asks and what a Lustre file is, without the filter  *)
(* struct, the tiers or the xattr formats: the reference the verdicts of   *)
(* LfuQuery are compared with.  Where the code and its documents disagree  *)
(* the documents are followed, and Disputed names the case.                *)
(*                                                                         *)
(* A file is a record of its attributes: type, perm, id, flags, stamp (as  *)
(* in the inode), size and blocks of the FILE, dev (blocks of the MDT      *)
(* inode), layout (a sequence of components [kind, released, osts, count,  *)
(* stripe_size, pool]), mirrors, som (what trusted.som vouches for), dir   *)
(* (its stripes over MDTs: <<>> or <<count, hash, flags>>) and names.      *)
(***************************************************************************)
EXTENDS LfuQuery

CONSTANT Files

Striped(f) ==
  /\ f.type = "file"
  /\ \E k \in DOMAIN f.layout : f.layout[k].kind = "raid0" /\ f.layout[k].count > 0
  /\ \A k \in DOMAIN f.layout : ~f.layout[k].released

-----------------------------------------------------------------------------
(* How Lustre stores a file on its MDT.                                    *)

LovComponent(c) ==
  [placed |-> TRUE, whole |-> TRUE,
   magic |-> IF c.kind = "foreign" THEN "FOREIGN" ELSE IF c.pool = "" THEN "V1" ELSE "V3",
   pattern |-> {c.kind} \cup (IF c.released THEN {"released"} ELSE {}),
   stripe_count |-> c.count, osts |-> c.osts,
   stripe_size |-> c.stripe_size, pool |-> c.pool]

OnDisk(f) ==
  [rec |-> [type |-> f.type, perm |-> f.perm, id |-> f.id, flags |-> f.flags,
            stamp |-> f.stamp,
            size |-> IF Striped(f) THEN 0 ELSE f.size,
            blocks |-> f.dev],
   eas |-> [
     SOM |-> IF f.som = "none" THEN NoEA
             ELSE [len |-> "full", valid |-> {f.som}, size |-> f.size, blocks |-> f.blocks],
     LOV |-> IF f.layout = <<>> THEN NoEA
             ELSE [len |-> "full", comp |-> Len(f.layout) > 1 \/ f.mirrors > 1,
                   nent |-> Len(f.layout), mirrors |-> f.mirrors - 1,
                   comps |-> [k \in DOMAIN f.layout |-> LovComponent(f.layout[k])]],
     LMV |-> IF f.dir = <<>> THEN NoEA
             ELSE [len |-> "full", magic |-> "V1", count |-> f.dir[1],
                   hash |-> [type |-> f.dir[2], flags |-> f.dir[3]]],
     LINK |-> IF f.names = <<>> THEN NoEA
              ELSE [len |-> "full", magic |-> "host", reccount |-> Len(f.names),
                    entries |-> [k \in DOMAIN f.names |-> [name |-> f.names[k], good |-> TRUE]]]],
   big |-> f.big]

-----------------------------------------------------------------------------
(* What the options ask.                                                   *)

Data(f) == {k \in DOMAIN f.layout : f.layout[k].kind # "mdt" /\ f.layout[k].kind # "foreign"}

Stripes(f) == FoldFunctionOnSet(LAMBDA a, b : a + b, 0,
                                [k \in DOMAIN f.layout |-> f.layout[k].count], Data(f))

(* [+-]N: more than, less than, or equal to within a margin below N.       *)
Compares(sign, value, n, margin) ==
  CASE sign = "+" -> value > n
    [] sign = "-" -> value < n
    [] OTHER      -> value <= n /\ value > n - margin

Bytes(o, bare) ==
  LET mult == IF o.unit = "" THEN bare ELSE SizeUnit[o.unit]
  IN  o.whole * mult + (o.frac * mult) \div o.div

Seconds(o) == FoldSeqLeft(LAMBDA s, t : s + t.n * TimeUnit[t.unit], 0, o.terms)

StripeBytes(o) == IF Bytes(o, 1) < StripeMin THEN Bytes(o, 1) * KiB ELSE Bytes(o, 1)

Age(f, which) == IF Now > f.stamp[which] THEN Now - f.stamp[which] ELSE 0

Pools(f) == SelectSeq([k \in DOMAIN f.layout |-> f.layout[k].pool], LAMBDA p : p # "")

(* "A bare value must fall inside the unit it names" (lfind.8): a size     *)
(* with the unit that ends there, an age with the smallest unit of its     *)
(* terms, which starts there.                                              *)
SizeMargin(o) == IF o.unit = "" THEN Block ELSE SizeUnit[o.unit]
AgeMargin(o) == Min({TimeUnit[o.terms[k].unit] : k \in DOMAIN o.terms})

(* The option's question has the answer yes.  A file's size is the file's, *)
(* not its MDT inode's, and its stripe size is "of the first data          *)
(* component" (struct lfu_tier1).                                          *)
Asks(o, f) ==
  CASE o.opt \in Times ->
         IF o.sign \in {"+", "-"} THEN Compares(o.sign, Age(f, o.opt), Seconds(o), 1)
         ELSE Age(f, o.opt) - Seconds(o) \in 0 .. AgeMargin(o) - 1
    [] o.opt \in {"UID", "GID", "PROJID"} -> f.id[o.opt] = o.n
    [] o.opt = "LINKS"       -> Compares(o.sign, f.id[o.opt], o.n, 1)
    [] o.opt = "TYPE"        -> f.type = o.type
    [] o.opt = "PERM"        ->
         CASE o.prefix = "-" -> \A b \in o.bits : b \in f.perm
           [] o.prefix = "/" -> \E b \in o.bits : b \in f.perm
           [] OTHER -> f.perm = o.bits
    [] o.opt = "ATTRS"       -> /\ \A a \in o.want : a \in f.flags
                                /\ \A a \in o.nowant : a \notin f.flags
    [] o.opt = "DEV_BLOCKS"  -> Compares(o.sign, f.dev * Block, Bytes(o, Block), SizeMargin(o))
    [] o.opt = "SIZE"        -> Compares(o.sign, f.size, Bytes(o, Block), SizeMargin(o))
    [] o.opt = "BLOCKS"      ->
         Compares(o.sign, (IF Striped(f) THEN f.blocks ELSE f.dev) * Block,
                  Bytes(o, Block), SizeMargin(o))
    [] o.opt = "STRIPE_COUNT" -> f.layout # <<>> /\ Compares(o.sign, Stripes(f), o.n, 1)
    [] o.opt = "STRIPE_SIZE" ->
         /\ Data(f) # {}
         /\ Compares(o.sign, f.layout[Min(Data(f))].stripe_size, StripeBytes(o), 1)
    [] o.opt = "MIRROR_COUNT" -> f.layout # <<>> /\ Compares(o.sign, f.mirrors, o.n, 1)
    [] o.opt = "COMP_COUNT"  -> f.layout # <<>> /\ Compares(o.sign, Len(f.layout), o.n, 1)
    [] o.opt = "LAYOUT"      ->
         \E k \in DOMAIN f.layout :
           \/ f.layout[k].kind \in o.bits
           \/ "released" \in o.bits /\ f.layout[k].released
    [] o.opt = "POOL"        ->
         /\ f.layout # <<>>
         /\ (IF Pools(f) = <<>> THEN "" ELSE Pools(f)[1]) \in o.names
    [] o.opt = "OST"         ->
         \E k \in Data(f), r \in Range(o.ranges) :
           /\ ~f.layout[k].released
           /\ \E x \in Range(f.layout[k].osts) : x \in r[1] .. r[2]
    [] o.opt = "MDT_COUNT"   -> f.dir # <<>> /\ Compares(o.sign, f.dir[1], o.n, 1)
    [] o.opt = "MDT_HASH"    -> f.dir # <<>> /\ f.dir[2] = o.n
    [] o.opt = "NAME"        -> \E k \in DOMAIN f.names : f.names[k] \in o.names

(* Nobody on the MDT knows: "a striped regular file with no trusted.som"   *)
(* (lfind.8, lfu_filter.h).                                                *)
Unknowable(o, f) ==
  o.opt \in {"SIZE", "BLOCKS"} /\ Striped(f) /\ f.som = "none"

(* The answer to a command line: every option must hold, those right after *)
(* a `!` must not.                                                         *)
Answer(c, f) ==
  LET Opts == {k \in DOMAIN c : c[k].opt # "NOT"}
      Negated(k) == k > 1 /\ c[k - 1].opt = "NOT"
      Holds(k) == Asks(Spelled(c[k]), f) # Negated(k)
      Open(k) == Unknowable(Spelled(c[k]), f)
  IN  IF \E k \in Opts : ~Open(k) /\ ~Holds(k) THEN "NOMATCH"
      ELSE IF \E k \in Opts : Open(k) THEN "UNKNOWN"
      ELSE "MATCH"

(* What the code does otherwise than its documents say: it passes over a   *)
(* SOM that says it is stale, takes the stripe size of the first component *)
(* even when that one is no data component, and gives every unsigned size  *)
(* a margin of one block and every unsigned age one of at most a day.      *)
StaleSom(o, f) == o.opt \in {"SIZE", "BLOCKS"} /\ Striped(f) /\ f.som = "stale"
OtherStripe(o, f) == o.opt = "STRIPE_SIZE" /\ f.layout # <<>> /\ 1 \notin Data(f)
OtherMargin(o) ==
  \/ o.opt \in {"SIZE", "BLOCKS", "DEV_BLOCKS"} /\ o.sign = "" /\ SizeMargin(o) # Block
  \/ o.opt \in Times /\ o.sign = "" /\ AgeMargin(o) > TimeUnit["d"]
Disputed(o, f) == StaleSom(o, f) \/ OtherStripe(o, f) \/ OtherMargin(o)

(* The object with a verdict is the file f as the backend sees it.         *)
Judged(f) ==
  /\ pc = "done" /\ complete
  /\ obj = [OnDisk(f) EXCEPT !.rec.flags = @ \cap Visible(backend)]

(* The verdict on a file is the answer to the command line: the compiled   *)
(* predicates, the backend's view of the inode, the decoded xattrs and the *)
(* size an MDT may vouch for (lfu_resolve_size()) say the same as the      *)
(* words did, for the device scanners and for the kernel ring, and a `!`   *)
(* turns the one option after it.  The disputed options are left out.      *)
VerdictMeansCommand ==
  \A f \in Files :
    Judged(f) /\ (\A k \in DOMAIN cmd : ~Disputed(Spelled(cmd[k]), f))
      => verdict = Answer(cmd, f)

(* An unsigned size with a suffix accepts the last unit of that suffix, as *)
(* `--size 1M` being (0, 1M] says.                                         *)
SizeMarginIsUnit ==
  \A f \in Files :
    /\ Judged(f) /\ ~Striped(f)
    /\ Len(cmd) = 1 /\ cmd[1].opt = "SIZE" /\ cmd[1].sign = "" /\ cmd[1].unit # ""
    => verdict = Answer(cmd, f)

(* The same for every option but those with another margin: a trusted.som  *)
(* is used as it is, also a stale one, and --stripe-size compares the      *)
(* first data component, also behind one on the MDT.                       *)
VerdictAsDocumented ==
  \A f \in Files :
    Judged(f) /\ (\A k \in DOMAIN cmd : ~OtherMargin(Spelled(cmd[k])))
      => verdict = Answer(cmd, f)
=============================================================================
