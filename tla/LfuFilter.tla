------------------------------ MODULE LfuFilter ------------------------------
(***************************************************************************)
(* The filter language shared by the scanners and the kernel ring: what    *)
(* lfu_filter.c compiles an option into, what lfu_filter_eval.c decodes    *)
(* from an object's xattrs, and what one predicate answers.  There is no   *)
(* state here; LfuQuery runs the loops.                                    *)
(*                                                                         *)
(* Numbers are integers modulo Word.  A bit word is the set of its bits, a *)
(* pattern is the set of the names it matches, and the text of an option   *)
(* is the record of what its parser reads in it (ok: the text has the      *)
(* parser's syntax).                                                       *)
(***************************************************************************)
EXTENDS Integers, Sequences, FiniteSets, FiniteSetsExt, Functions

CONSTANTS
  Word,       \* 2^64
  SizeUnit,   \* multiplier of each size suffix
  Block,      \* 512
  KiB,        \* 1024
  StripeMin,  \* 4096: a smaller stripe size is read as KiB
  TimeUnit,   \* seconds in each time suffix
  MaxPred,    \* LFU_MAX_PRED
  MaxList     \* LFU_MAX_LIST

ASSUME FilterAssumption ==
  /\ Word \in Nat \ {0} /\ Block \in Nat \ {0} /\ KiB \in Nat
  /\ StripeMin \in Nat /\ MaxPred \in Nat /\ MaxList \in Nat

Needs == {"SOM", "LOV", "LMV", "LINK"}

Times == {"ATIME", "MTIME", "CTIME", "BTIME"}
Quantities == {"SIZE", "BLOCKS", "DEV_BLOCKS", "STRIPE_SIZE"}
Counts == {"LINKS", "STRIPE_COUNT", "MIRROR_COUNT", "COMP_COUNT", "MDT_COUNT"}

Tier0Fields == Times \cup {"UID", "GID", "TYPE", "PERM", "LINKS", "PROJID",
                           "ATTRS", "DEV_BLOCKS"}
LovFields == {"STRIPE_COUNT", "STRIPE_SIZE", "OST", "POOL", "LAYOUT",
              "MIRROR_COUNT", "COMP_COUNT"}
Tier1Fields == {"SIZE", "BLOCKS", "MDT_COUNT", "MDT_HASH", "NAME"} \cup LovFields

Ops == {"EQ", "GT", "LT", "ALL", "ANY", "LIST", "STR"}

(* Fold a sequence from its first element to its last.                     *)
FoldSeqLeft(op(_, _), base, seq) ==
  MapThenFoldSet(LAMBDA x, y : op(y, x), base, LAMBDA k : seq[k],
                 LAMBDA S : Max(S), DOMAIN seq)

-----------------------------------------------------------------------------
(* Compiling one option.                                                   *)

(* lfu_field_needs() without the LOV that decides whether SOM is wanted.   *)
field_needsMut(fld) ==
  CASE fld \in {"SIZE", "BLOCKS"}         -> {"SOM"}
    [] fld \in LovFields                  -> {"LOV"}
    [] fld \in {"MDT_COUNT", "MDT_HASH"}  -> {"LMV"}
    [] fld = "NAME"                       -> {"LINK"}
    [] OTHER                              -> {}

field_needs(fld) ==
  CASE fld \in {"SIZE", "BLOCKS"}         -> {"SOM", "LOV"}
    [] fld \in LovFields                  -> {"LOV"}
    [] fld \in {"MDT_COUNT", "MDT_HASH"}  -> {"LMV"}
    [] fld = "NAME"                       -> {"LINK"}
    [] OTHER                              -> {}

EmptyFilter == [p |-> <<>>, needs |-> {}, neg_pending |-> FALSE]

parse_sign(sign) == CASE sign = "+" -> "GT" [] sign = "-" -> "LT" [] OTHER -> "EQ"

(* WHOLE[.FRAC][suffix]; div is 10^digits of the fraction.                 *)
parse_size(o, units) ==
  LET mult == IF o.unit = "" THEN units ELSE SizeUnit[o.unit]
  IN  (o.whole * mult + ((o.frac * mult) % Word) \div o.div) % Word

parse_time(terms) ==
  FoldSeqLeft(LAMBDA total, t : (total + t.n * TimeUnit[t.unit]) % Word, 0, terms)

(* The smallest unit used, and at most a day.                              *)
time_margin(terms) ==
  Min({TimeUnit["d"]} \cup {TimeUnit[terms[k].unit] : k \in DOMAIN terms})

(* A comma list of N-M ranges.                                             *)
index_list(ranges) == UNION {r[1] .. r[2] : r \in Range(ranges)}
index_count(ranges) ==
  FoldSeqLeft(LAMBDA n, r : n + (r[2] - r[1] + 1), 0, ranges)

(* The parser of the option accepts its text.                              *)
Parses(o) ==
  /\ o.ok
  /\ o.opt \in Times => o.terms # <<>>
  /\ o.opt = "ATTRS" => o.want \cup o.nowant # {}
  /\ o.opt = "LAYOUT" => o.bits # {}
  /\ o.opt = "OST" => /\ \A r \in Range(o.ranges) : r[1] <= r[2]
                      /\ index_count(o.ranges) \in 1 .. MaxList
  /\ o.opt \in {"POOL", "NAME"} => ~o.long

(* -a and -b are older spellings of --atime +Ns and --dev-blocks +N.       *)
Spelled(o) ==
  CASE o.opt = "a" -> [opt |-> "ATIME", ok |-> o.ok, sign |-> "+",
                       terms |-> <<[n |-> o.n, unit |-> "s"]>>]
    [] o.opt = "b" -> [opt |-> "DEV_BLOCKS", ok |-> o.ok, sign |-> "+",
                       whole |-> o.n, frac |-> 0, div |-> 1, unit |-> ""]
    [] OTHER       -> o

size_val(o) ==
  IF o.opt = "STRIPE_SIZE"
    THEN LET v == parse_size(o, 1)
         IN  IF v < StripeMin THEN (v * KiB) % Word ELSE v
    ELSE parse_size(o, Block)

size_val2(o) ==
  IF parse_sign(o.sign) # "EQ" THEN 0 ELSE IF o.opt = "STRIPE_SIZE" THEN 1 ELSE Block

(* What the predicate of an option tests.                                  *)
Tested(o) ==
  CASE o.opt \in Times ->
         [op |-> parse_sign(o.sign), val |-> parse_time(o.terms),
          val2 |-> time_margin(o.terms)]
    [] o.opt \in Counts ->
         [op |-> parse_sign(o.sign), val |-> o.n, val2 |-> 0]
    [] o.opt \in Quantities ->
         [op |-> parse_sign(o.sign), val |-> size_val(o), val2 |-> size_val2(o)]
    [] o.opt \in {"UID", "GID", "PROJID", "MDT_HASH"} ->
         [op |-> "EQ", val |-> o.n, val2 |-> 0]
    [] o.opt = "TYPE" ->
         [op |-> "EQ", val |-> o.type, val2 |-> 0]
    [] o.opt = "PERM" ->
         [op |-> CASE o.prefix = "-" -> "ALL" [] o.prefix = "/" -> "ANY"
                   [] OTHER -> "EQ",
          val |-> o.bits, val2 |-> {}]
    [] o.opt = "ATTRS" -> [op |-> "ALL", val |-> o.want, val2 |-> o.nowant]
    [] o.opt = "LAYOUT" -> [op |-> "ANY", val |-> o.bits, val2 |-> {}]
    [] o.opt = "OST" -> [op |-> "LIST", val |-> index_list(o.ranges), val2 |-> {}]
    [] o.opt \in {"POOL", "NAME"} -> [op |-> "STR", val |-> o.names, val2 |-> {}]

(* p->nlist: the entries of p->list, repeated ones too.                    *)
list_len(o) == IF o.opt = "OST" THEN index_count(o.ranges) ELSE 0

(* lfu_pred_new() and the caller's assignments to the predicate.           *)
pred_new(f, o) ==
  [p |-> Append(f.p, [field |-> o.opt, neg |-> f.neg_pending, test |-> Tested(o),
                      nlist |-> list_len(o)]),
   needs |-> f.needs \cup field_needs(o.opt),
   neg_pending |-> FALSE]

(* lfu_filter_opt() returns 0; otherwise it returns -2 and lfu_main()      *)
(* exits with 2, so what it left in the filter does not matter.            *)
opt_ok(f, o) == o.opt = "NOT" \/ (Parses(o) /\ Len(f.p) < MaxPred)

filter_opt(f, o) ==
  IF o.opt = "NOT" THEN [f EXCEPT !.neg_pending = TRUE] ELSE pred_new(f, o)

fields_used(f) == {f.p[k].field : k \in DOMAIN f.p}

attrs_used(f) ==
  UNION {f.p[k].test.val \cup f.p[k].test.val2 :
           k \in {j \in DOMAIN f.p : f.p[j].field = "ATTRS"}}

(* lfu_filter_validate(), which the ring runs on what it is handed.  Its   *)
(* last test, for the NUL of p->str, has no counterpart: lfu_pred_new()    *)
(* clears the predicate and snprintf() ends what it writes into p->str.    *)
validate(f) ==
  /\ Len(f.p) <= MaxPred
  /\ ~f.neg_pending
  /\ \A k \in DOMAIN f.p :
       /\ f.p[k].field \in Tier0Fields \cup Tier1Fields
       /\ f.p[k].test.op \in Ops
       /\ f.p[k].neg \in BOOLEAN
       /\ f.p[k].nlist \in 0 .. MaxList

-----------------------------------------------------------------------------
(* Decoding the xattrs.  Every xattr has a len: "none", "short" (less than *)
(* the decoder asks for) or "full".                                        *)

NoEA == [len |-> "none"]

decode_som(ea) ==
  IF ea.len = "full"
    THEN [have |-> TRUE, valid |-> ea.valid, size |-> ea.size, blocks |-> ea.blocks]
    ELSE [have |-> FALSE]

(* The entries lfu_decode_lov() decodes: those of a composite up to the    *)
(* first that does not fit, without those pointing outside the value.      *)
Decoded(ea) ==
  SelectSeq(SubSeq(ea.comps, 1, Min({ea.nent, Len(ea.comps)})),
            LAMBDA c : c.placed)

(* An object is counted whether or not the value has room for it.          *)
decode_lov_oneMut(t, c) ==
  CASE ~c.whole -> t
    [] c.whole /\ c.magic = "FOREIGN" -> [t EXCEPT !.pattern = @ \cup {"foreign"}]
    [] c.whole /\ c.magic \in {"V1", "V3"} ->
         [t EXCEPT
            !.pool = IF c.magic = "V3" /\ @ = "" THEN c.pool ELSE @,
            !.pattern = @ \cup c.pattern,
            !.stripe_size = IF @ = 0 THEN c.stripe_size ELSE @,
            !.stripe_count = IF "mdt" \in c.pattern THEN @ ELSE @ + c.stripe_count]
    [] OTHER -> t

(* whole: the component's own header is there.                             *)
decode_lov_one(t, c) ==
  CASE ~c.whole -> t
    [] c.whole /\ c.magic = "FOREIGN" -> [t EXCEPT !.pattern = @ \cup {"foreign"}]
    [] c.whole /\ c.magic \in {"V1", "V3"} ->
         LET count == IF "released" \in c.pattern THEN c.stripe_count
                      ELSE Min({c.stripe_count, Len(c.osts)})
         IN  [t EXCEPT
                !.pool = IF c.magic = "V3" /\ @ = "" THEN c.pool ELSE @,
                !.pattern = @ \cup c.pattern,
                !.stripe_size = IF @ = 0 THEN c.stripe_size ELSE @,
                !.stripe_count = IF "mdt" \in c.pattern THEN @ ELSE @ + count]
    [] OTHER -> t

NoLov == [have |-> FALSE, pattern |-> {}, stripe_count |-> 0, stripe_size |-> 0,
          comp_count |-> 0, mirror_count |-> 0, pool |-> ""]

(* Four bytes are enough for have_lov; "short" is anything from there up   *)
(* to a header, and "full" has the header.                                 *)
decode_lov(ea) ==
  CASE ea.len = "none" -> NoLov
    [] ea.len = "short" ->
         [NoLov EXCEPT !.have = TRUE,
                       !.comp_count = IF ea.comp THEN 0 ELSE 1,
                       !.mirror_count = IF ea.comp THEN 0 ELSE 1]
    [] ea.len = "full" ->
         FoldSeqLeft(decode_lov_one,
                  [NoLov EXCEPT !.have = TRUE,
                                !.comp_count = ea.nent,
                                !.mirror_count = ea.mirrors + 1],
                  Decoded(ea))

(* The hash word is a type in its low half and flags in its high half.     *)
decode_lmv(ea) ==
  IF ea.len = "full" /\ ea.magic \in {"V1", "STRIPE"}
    THEN [have |-> TRUE, count |-> ea.count, hash |-> ea.hash]
    ELSE [have |-> FALSE]

(* lfu_ea_decode().                                                        *)
ea_decode(eas) ==
  [som |-> decode_som(eas["SOM"]), lov |-> decode_lov(eas["LOV"]),
   lmv |-> decode_lmv(eas["LMV"])]

-----------------------------------------------------------------------------
(* Evaluating one predicate.                                               *)

cmp(t, value) ==
  CASE t.op = "GT" -> value > t.val
    [] t.op = "LT" -> value < t.val
    [] t.op = "EQ" -> IF t.val2 # 0
                        THEN value <= t.val /\ (value + t.val2) % Word > t.val
                        ELSE value = t.val
    [] OTHER -> FALSE

(* The same switch on a bit word.                                          *)
cmp_bits(t, bits) ==
  CASE t.op = "EQ"  -> bits = t.val
    [] t.op = "ALL" -> t.val \subseteq bits /\ t.val2 \cap bits = {}
    [] t.op = "ANY" -> t.val \cap bits # {}

cmp_age(t, now, stamp) ==
  LET age == IF now > stamp THEN now - stamp ELSE 0
  IN  IF t.op = "EQ" THEN age >= t.val /\ age < (t.val + t.val2) % Word
                     ELSE cmp(t, age)

(* The switch of lfu_filter_tier0().                                       *)
Hit0(p, rec, now) ==
  CASE p.field \in Times        -> cmp_age(p.test, now, rec.stamp[p.field])
    [] p.field \in {"UID", "GID", "PROJID", "LINKS"} -> cmp(p.test, rec.id[p.field])
    [] p.field = "TYPE"         -> rec.type = p.test.val
    [] p.field = "PERM"         -> cmp_bits(p.test, rec.perm)
    [] p.field = "ATTRS"        -> cmp_bits(p.test, rec.flags)
    [] p.field = "DEV_BLOCKS"   -> cmp(p.test, (rec.blocks * Block) % Word)

(* lfu_resolve_size() in two halves: whether the MDT knows the answer...   *)
size_unknown(rec, t1) ==
  /\ rec.type = "file"
  /\ t1.lov.have /\ "released" \notin t1.lov.pattern /\ t1.lov.stripe_count > 0
  /\ ~(t1.som.have /\ t1.som.valid \cap {"strict", "lazy"} # {})

(* ... and the answer: SOM's for a striped file, the inode's otherwise.    *)
resolve_size(rec, t1, want_blocks) ==
  LET striped == /\ rec.type = "file" /\ t1.lov.have
                 /\ "released" \notin t1.lov.pattern /\ t1.lov.stripe_count > 0
  IN  CASE striped /\ want_blocks   -> (t1.som.blocks * Block) % Word
        [] striped /\ ~want_blocks  -> t1.som.size
        [] ~striped /\ want_blocks  -> (rec.blocks * Block) % Word
        [] ~striped /\ ~want_blocks -> rec.size

(* lfu_lov_on_ost() walks the entries on its own.                          *)
Walked(ea) ==
  {k \in 1 .. ea.nent : k \in DOMAIN ea.comps /\ ea.comps[k].placed /\ ea.comps[k].whole}

(* In each of them, a released or MDT component has no objects, and the    *)
(* objects past the end of the value are not looked at.                    *)
Objects(c) ==
  IF c.magic \in {"V1", "V3"} /\ c.pattern \cap {"mdt", "released"} = {}
    THEN SubSeq(c.osts, 1, Min({c.stripe_count, Len(c.osts)}))
    ELSE <<>>

lov_on_ost(ea, list) ==
  /\ ea.len = "full"
  /\ \E k \in Walked(ea) : Range(Objects(ea.comps[k])) \cap list # {}

(* lfu_linkea_name(): the first malformed entry ends the walk.             *)
linkea_name(ea, names) ==
  /\ ea.len = "full"
  /\ ea.magic \in {"host", "swapped"}
  /\ \E k \in 1 .. Min({ea.reccount, Len(ea.entries)}) :
       /\ \A j \in 1 .. k : ea.entries[j].good
       /\ ea.entries[k].name \in names

(* The switch of lfu_filter_tier1(), for a predicate that has an answer.   *)
Hit1(p, rec, t1, eas) ==
  CASE p.field = "SIZE"         -> cmp(p.test, resolve_size(rec, t1, FALSE))
    [] p.field = "BLOCKS"       -> cmp(p.test, resolve_size(rec, t1, TRUE))
    [] p.field = "STRIPE_COUNT" -> t1.lov.have /\ cmp(p.test, t1.lov.stripe_count)
    [] p.field = "STRIPE_SIZE"  -> t1.lov.have /\ cmp(p.test, t1.lov.stripe_size)
    [] p.field = "MIRROR_COUNT" -> t1.lov.have /\ cmp(p.test, t1.lov.mirror_count)
    [] p.field = "COMP_COUNT"   -> t1.lov.have /\ cmp(p.test, t1.lov.comp_count)
    [] p.field = "LAYOUT"       -> t1.lov.have /\ cmp_bits(p.test, t1.lov.pattern)
    [] p.field = "POOL"         -> t1.lov.have /\ t1.lov.pool \in p.test.val
    [] p.field = "OST"          -> lov_on_ost(eas["LOV"], p.test.val)
    [] p.field = "MDT_COUNT"    -> t1.lmv.have /\ cmp(p.test, t1.lmv.count)
    [] p.field = "MDT_HASH"     -> t1.lmv.have /\ cmp(p.test, t1.lmv.hash.type)
    [] p.field = "NAME"         -> linkea_name(eas["LINK"], p.test.val)

(* The predicate has no answer: lfu_filter_tier1() goes on without one.    *)
Undecided(p, rec, t1) == p.field \in {"SIZE", "BLOCKS"} /\ size_unknown(rec, t1)
=============================================================================
