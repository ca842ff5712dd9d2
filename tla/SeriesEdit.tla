----------------------------- MODULE SeriesEdit -----------------------------
(***************************************************************************)
(* How the scripts of docs/rounds change a text.  Each round of review     *)
(* fixes is a table of edits, "this old text becomes that new text in this *)
(* file, from this commit of the stack on", and one of four engines that   *)
(* applies an edit to a file: transform_text() of r3-0913/r3fix.py, rep()  *)
(* of the rebuild.py scripts, and the fn() of the tx_*.py modules, which   *)
(* comes in three forms.                                                   *)
(*                                                                         *)
(* A text is a sequence of passages.  A passage is a number: the tables    *)
(* tell apart only which passages an old or a new text is made of, and     *)
(* where one text lies inside another.  Passage 0 is any stretch of a file *)
(* that no edit speaks of.                                                 *)
(***************************************************************************)
EXTENDS Naturals, SequencesExt

(***************************************************************************)
(* Positions in the stack, bottom to top.  The rebuild.py and tx_*.py      *)
(* tables name the eighteen commits of theirs.                             *)
(***************************************************************************)
Top     == 64
C156    == 0
C157    == 1
C158    == 2
C159    == 3
C160    == 4
C163    == 5
C288    == 6
C415    == 7
C416    == 8
C417    == 9
C418    == 10
C419    == 11
C420    == 12
C443    == 13
F_GAP   == 14
F_NLINK == 15
F_PICK  == 16
F_ZFS   == 17

-----------------------------------------------------------------------------
(***************************************************************************)
(* An edit: the file, the old and the new text, and the commits it is for. *)
(* fn names the function of an edit that is not a plain replacement, and   *)
(* anc is a further text that function looks for.                          *)
(***************************************************************************)
t(id, path, old, new) ==
  [id |-> id, file |-> path, old |-> old, new |-> new, anc |-> <<>>,
   since |-> 0, until |-> Top, only |-> 0 .. Top, all |-> FALSE, fn |-> ""]

f(id, fn, path, anc, old, new) ==
  [t(id, path, old, new) EXCEPT !.fn = fn, !.anc = anc]

since(e, n)  == [e EXCEPT !.since = n]
only(e, S)   == [e EXCEPT !.only = S]
count_all(e) == [e EXCEPT !.all = TRUE]

edit(own, path, old, new, what) == since(t(what, path, old, new), own)
until(e, n)                     == [e EXCEPT !.until = n]
rename(own, path, a, b) ==
  [edit(own, path, a, b, "rename") EXCEPT !.all = TRUE, !.fn = "rename"]

post(e, before) == [e EXCEPT !.fn = "post", !.anc = before]

r(tag, path, old, new) == t(tag, path, old, new)
from(e, n)             == since(e, n)
below(e, n)            == until(e, n)

\* Whether edit e is for the commit at position i: allowed() of the r3fix
\* engine, the own/until test of build() and tip(), the gates of fn().
allowedMut(e, i) == i >= e.since /\ i \in e.only
allowed(e, i) == i \in e.only /\ i >= e.since /\ i < e.until

-----------------------------------------------------------------------------
(***************************************************************************)
(* str.count, "in" and str.replace.  No text of a table repeats a passage, *)
(* so two occurrences of a text never overlap.                             *)
(***************************************************************************)
Occurs(s, p) == {k \in 1 .. (Len(s) + 1) - Len(p) :
                   \A j \in 1 .. Len(p) : s[k + j - 1] = p[j]}

In(p, s)    == p = <<>> \/ Occurs(s, p) # {}
Count(s, p) == Cardinality(Occurs(s, p))

PutFirst(s, p, q) == ReplaceSubSeqAt(Min(Occurs(s, p)), q, p, s)

\* from the last occurrence to the first, so that earlier places keep theirs
PutAll(s, p, q) ==
  LET Later[S \in SUBSET Occurs(s, p)] ==
        IF S = {} THEN s
        ELSE ReplaceSubSeqAt(Min(S), q, p, Later[S \ {Min(S)}])
  IN  Later[Occurs(s, p)]

-----------------------------------------------------------------------------
(***************************************************************************)
(* What an engine makes of one edit: the text it leaves, whether it        *)
(* changed it, and whether it raised (RuntimeError, AssertionError).       *)
(***************************************************************************)
Same(s)  == [text |-> s, hit |-> FALSE, err |-> FALSE]
Hit(s)   == [text |-> s, hit |-> TRUE, err |-> FALSE]
Raise(s) == [text |-> s, hit |-> FALSE, err |-> TRUE]

\* move_resolve_comment(): the comment leaves its place and stands, reworded,
\* before the function it describes.
move_comment(e, s) ==
  IF ~In(e.old, s) \/ ~In(e.anc, s) THEN Same(s)
  ELSE LET cut == PutFirst(s, e.old, <<>>)
       IN  Hit(PutFirst(cut, e.anc, e.new \o e.anc))

\* _move(): the block from old up to anc goes before new, unless it is there.
move_block(e, s) ==
  LET a == Occurs(s, e.new)
      b == Occurs(s, e.old)
  IN  IF a = {} \/ b = {} THEN Same(s)
      ELSE IF Min(b) < Min(a) THEN Same(s)
      ELSE LET ends == {k \in Occurs(s, e.anc) : k >= Min(b)}
           IN  IF ends = {} THEN Raise(s)
               ELSE Hit(SubSeq(s, 1, Min(a) - 1)
                        \o SubSeq(s, Min(b), Min(ends) - 1)
                        \o SubSeq(s, Min(a), Min(b) - 1)
                        \o SubSeq(s, Min(ends), Len(s)))

\* add_cookie_tmp(): the new function goes before the kernel-doc of old.
insert_fn(e, s) ==
  IF In(e.new, s) \/ ~In(e.old, s) THEN Same(s)
  ELSE LET k == Min(Occurs(s, e.old))
           docs == {j \in Occurs(s, e.anc) : j < k}
       IN  IF docs = {} THEN Raise(s)
           ELSE Hit(SubSeq(s, 1, Max(docs) - 1) \o e.new
                    \o SubSeq(s, Max(docs), Len(s)))

transform_textMut(e, s) ==
  CASE e.fn = "move_comment" -> move_comment(e, s)
    [] e.fn = "move_block"   -> move_block(e, s)
    [] e.fn = "insert_fn"    -> insert_fn(e, s)
    [] OTHER ->
         IF ~In(e.old, s) THEN Same(s)
         ELSE IF e.all THEN Hit(PutAll(s, e.old, e.new))
         ELSE IF Count(s, e.old) # 1 THEN Raise(s)
         ELSE Hit(PutFirst(s, e.old, e.new))

transform_text(e, s) ==
  CASE e.fn = "move_comment" -> move_comment(e, s)
    [] e.fn = "move_block"   -> move_block(e, s)
    [] e.fn = "insert_fn"    -> insert_fn(e, s)
    [] OTHER ->
         IF ~In(e.old, s) THEN Same(s)
         ELSE IF In(e.old, e.new) /\ In(e.new, s) THEN Same(s)
         ELSE IF e.all THEN Hit(PutAll(s, e.old, e.new))
         ELSE IF Count(s, e.old) # 1 THEN Raise(s)
         ELSE Hit(PutFirst(s, e.old, e.new))

\* Mutant: a text that is missing is passed over.
repSkip(e, s) ==
  IF e.fn = "rename"
  THEN IF In(e.old, s) THEN Hit(PutAll(s, e.old, e.new)) ELSE Same(s)
  ELSE IF In(e.new, s) \/ ~In(e.old, s) THEN Same(s)
  ELSE IF Count(s, e.old) # 1 THEN Raise(s)
  ELSE Hit(PutFirst(s, e.old, e.new))

\* A rename of a-1008 is a re.sub over the file, made after the edits.
rep(e, s) ==
  IF e.fn = "rename"
  THEN IF In(e.old, s) THEN Hit(PutAll(s, e.old, e.new)) ELSE Same(s)
  ELSE IF In(e.new, s) THEN Same(s)
  ELSE IF Count(s, e.old) # 1 THEN Raise(s)
  ELSE Hit(PutFirst(s, e.old, e.new))

\* the fn() of tx_1019, c and d: one match, then the insertion test
fn_checked(e, s) ==
  IF ~In(e.old, s) THEN Same(s)
  ELSE IF Count(s, e.old) # 1 THEN Raise(s)
  ELSE IF In(e.new, s) /\ In(e.old, e.new) THEN Same(s)
  ELSE Hit(PutFirst(s, e.old, e.new))

\* the fn() of tx_1019f and g: the insertion test, then one match
fn_skipping(e, s) ==
  IF ~In(e.old, s) THEN Same(s)
  ELSE IF In(e.old, e.new) /\ In(e.new, s) THEN Same(s)
  ELSE IF Count(s, e.old) # 1 THEN Raise(s)
  ELSE Hit(PutFirst(s, e.old, e.new))

\* the fn() of tx_288, tx_419, tx_b and tx_1019h: no insertion test
fn_plain(e, s) ==
  IF ~In(e.old, s) THEN Same(s)
  ELSE IF Count(s, e.old) # 1 THEN Raise(s)
  ELSE Hit(PutFirst(s, e.old, e.new))

\* the fn() of tx_156: every occurrence, and no test at all
fn_every(e, s) ==
  IF In(e.old, s) THEN Hit(PutAll(s, e.old, e.new)) ELSE Same(s)

Engine(name, e, s) ==
  CASE name = "transform_text" -> transform_text(e, s)
    [] name = "rep"            -> rep(e, s)
    [] name = "fn_checked"     -> fn_checked(e, s)
    [] name = "fn_skipping"    -> fn_skipping(e, s)
    [] name = "fn_plain"       -> fn_plain(e, s)
    [] name = "fn_every"       -> fn_every(e, s)
=============================================================================
