----------------------------- MODULE SeriesPass -----------------------------
(***************************************************************************)
(* A round's table run over the tree of one commit, and run over the       *)
(* result once more.                                                       *)
(*                                                                         *)
(*  - apply() of r3fix.py (r3drive.py and its copies) edits the texts in   *)
(*    memory and writes them when the whole table went through; an edit    *)
(*    that raises ends it.                                                 *)
(*  - build() of the rebuild.py scripts does the same for a commit's tree, *)
(*    but an edit that raises is reported, the next one is tried, and the  *)
(*    script exits 1 at its end.                                           *)
(*  - run() of forktx*.py hands each file to fn(), whose AssertionError    *)
(*    ends the script before any branch moves.                             *)
(*                                                                         *)
(* The trees are not in the repository.  A tree is built from the table:   *)
(* the old text of every edit that is for this commit, unless another edit *)
(* writes that text or holds it.  This is the tree the table was written   *)
(* for.  The other trees twist it: one edit's text missing, there twice,   *)
(* or already edited.                                                      *)
(***************************************************************************)
EXTENDS DriveTables, RebuildTables, ForkTables

CONSTANT Rounds     \* the names of the tables to run

VARIABLES
  round,    \* the table
  at,       \* the position of the commit in the stack
  twist,    \* how the tree differs from the one the table was written for
  disk,     \* the texts of the commit: what is written, or committed
  mem,      \* the texts the script holds: cache of apply(), files of build()
  k,        \* the next edit, an index of Active
  pass,     \* 1, or 2 for the run over the result of the first
  applied,  \* the edits that changed a text in this pass
  failed,   \* the edits reported as failed in this pass
  status    \* "run", "raised" or "done"

pvars == <<round, at, twist, disk, mem, k, pass, applied, failed, status>>

-----------------------------------------------------------------------------
Rebuilt(table)        == [table |-> table, engine |-> "rep", top |-> F_ZFS]
Driven(table, top)    == [table |-> table, engine |-> "transform_text",
                          top |-> top]
Forked(table, engine) == [table |-> table, engine |-> engine, top |-> F_ZFS]

RoundOf ==
  [r3fix    |-> Driven(r3fix, 25),
   r0918fix |-> Driven(r0918fix, 25),
   r0920fix |-> Driven(r0920fix, 25),
   r0921fix |-> Driven(r0921fix, 25),
   b1fix    |-> Driven(b1fix, 25),
   b2fix    |-> Driven(b2fix, 25),
   a1006    |-> Rebuilt(a1006),
   a1007    |-> Rebuilt(a1007),
   a1008    |-> Rebuilt(a1008),
   tx_156   |-> Forked(tx_156, "fn_every"),
   tx_288   |-> Forked(tx_288, "fn_plain"),
   tx_419   |-> Forked(tx_419, "fn_plain"),
   tx_b     |-> Forked(tx_b, "fn_plain"),
   tx_1019  |-> Forked(tx_1019, "fn_checked"),
   tx_1019c |-> Forked(tx_1019c, "fn_checked"),
   tx_1019d |-> Forked(tx_1019d, "fn_checked"),
   tx_1019f |-> Forked(tx_1019f, "fn_skipping"),
   tx_1019g |-> Forked(tx_1019g, "fn_skipping"),
   tx_1019h |-> Forked(tx_1019h, "fn_plain")]

Table(name)     == RoundOf[name].table
FilesOf(name)   == {e.file : e \in Range(Table(name))}
Active(name, i) == SelectSeq(Table(name), LAMBDA e : allowed(e, i))

-----------------------------------------------------------------------------
(***************************************************************************)
(* Trees.                                                                  *)
(***************************************************************************)
\* The commits a row names, whatever the engines make of it.
Meant(e, i) == e.since <= i /\ i < e.until /\ i \in e.only

\* The stretch of a file that an edit is written against.
Lay(e) ==
  CASE e.fn = "move_comment" -> e.old \o <<0>> \o e.anc
    [] e.fn = "move_block"   -> e.new \o <<0>> \o e.old \o <<0>> \o e.anc
    [] e.fn = "insert_fn"    -> e.anc \o <<0>> \o e.old
    [] e.fn = "post"         -> e.anc
    [] OTHER                 -> e.old

\* e's stretch is not in the tree by itself: d writes it, or holds it.
Shadowed(e, d, later) ==
  /\ e.file = d.file
  /\ \/ In(Lay(e), d.new) /\ ~In(Lay(e), Lay(d))
     \/ In(Lay(e), Lay(d)) /\ (Lay(e) # Lay(d) \/ later)

ShadowedBy ==
  [name \in Rounds |->
     LET T == Table(name)
     IN  [j \in 1 .. Len(T) |->
            {d \in 1 .. Len(T) : d # j /\ Shadowed(T[j], T[d], d < j)}]]

\* The edits of a round whose stretch stands in the tree of commit i.
Standing(name, i) ==
  LET T   == Table(name)
      now == {j \in 1 .. Len(T) : Meant(T[j], i)}
  IN  {j \in now : ShadowedBy[name][j] \cap now = {}}

Untwisted == [kind |-> "none", edit |-> 0]

Twists(name, i) ==
  {Untwisted} \cup
  IF i = RoundOf[name].top
  THEN [kind : {"absent", "double", "done"}, edit : Standing(name, i)]
  ELSE {}

Stretch(e, kind) ==
  CASE kind = "absent" -> <<>>
    [] kind = "double" -> Lay(e) \o <<0>> \o Lay(e)
    [] kind = "done"   -> e.new
    [] kind = "none"   -> Lay(e)

Tree(name, i, tw) ==
  LET T == Table(name)
      there == Standing(name, i)
      piece(j) == <<0>> \o Stretch(T[j], IF tw.edit = j THEN tw.kind ELSE "none")
      text(path) ==
        LET mine == SelectSeq([j \in 1 .. Len(T) |-> j],
                              LAMBDA j : j \in there /\ T[j].file = path)
        IN  FlattenSeq([m \in 1 .. Len(mine) |-> piece(mine[m])]) \o <<0>>
  IN  [path \in FilesOf(name) |-> text(path)]

-----------------------------------------------------------------------------
PInit ==
  /\ round \in Rounds
  /\ at \in 0 .. RoundOf[round].top
  /\ twist \in Twists(round, at)
  /\ disk = Tree(round, at, twist)
  /\ mem = disk
  /\ k = 1
  /\ pass = 1
  /\ applied = {}
  /\ failed = {}
  /\ status = "run"

Edits == Active(round, at)

Outcome == LET e == Edits[k]
           IN  Engine(RoundOf[round].engine, e, mem[e.file])

\* build() catches what an edit raises; apply() and run() do not.
Caught == RoundOf[round].engine = "rep"

\* One edit of the table.
EditStep ==
  /\ status = "run"
  /\ k <= Len(Edits)
  /\ ~Outcome.err
  /\ mem' = [mem EXCEPT ![Edits[k].file] = Outcome.text]
  /\ applied' = IF Outcome.hit THEN applied \cup {k} ELSE applied
  /\ k' = k + 1
  /\ UNCHANGED <<round, at, twist, disk, pass, failed, status>>

\* An edit that raises.
EditRaises ==
  /\ status = "run"
  /\ k <= Len(Edits)
  /\ Outcome.err
  /\ IF Caught
     THEN failed' = failed \cup {k} /\ k' = k + 1 /\ UNCHANGED status
     ELSE status' = "raised" /\ UNCHANGED <<failed, k>>
  /\ UNCHANGED <<round, at, twist, disk, mem, pass, applied>>

\* The table is through: the changed texts are written, or committed.
WriteBack ==
  /\ status = "run"
  /\ k > Len(Edits)
  /\ disk' = mem
  /\ status' = "done"
  /\ UNCHANGED <<round, at, twist, mem, k, pass, applied, failed>>

\* The script is run once more, over what it made.
Rerun ==
  /\ status = "done"
  /\ pass = 1
  /\ failed = {}
  /\ pass' = 2
  /\ mem' = disk
  /\ k' = 1
  /\ applied' = {}
  /\ status' = "run"
  /\ UNCHANGED <<round, at, twist, disk, failed>>

PNext == EditStep \/ EditRaises \/ WriteBack \/ Rerun

PSpec == PInit /\ [][PNext]_pvars

-----------------------------------------------------------------------------
(***************************************************************************)
(* Properties.                                                             *)
(***************************************************************************)
\* The rows of a table go together: in the tree a table was written for, every
\* row that names this commit finds its text, exactly once, after all the rows
\* before it, and none raises.  No row eats what a later one looks for, and
\* each gate lets a row through at its commits and at no other.  A row whose
\* old text is there twice is not applied at a guess: the engine raises, and
\* the rest of the tree stays as it was or the row is reported.
EveryRowApplies ==
  pass = 1 =>
    /\ twist = Untwisted =>
         /\ status # "raised"
         /\ failed = {}
         /\ status = "done" =>
              {Edits[m] : m \in applied} = {e \in Range(Table(round)) : Meant(e, at)}
    /\ status = "done" /\ twist.kind = "double" /\ RoundOf[round].engine # "fn_every" =>
         LET e == Table(round)[twist.edit]
         IN  e.fn = "" /\ ~e.all => \A m \in applied : Edits[m] # e

\* The rounds whose fn() inserts without testing whether it already did.
InsertAgain == {"tx_288", "tx_419", "tx_b"}

\* r3fix.py: "idempotent transforms"; tx_1019c.py: "every old text is gone
\* after one pass, and insertions check that their new text is not already
\* there"; rebuild.py: "Idempotent per edit".  A second run over the result
\* changes no text, whichever edit was missing or already made at first.
SecondRunChangesNothing ==
  pass = 2 /\ round \notin InsertAgain /\ twist.kind # "double" =>
    applied = {} /\ status # "raised"

\* A later row rewrites part of what e writes.
Overwritten(e, d) == Range(e.new) \cap Range(d.old) # {}

\* rebuild.py exits 0 only when it reported nothing, and then the trees hold
\* every new text, but for what a later row of the same table rewrote.  A text
\* that is missing is never passed over.
ExitZeroMeansMade ==
  status = "done" /\ failed = {} /\ Caught =>
    \A m \in 1 .. Len(Edits) :
      LET e == Edits[m]
      IN  e.fn # "rename" =>
            \/ In(e.new, disk[e.file])
            \/ \E n \in m + 1 .. Len(Edits) :
                 Edits[n].file = e.file /\ Overwritten(e, Edits[n])
=============================================================================
