----------------------------- MODULE SeriesFork -----------------------------
(***************************************************************************)
(* run() of the forktx scripts: rewrite in place every commit from START   *)
(* up, on every branch of the forked series, and move the branches.        *)
(*                                                                         *)
(*   forktx    forktx.py .. forktx4.py (a-1014 .. a-1019), which read a    *)
(*             branch again before moving it, and gate their edits by a    *)
(*             commit, R288                                                *)
(*   forktx5   a-1019/forktx5.py, which reads the branches once and gates  *)
(*             its edits by the Change-Ids from START up, ANC              *)
(*                                                                         *)
(* git names a commit by what it holds and by its parent's name, so a      *)
(* commit is the sequence of the changes from the base up to it: its       *)
(* parent is that sequence less the last change, its ancestors are its     *)
(* prefixes, and equal sequences are the same commit.  run() keeps author, *)
(* committer and both dates, so they tell no two commits apart.  A change  *)
(* has a Change-Id and one text: "old" (the text an edit is for), "old288" *)
(* (the text of an edit that only commits with 68288 get), "new", "none",  *)
(* or "dup" for an old text that is there twice.                           *)
(***************************************************************************)
EXTENDS Naturals, Sequences

CONSTANTS
  Branches,     \* BRANCHES
  Forks,        \* what the branches may be at first
  StartId,      \* the Change-Id of START
  GateId,       \* the Change-Id of 68288, which the edits need
  Pushed,       \* the changes another session may commit
  MaxCalls,     \* bound on the calls of the script
  MaxMoves      \* bound on the moves of the other session

Change == [id : Nat, text : {"old", "old288", "new", "none", "dup"}]
NoCommit == <<>>

ASSUME ForkAssumption ==
  /\ Forks \subseteq [Branches -> Seq(Change)]
  /\ Pushed \subseteq Change
  /\ StartId \in Nat /\ GateId \in Nat
  /\ MaxCalls \in Nat /\ MaxMoves \in Nat

VARIABLES
  script,   \* "forktx" or "forktx5"
  heads,    \* refs/heads
  drefs,    \* refs/tx1019c: the tips of a dry call of forktx5
  R288,     \* the commit of GateId when the script was written
  fpc,      \* "idle", "rewrite", "move", "finished" or "died"
  start,    \* START of this call
  fdry,     \* DRY
  seen,     \* tips: the branches when the call began
  order,    \* the commits of order that are still to do
  newof,    \* newof: the new commit of each one done
  upd,      \* the branches of the last loop that are still to do
  turn,     \* the branch of this turn of that loop, as a set
  got,      \* o: the commit that branch was at
  calls,    \* calls so far
  moves,    \* moves of the other session so far
  moved,    \* the branches it moved since the call began
  first,    \* the branches at first
  work      \* what belongs on each branch: the Change-Ids, bottom to top

fvars == <<script, heads, drefs, R288, fpc, start, fdry, seen, order, newof,
           upd, turn, got, calls, moves, moved, first, work>>
callVars == <<script, R288, start, fdry, seen, calls>>
otherVars == <<moves, moved, first, work>>

-----------------------------------------------------------------------------
Upto(c, n) == SubSeq(c, 1, n)
parentOf(c) == Upto(c, Len(c) - 1)
\* merge-base --is-ancestor a c
is_ancestor(a, c) == Len(a) <= Len(c) /\ Upto(c, Len(a)) = a
Ids(c) == [j \in 1 .. Len(c) |-> c[j].id]

\* The commits a branch holds.
History(c) == {Upto(c, n) : n \in 1 .. Len(c)}
\* The commits of a change on some branch.
CommitsOf(id, h) ==
  {c \in UNION {History(h[b]) : b \in Branches} : c[Len(c)].id = id}

\* rev-list start^..b of the branches, less what does not stand on start.
StandingOn(s, h) ==
  {c \in UNION {History(h[b]) : b \in Branches} : is_ancestor(s, c)}

-----------------------------------------------------------------------------
FInit ==
  /\ script \in {"forktx", "forktx5"}
  /\ heads \in Forks
  /\ drefs = [b \in Branches |-> NoCommit]
  /\ R288 \in IF CommitsOf(GateId, heads) = {} THEN {NoCommit}
              ELSE CommitsOf(GateId, heads)
  /\ fpc = "idle"
  /\ start = NoCommit
  /\ fdry = FALSE
  /\ seen = heads
  /\ order = {}
  /\ newof = [c \in {} |-> NoCommit]
  /\ upd = {}
  /\ turn = {}
  /\ got = NoCommit
  /\ calls = 0
  /\ moves = 0
  /\ moved = {}
  /\ first = heads
  /\ work = [b \in Branches |-> Ids(heads[b])]

\* HAS288, or 68288 in ANC.
Gated(c) ==
  IF script = "forktx5"
  THEN \E j \in Len(start) .. Len(c) : c[j].id = GateId
  ELSE R288 # NoCommit /\ is_ancestor(R288, c)

\* fn() and msgfn() on the last change of c.
Fixed1(c) ==
  LET ch == c[Len(c)]
      edited == ch.text = "old" \/ (ch.text = "old288" /\ Gated(c))
  IN  [id |-> ch.id, text |-> IF edited THEN "new" ELSE ch.text]

\* The script is called.  START is a commit of StartId: one that is on a
\* branch, or the one it was on at first.
Begin ==
  /\ fpc \in {"idle", "finished", "died"}
  /\ calls < MaxCalls
  /\ \E s \in CommitsOf(StartId, heads) \cup CommitsOf(StartId, first) :
       /\ start' = s
       /\ order' = StandingOn(s, heads)
  /\ fdry' \in BOOLEAN
  /\ seen' = heads
  /\ newof' = [c \in {} |-> NoCommit]
  /\ fpc' = "rewrite"
  /\ upd' = {}
  /\ turn' = {}
  /\ got' = NoCommit
  /\ calls' = calls + 1
  /\ moved' = {}
  /\ UNCHANGED <<script, heads, drefs, R288, moves, first, work>>

\* The next commit: all of its ancestors in order are done.
ReadyMut(c) == c \in order
Ready(c) == c \in order /\ parentOf(c) \notin order

\* newof.get(c, c)
NewOf(c) == IF c \in DOMAIN newof THEN newof[c] ELSE c

\* One turn of the first loop.  A commit that nothing changes, on a parent
\* that nothing changed, is kept.
Rewrite(c) ==
  newof' = [x \in DOMAIN newof \cup {c} |->
              IF x # c THEN newof[x]
              ELSE IF NewOf(parentOf(c)) = parentOf(c)
                      /\ Fixed1(c) = c[Len(c)] THEN c
              ELSE Append(NewOf(parentOf(c)), Fixed1(c))]

RewriteOne ==
  /\ fpc = "rewrite"
  /\ \E c \in order :
       /\ Ready(c)
       /\ c[Len(c)].text # "dup"
       /\ Rewrite(c)
       /\ order' = order \ {c}
  /\ UNCHANGED <<callVars, heads, drefs, fpc, upd, turn, got, otherVars>>

\* fn() asserts that an old text is there once: the script ends.
RewriteDies ==
  /\ fpc = "rewrite"
  /\ \E c \in order : Ready(c) /\ c[Len(c)].text = "dup"
  /\ fpc' = "died"
  /\ UNCHANGED <<callVars, heads, drefs, order, newof, upd, turn, got, otherVars>>

\* All commits are made: on to the branches.
RewriteDone ==
  /\ fpc = "rewrite"
  /\ order = {}
  /\ fpc' = "move"
  /\ upd' = Branches
  /\ UNCHANGED <<callVars, heads, drefs, order, newof, turn, got, otherVars>>

\* A turn of the last loop.  forktx reads the branch once more; forktx5 goes
\* by tips.
ReadHead ==
  /\ fpc = "move"
  /\ turn = {}
  /\ \E b \in upd :
       /\ turn' = {b}
       /\ upd' = upd \ {b}
       /\ got' = IF script = "forktx5" THEN seen[b] ELSE heads[b]
  /\ UNCHANGED <<callVars, heads, drefs, fpc, order, newof, otherVars>>

\* update-ref with the old value: git refuses when the branch is not at it,
\* and the script ends with the branches that are left as they were.
UpdateRefMut(b) ==
  /\ heads' = [heads EXCEPT ![b] = NewOf(got)]
  /\ UNCHANGED <<drefs, fpc>>

UpdateRef(b) ==
  /\ IF heads[b] = got
     THEN heads' = [heads EXCEPT ![b] = NewOf(got)] /\ UNCHANGED fpc
     ELSE fpc' = "died" /\ UNCHANGED heads
  /\ UNCHANGED drefs

MoveHeadMut ==
  /\ fpc = "move"
  /\ \E b \in turn :
       \/ /\ fdry
          /\ drefs' = [drefs EXCEPT ![b] = NewOf(got)]
          /\ UNCHANGED fpc
          /\ heads' = [heads EXCEPT ![b] = IF @ = got THEN NewOf(got) ELSE @]
       \/ ~fdry /\ UpdateRef(b)
  /\ turn' = {}
  /\ UNCHANGED <<callVars, order, newof, upd, got, otherVars>>

MoveHead ==
  /\ fpc = "move"
  /\ \E b \in turn :
       \/ /\ fdry /\ script = "forktx5"
          /\ drefs' = [drefs EXCEPT ![b] = NewOf(got)]
          /\ UNCHANGED <<heads, fpc>>
       \/ /\ fdry /\ script = "forktx"
          /\ UNCHANGED <<heads, drefs, fpc>>
       \/ /\ ~fdry
          /\ NewOf(got) = got
          /\ UNCHANGED <<heads, drefs, fpc>>
       \/ /\ ~fdry
          /\ NewOf(got) # got
          /\ UpdateRef(b)
  /\ turn' = {}
  /\ UNCHANGED <<callVars, order, newof, upd, got, otherVars>>

Finish ==
  /\ fpc = "move"
  /\ upd = {}
  /\ turn = {}
  /\ fpc' = "finished"
  /\ UNCHANGED <<callVars, heads, drefs, order, newof, upd, turn, got, otherVars>>

\* The script is killed.
Kill ==
  /\ fpc \in {"rewrite", "move"}
  /\ fpc' = "died"
  /\ UNCHANGED <<callVars, heads, drefs, order, newof, upd, turn, got, otherVars>>

\* Another session commits on a branch, or takes its last commit off.
Push ==
  /\ moves < MaxMoves
  /\ \E b \in Branches, ch \in Pushed :
       /\ heads' = [heads EXCEPT ![b] = Append(@, ch)]
       /\ work' = [work EXCEPT ![b] = Append(@, ch.id)]
       /\ moved' = moved \cup {b}
  /\ moves' = moves + 1
  /\ UNCHANGED <<callVars, drefs, fpc, order, newof, upd, turn, got, first>>

Drop ==
  /\ moves < MaxMoves
  /\ \E b \in Branches :
       /\ heads[b] # NoCommit
       /\ heads' = [heads EXCEPT ![b] = parentOf(@)]
       /\ work' = [work EXCEPT ![b] = parentOf(@)]
       /\ moved' = moved \cup {b}
  /\ moves' = moves + 1
  /\ UNCHANGED <<callVars, drefs, fpc, order, newof, upd, turn, got, first>>

FNext ==
  \/ Begin \/ RewriteOne \/ RewriteDies \/ RewriteDone \/ ReadHead
  \/ MoveHead \/ Finish \/ Kill \/ Push \/ Drop

FSpec == FInit /\ [][FNext]_fvars

-----------------------------------------------------------------------------
(***************************************************************************)
(* Properties.                                                             *)
(***************************************************************************)
\* What becomes of commit c, said of c alone: the changes below START as they
\* are, and each one from START up with its own edits made.
Rewritten(c) ==
  [j \in 1 .. Len(c) |->
     IF j < Len(start) THEN c[j] ELSE Fixed1(Upto(c, j))]

Expected(c) == IF is_ancestor(start, c) /\ c # NoCommit THEN Rewritten(c) ELSE c

\* forktx.py: "Parents are remapped".  The new commit of c holds every
\* ancestor's new commit and no old one, and it is the same commit on every
\* branch that shared c, in whatever order the commits are done.
ParentsRemapped ==
  \A c \in DOMAIN newof : newof[c] = Rewritten(c)

\* update-ref gets the old value: whatever another session commits, or takes
\* off, while the script runs, each branch keeps exactly the changes that
\* belong on it, in their order.
NoWorkLost ==
  \A b \in Branches : Ids(heads[b]) = work[b]

\* A call that ends moved every branch that nobody else moved to its rewritten
\* tip; a dry call of forktx5 put that tip in refs/tx1019c, and moved none.
FinishedMeansAll ==
  fpc = "finished" =>
    \A b \in Branches \ moved :
      /\ heads[b] = IF fdry THEN seen[b] ELSE Expected(seen[b])
      /\ fdry /\ script = "forktx5" => drefs[b] = Expected(seen[b])

\* A call that died left some branches rewritten and some not.  The next one
\* with the same START that ends puts them back on one another: two branches
\* that shared their first n commits share their first n new ones.
ForkStaysShared ==
  /\ fpc = "finished" /\ ~fdry /\ moves = 0
  /\ start \in CommitsOf(StartId, first)
  =>
    \A b, d \in {x \in Branches : is_ancestor(start, first[x])} :
      \A n \in 1 .. Len(first[b]) :
        n <= Len(first[d]) /\ Upto(first[b], n) = Upto(first[d], n)
          => Upto(heads[b], n) = Upto(heads[d], n)

-----------------------------------------------------------------------------
(***************************************************************************)
(* Why they hold: an inductive invariant.                                  *)
(***************************************************************************)
Known == order \cup DOMAIN newof

ForkTypeOK ==
  /\ script \in {"forktx", "forktx5"}
  /\ heads \in [Branches -> Seq(Change)]
  /\ seen \in [Branches -> Seq(Change)]
  /\ drefs \in [Branches -> Seq(Change)]
  /\ first \in [Branches -> Seq(Change)]
  /\ start \in Seq(Change)
  /\ got \in Seq(Change)
  /\ DOMAIN work = Branches
  /\ Known \subseteq Seq(Change) \ {NoCommit}
  /\ newof = [c \in DOMAIN newof |-> newof[c]]
  /\ fpc \in {"idle", "rewrite", "move", "finished", "died"}
  /\ fdry \in BOOLEAN
  /\ upd \subseteq Branches
  /\ turn \subseteq Branches

\* The commits at hand are START and commits above it, with every commit in
\* between; the tips that stand on START are among them.
OrderClosed ==
  /\ Known # {} => start # NoCommit
  /\ \A c \in Known :
       /\ is_ancestor(start, c)
       /\ c # start => parentOf(c) \in Known
  /\ fpc \in {"rewrite", "move", "finished"} =>
       \A b \in Branches :
         seen[b] # NoCommit /\ is_ancestor(start, seen[b]) => seen[b] \in Known
  /\ fpc \in {"move", "finished"} => order = {}

\* A branch that nobody else moved: where it is before, during and after its
\* turn.
Turns ==
  /\ \A b, d \in turn : b = d
  /\ turn \cap upd = {}
  /\ fpc \in {"rewrite", "finished"} => turn \cup upd = {}
  /\ \A b \in Branches \ moved :
       /\ fpc = "rewrite" => heads[b] = seen[b]
       /\ fpc \in {"move", "finished"} =>
            /\ b \in upd \cup turn => heads[b] = seen[b]
            /\ b \in turn => got = seen[b]
            /\ b \notin upd \cup turn =>
                 /\ heads[b] = IF fdry THEN seen[b] ELSE NewOf(seen[b])
                 /\ fdry /\ script = "forktx5" => drefs[b] = NewOf(seen[b])

\* Types, the closed order, the turns, and the two properties they rest on.
ForkInv ==
  ForkTypeOK /\ OrderClosed /\ Turns /\ ParentsRemapped /\ NoWorkLost
=============================================================================
