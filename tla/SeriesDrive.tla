---------------------------- MODULE SeriesDrive ----------------------------
(***************************************************************************)
(* The scripts that rebuild a stack of commits with a round's fixes in     *)
(* every one of its trees, without cherry-picks:                           *)
(*                                                                         *)
(*   r3drive    r3-0913/r3drive.py and its copies in r-0918, r-0920,       *)
(*              r-0921, b1-0921 and b2-0921                                *)
(*   b2bdrive   b2-0922/b2bdrive.py, which pins the committer date and may *)
(*              take commits over from the last drive (PREV_TIP)           *)
(*   rebuild    build() of the rebuild.py scripts of a-1006, a-1007 and    *)
(*              a-1008, which works in memory and a private index          *)
(*                                                                         *)
(* A commit is the record of what git hashes: tree, parent, message and    *)
(* who and when.  Two commits with the same content are the same commit.   *)
(* What a table does to a text is in SeriesPass.  Here each file of the    *)
(* tree, and the message, is one text with one edit: "old" (the text the   *)
(* edit is for), "new" (the edited one), "none" (neither) or "dup" (the    *)
(* old text twice, which the engines refuse).                              *)
(***************************************************************************)
EXTENDS Naturals, Sequences

CONSTANTS
  N,          \* commits in the stack
  Files,      \* the files of the tree that the table edits
  Since,      \* Since[p]: the first commit the edit of p is for
  Base,       \* the commit the stack stands on
  Texts,      \* the trees and messages the commits of a stack may have
  MaxRuns     \* bound on the drives, and on the stamps

ASSUME StackAssumption == N \in Nat \ {0} /\ MaxRuns \in Nat

Msg == "msg"
Paths == Files \cup {Msg}

ASSUME GateAssumption == Since \in [Paths -> Nat]
ASSUME TextAssumption ==
  Texts \subseteq [Paths -> {"old", "new", "none", "dup"}]

VARIABLES
  tool,     \* which script
  src,      \* src[j]: the commits of base..tip, bottom to top
  pc,       \* "idle", "checkout", "apply", "write" or "build"
  i,        \* the commit being rebuilt
  wt,       \* the files of the worktree
  todo,     \* the files that apply() still has to write
  out,      \* the new commits so far
  prev,     \* the stack of PREV_TIP of this drive, empty without one
  dry,      \* rebuild: this run makes no commits
  fail,     \* rebuild: an edit failed
  last,     \* the stack of the last drive that printed its tip
  runs,     \* drives started
  tips      \* the drives that printed a tip: their input and that tip

dvars == <<tool, src, pc, i, wt, todo, out, prev, dry, fail, last, runs, tips>>

-----------------------------------------------------------------------------
Commit(texts, parent, stamp) ==
  [texts |-> texts, parent |-> parent, stamp |-> stamp]

\* The stack of texts ts, each commit on the one below, stamped with w.
Chain(ts, w) ==
  LET c[j \in 0 .. Len(ts)] ==
        IF j = 0 THEN Base ELSE Commit(ts[j], c[j - 1], <<w[j], w[j]>>)
  IN  [j \in 1 .. Len(ts) |-> c[j]]

parent == IF out = <<>> THEN Base ELSE out[Len(out)]

\* One edit at commit j: allowed() and transform_text().
Fixed(j, p, text) == IF text = "old" /\ j >= Since[p] THEN "new" ELSE text
FixedTexts(j, ts) == [p \in Paths |-> Fixed(j, p, ts[p])]

\* An edit that is for commit j finds its old text twice.
Refused(j, ts) == \E p \in Paths : ts[p] = "dup" /\ j >= Since[p]

Worktree(ts) == [p \in Files |-> ts[p]]

-----------------------------------------------------------------------------
DInit ==
  /\ tool \in {"r3drive", "b2bdrive", "rebuild"}
  /\ \E ts \in [1 .. N -> Texts] : src = Chain(ts, [j \in 1 .. N |-> 0])
  /\ pc = "idle"
  /\ i = 0
  \* whatever was left in the worktree
  /\ \E ts \in Texts : wt = Worktree(ts)
  /\ todo = {}
  /\ out = <<>>
  /\ prev = <<>>
  /\ dry = FALSE
  /\ fail = FALSE
  /\ last = <<>>
  /\ runs = 0
  /\ tips = {}

\* The script is called; b2bdrive with or without PREV_TIP, rebuild with or
\* without "dry".
Start ==
  /\ pc = "idle"
  /\ runs < MaxRuns
  /\ i' = 1
  /\ out' = <<>>
  /\ fail' = FALSE
  /\ runs' = runs + 1
  /\ prev' \in IF tool = "b2bdrive" THEN {<<>>, last} ELSE {<<>>}
  /\ dry' \in IF tool = "rebuild" THEN BOOLEAN ELSE {FALSE}
  /\ pc' = IF tool = "rebuild" THEN "build" ELSE "checkout"
  /\ UNCHANGED <<tool, src, wt, todo, last, tips>>

\* git checkout -q -f --detach
CheckoutMut ==
  /\ pc = "checkout"
  /\ i <= N
  /\ wt' = [p \in Files |-> IF wt[p] = "new" THEN wt[p] ELSE src[i].texts[p]]
  /\ pc' = "apply"
  /\ UNCHANGED <<tool, src, i, todo, out, prev, dry, fail, last, runs, tips>>

Checkout ==
  /\ pc = "checkout"
  /\ i <= N
  /\ wt' = Worktree(src[i].texts)
  /\ pc' = "apply"
  /\ UNCHANGED <<tool, src, i, todo, out, prev, dry, fail, last, runs, tips>>

\* apply(): every text is edited in memory first, and an edit that raises
\* ends the drive with nothing written.
Apply ==
  /\ pc = "apply"
  /\ IF Refused(i, src[i].texts)
     THEN pc' = "idle" /\ UNCHANGED todo
     ELSE /\ pc' = "write"
          /\ todo' = {p \in Files : Fixed(i, p, wt[p]) # wt[p]}
  /\ UNCHANGED <<tool, src, i, wt, out, prev, dry, fail, last, runs, tips>>

\* apply(): then the changed files are written, one after the other.
WriteFile ==
  /\ pc = "write"
  /\ \E p \in todo :
       /\ wt' = [wt EXCEPT ![p] = Fixed(i, p, wt[p])]
       /\ todo' = todo \ {p}
  /\ UNCHANGED <<tool, src, pc, i, out, prev, dry, fail, last, runs, tips>>

\* The new text of commit i: add -u and write-tree of the worktree, and the
\* message apply() returned.
NewTexts ==
  [p \in Paths |-> IF p = Msg THEN Fixed(i, Msg, src[i].texts[Msg]) ELSE wt[p]]

\* The commit of PREV_TIP at this position, if it is the same change.
Reusable(ts) ==
  /\ i <= Len(prev)
  /\ prev[i].texts = ts
  /\ prev[i].parent = parent

\* Author and date of the source; the committer date is pinned to the
\* source's only by b2bdrive.
StampMut(c) == <<c.stamp[1], runs>>
Stamp(c) == <<c.stamp[1], IF tool = "b2bdrive" THEN c.stamp[2] ELSE runs>>

\* commit-tree, or the reused commit.
MakeCommitMut ==
  /\ pc = "write"
  /\ todo = {}
  /\ out' = Append(out, Commit(NewTexts, parent, Stamp(src[i])))
  /\ i' = i + 1
  /\ pc' = "checkout"
  /\ UNCHANGED <<tool, src, wt, todo, prev, dry, fail, last, runs, tips>>

MakeCommit ==
  /\ pc = "write"
  /\ todo = {}
  /\ out' = Append(out, IF Reusable(NewTexts) THEN prev[i]
                        ELSE Commit(NewTexts, parent, Stamp(src[i])))
  /\ i' = i + 1
  /\ pc' = "checkout"
  /\ UNCHANGED <<tool, src, wt, todo, prev, dry, fail, last, runs, tips>>

\* One turn of build(): the edits in memory, a failed one reported and left
\* out; then, unless dry, the commit is kept if nothing changed it.
BuildCommitMut ==
  /\ pc = "build"
  /\ i <= N
  /\ fail' = (fail \/ Refused(i, src[i].texts))
  /\ out' = IF dry THEN out
            ELSE Append(out, Commit(FixedTexts(i, src[i].texts), parent,
                                    Stamp(src[i])))
  /\ i' = i + 1
  /\ UNCHANGED <<tool, src, pc, wt, todo, prev, dry, last, runs, tips>>

BuildCommit ==
  /\ pc = "build"
  /\ i <= N
  /\ fail' = (fail \/ Refused(i, src[i].texts))
  /\ LET ts == FixedTexts(i, src[i].texts)
         kept == ts = src[i].texts /\ src[i].parent = parent
     IN  out' = IF dry THEN out
                ELSE Append(out, IF kept THEN src[i]
                                 ELSE Commit(ts, parent, Stamp(src[i])))
  /\ i' = i + 1
  /\ UNCHANGED <<tool, src, pc, wt, todo, prev, dry, last, runs, tips>>

\* NEWTIP, or TIP: printed when no edit failed, and not by a dry run.
PrintTip ==
  /\ pc \in {"checkout", "build"}
  /\ i > N
  /\ IF fail \/ dry
     THEN UNCHANGED <<last, tips>>
     ELSE /\ last' = out
          /\ tips' = tips \cup {[src |-> src, prev |-> prev, tip |-> parent]}
  /\ pc' = "idle"
  /\ UNCHANGED <<tool, src, i, wt, todo, out, prev, dry, fail, runs>>

\* The script is killed: the worktree stays as it is.
Crash ==
  /\ pc # "idle"
  /\ pc' = "idle"
  /\ UNCHANGED <<tool, src, i, wt, todo, out, prev, dry, fail, last, runs, tips>>

\* Between two drives the commits from j up are rebased: the texts of j may
\* change, and every one of them is stamped anew.
Amend ==
  /\ pc = "idle"
  /\ tool # "rebuild"
  /\ 0 < runs /\ runs < MaxRuns
  /\ \E j \in 1 .. N, ts \in Texts :
       src' = Chain([m \in 1 .. N |-> IF m = j THEN ts ELSE src[m].texts],
                    [m \in 1 .. N |-> IF m < j THEN src[m].stamp[1] ELSE runs])
  /\ UNCHANGED <<tool, pc, i, wt, todo, out, prev, dry, fail, last, runs, tips>>

DNext ==
  \/ Start \/ Checkout \/ Apply \/ WriteFile \/ MakeCommit \/ BuildCommit
  \/ PrintTip \/ Crash \/ Amend

DSpec == DInit /\ [][DNext]_dvars

-----------------------------------------------------------------------------
(***************************************************************************)
(* Properties.                                                             *)
(***************************************************************************)
\* Every new commit has exactly its own source commit's texts with this
\* commit's edits made: nothing of a dirty worktree, of a killed drive or of
\* the commit before gets into it.
TreesFixed ==
  pc # "idle" =>
    \A j \in 1 .. Len(out) : out[j].texts = FixedTexts(j, src[j].texts)

\* b2bdrive.py: "an unchanged change gets no new patchset".  As long as no
\* text of the stack differs from PREV_TIP's, the drive hands out PREV_TIP's
\* own commits, whoever rebased the source in between.
ReuseUnchanged ==
  pc # "idle" =>
    \A m \in 1 .. Len(out) :
      (m <= Len(prev) /\ \A j \in 1 .. m : out[j].texts = prev[j].texts)
        => out[m] = prev[m]

\* b2bdrive.py: "two drives of the same input give the same SHAs".
SameInputSameTip ==
  tool = "b2bdrive" =>
    \A a, b \in tips : a.src = b.src /\ a.prev = b.prev => a.tip = b.tip

\* build() keeps a commit if and only if neither it nor one below it changes:
\* the changes below the first fix keep their patch sets, and no commit is
\* left standing on a parent that was rebuilt.
KeptBelow ==
  tool = "rebuild" /\ pc # "idle" =>
    \A m \in 1 .. Len(out) :
      (out[m] = src[m]) <=>
        (\A j \in 1 .. m : FixedTexts(j, src[j].texts) = src[j].texts)

\* A stack whose tip was printed (NEWTIP, TIP) has every edit made in every
\* commit the edit is for: no old text is left there, once or twice.
TipComplete ==
  \A j \in 1 .. Len(last) : \A p \in Paths :
    j >= Since[p] => last[j].texts[p] \notin {"old", "dup"}

-----------------------------------------------------------------------------
(***************************************************************************)
(* Why the trees are right: an inductive invariant.                        *)
(***************************************************************************)
Elements(s) == {s[j] : j \in DOMAIN s}

\* The commits done so far, and the refusals among them.
Progress ==
  /\ pc \in {"idle", "checkout", "apply", "write", "build"}
  /\ i \in Nat
  /\ pc # "idle" =>
       /\ i \in 1 .. N + 1
       /\ pc \in {"apply", "write"} => i <= N
       /\ out \in Seq(Elements(out))
       /\ Len(out) = IF dry THEN 0 ELSE i - 1
       /\ pc # "build" => ~dry /\ ~fail
       /\ ~fail => \A j \in 1 .. i - 1 : ~Refused(j, src[j].texts)

\* The worktree between checkout and commit: each file is the source's, or
\* that with the edit made.
WorktreeRight ==
  /\ pc = "apply" => wt = Worktree(src[i].texts)
  /\ pc = "write" =>
       /\ ~Refused(i, src[i].texts)
       /\ wt = [p \in Files |-> wt[p]]
       /\ todo \subseteq Files
       /\ \A p \in Files :
            wt[p] = IF p \in todo THEN src[i].texts[p]
                    ELSE Fixed(i, p, src[i].texts[p])

\* The commits done, the worktree at hand, and the two properties.
DriveInv == Progress /\ WorktreeRight /\ TreesFixed /\ TipComplete

-----------------------------------------------------------------------------
(***************************************************************************)
(* Why the commits are the same: what a stack of them is.                  *)
(***************************************************************************)
\* The commit that the commit at j of stack s stands on.
Below(s, j) == IF j = 1 THEN Base ELSE s[j - 1]
Stacked(s) == \A j \in 1 .. Len(s) : s[j].parent = Below(s, j)

\* The commit at j of a stack o that b2bdrive makes of source s with the stack
\* p of PREV_TIP: what it is, by the commit below it.
BuiltAt(s, p, o, j) ==
  LET ts == FixedTexts(j, s[j].texts)
      again == /\ j <= Len(p)
               /\ p[j].texts = ts
               /\ p[j].parent = Below(o, j)
  IN  o[j] = IF again THEN p[j]
             ELSE Commit(ts, Below(o, j), <<s[j].stamp[1], s[j].stamp[2]>>)
Built(s, p, o) == \A j \in 1 .. N : BuiltAt(s, p, o, j)

\* Every list of commits is a stack; the one at hand is built of its input as
\* far as it goes, and so was the stack under every tip.
StackInv ==
  /\ tool \in {"r3drive", "b2bdrive", "rebuild"}
  /\ Stacked(last) /\ Stacked(prev)
  /\ Len(last) \in Nat /\ Len(prev) \in Nat
  /\ tool = "rebuild" => Stacked(src) /\ Len(src) = N
  /\ tool = "rebuild" => prev = <<>> /\ pc \in {"idle", "build"}
  /\ pc = "build" => tool = "rebuild"
  /\ pc # "idle" =>
       /\ Stacked(out)
       /\ tool = "b2bdrive" => \A j \in 1 .. Len(out) : BuiltAt(src, prev, out, j)
  /\ tool = "b2bdrive" =>
       \A t \in tips : \E o : Built(t.src, t.prev, o) /\ t.tip = o[N]
  /\ ReuseUnchanged
  /\ KeptBelow
=============================================================================
