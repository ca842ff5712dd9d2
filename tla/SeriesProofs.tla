---------------------------- MODULE SeriesProofs ----------------------------
(***************************************************************************)
(* Proofs about the scripts of docs/rounds: the drivers, for a stack of    *)
(* any height, any files and any trees, however often a drive is killed    *)
(* and the stack amended; the fork rewrite, for any branches, forks and    *)
(* changes and any moves of other sessions; and the replies, for any rows  *)
(* and any number of runs.                                                 *)
(***************************************************************************)
EXTENDS SeriesDrive, SeriesFork, SeriesReplies, SequenceTheorems,
        NaturalsInduction, WellFoundedInduction, TLAPS

\* A set of naturals that is not empty has a least element.
LEMMA LeastNat ==
  ASSUME NEW S, S \subseteq Nat, S # {} PROVE \E x \in S : \A y \in S : x <= y
<1> DEFINE R == {ss \in Nat \X Nat : ss[1] < ss[2]}
<1>0. IsWellFoundedOn(R, Nat)
  BY NatLessThanWellFounded DEF OpToRel
<1> HIDE DEF R
<1>1. PICK x \in S : \A y \in S : ~(<<y, x>> \in R)
  BY <1>0, WFMin, Zenon
<1>2. ASSUME NEW y \in S PROVE x <= y
  <2>1. x \in Nat /\ y \in Nat
    OBVIOUS
  <2>2. <<y, x>> \notin R
    BY <1>1
  <2> QED
    BY <2>1, <2>2 DEF R
<1> QED
  BY <1>2

-----------------------------------------------------------------------------
(***************************************************************************)
(* The drivers.                                                            *)
(***************************************************************************)
\* A list with one commit more.
LEMMA AppendFacts ==
  ASSUME NEW s, s \in Seq(Elements(s)), NEW e
  PROVE  /\ Append(s, e) \in Seq(Elements(Append(s, e)))
         /\ Len(s) \in Nat /\ Len(Append(s, e)) = Len(s) + 1
         /\ \A j \in 1 .. Len(s) : Append(s, e)[j] = s[j]
         /\ Append(s, e)[Len(s) + 1] = e
<1> DEFINE S == Elements(s) \cup {e}
           a == Append(s, e)
<1>1. s \in Seq(S) /\ e \in S
  BY SeqMonotonic
<1> HIDE DEF S
<1>2. /\ a \in Seq(S) /\ Len(s) \in Nat /\ Len(a) = Len(s) + 1
      /\ \A j \in 1 .. Len(s) : a[j] = s[j]
      /\ a[Len(s) + 1] = e
  BY <1>1
<1> HIDE DEF a
<1>3. Len(a) \in Nat /\ a \in [1 .. Len(a) -> S] /\ DOMAIN a = 1 .. Len(a)
  BY <1>2, LenProperties
<1>4. a \in [1 .. Len(a) -> Elements(a)]
  BY <1>3 DEF Elements
<1>5. a \in Seq(Elements(a))
  BY <1>3, <1>4, SeqDef
<1> QED
  BY <1>2, <1>5 DEF a

\* It holds at first.
LEMMA DriveInitInv == ASSUME DInit PROVE DriveInv
<1>1. pc = "idle" /\ i = 0 /\ last = <<>> /\ Len(last) = 0
  BY DEF DInit
<1> QED
  BY <1>1 DEF DriveInv, Progress, WorktreeRight, TreesFixed, TipComplete

\* The edits of one commit depend on its place and its texts only.
LEMMA FixedSame ==
  /\ \A j, p, x : Fixed(j, p, x)' = Fixed(j, p, x)
  /\ \A j, ts : FixedTexts(j, ts)' = FixedTexts(j, ts)
  /\ \A j, ts : Refused(j, ts)' = Refused(j, ts)
BY DEF Fixed, FixedTexts, Refused

\* A drive begins, or ends: nothing is done, and nothing at hand.
LEMMA EdgesInv ==
  ASSUME StackAssumption, DriveInv, Start \/ Crash \/ Amend
  PROVE  DriveInv'
<1>1. CASE Start
  <2>1. /\ i' = 1 /\ out' = <<>> /\ fail' = FALSE /\ last' = last /\ src' = src
        /\ pc' \in {"checkout", "build"} /\ dry' \in BOOLEAN
        /\ pc' # "build" => ~dry'
    BY <1>1, Zenon DEF Start
  <2>2. Len(out') = 0 /\ out' \in Seq(Elements(out'))
    BY <2>1, EmptySeq
  <2>3. Progress'
    BY <2>1, <2>2 DEF Progress, StackAssumption
  <2>4. WorktreeRight' /\ TreesFixed' /\ TipComplete'
    BY <2>1, <2>2 DEF DriveInv, WorktreeRight, TreesFixed, TipComplete
  <2> QED
    BY <2>3, <2>4 DEF DriveInv
<1>2. CASE Crash \/ Amend
  <2>1. pc' = "idle" /\ i' = i /\ last' = last
    BY <1>2 DEF Crash, Amend
  <2> QED
    BY <2>1 DEF DriveInv, Progress, WorktreeRight, TreesFixed, TipComplete
<1> QED
  BY <1>1, <1>2

\* git checkout puts the source's files in the worktree.
LEMMA CheckoutInv == ASSUME StackAssumption, DriveInv, Checkout PROVE DriveInv'
<1>1. /\ pc = "checkout" /\ i <= N /\ wt' = Worktree(src[i].texts)
      /\ pc' = "apply" /\ UNCHANGED <<src, i, out, dry, fail, last>>
  BY DEF Checkout
<1>2. Progress'
  BY <1>1 DEF DriveInv, Progress
<1>3. WorktreeRight' /\ TreesFixed' /\ TipComplete'
  BY <1>1 DEF DriveInv, WorktreeRight, TreesFixed, TipComplete
<1> QED
  BY <1>2, <1>3 DEF DriveInv

\* apply() either refuses, or lists the files its edits change.
LEMMA ApplyInv == ASSUME StackAssumption, DriveInv, Apply PROVE DriveInv'
<1>1. /\ pc = "apply" /\ wt = Worktree(src[i].texts) /\ wt' = wt
      /\ UNCHANGED <<src, i, out, dry, fail, last>>
  BY DEF Apply, DriveInv, WorktreeRight
<1>2. CASE Refused(i, src[i].texts)
  <2>1. pc' = "idle"
    BY <1>2 DEF Apply
  <2> QED
    BY <1>1, <2>1 DEF DriveInv, Progress, WorktreeRight, TreesFixed, TipComplete
<1>3. CASE ~Refused(i, src[i].texts)
  <2>1. pc' = "write" /\ todo' = {p \in Files : Fixed(i, p, wt[p]) # wt[p]}
    BY <1>3 DEF Apply
  <2>2. wt = [p \in Files |-> src[i].texts[p]]
    BY <1>1 DEF Worktree
  <2>3. \A p \in Files : wt[p] = IF p \in todo' THEN src[i].texts[p]
                                 ELSE Fixed(i, p, src[i].texts[p])
    BY <2>1, <2>2
  <2>4. Progress'
    BY <1>1, <2>1 DEF DriveInv, Progress
  <2>5. wt' = [p \in Files |-> wt'[p]]
    BY <1>1, <2>2
  <2>6. WorktreeRight'
    BY <1>1, <1>3, <2>1, <2>3, <2>5 DEF WorktreeRight
  <2>7. TreesFixed' /\ TipComplete'
    BY <1>1 DEF DriveInv, TreesFixed, TipComplete
  <2> QED
    BY <2>4, <2>6, <2>7 DEF DriveInv
<1> QED
  BY <1>2, <1>3

\* One file is written.
LEMMA WriteFileInv == ASSUME StackAssumption, DriveInv, WriteFile PROVE DriveInv'
<1>1. PICK p \in todo : /\ wt' = [wt EXCEPT ![p] = Fixed(i, p, wt[p])]
                        /\ todo' = todo \ {p}
  BY Zenon DEF WriteFile
<1>2. /\ pc = "write" /\ pc' = pc /\ UNCHANGED <<src, i, out, dry, fail, last>>
  BY DEF WriteFile
<1>3. /\ wt = [q \in Files |-> wt[q]] /\ todo \subseteq Files
      /\ ~Refused(i, src[i].texts)
      /\ \A q \in Files : wt[q] = IF q \in todo THEN src[i].texts[q]
                                  ELSE Fixed(i, q, src[i].texts[q])
  BY <1>2 DEF DriveInv, WorktreeRight
<1>4. wt' = [q \in Files |-> IF q = p THEN Fixed(i, p, wt[p]) ELSE wt[q]]
  BY <1>1, <1>3
<1>5. \A q \in Files : wt'[q] = IF q \in todo' THEN src[i].texts[q]
                                ELSE Fixed(i, q, src[i].texts[q])
  BY <1>1, <1>3, <1>4
<1>6. wt' = [q \in Files |-> wt'[q]]
  BY <1>4
<1>7. WorktreeRight'
  BY <1>1, <1>2, <1>3, <1>5, <1>6 DEF WorktreeRight
<1>8. Progress' /\ TreesFixed' /\ TipComplete'
  BY <1>2 DEF DriveInv, Progress, TreesFixed, TipComplete
<1> QED
  BY <1>7, <1>8 DEF DriveInv

\* A commit with the right texts goes on top.
LEMMA CommitInv ==
  ASSUME StackAssumption, DriveInv, pc # "idle", ~dry, i <= N,
         NEW c, c.texts = FixedTexts(i, src[i].texts),
         out' = Append(out, c), i' = i + 1,
         UNCHANGED <<src, dry>>
  PROVE  /\ i' \in 2 .. N + 1
         /\ out' \in Seq(Elements(out'))
         /\ Len(out') = i' - 1
         /\ \A j \in 1 .. Len(out') :
              out'[j].texts = FixedTexts(j, src'[j].texts)
<1>1. /\ i \in 1 .. N + 1 /\ out \in Seq(Elements(out)) /\ Len(out) = i - 1
      /\ \A j \in 1 .. Len(out) : out[j].texts = FixedTexts(j, src[j].texts)
      /\ N \in Nat
  BY DEF DriveInv, Progress, TreesFixed, StackAssumption
<1>2. /\ out' \in Seq(Elements(out')) /\ Len(out') = Len(out) + 1
      /\ \A j \in 1 .. Len(out) : out'[j] = out[j]
      /\ out'[Len(out) + 1] = c
  BY <1>1, AppendFacts
<1>3. \A j \in 1 .. Len(out') : out'[j].texts = FixedTexts(j, src[j].texts)
  BY <1>1, <1>2
<1> QED
  BY <1>1, <1>2, <1>3

\* commit-tree of the worktree, or the commit of PREV_TIP with that tree.
LEMMA MakeCommitInv == ASSUME StackAssumption, DriveInv, MakeCommit PROVE DriveInv'
<1> DEFINE c == IF Reusable(NewTexts) THEN prev[i]
                ELSE Commit(NewTexts, parent, Stamp(src[i]))
<1>1. /\ pc = "write" /\ todo = {} /\ out' = Append(out, c) /\ i' = i + 1
      /\ pc' = "checkout" /\ UNCHANGED <<src, dry, fail, last>>
  BY DEF MakeCommit
<1>2. /\ i <= N /\ ~dry /\ ~fail /\ ~Refused(i, src[i].texts)
      /\ \A p \in Files : wt[p] = Fixed(i, p, src[i].texts[p])
  BY <1>1 DEF DriveInv, Progress, WorktreeRight
<1>3. NewTexts = FixedTexts(i, src[i].texts)
  BY <1>2 DEF NewTexts, FixedTexts, Paths
<1>4. c.texts = NewTexts
  BY DEF Reusable, Commit
<1> HIDE DEF c
<1>5. /\ i' \in 2 .. N + 1 /\ out' \in Seq(Elements(out')) /\ Len(out') = i' - 1
      /\ \A j \in 1 .. Len(out') : out'[j].texts = FixedTexts(j, src'[j].texts)
  BY <1>1, <1>2, <1>3, <1>4, CommitInv
<1>6. \A j \in 1 .. i' - 1 : ~Refused(j, src'[j].texts)
  <2>1. i \in Nat /\ \A j \in 1 .. i - 1 : ~Refused(j, src[j].texts)
    BY <1>1, <1>2 DEF DriveInv, Progress
  <2> QED
    BY <1>1, <1>2, <2>1
<1>7. Progress'
  <2>1. i' \in Nat /\ i' \in 1 .. N + 1
    BY <1>5 DEF StackAssumption
  <2> QED
    BY <1>1, <1>2, <1>5, <1>6, <2>1 DEF Progress
<1>8. WorktreeRight' /\ TreesFixed' /\ TipComplete'
  BY <1>1, <1>5 DEF DriveInv, WorktreeRight, TreesFixed, TipComplete
<1> QED
  BY <1>7, <1>8 DEF DriveInv

\* One turn of build(): a dry run makes nothing; otherwise the commit is the
\* source's own or a new one, and has the same texts either way.
LEMMA BuildCommitInv ==
  ASSUME StackAssumption, DriveInv, BuildCommit PROVE DriveInv'
<1> DEFINE ts == FixedTexts(i, src[i].texts)
           kept == ts = src[i].texts /\ src[i].parent = parent
           c == IF kept THEN src[i] ELSE Commit(ts, parent, Stamp(src[i]))
<1>1. /\ pc = "build" /\ i <= N /\ i' = i + 1
      /\ fail' = (fail \/ Refused(i, src[i].texts))
      /\ out' = IF dry THEN out ELSE Append(out, c)
      /\ UNCHANGED <<src, pc, dry, last>>
  BY DEF BuildCommit
<1>2. c.texts = FixedTexts(i, src[i].texts)
  BY DEF Commit
<1> HIDE DEF c, ts, kept
<1>3. /\ i \in 1 .. N + 1 /\ N \in Nat /\ i \in Nat
      /\ out \in Seq(Elements(out)) /\ Len(out) = IF dry THEN 0 ELSE i - 1
  BY <1>1 DEF DriveInv, Progress, StackAssumption
<1>4. ~fail' => \A j \in 1 .. i' - 1 : ~Refused(j, src'[j].texts)
  <2>1. ~fail' => ~fail /\ ~Refused(i, src[i].texts)
    BY <1>1, Zenon
  <2>2. ~fail => \A j \in 1 .. i - 1 : ~Refused(j, src[j].texts)
    BY <1>1 DEF DriveInv, Progress
  <2> QED
    BY <1>1, <1>3, <2>1, <2>2
<1>5. /\ i' \in 1 .. N + 1 /\ i' \in Nat
  BY <1>1, <1>3
<1>6. /\ out' \in Seq(Elements(out')) /\ Len(out') = IF dry' THEN 0 ELSE i' - 1
      /\ \A j \in 1 .. Len(out') : out'[j].texts = FixedTexts(j, src'[j].texts)
  <2>1. CASE dry
    <3>1. out' = out /\ dry' /\ Len(out) = 0
      BY <1>1, <1>3, <2>1
    <3> QED
      BY <1>3, <3>1
  <2>2. CASE ~dry
    <3>1. /\ out' = Append(out, c) /\ pc # "idle" /\ UNCHANGED <<src, dry>>
      BY <1>1, <2>2
    <3> QED
      BY <1>1, <1>2, <2>2, <3>1, CommitInv
  <2> QED
    BY <2>1, <2>2
<1>7. Progress'
  BY <1>1, <1>4, <1>5, <1>6 DEF Progress
<1>8. WorktreeRight' /\ TreesFixed' /\ TipComplete'
  BY <1>1, <1>6 DEF DriveInv, WorktreeRight, TreesFixed, TipComplete
<1> QED
  BY <1>7, <1>8 DEF DriveInv

\* The tip is printed only when no edit was refused anywhere in the stack.
LEMMA PrintTipInv ==
  ASSUME StackAssumption, DriveInv, PrintTip PROVE DriveInv'
<1>1. /\ pc \in {"checkout", "build"} /\ i > N /\ pc' = "idle"
      /\ UNCHANGED <<src, i, out>>
  BY DEF PrintTip
<1>2. Progress' /\ WorktreeRight' /\ TreesFixed'
  BY <1>1 DEF DriveInv, Progress, WorktreeRight, TreesFixed
<1>3. CASE fail \/ dry
  <2>1. last' = last
    BY <1>3 DEF PrintTip
  <2> QED
    BY <1>2, <2>1 DEF DriveInv, TipComplete
<1>4. CASE ~(fail \/ dry)
  <2>1. last' = out
    BY <1>4 DEF PrintTip
  <2>2. /\ Len(out) = i - 1
        /\ \A j \in 1 .. i - 1 : ~Refused(j, src[j].texts)
        /\ \A j \in 1 .. Len(out) : out[j].texts = FixedTexts(j, src[j].texts)
    BY <1>1, <1>4 DEF DriveInv, Progress, TreesFixed
  <2>3. ASSUME NEW j \in 1 .. Len(out), NEW p \in Paths, j >= Since[p]
        PROVE  out[j].texts[p] \notin {"old", "dup"}
    <3>1. out[j].texts[p] = Fixed(j, p, src[j].texts[p])
      BY <2>2, Zenon DEF FixedTexts
    <3>2. src[j].texts[p] # "dup"
      BY <2>2, <2>3 DEF Refused
    <3> QED
      BY <2>3, <3>1, <3>2 DEF Fixed
  <2> QED
    BY <1>2, <2>1, <2>3 DEF DriveInv, TipComplete
<1> QED
  BY <1>3, <1>4

\* The three facts together: DriveInv holds of every drive, for every stack,
\* every table gate and any number of runs and kills.
THEOREM DriveInvHolds == DSpec => []DriveInv
<1>1. DInit => DriveInv
  BY DriveInitInv
<1>2. DriveInv /\ [DNext]_dvars => DriveInv'
  <2> SUFFICES ASSUME DriveInv, [DNext]_dvars PROVE DriveInv'
    OBVIOUS
  <2>1. CASE Start \/ Crash \/ Amend
    BY <2>1, EdgesInv, StackAssumption
  <2>2. CASE Checkout
    BY <2>2, CheckoutInv, StackAssumption
  <2>3. CASE Apply
    BY <2>3, ApplyInv, StackAssumption
  <2>4. CASE WriteFile
    BY <2>4, WriteFileInv, StackAssumption
  <2>5. CASE MakeCommit
    BY <2>5, MakeCommitInv, StackAssumption
  <2>6. CASE BuildCommit
    BY <2>6, BuildCommitInv, StackAssumption
  <2>7. CASE PrintTip
    BY <2>7, PrintTipInv, StackAssumption
  <2>8. CASE UNCHANGED dvars
    <3>1. UNCHANGED <<src, pc, i, wt, todo, out, dry, fail, last>>
      BY <2>8 DEF dvars
    <3> QED
      BY <3>1 DEF DriveInv, Progress, WorktreeRight, TreesFixed, TipComplete
  <2> QED
    BY <2>1, <2>2, <2>3, <2>4, <2>5, <2>6, <2>7, <2>8 DEF DNext
<1> QED
  BY <1>1, <1>2, PTL DEF DSpec

\* Every commit a drive makes has its own source commit's texts with its own
\* edits: nothing of the worktree it started in, or of a killed drive.
THEOREM DriveTreesFixed == DSpec => []TreesFixed
<1>1. DriveInv => TreesFixed
  BY DEF DriveInv
<1> QED
  BY <1>1, DriveInvHolds, PTL

\* A printed tip has every edit made in every commit it is for.
THEOREM DriveTipComplete == DSpec => []TipComplete
<1>1. DriveInv => TipComplete
  BY DEF DriveInv
<1> QED
  BY <1>1, DriveInvHolds, PTL

-----------------------------------------------------------------------------
(***************************************************************************)
(* The drivers: stacks of commits.                                         *)
(***************************************************************************)
\* The fields of a commit.
LEMMA CommitFields ==
  \A ts, p, w : /\ Commit(ts, p, w).texts = ts
                /\ Commit(ts, p, w).parent = p
BY DEF Commit

\* The commits made so far with one more on top: a stack, and every commit
\* below keeps the commit it stands on.
LEMMA StackMore ==
  ASSUME NEW s, s \in Seq(Elements(s)), Stacked(s), NEW c,
         c.parent = IF s = <<>> THEN Base ELSE s[Len(s)]
  PROVE  /\ Stacked(Append(s, c))
         /\ \A j \in 1 .. Len(s) + 1 :
              Below(Append(s, c), j) = IF j <= Len(s) THEN Below(s, j) ELSE c.parent
<1> DEFINE t == Append(s, c)
<1>1. /\ Len(s) \in Nat /\ Len(t) = Len(s) + 1
      /\ \A j \in 1 .. Len(s) : t[j] = s[j]
      /\ t[Len(s) + 1] = c
  BY AppendFacts, LenProperties
<1>2. s = <<>> <=> Len(s) = 0
  BY EmptySeq
<1> HIDE DEF t
<1>3. \A j \in 1 .. Len(s) + 1 :
        Below(t, j) = IF j <= Len(s) THEN Below(s, j) ELSE c.parent
  <2> TAKE j \in 1 .. Len(s) + 1
  <2>1. CASE j = 1
    <3>1. CASE Len(s) = 0
      BY <1>1, <1>2, <2>1, <3>1 DEF Below
    <3>2. CASE Len(s) # 0
      BY <1>1, <2>1, <3>2 DEF Below
    <3> QED
      BY <3>1, <3>2
  <2>2. CASE j # 1
    <3>1. j - 1 \in 1 .. Len(s) /\ t[j - 1] = s[j - 1]
      BY <1>1, <2>2
    <3>2. CASE j <= Len(s)
      BY <2>2, <3>1, <3>2 DEF Below
    <3>3. CASE j = Len(s) + 1
      <4>1. j - 1 = Len(s) /\ Len(s) # 0
        BY <1>1, <2>2, <3>3
      <4>2. Below(t, j) = s[Len(s)]
        BY <2>2, <3>1, <4>1 DEF Below
      <4>3. c.parent = s[Len(s)]
        BY <4>1, <1>2
      <4> QED
        BY <1>1, <3>3, <4>2, <4>3
    <3> QED
      BY <1>1, <3>2, <3>3
  <2> QED
    BY <2>1, <2>2
<1>4. ASSUME NEW j \in 1 .. Len(t) PROVE t[j].parent = Below(t, j)
  <2>1. CASE j <= Len(s)
    BY <1>1, <1>3, <2>1 DEF Stacked
  <2>2. CASE j = Len(s) + 1
    BY <1>1, <1>3, <2>2
  <2> QED
    BY <1>1, <2>1, <2>2
<1> QED
  BY <1>3, <1>4 DEF Stacked, t

\* The stack of a list of texts: Chain is a sequence of its length, and each
\* commit stands on the one below.
LEMMA ChainStacked ==
  ASSUME NEW ts, NEW w, Len(ts) \in Nat
  PROVE  Stacked(Chain(ts, w)) /\ Len(Chain(ts, w)) = Len(ts)
<1> DEFINE n == Len(ts)
           Is(f, m) == f = [j \in 0 .. m |->
                         IF j = 0 THEN Base ELSE Commit(ts[j], f[j - 1], <<w[j], w[j]>>)]
           No == {m \in Nat : ~ \E f : Is(f, m)}
<1>1. No = {}
  <2> SUFFICES ASSUME No # {} PROVE FALSE
    OBVIOUS
  <2>1. PICK m \in No : \A y \in No : m <= y
    <3>1. No \subseteq Nat
      OBVIOUS
    <3> HIDE DEF No
    <3> QED
      BY <3>1, LeastNat, Zenon
  <2>2. CASE m = 0
    <3> DEFINE f == [j \in 0 .. 0 |-> Base]
    <3>1. f = [j \in 0 .. 0 |->
                 IF j = 0 THEN Base ELSE Commit(ts[j], f[j - 1], <<w[j], w[j]>>)]
      OBVIOUS
    <3> QED
      BY <2>2, <3>1, Zenon
  <2>3. CASE m # 0
    <3>1. m - 1 \in Nat /\ m - 1 \notin No
      BY <2>1, <2>3
    <3>2. PICK f : Is(f, m - 1)
      BY <3>1
    <3> DEFINE g == [j \in 0 .. m |-> IF j = m THEN Commit(ts[m], f[m - 1], <<w[m], w[m]>>) ELSE f[j]]
    <3>3. ASSUME NEW j \in 0 .. m
          PROVE  g[j] = IF j = 0 THEN Base ELSE Commit(ts[j], g[j - 1], <<w[j], w[j]>>)
      <4>1. CASE j = m
        BY <2>3, <4>1
      <4>2. CASE j # m
        <5>1. j \in 0 .. m - 1 /\ g[j] = f[j] /\ (j # 0 => g[j - 1] = f[j - 1])
          BY <4>2
        <5>2. f[j] = IF j = 0 THEN Base ELSE Commit(ts[j], f[j - 1], <<w[j], w[j]>>)
          BY <3>2, <5>1
        <5> QED
          BY <5>1, <5>2
      <4> QED
        BY <4>1, <4>2
    <3>4. g = [j \in 0 .. m |-> IF j = 0 THEN Base ELSE Commit(ts[j], g[j - 1], <<w[j], w[j]>>)]
      <4>1. g = [j \in 0 .. m |-> g[j]]
        OBVIOUS
      <4> HIDE DEF g
      <4> QED
        BY <3>3, <4>1, Zenon
    <3>5. Is(g, m)
      <4> HIDE DEF g
      <4> QED
        BY <3>4
    <3> QED
      BY <3>5, Zenon
  <2> QED
    BY <2>2, <2>3
<1>2. \E f : Is(f, n)
  BY <1>1
<1> DEFINE c == CHOOSE f : Is(f, n)
<1>3. Is(c, n)
  <2> HIDE DEF Is
  <2> QED
    BY <1>2
<1>4. Chain(ts, w) = [j \in 1 .. n |-> c[j]]
  BY DEF Chain
<1> HIDE DEF c
<1>5. \A j \in 1 .. n : /\ j - 1 \in 0 .. n
                        /\ c[j] = Commit(ts[j], c[j - 1], <<w[j], w[j]>>)
  BY <1>3
<1>6. c[0] = Base
  BY <1>3
<1>7. \A j \in 1 .. n : c[j].parent = c[j - 1]
  <2> TAKE j \in 1 .. n
  <2>1. c[j] = Commit(ts[j], c[j - 1], <<w[j], w[j]>>)
    BY <1>5
  <2> HIDE DEF n
  <2> QED
    BY <2>1, CommitFields
<1>8. \A j \in 1 .. n : Chain(ts, w)[j].parent = Below(Chain(ts, w), j)
  <2> TAKE j \in 1 .. n
  <2>1. Chain(ts, w)[j].parent = c[j - 1]
    BY <1>4, <1>7
  <2>2. CASE j = 1
    BY <1>6, <2>1, <2>2 DEF Below
  <2>3. CASE j # 1
    <3>1. j - 1 \in 1 .. n
      BY <2>3
    <3> QED
      BY <1>4, <2>1, <2>3, <3>1 DEF Below
  <2> QED
    BY <2>2, <2>3
<1>9. Len(Chain(ts, w)) = n
  BY <1>4
<1> QED
  BY <1>8, <1>9 DEF Stacked

\* A stack before the first drive.
LEMMA StackStart == ASSUME StackAssumption, DInit PROVE StackInv
<1>1. /\ pc = "idle" /\ last = <<>> /\ prev = <<>> /\ tips = {}
      /\ tool \in {"r3drive", "b2bdrive", "rebuild"}
  BY DEF DInit
<1>2. PICK ts \in [1 .. N -> Texts] : src = Chain(ts, [j \in 1 .. N |-> 0])
  BY DEF DInit
<1>3. N \in Nat /\ Len(ts) = N
  BY DEF StackAssumption
<1>4. Stacked(src) /\ Len(src) = N
  BY <1>2, <1>3, ChainStacked
<1>5. Stacked(<<>>)
  BY DEF Stacked
<1> QED
  BY <1>1, <1>4, <1>5 DEF StackInv, ReuseUnchanged, KeptBelow

\* A step of a drive that puts commit c on top of the stack at hand: the one
\* PREV_TIP has at this place if all is the same up to here, and with build()
\* the source's own if nothing changed up to here.
Grows(c) ==
  /\ pc # "idle" /\ pc' # "idle" /\ ~dry /\ i <= N
  /\ c.texts = FixedTexts(i, src[i].texts) /\ c.parent = parent
  /\ out' = Append(out, c) /\ UNCHANGED <<tool, src, prev>>
  /\ Reusable(c.texts) => c = prev[i] \/ tool = "rebuild"
  /\ tool = "b2bdrive" /\ ~Reusable(c.texts)
       => c = Commit(c.texts, parent, <<src[i].stamp[1], src[i].stamp[2]>>)
  /\ tool = "rebuild" /\ c.texts = src[i].texts /\ src[i].parent = parent => c = src[i]

\* A commit goes on top of the stack at hand: what the stack was it still is.
LEMMA StackGrows ==
  ASSUME StackAssumption, DriveInv, StackInv, NEW c, Grows(c)
  PROVE  /\ Stacked(out')
         /\ tool = "b2bdrive" => \A j \in 1 .. Len(out') : BuiltAt(src, prev, out', j)
         /\ ReuseUnchanged'
         /\ KeptBelow'
<1>0. /\ pc # "idle" /\ pc' # "idle" /\ ~dry /\ i <= N
      /\ c.texts = FixedTexts(i, src[i].texts) /\ c.parent = parent
      /\ out' = Append(out, c) /\ tool' = tool /\ src' = src /\ prev' = prev
  BY DEF Grows
<1>1. /\ out \in Seq(Elements(out)) /\ Len(out) = i - 1 /\ i \in Nat /\ i \in 1 .. N
      /\ Stacked(out) /\ Stacked(prev) /\ N \in Nat
  BY <1>0 DEF DriveInv, Progress, StackInv, StackAssumption
<1>2. /\ Len(out') = i
      /\ \A j \in 1 .. i - 1 : out'[j] = out[j]
      /\ out'[i] = c
  BY <1>0, <1>1, AppendFacts
<1>3. /\ Stacked(out')
      /\ \A j \in 1 .. i : Below(out', j) = IF j <= i - 1 THEN Below(out, j) ELSE parent
  <2>1. c.parent = IF out = <<>> THEN Base ELSE out[Len(out)]
    BY <1>0 DEF parent
  <2>2. i = Len(out) + 1
    BY <1>1
  <2>3. \A j \in 1 .. Len(out) + 1 :
          Below(out', j) = IF j <= Len(out) THEN Below(out, j) ELSE c.parent
    BY <1>0, <1>1, <2>1, StackMore, Zenon
  <2>4. Stacked(out')
    BY <1>0, <1>1, <2>1, StackMore, Zenon
  <2> QED
    BY <1>0, <1>1, <2>2, <2>3, <2>4, Zenon
<1>4. parent = Below(out', i)
  BY <1>1, <1>3
<1>5. tool = "b2bdrive" => \A j \in 1 .. Len(out') : BuiltAt(src, prev, out', j)
  <2> SUFFICES ASSUME tool = "b2bdrive", NEW j \in 1 .. i PROVE BuiltAt(src, prev, out', j)
    BY <1>2, Zenon
  <2>0. tool # "rebuild"
    OBVIOUS
  <2>1. CASE j = i
    <3>1. CASE Reusable(c.texts)
      <4>1. c = prev[i] /\ i <= Len(prev) /\ prev[i].texts = c.texts /\ prev[i].parent = parent
        <5>1. c = prev[i]
          BY <3>1, <2>0, Zenon DEF Grows
        <5> QED
          BY <3>1, <5>1, Zenon DEF Reusable
      <4> QED
        BY <1>0, <1>2, <1>4, <2>1, <4>1, Zenon DEF BuiltAt
    <3>2. CASE ~Reusable(c.texts)
      <4>1. c = Commit(c.texts, parent, <<src[i].stamp[1], src[i].stamp[2]>>)
        BY <3>2, Zenon DEF Grows
      <4>2. ~(i <= Len(prev) /\ prev[i].texts = c.texts /\ prev[i].parent = parent)
        BY <3>2, Zenon DEF Reusable
      <4> QED
        BY <1>0, <1>2, <1>4, <2>1, <4>1, <4>2, Zenon DEF BuiltAt
    <3> QED
      BY <3>1, <3>2, Zenon
  <2>2. CASE j # i
    <3>0. j \in 1 .. i - 1 /\ j <= i - 1
      BY <1>1, <2>2
    <3>1. j \in 1 .. Len(out) /\ out'[j] = out[j] /\ Below(out', j) = Below(out, j)
      BY <1>1, <1>2, <1>3, <3>0, Zenon
    <3>2. BuiltAt(src, prev, out, j)
      BY <1>0, <3>1, Zenon DEF StackInv
    <3> QED
      BY <3>1, <3>2, Zenon DEF BuiltAt
  <2> QED
    BY <2>1, <2>2
<1>6. ReuseUnchanged'
  <2> SUFFICES ASSUME NEW m \in 1 .. i, m <= Len(prev),
                      \A j \in 1 .. m : out'[j].texts = prev[j].texts
               PROVE  out'[m] = prev[m]
    BY <1>0, <1>2, Zenon DEF ReuseUnchanged
  <2>0. \A k \in 1 .. i - 1 :
          (k <= Len(prev) /\ \A j \in 1 .. k : out[j].texts = prev[j].texts) => out[k] = prev[k]
    BY <1>0, <1>1, Zenon DEF StackInv, ReuseUnchanged
  <2>3. Len(prev) \in Nat
    BY Zenon DEF StackInv
  <2>1. CASE m # i
    <3>1. m \in 1 .. i - 1 /\ \A j \in 1 .. m : out[j].texts = prev[j].texts
      <4>1. m \in 1 .. i - 1 /\ 1 .. m \subseteq 1 .. i - 1
        BY <1>1, <2>1
      <4> QED
        BY <1>2, <4>1, Zenon
    <3> QED
      BY <1>2, <2>0, <3>1, Zenon
  <2>2. CASE m = i
    <3>1. prev[i].texts = c.texts
      <4>1. i \in 1 .. m
        BY <1>1, <2>2
      <4> QED
        BY <1>2, <4>1, Zenon
    <3>2. prev[i].parent = Below(prev, i)
      <4>1. i \in 1 .. Len(prev)
        BY <1>1, <2>2, <2>3
      <4> QED
        BY <1>1, <4>1, Zenon DEF Stacked
    <3>3. Below(prev, i) = Below(out', i)
      <4>1. CASE i = 1
        BY <4>1 DEF Below
      <4>2. CASE i # 1
        <5>1. i - 1 \in 1 .. i - 1 /\ i - 1 <= Len(prev)
          BY <1>1, <2>2, <2>3, <4>2
        <5>2. \A j \in 1 .. i - 1 : out[j].texts = prev[j].texts
          <6>1. 1 .. i - 1 \subseteq 1 .. m
            BY <1>1, <2>2
          <6> QED
            BY <1>2, <6>1, Zenon
        <5>3. out[i - 1] = prev[i - 1]
          BY <2>0, <5>1, <5>2, Zenon
        <5> QED
          BY <1>2, <4>2, <5>1, <5>3, Zenon DEF Below
      <4> QED
        BY <4>1, <4>2, Zenon
    <3>4. Reusable(c.texts)
      <4>1. i <= Len(prev)
        BY <2>2
      <4> QED
        BY <1>4, <3>1, <3>2, <3>3, <4>1, Zenon DEF Reusable
    <3>5. tool # "rebuild"
      <4>1. Len(prev) # 0
        BY <1>1, <2>2, <2>3
      <4>2. Len(<<>>) = 0
        OBVIOUS
      <4> QED
        BY <4>1, <4>2, Zenon DEF StackInv
    <3> QED
      BY <1>2, <2>2, <3>4, <3>5, Zenon DEF Grows
  <2> QED
    BY <2>1, <2>2, Zenon
<1>7. KeptBelow'
  <2> SUFFICES ASSUME tool = "rebuild", NEW m \in 1 .. i
               PROVE  (out'[m] = src[m]) <=>
                        (\A j \in 1 .. m : FixedTexts(j, src[j].texts) = src[j].texts)
    BY <1>0, <1>2, FixedSame, Zenon DEF KeptBelow
  <2>0. \A k \in 1 .. i - 1 :
          (out[k] = src[k]) <=> (\A j \in 1 .. k : FixedTexts(j, src[j].texts) = src[j].texts)
    BY <1>0, <1>1, Zenon DEF StackInv, KeptBelow
  <2>1. CASE m # i
    <3>1. m \in 1 .. i - 1 /\ out'[m] = out[m]
      <4>1. m \in 1 .. i - 1
        BY <1>1, <2>1
      <4> QED
        BY <1>2, <4>1, Zenon
    <3> QED
      BY <2>0, <3>1, Zenon
  <2>2. CASE m = i
    <3>1. src[i].parent = Below(src, i)
      BY <1>1, Zenon DEF StackInv, Stacked
    <3>2. c = src[i] <=> c.texts = src[i].texts /\ src[i].parent = parent
      BY <1>0, Zenon DEF Grows
    <3>3. CASE i = 1
      <4>1. src[i].parent = parent
        BY <1>4, <3>1, <3>3, Zenon DEF Below
      <4> QED
        <5>1. \A j \in 1 .. i : j = i
          BY <3>3
        <5>2. i \in 1 .. i
          BY <3>3
        <5> QED
          BY <1>0, <1>2, <2>2, <3>2, <4>1, <5>1, <5>2, Zenon
    <3>4. CASE i # 1
      <4>1. i - 1 \in 1 .. i - 1
        BY <1>1, <3>4
      <4>2. src[i].parent = src[i - 1] /\ parent = out[i - 1]
        BY <1>2, <1>4, <3>1, <3>4, <4>1, Zenon DEF Below
      <4>3. src[i].parent = parent <=>
              \A j \in 1 .. i - 1 : FixedTexts(j, src[j].texts) = src[j].texts
        BY <2>0, <4>1, <4>2, Zenon
      <4>4. \A j \in 1 .. i : j = i \/ j \in 1 .. i - 1
        BY <1>1
      <4>5. 1 .. i - 1 \subseteq 1 .. i /\ i \in 1 .. i
        BY <1>1
      <4> QED
        BY <1>0, <1>2, <2>2, <3>2, <4>3, <4>4, <4>5, Zenon
    <3> QED
      BY <3>3, <3>4, Zenon
  <2> QED
    BY <2>1, <2>2, Zenon
<1> QED
  BY <1>3, <1>5, <1>6, <1>7, Zenon

\* A step of a drive keeps every list of commits a stack.
LEMMA StackStep ==
  ASSUME DriveInv, StackInv, [DNext]_dvars PROVE StackInv'
<1>0. StackAssumption
  BY StackAssumption
<1>1. CASE Start
  <2>1. /\ out' = <<>> /\ pc' = IF tool = "rebuild" THEN "build" ELSE "checkout"
        /\ prev' \in IF tool = "b2bdrive" THEN {<<>>, last} ELSE {<<>>}
        /\ UNCHANGED <<tool, src, last, tips>>
    BY <1>1 DEF Start
  <2>2. Stacked(<<>>) /\ Len(<<>>) = 0
    BY DEF Stacked
  <2>3. Stacked(prev') /\ Len(prev') \in Nat
    BY <2>1, <2>2 DEF StackInv
  <2>4. ReuseUnchanged' /\ KeptBelow'
    BY <2>1, <2>2 DEF ReuseUnchanged, KeptBelow
  <2>5. tool = "rebuild" => prev' = <<>>
    BY <2>1
  <2> QED
    BY <2>1, <2>2, <2>3, <2>4, <2>5 DEF StackInv
<1>2. CASE Checkout \/ Apply \/ WriteFile
  <2>1. /\ UNCHANGED <<tool, src, out, prev, last, tips>> /\ pc # "idle"
        /\ pc' # "build" /\ tool # "rebuild"
    BY <1>2, Zenon DEF Checkout, Apply, WriteFile, StackInv
  <2>2. ReuseUnchanged' /\ KeptBelow'
    BY <2>1, Zenon DEF StackInv, ReuseUnchanged, KeptBelow
  <2> QED
    BY <2>1, <2>2, Zenon DEF StackInv
<1>3. CASE MakeCommit
  <2> DEFINE c == IF Reusable(NewTexts) THEN prev[i]
                  ELSE Commit(NewTexts, parent, Stamp(src[i]))
  <2>1. /\ pc = "write" /\ pc' = "checkout" /\ todo = {} /\ out' = Append(out, c)
        /\ UNCHANGED <<tool, src, prev, last, tips>>
    BY <1>3 DEF MakeCommit
  <2>2. /\ i <= N /\ ~dry /\ \A p \in Files : wt[p] = Fixed(i, p, src[i].texts[p])
    BY <2>1 DEF DriveInv, Progress, WorktreeRight
  <2>3. NewTexts = FixedTexts(i, src[i].texts)
    BY <2>2, Zenon DEF NewTexts, FixedTexts, Paths
  <2>4. tool # "rebuild"
    BY <2>1 DEF StackInv
  <2>5. c.texts = NewTexts /\ c.parent = parent
    BY CommitFields DEF Reusable
  <2>6. Reusable(c.texts) => c = prev[i]
    BY <2>5, Zenon
  <2>7. tool = "b2bdrive" /\ ~Reusable(c.texts)
          => c = Commit(c.texts, parent, <<src[i].stamp[1], src[i].stamp[2]>>)
    BY <2>5, Zenon DEF Stamp
  <2> HIDE DEF c
  <2>8. Grows(c)
    BY <2>1, <2>2, <2>3, <2>4, <2>5, <2>6, <2>7, Zenon DEF Grows
  <2>9. /\ Stacked(out')
        /\ tool = "b2bdrive" => \A j \in 1 .. Len(out') : BuiltAt(src, prev, out', j)
        /\ ReuseUnchanged'
        /\ KeptBelow'
    BY <1>0, <2>8, StackGrows, Zenon
  <2> QED
    BY <2>1, <2>4, <2>9, Zenon DEF StackInv
<1>4. CASE BuildCommit
  <2> DEFINE ts == FixedTexts(i, src[i].texts)
             kept == ts = src[i].texts /\ src[i].parent = parent
             c == IF kept THEN src[i] ELSE Commit(ts, parent, Stamp(src[i]))
  <2>1. /\ pc = "build" /\ pc' = "build" /\ i <= N
        /\ out' = IF dry THEN out ELSE Append(out, c)
        /\ UNCHANGED <<tool, src, prev, dry, last, tips>>
    BY <1>4 DEF BuildCommit
  <2>2. tool = "rebuild" /\ prev = <<>>
    BY <2>1, Zenon DEF StackInv
  <2>3. CASE dry
    <3>1. ReuseUnchanged' /\ KeptBelow' /\ out' = out
      BY <2>1, <2>3, Zenon DEF StackInv, ReuseUnchanged, KeptBelow
    <3> QED
      BY <2>1, <2>2, <3>1, Zenon DEF StackInv
  <2>4. CASE ~dry
    <3>1. c.texts = FixedTexts(i, src[i].texts) /\ c.parent = parent
      BY CommitFields
    <3>2. c.texts = src[i].texts /\ src[i].parent = parent => c = src[i]
      BY <3>1
    <3>3. out' = Append(out, c)
      BY <2>1, <2>4
    <3> HIDE DEF c, ts, kept
    <3>4. Grows(c)
      BY <2>1, <2>2, <2>4, <3>1, <3>2, <3>3, Zenon DEF Grows
    <3>5. Stacked(out') /\ ReuseUnchanged' /\ KeptBelow'
      BY <1>0, <3>4, StackGrows, Zenon
    <3> QED
      BY <2>1, <2>2, <3>5, Zenon DEF StackInv
  <2> QED
    BY <2>3, <2>4
<1>5. CASE PrintTip
  <2>1. /\ pc \in {"checkout", "build"} /\ i > N /\ pc' = "idle"
        /\ UNCHANGED <<tool, src, out, prev>>
    BY <1>5 DEF PrintTip
  <2>2. ReuseUnchanged' /\ KeptBelow'
    BY <2>1 DEF ReuseUnchanged, KeptBelow
  <2>3. CASE fail \/ dry
    <3>1. UNCHANGED <<last, tips>>
      BY <1>5, <2>3 DEF PrintTip
    <3> QED
      BY <2>1, <2>2, <3>1, Zenon DEF StackInv
  <2>4. CASE ~(fail \/ dry)
    <3>1. last' = out /\ tips' = tips \cup {[src |-> src, prev |-> prev, tip |-> parent]}
      BY <1>5, <2>4 DEF PrintTip
    <3>2. out \in Seq(Elements(out)) /\ Len(out) = N /\ N \in Nat \ {0} /\ Stacked(out)
      BY <1>0, <2>1, <2>4 DEF DriveInv, Progress, StackInv, StackAssumption
    <3>3. parent = out[N]
      BY <3>2, EmptySeq DEF parent
    <3>4. ASSUME tool = "b2bdrive", NEW t \in tips'
          PROVE  \E o : Built(t.src, t.prev, o) /\ t.tip = o[N]
      <4>1. CASE t \in tips
        BY <3>4, <4>1 DEF StackInv
      <4>2. CASE t \notin tips
        <5>1. t.src = src /\ t.prev = prev /\ t.tip = parent
          BY <3>1, <4>2
        <5>2. Built(src, prev, out)
          BY <2>1, <3>2, <3>4 DEF StackInv, Built
        <5> QED
          BY <3>3, <5>1, <5>2
      <4> QED
        BY <4>1, <4>2
    <3>5. Len(last') \in Nat /\ Stacked(last')
      BY <3>1, <3>2
    <3> QED
      BY <2>1, <2>2, <3>4, <3>5, Zenon DEF StackInv
  <2> QED
    BY <2>3, <2>4
<1>6. CASE Crash
  <2>1. pc' = "idle" /\ UNCHANGED <<tool, src, prev, last, tips>>
    BY <1>6 DEF Crash
  <2> QED
    BY <2>1, Zenon DEF StackInv, ReuseUnchanged, KeptBelow
<1>7. CASE Amend
  <2>1. pc' = "idle" /\ tool # "rebuild" /\ UNCHANGED <<tool, prev, last, tips>>
    BY <1>7, Zenon DEF Amend
  <2> QED
    BY <2>1, Zenon DEF StackInv, ReuseUnchanged, KeptBelow
<1>8. CASE UNCHANGED dvars
  <2>1. UNCHANGED <<tool, src, pc, out, prev, last, tips>>
    BY <1>8 DEF dvars
  <2> QED
    BY <2>1, Zenon DEF StackInv, ReuseUnchanged, KeptBelow
<1> QED
  BY <1>1, <1>2, <1>3, <1>4, <1>5, <1>6, <1>7, <1>8 DEF DNext

\* b2bdrive makes one stack of an input: two stacks built of the same source
\* and the same PREV_TIP have the same commit at every height, by induction
\* from the base up.
LEMMA BuiltOnce ==
  \A s, p, o, q : Built(s, p, o) /\ Built(s, p, q) => \A j \in 1 .. N : o[j] = q[j]
<1> SUFFICES ASSUME NEW s, NEW p, NEW o, NEW q, Built(s, p, o), Built(s, p, q)
             PROVE  \A j \in 1 .. N : o[j] = q[j]
  OBVIOUS
<1>0. N \in Nat
  BY StackAssumption
<1> DEFINE D == {j \in 1 .. N : o[j] # q[j]}
<1> SUFFICES ASSUME D # {} PROVE FALSE
  OBVIOUS
<1>1. D \subseteq Nat
  BY <1>0
<1>2. PICK m \in D : \A y \in D : m <= y
  <2> HIDE DEF D
  <2> QED
    BY <1>1, LeastNat, Zenon
<1>3. Below(o, m) = Below(q, m)
  <2>1. CASE m = 1
    BY <2>1 DEF Below
  <2>2. CASE m # 1
    <3>1. m - 1 \in 1 .. N /\ m - 1 \notin D
      BY <1>0, <1>2, <2>2
    <3> QED
      BY <2>2, <3>1 DEF Below
  <2> QED
    BY <2>1, <2>2
<1>4. BuiltAt(s, p, o, m) /\ BuiltAt(s, p, q, m)
  BY <1>2 DEF Built
<1>5. o[m] = q[m]
  BY <1>3, <1>4, Zenon DEF BuiltAt
<1> QED
  BY <1>2, <1>5

\* The stacks of every script, for any stack, gate and number of runs.
THEOREM DriveStacks == DSpec => []StackInv
<1>1. DInit => StackInv
  BY StackStart, StackAssumption
<1>2. DriveInv /\ StackInv /\ [DNext]_dvars => StackInv'
  BY StackStep
<1> QED
  BY <1>1, <1>2, DriveInvHolds, PTL DEF DSpec

\* As long as nothing differs from PREV_TIP, b2bdrive hands out its commits.
THEOREM DriveReuses == DSpec => []ReuseUnchanged
<1>1. StackInv => ReuseUnchanged
  BY Zenon DEF StackInv
<1> QED
  BY <1>1, DriveStacks, PTL

\* Two drives of b2bdrive with the same input print the same tip, whatever ran
\* or was killed in between.
THEOREM DriveRepeats == DSpec => []SameInputSameTip
<1>1. StackInv => SameInputSameTip
  <2>0. SUFFICES ASSUME StackInv, tool = "b2bdrive", NEW a \in tips, NEW b \in tips,
                        a.src = b.src, a.prev = b.prev
                 PROVE  a.tip = b.tip
    BY DEF SameInputSameTip
  <2>1. PICK o : Built(a.src, a.prev, o) /\ a.tip = o[N]
    BY <2>0, Zenon DEF StackInv
  <2>2. PICK q : Built(a.src, a.prev, q) /\ b.tip = q[N]
    BY <2>0, Zenon DEF StackInv
  <2>3. N \in Nat /\ N \in 1 .. N
    BY StackAssumption
  <2>4. \A j \in 1 .. N : o[j] = q[j]
    <3> DEFINE s == a.src
               p == a.prev
    <3>1. Built(s, p, o)
      BY <2>1
    <3>2. Built(s, p, q)
      BY <2>2, Zenon
    <3> HIDE DEF s, p
    <3> QED
      BY <3>1, <3>2, BuiltOnce
  <2> QED
    BY <2>1, <2>2, <2>3, <2>4
<1> QED
  BY <1>1, DriveStacks, PTL

\* build() keeps a commit exactly when nothing at or below it changes.
THEOREM BuildKeepsBelow == DSpec => []KeptBelow
<1>1. StackInv => KeptBelow
  BY DEF StackInv
<1> QED
  BY <1>1, DriveStacks, PTL

-----------------------------------------------------------------------------
(***************************************************************************)
(* The fork rewrite: prefixes.                                             *)
(***************************************************************************)
\* SubSeq(c, 1, n): the commit n changes above the base.
LEMMA UptoFacts ==
  ASSUME NEW S, NEW c \in Seq(S), NEW n \in 0 .. Len(c)
  PROVE  /\ Upto(c, n) \in Seq(S)
         /\ Len(Upto(c, n)) = n
         /\ \A j \in 1 .. n : Upto(c, n)[j] = c[j]
<1>1. /\ n \in Int /\ 1 \in Int
      /\ \A j \in 1 .. n : c[j] \in S
  BY LenProperties
<1>2. /\ SubSeq(c, 1, n) \in Seq(S)
      /\ Len(SubSeq(c, 1, n)) = IF 1 <= n THEN (n - 1) + 1 ELSE 0
      /\ \A j \in 1 .. (n - 1) + 1 : SubSeq(c, 1, n)[j] = c[(1 + j) - 1]
  BY <1>1, SubSeqProperties
<1> QED
  BY <1>2 DEF Upto

\* A prefix of a prefix is a prefix.
LEMMA UptoUpto ==
  ASSUME NEW S, NEW c \in Seq(S), NEW n \in 0 .. Len(c), NEW m \in 0 .. n
  PROVE  Upto(Upto(c, n), m) = Upto(c, m)
<1>1. /\ Upto(c, n) \in Seq(S) /\ Len(Upto(c, n)) = n
      /\ \A j \in 1 .. n : Upto(c, n)[j] = c[j]
  BY UptoFacts
<1>2. m \in 0 .. Len(Upto(c, n)) /\ m \in 0 .. Len(c)
  BY <1>1, LenProperties
<1>3. /\ Upto(Upto(c, n), m) \in Seq(S) /\ Len(Upto(Upto(c, n), m)) = m
      /\ \A j \in 1 .. m : Upto(Upto(c, n), m)[j] = Upto(c, n)[j]
  BY <1>1, <1>2, UptoFacts
<1>4. /\ Upto(c, m) \in Seq(S) /\ Len(Upto(c, m)) = m
      /\ \A j \in 1 .. m : Upto(c, m)[j] = c[j]
  BY <1>2, UptoFacts
<1>5. \A j \in 1 .. m : Upto(Upto(c, n), m)[j] = Upto(c, m)[j]
  BY <1>1, <1>3, <1>4
<1> QED
  BY <1>3, <1>4, <1>5, SeqEqual

\* The parent of a commit.
LEMMA ParentFacts ==
  ASSUME NEW S, NEW c \in Seq(S), c # <<>>
  PROVE  /\ Len(c) \in Nat \ {0}
         /\ parentOf(c) \in Seq(S)
         /\ Len(parentOf(c)) = Len(c) - 1
         /\ \A j \in 1 .. Len(c) - 1 : parentOf(c)[j] = c[j]
         /\ \A m \in 0 .. Len(c) - 1 : Upto(parentOf(c), m) = Upto(c, m)
         /\ c = Append(parentOf(c), c[Len(c)])
<1>1. Len(c) \in Nat \ {0}
  BY EmptySeq
<1>2. Len(c) - 1 \in 0 .. Len(c)
  BY <1>1
<1>3. /\ parentOf(c) \in Seq(S) /\ Len(parentOf(c)) = Len(c) - 1
      /\ \A j \in 1 .. Len(c) - 1 : parentOf(c)[j] = c[j]
  BY <1>2, UptoFacts DEF parentOf
<1>4. \A m \in 0 .. Len(c) - 1 : Upto(parentOf(c), m) = Upto(c, m)
  BY <1>2, UptoUpto DEF parentOf
<1>5. c[Len(c)] \in S
  BY <1>1, LenProperties
<1>6. /\ Append(parentOf(c), c[Len(c)]) \in Seq(S)
      /\ Len(Append(parentOf(c), c[Len(c)])) = Len(c)
      /\ \A j \in 1 .. Len(c) : Append(parentOf(c), c[Len(c)])[j] = c[j]
  BY <1>1, <1>3, <1>5
<1>7. c = Append(parentOf(c), c[Len(c)])
  BY <1>6, SeqEqual
<1> QED
  BY <1>1, <1>3, <1>4, <1>7

-----------------------------------------------------------------------------
(***************************************************************************)
(* What Rewritten says of a commit and of its parent.                      *)
(***************************************************************************)
\* fn() and msgfn() keep the Change-Id.
LEMMA Fixed1Facts ==
  ASSUME NEW c \in Seq(Change), c # <<>>
  PROVE  Fixed1(c) \in Change /\ Fixed1(c).id = c[Len(c)].id
<1>1. Len(c) \in 1 .. Len(c)
  BY EmptySeq
<1>2. c[Len(c)] \in Change
  BY <1>1, ElementOfSeq
<1> DEFINE ch == c[Len(c)]
<1>3. ch.id \in Nat /\ ch.text \in {"old", "old288", "new", "none", "dup"}
  BY <1>2 DEF Change
<1>4. PICK x \in {"old", "old288", "new", "none", "dup"} :
        Fixed1(c) = [id |-> ch.id, text |-> x]
  BY <1>3 DEF Fixed1
<1> HIDE DEF ch
<1>5. Fixed1(c) \in Change /\ Fixed1(c).id = ch.id
  BY <1>3, <1>4 DEF Change
<1> QED
  BY <1>5 DEF ch

\* A rewritten history has the same length and the same Change-Ids.
LEMMA RewrittenFacts ==
  ASSUME NEW c \in Seq(Change), start \in Seq(Change)
  PROVE  /\ Rewritten(c) \in Seq(Change)
         /\ Len(Rewritten(c)) = Len(c)
         /\ \A j \in 1 .. Len(c) : Rewritten(c)[j] =
              IF j < Len(start) THEN c[j] ELSE Fixed1(Upto(c, j))
         /\ Ids(Rewritten(c)) = Ids(c)
<1> DEFINE v(j) == IF j < Len(start) THEN c[j] ELSE Fixed1(Upto(c, j))
<1>1. Len(c) \in Nat /\ \A j \in 1 .. Len(c) : c[j] \in Change
  BY LenProperties
<1>2. ASSUME NEW j \in 1 .. Len(c)
      PROVE  v(j) \in Change /\ v(j).id = c[j].id
  <2>1. j \in 0 .. Len(c) /\ j >= 1
    BY <1>1
  <2>2. /\ Upto(c, j) \in Seq(Change) /\ Len(Upto(c, j)) = j
        /\ Upto(c, j)[j] = c[j]
    <3>1. /\ Upto(c, j) \in Seq(Change) /\ Len(Upto(c, j)) = j
          /\ \A k \in 1 .. j : Upto(c, j)[k] = c[k]
      BY <2>1, UptoFacts, Zenon
    <3>2. j \in 1 .. j
      BY <1>1
    <3> QED
      BY <3>1, <3>2, Zenon
  <2>3. Upto(c, j) # <<>>
    BY <2>1, <2>2
  <2>4. Fixed1(Upto(c, j)) \in Change /\ Fixed1(Upto(c, j)).id = c[j].id
    BY <2>2, <2>3, Fixed1Facts
  <2> QED
    BY <1>1, <2>4
<1>3. Rewritten(c) = [j \in 1 .. Len(c) |-> v(j)]
  BY DEF Rewritten
<1> HIDE DEF v
<1>4. Rewritten(c) \in [1 .. Len(c) -> Change]
  BY <1>2, <1>3
<1>5. Rewritten(c) \in Seq(Change)
  BY <1>1, <1>4, SeqDef
<1>6. DOMAIN Rewritten(c) = 1 .. Len(Rewritten(c)) /\ Len(Rewritten(c)) \in Nat
  BY <1>5, LenProperties
<1>7. Len(Rewritten(c)) = Len(c)
  BY <1>1, <1>3, <1>6
<1>8. \A j \in 1 .. Len(c) : Rewritten(c)[j] = v(j)
  BY <1>3
<1>9. Ids(Rewritten(c)) = Ids(c)
  BY <1>2, <1>7, <1>8 DEF Ids
<1> QED
  BY <1>5, <1>7, <1>8, <1>9 DEF v

\* The rewritten history of c is that of its parent and c's own new change;
\* START itself stands on its old parent.
LEMMA RewrittenStep ==
  ASSUME NEW c \in Seq(Change), c # <<>>, start \in Seq(Change),
         is_ancestor(start, c)
  PROVE  /\ Rewritten(c) = Append(Rewritten(parentOf(c)), Fixed1(c))
         /\ c = start => Rewritten(c) = Append(parentOf(c), Fixed1(c))
<1> DEFINE p == parentOf(c)
           q == Append(Rewritten(p), Fixed1(c))
           o == Append(p, Fixed1(c))
<1>1. /\ Len(c) \in Nat \ {0} /\ p \in Seq(Change) /\ Len(p) = Len(c) - 1
      /\ \A j \in 1 .. Len(c) - 1 : p[j] = c[j]
      /\ \A m \in 0 .. Len(c) - 1 : Upto(p, m) = Upto(c, m)
  BY ParentFacts
<1>2. Fixed1(c) \in Change
  BY Fixed1Facts
<1>3. /\ Rewritten(c) \in Seq(Change) /\ Len(Rewritten(c)) = Len(c)
      /\ \A j \in 1 .. Len(c) : Rewritten(c)[j] =
           IF j < Len(start) THEN c[j] ELSE Fixed1(Upto(c, j))
  BY RewrittenFacts
<1>4. /\ Rewritten(p) \in Seq(Change) /\ Len(Rewritten(p)) = Len(c) - 1
      /\ \A j \in 1 .. Len(c) - 1 : Rewritten(p)[j] =
           IF j < Len(start) THEN p[j] ELSE Fixed1(Upto(p, j))
  BY <1>1, RewrittenFacts
<1>5. Len(start) \in Nat /\ Len(start) <= Len(c)
  BY LenProperties DEF is_ancestor
<1>6. Upto(c, Len(c)) = c
  BY SubSeqFull DEF Upto
<1> HIDE DEF p
<1>7. Rewritten(c)[Len(c)] = Fixed1(c)
  BY <1>1, <1>3, <1>5, <1>6
<1>8. \A j \in 1 .. Len(c) - 1 : Rewritten(p)[j] = Rewritten(c)[j]
  BY <1>1, <1>3, <1>4
<1>9. /\ q \in Seq(Change) /\ Len(q) = Len(c)
      /\ \A j \in 1 .. Len(c) :
           q[j] = IF j = Len(c) THEN Fixed1(c) ELSE Rewritten(p)[j]
  BY <1>1, <1>2, <1>4
<1>10. Rewritten(c) = q
  <2>1. \A j \in 1 .. Len(c) : Rewritten(c)[j] = q[j]
    BY <1>1, <1>7, <1>8, <1>9
  <2> HIDE DEF q
  <2> QED
    BY <1>3, <1>9, <2>1, SeqEqual
<1>11. /\ o \in Seq(Change) /\ Len(o) = Len(c)
       /\ \A j \in 1 .. Len(c) :
            o[j] = IF j = Len(c) THEN Fixed1(c) ELSE p[j]
  BY <1>1, <1>2
<1>12. ASSUME c = start PROVE Rewritten(c) = o
  <2>1. \A j \in 1 .. Len(c) : Rewritten(c)[j] = o[j]
    BY <1>1, <1>3, <1>7, <1>11, <1>12
  <2> HIDE DEF o
  <2> QED
    BY <1>3, <1>11, <2>1, SeqEqual
<1> QED
  BY <1>10, <1>12 DEF p

-----------------------------------------------------------------------------
(***************************************************************************)
(* Consequences of the invariant in one state.                             *)
(***************************************************************************)
\* newof.get(c, c) is a commit with c's Change-Ids.
LEMMA NewOfFacts ==
  ASSUME ForkInv, NEW c \in Seq(Change)
  PROVE  NewOf(c) \in Seq(Change) /\ Ids(NewOf(c)) = Ids(c)
<1>1. CASE c \in DOMAIN newof
  <2>1. NewOf(c) = Rewritten(c)
    BY <1>1 DEF NewOf, ForkInv, ParentsRemapped
  <2> QED
    BY <2>1, RewrittenFacts DEF ForkInv, ForkTypeOK
<1>2. CASE c \notin DOMAIN newof
  BY <1>2 DEF NewOf
<1> QED
  BY <1>1, <1>2

\* Once order is empty, newof.get(o, o) is the rewritten tip of a branch.
LEMMA NewOfTip ==
  ASSUME ForkInv, fpc = "finished", NEW b \in Branches
  PROVE  NewOf(seen[b]) = Expected(seen[b])
<1>1. order = {} /\ Known = DOMAIN newof
  BY DEF ForkInv, OrderClosed, Known
<1>2. CASE seen[b] \in DOMAIN newof
  <2>1. is_ancestor(start, seen[b]) /\ seen[b] # NoCommit
    BY <1>1, <1>2 DEF ForkInv, OrderClosed, ForkTypeOK
  <2>2. NewOf(seen[b]) = Rewritten(seen[b])
    BY <1>2 DEF NewOf, ForkInv, ParentsRemapped
  <2> QED
    BY <2>1, <2>2 DEF Expected
<1>3. CASE seen[b] \notin DOMAIN newof
  <2>1. ~ (is_ancestor(start, seen[b]) /\ seen[b] # NoCommit)
    BY <1>1, <1>3 DEF ForkInv, OrderClosed
  <2> QED
    BY <1>3, <2>1 DEF NewOf, Expected
<1> QED
  BY <1>2, <1>3

\* The turn of the first loop makes the commit that Rewritten says.
LEMMA RewriteRight ==
  ASSUME ForkInv, NEW c \in order, Ready(c), Rewrite(c)
  PROVE  /\ DOMAIN newof' = DOMAIN newof \cup {c}
         /\ newof' = [x \in DOMAIN newof' |-> newof'[x]]
         /\ \A x \in DOMAIN newof' : newof'[x] = Rewritten(x)
<1> DEFINE p == parentOf(c)
           fresh == IF NewOf(p) = p /\ Fixed1(c) = c[Len(c)] THEN c
                    ELSE Append(NewOf(p), Fixed1(c))
<1>1. /\ c \in Known /\ c \in Seq(Change) /\ c # <<>> /\ start \in Seq(Change)
      /\ is_ancestor(start, c) /\ (c # start => p \in Known)
  BY DEF ForkInv, ForkTypeOK, OrderClosed, Known, NoCommit
<1>2. newof' = [x \in DOMAIN newof \cup {c} |->
                  IF x # c THEN newof[x] ELSE fresh]
  BY Zenon DEF Rewrite
<1>3. /\ Len(c) \in Nat /\ Len(p) = Len(c) - 1
      /\ c = Append(p, c[Len(c)])
  BY <1>1, ParentFacts
<1>4. Rewritten(c) = Append(NewOf(p), Fixed1(c))
  <2>1. CASE c = start
    <3>1. p \notin DOMAIN newof
      <4>1. \A x \in Known : Len(c) <= Len(x)
        BY <2>1 DEF ForkInv, OrderClosed, is_ancestor
      <4> QED
        BY <1>3, <4>1 DEF Known
    <3> QED
      BY <1>1, <2>1, <3>1, RewrittenStep, Zenon DEF NewOf
  <2>2. CASE c # start
    <3>1. p \in DOMAIN newof
      BY <1>1, <2>2 DEF Known, Ready
    <3>2. NewOf(p) = Rewritten(p)
      BY <3>1 DEF NewOf, ForkInv, ParentsRemapped
    <3> QED
      BY <1>1, <3>2, RewrittenStep
  <2> QED
    BY <2>1, <2>2
<1>5. fresh = Rewritten(c)
  BY <1>3, <1>4
<1> HIDE DEF fresh
<1>6. \A x \in DOMAIN newof : newof[x] = Rewritten(x)
  BY DEF ForkInv, ParentsRemapped
<1> QED
  BY <1>2, <1>5, <1>6

\* The order of a call: START and what stands on it, closed under parents.
LEMMA OrderFacts ==
  ASSUME NEW h \in [Branches -> Seq(Change)], NEW s \in Seq(Change), s # <<>>
  PROVE  /\ StandingOn(s, h) \subseteq Seq(Change) \ {<<>>}
         /\ \A c \in StandingOn(s, h) :
              is_ancestor(s, c) /\ (c # s => parentOf(c) \in StandingOn(s, h))
         /\ \A b \in Branches :
              h[b] # <<>> /\ is_ancestor(s, h[b]) => h[b] \in StandingOn(s, h)
<1> DEFINE O == StandingOn(s, h)
<1>1. ASSUME NEW c \in O
      PROVE  /\ c \in Seq(Change) /\ c # <<>> /\ is_ancestor(s, c)
             /\ c # s => parentOf(c) \in O
  <2>1. PICK b \in Branches : c \in History(h[b])
    BY DEF StandingOn
  <2>2. PICK n \in 1 .. Len(h[b]) : c = Upto(h[b], n)
    BY <2>1 DEF History
  <2>3. h[b] \in Seq(Change) /\ Len(h[b]) \in Nat /\ Len(s) \in Nat /\ n \in Nat
    BY LenProperties
  <2>4. c \in Seq(Change) /\ Len(c) = n
    BY <2>2, <2>3, UptoFacts
  <2>5. c # <<>>
    BY <2>4
  <2>6. is_ancestor(s, c)
    BY DEF StandingOn
  <2>7. ASSUME c # s PROVE parentOf(c) \in O
    <3>1. Len(s) # Len(c)
      <4>1. Upto(c, Len(c)) = c
        BY <2>4, SubSeqFull DEF Upto
      <4> QED
        BY <2>6, <2>7, <4>1 DEF is_ancestor
    <3>2. Len(s) <= n - 1 /\ Len(s) \in Nat \ {0}
      BY <2>3, <2>4, <2>6, <3>1, EmptySeq DEF is_ancestor
    <3>3. parentOf(c) = Upto(h[b], n - 1)
      BY <2>2, <2>3, <2>4, UptoUpto DEF parentOf
    <3>4. n - 1 \in 1 .. Len(h[b])
      BY <2>3, <3>2
    <3>5. parentOf(c) \in History(h[b])
      BY <3>3, <3>4 DEF History
    <3>6. Len(parentOf(c)) = n - 1 /\ Upto(parentOf(c), Len(s)) = Upto(c, Len(s))
      <4>1. /\ Len(parentOf(c)) = Len(c) - 1
            /\ \A m \in 0 .. Len(c) - 1 : Upto(parentOf(c), m) = Upto(c, m)
        BY <2>4, <2>5, ParentFacts
      <4> QED
        BY <2>3, <2>4, <3>2, <4>1
    <3>7. is_ancestor(s, parentOf(c))
      BY <2>6, <3>2, <3>6 DEF is_ancestor
    <3> QED
      BY <3>5, <3>7 DEF StandingOn
  <2> QED
    BY <2>4, <2>5, <2>6, <2>7
<1>2. ASSUME NEW b \in Branches, h[b] # <<>>, is_ancestor(s, h[b])
      PROVE  h[b] \in O
  <2>1. h[b] \in Seq(Change) /\ Len(h[b]) \in 1 .. Len(h[b])
    BY <1>2, EmptySeq
  <2>2. h[b] = Upto(h[b], Len(h[b]))
    BY <2>1, SubSeqFull DEF Upto
  <2>3. h[b] \in History(h[b])
    BY <2>1, <2>2 DEF History
  <2> QED
    BY <1>2, <2>3 DEF StandingOn
<1> HIDE DEF O
<1>3. /\ O \subseteq Seq(Change) \ {<<>>}
      /\ \A c \in O : is_ancestor(s, c) /\ (c # s => parentOf(c) \in O)
      /\ \A b \in Branches : h[b] # <<>> /\ is_ancestor(s, h[b]) => h[b] \in O
  BY <1>1, <1>2
<1> QED
  BY <1>3 DEF O

\* A commit of some change on some branch is a commit.
LEMMA CommitsOfFacts ==
  ASSUME NEW h \in [Branches -> Seq(Change)], NEW id, NEW c \in CommitsOf(id, h)
  PROVE  c \in Seq(Change) /\ c # <<>>
<1>1. PICK b \in Branches : c \in History(h[b])
  BY DEF CommitsOf
<1>2. PICK n \in 1 .. Len(h[b]) : c = Upto(h[b], n)
  BY <1>1 DEF History
<1>3. h[b] \in Seq(Change) /\ Len(h[b]) \in Nat
  BY LenProperties
<1>4. c \in Seq(Change) /\ Len(c) = n
  BY <1>2, <1>3, UptoFacts
<1> QED
  BY <1>4

-----------------------------------------------------------------------------
(***************************************************************************)
(* The invariant is inductive.                                             *)
(***************************************************************************)
\* What run() makes of a commit does not change while the call goes on.
LEMMA RewrittenSame ==
  ASSUME UNCHANGED callVars
  PROVE  /\ \A c : Rewritten(c)' = Rewritten(c)
         /\ \A c : is_ancestor(start', c) = is_ancestor(start, c)
<1>1. script' = script /\ R288' = R288 /\ start' = start
  BY DEF callVars
<1>2. \A c : Gated(c)' = Gated(c)
  BY <1>1 DEF Gated, is_ancestor, NoCommit
<1>3. \A c : Fixed1(c)' = Fixed1(c)
  BY <1>2 DEF Fixed1
<1> QED
  BY <1>1, <1>3 DEF Rewritten, is_ancestor

\* It holds at first.
LEMMA ForkInitInv == ASSUME ForkAssumption, FInit PROVE ForkInv
<1>1. heads \in [Branches -> Seq(Change)] /\ <<>> \in Seq(Change)
  BY EmptySeq DEF ForkAssumption, FInit
<1>2. ForkTypeOK
  BY <1>1, Zenon DEF FInit, ForkTypeOK, NoCommit, Known
<1>3. OrderClosed /\ Turns /\ ParentsRemapped /\ NoWorkLost
  BY DEF FInit, OrderClosed, Turns, ParentsRemapped, NoWorkLost, Known
<1> QED
  BY <1>2, <1>3 DEF ForkInv

\* A call begins: a new START, a new order, nothing done.
LEMMA BeginInv == ASSUME ForkInv, Begin PROVE ForkInv'
<1>1. PICK s \in CommitsOf(StartId, heads) \cup CommitsOf(StartId, first) :
        /\ start' = s
        /\ order' = StandingOn(s, heads)
  BY DEF Begin
<1>2. heads \in [Branches -> Seq(Change)] /\ first \in [Branches -> Seq(Change)]
  BY DEF ForkInv, ForkTypeOK
<1>3. s \in Seq(Change) /\ s # <<>>
  BY <1>2, CommitsOfFacts
<1>4. /\ order' \subseteq Seq(Change) \ {<<>>}
      /\ \A c \in order' : is_ancestor(s, c) /\ (c # s => parentOf(c) \in order')
      /\ \A b \in Branches :
           heads[b] # <<>> /\ is_ancestor(s, heads[b]) => heads[b] \in order'
  BY <1>1, <1>2, <1>3, OrderFacts
<1>5. DOMAIN newof' = {} /\ Known' = order'
  BY DEF Begin, Known
<1>6. ForkTypeOK'
  BY <1>1, <1>3, <1>4, <1>5, EmptySeq, Zenon DEF Begin, ForkInv, ForkTypeOK, NoCommit
<1>7. OrderClosed'
  BY <1>1, <1>3, <1>4, <1>5, Zenon DEF Begin, OrderClosed, NoCommit, is_ancestor
<1>8. Turns'
  BY Zenon DEF Begin, Turns
<1>9. ParentsRemapped' /\ NoWorkLost'
  BY <1>5, Zenon DEF Begin, ForkInv, ParentsRemapped, NoWorkLost, Ids
<1> QED
  BY <1>6, <1>7, <1>8, <1>9 DEF ForkInv

\* One commit goes from order to newof.
LEMMA RewriteOneInv == ASSUME ForkInv, RewriteOne PROVE ForkInv'
<1>1. PICK c \in order : Ready(c) /\ Rewrite(c) /\ order' = order \ {c}
  BY DEF RewriteOne
<1>2. /\ DOMAIN newof' = DOMAIN newof \cup {c}
      /\ newof' = [x \in DOMAIN newof' |-> newof'[x]]
      /\ \A x \in DOMAIN newof' : newof'[x] = Rewritten(x)
  BY <1>1, RewriteRight
<1>3. /\ UNCHANGED callVars /\ UNCHANGED otherVars
      /\ UNCHANGED <<heads, drefs, fpc, upd, turn, got>>
      /\ fpc = "rewrite"
  BY DEF RewriteOne
<1>4. /\ \A x : Rewritten(x)' = Rewritten(x)
      /\ \A x : is_ancestor(start', x) = is_ancestor(start, x)
  BY <1>3, RewrittenSame
<1>5. Known' = Known
  BY <1>1, <1>2 DEF Known
<1>6. ForkTypeOK'
  BY <1>2, <1>3, <1>5 DEF ForkInv, ForkTypeOK, callVars, otherVars
<1>7. OrderClosed'
  BY <1>3, <1>4, <1>5 DEF ForkInv, OrderClosed, callVars
<1>8. Turns'
  BY <1>3, Zenon DEF ForkInv, Turns, callVars, otherVars
<1>9. ParentsRemapped'
  BY <1>2, <1>4 DEF ParentsRemapped
<1>10. NoWorkLost'
  BY <1>3, Zenon DEF ForkInv, NoWorkLost, otherVars, Ids
<1> QED
  BY <1>6, <1>7, <1>8, <1>9, <1>10 DEF ForkInv

\* The steps that touch neither commits nor branches.
LEMMA QuietInv ==
  ASSUME ForkInv, RewriteDies \/ RewriteDone \/ Finish \/ Kill
  PROVE  ForkInv'
<1>1. /\ UNCHANGED callVars /\ UNCHANGED otherVars
      /\ UNCHANGED <<heads, drefs, order, newof, turn, got>>
      /\ upd' \subseteq Branches
  BY DEF RewriteDies, RewriteDone, Finish, Kill, ForkInv, ForkTypeOK
<1>2. /\ \A x : Rewritten(x)' = Rewritten(x)
      /\ \A x : is_ancestor(start', x) = is_ancestor(start, x)
  BY <1>1, RewrittenSame
<1>3. Known' = Known
  BY <1>1 DEF Known
<1>4. /\ fpc' \in {"move", "finished", "died"}
      /\ fpc' = "move" => fpc = "rewrite" /\ order = {} /\ upd' = Branches
      /\ fpc' = "finished" => fpc = "move" /\ upd = {} /\ turn = {} /\ upd' = upd
      /\ fpc' = "died" => upd' = upd
  BY Zenon DEF RewriteDies, RewriteDone, Finish, Kill
<1>5. ForkTypeOK'
  BY <1>1, <1>3, <1>4 DEF ForkInv, ForkTypeOK, callVars, otherVars
<1>6. OrderClosed'
  BY <1>1, <1>2, <1>3, <1>4 DEF ForkInv, OrderClosed, callVars
<1>7. Turns'
  BY <1>1, <1>4, Zenon DEF ForkInv, Turns, callVars, otherVars, NewOf
<1>8. ParentsRemapped' /\ NoWorkLost'
  BY <1>1, <1>2, Zenon DEF ForkInv, ParentsRemapped, NoWorkLost, otherVars, Ids
<1> QED
  BY <1>5, <1>6, <1>7, <1>8 DEF ForkInv

\* The turn of a branch begins.
LEMMA ReadHeadInv == ASSUME ForkInv, ReadHead PROVE ForkInv'
<1>1. PICK b \in upd :
        /\ turn' = {b} /\ upd' = upd \ {b}
        /\ got' = IF script = "forktx5" THEN seen[b] ELSE heads[b]
  BY DEF ReadHead
<1>2. /\ UNCHANGED callVars /\ UNCHANGED otherVars
      /\ UNCHANGED <<heads, drefs, fpc, order, newof>>
      /\ fpc = "move" /\ turn = {} /\ b \in Branches
  BY DEF ReadHead, ForkInv, ForkTypeOK
<1>3. /\ \A x : Rewritten(x)' = Rewritten(x)
      /\ \A x : is_ancestor(start', x) = is_ancestor(start, x)
  BY <1>2, RewrittenSame
<1>4. Known' = Known
  BY <1>2 DEF Known
<1>5. ForkTypeOK'
  BY <1>1, <1>2, <1>4, Zenon DEF ForkInv, ForkTypeOK, callVars, otherVars
<1>6. OrderClosed'
  BY <1>2, <1>3, <1>4 DEF ForkInv, OrderClosed, callVars
<1>7. Turns'
  BY <1>1, <1>2, Zenon DEF ForkInv, Turns, callVars, otherVars, NewOf
<1>8. ParentsRemapped' /\ NoWorkLost'
  BY <1>2, <1>3, Zenon DEF ForkInv, ParentsRemapped, NoWorkLost, otherVars, Ids
<1> QED
  BY <1>5, <1>6, <1>7, <1>8 DEF ForkInv

\* The turn of a branch ends: moved, left, recorded, or refused by git.
LEMMA MoveHeadInv == ASSUME ForkInv, MoveHead PROVE ForkInv'
<1>1. PICK b \in turn :
        \/ /\ fdry /\ script = "forktx5"
           /\ drefs' = [drefs EXCEPT ![b] = NewOf(got)]
           /\ UNCHANGED <<heads, fpc>>
        \/ /\ fdry /\ script = "forktx"
           /\ UNCHANGED <<heads, drefs, fpc>>
        \/ /\ ~fdry
           /\ NewOf(got) = got
           /\ UNCHANGED <<heads, drefs, fpc>>
        \/ /\ ~fdry
           /\ NewOf(got) # got
           /\ UpdateRef(b)
  BY DEF MoveHead
<1>2. /\ UNCHANGED callVars /\ UNCHANGED otherVars
      /\ UNCHANGED <<order, newof, upd, got>>
      /\ fpc = "move" /\ turn' = {} /\ turn = {b} /\ b \in Branches
  <2>1. turn \subseteq Branches /\ \A x, y \in turn : x = y
    BY Zenon DEF ForkInv, ForkTypeOK, Turns
  <2>2. turn = {b} /\ b \in Branches
    BY <1>1, <2>1, Zenon
  <2> QED
    BY <2>2, Zenon DEF MoveHead
<1>3. /\ \A x : Rewritten(x)' = Rewritten(x)
      /\ \A x : is_ancestor(start', x) = is_ancestor(start, x)
  BY <1>2, RewrittenSame
<1>4. Known' = Known /\ \A c : NewOf(c)' = NewOf(c)
  BY <1>2 DEF Known, NewOf
<1>5. NewOf(got) \in Seq(Change) /\ Ids(NewOf(got)) = Ids(got)
  BY NewOfFacts DEF ForkInv, ForkTypeOK
<1>6. /\ heads' = heads
         \/ (~fdry /\ heads[b] = got /\ heads' = [heads EXCEPT ![b] = NewOf(got)])
      /\ drefs' = drefs
         \/ (fdry /\ drefs' = [drefs EXCEPT ![b] = NewOf(got)])
      /\ fpc' \in {"move", "died"}
      /\ fpc' = "move" /\ ~fdry => heads[b] # got \/ heads'[b] = NewOf(got)
      /\ fpc' = "move" /\ fdry => heads' = heads
      /\ fpc' = "move" /\ fdry /\ script = "forktx5" => drefs'[b] = NewOf(got)
  BY <1>1, <1>2, Zenon DEF UpdateRef, ForkInv, ForkTypeOK
<1>7. ForkTypeOK'
  BY <1>2, <1>4, <1>5, <1>6, Zenon DEF ForkInv, ForkTypeOK, callVars, otherVars
<1>8. OrderClosed'
  BY <1>2, <1>3, <1>4, <1>6, Zenon DEF ForkInv, OrderClosed, callVars
<1>9. Turns'
  <2>1. ASSUME NEW d \in Branches \ moved, fpc' = "move"
        PROVE  /\ d \in upd => heads'[d] = seen[d]
               /\ d \notin upd =>
                    /\ heads'[d] = IF fdry THEN seen[d] ELSE NewOf(seen[d])
                    /\ fdry /\ script = "forktx5" => drefs'[d] = NewOf(seen[d])
    <3>1. CASE d = b
      <4>1. d \notin upd /\ heads[d] = seen[d] /\ got = seen[d]
        BY <1>2, <3>1 DEF ForkInv, Turns
      <4> QED
        BY <1>6, <2>1, <3>1, <4>1, Zenon
    <3>2. CASE d # b
      <4>1. heads'[d] = heads[d] /\ drefs'[d] = drefs[d]
        BY <1>2, <1>6, <3>2 DEF ForkInv, ForkTypeOK
      <4>2. d \in turn => FALSE
        BY <1>2, <3>2
      <4> QED
        BY <1>2, <4>1, <4>2, Zenon DEF ForkInv, Turns
    <3> QED
      BY <3>1, <3>2, Zenon
  <2>2. script' = script /\ fdry' = fdry /\ seen' = seen /\ moved' = moved
    BY <1>2 DEF callVars, otherVars
  <2> QED
    BY <1>2, <1>4, <1>6, <2>1, <2>2, Zenon DEF Turns
<1>10. ParentsRemapped'
  BY <1>2, <1>3 DEF ForkInv, ParentsRemapped
<1>11. NoWorkLost'
  <2>1. ASSUME NEW d \in Branches PROVE Ids(heads'[d]) = work[d]
    <3>1. heads'[d] = heads[d] \/ (heads[d] = got /\ heads'[d] = NewOf(got))
      BY <1>2, <1>6 DEF ForkInv, ForkTypeOK
    <3> QED
      BY <1>5, <3>1 DEF ForkInv, NoWorkLost
  <2> QED
    BY <1>2, <2>1, Zenon DEF NoWorkLost, otherVars, Ids
<1> QED
  BY <1>7, <1>8, <1>9, <1>10, <1>11 DEF ForkInv

\* The Change-Ids of a branch with one commit more, or one less.
LEMMA IdsFacts ==
  ASSUME NEW c \in Seq(Change)
  PROVE  /\ \A ch \in Change : Ids(Append(c, ch)) = Append(Ids(c), ch.id)
         /\ c # <<>> => Ids(parentOf(c)) = parentOf(Ids(c))
<1>1. /\ Len(c) \in Nat
      /\ \A x \in Seq(Change) : \A j \in 1 .. Len(x) : x[j].id \in Nat
  <2>1. \A ch \in Change : ch.id \in Nat
    BY DEF Change
  <2>2. \A x \in Seq(Change) : \A j \in 1 .. Len(x) : x[j] \in Change
    BY ElementOfSeq
  <2> QED
    BY <2>1, <2>2, LenProperties
<1>2. ASSUME NEW x \in Seq(Change)
      PROVE  /\ Ids(x) \in Seq(Nat) /\ Len(Ids(x)) = Len(x)
             /\ \A j \in 1 .. Len(x) : Ids(x)[j] = x[j].id
  <2>1. Len(x) \in Nat
    BY LenProperties
  <2>2. Ids(x) \in [1 .. Len(x) -> Nat]
    BY <1>1 DEF Ids
  <2>3. Ids(x) \in Seq(Nat)
    BY <2>1, <2>2, SeqDef
  <2>4. DOMAIN Ids(x) = 1 .. Len(Ids(x)) /\ Len(Ids(x)) \in Nat
    BY <2>3, LenProperties
  <2> QED
    BY <2>1, <2>2, <2>3, <2>4 DEF Ids
<1>3. ASSUME NEW ch \in Change PROVE Ids(Append(c, ch)) = Append(Ids(c), ch.id)
  <2> DEFINE l == Append(c, ch)
             m == Append(Ids(c), ch.id)
  <2>1. /\ l \in Seq(Change) /\ Len(l) = Len(c) + 1 /\ ch.id \in Nat
        /\ \A j \in 1 .. Len(c) + 1 : l[j] = IF j = Len(c) + 1 THEN ch ELSE c[j]
    BY <1>1 DEF Change
  <2>2. /\ Ids(l) \in Seq(Nat) /\ Len(Ids(l)) = Len(c) + 1
        /\ \A j \in 1 .. Len(c) + 1 : Ids(l)[j] = l[j].id
    BY <1>2, <2>1, Zenon
  <2>3. /\ Ids(c) \in Seq(Nat) /\ Len(Ids(c)) = Len(c)
        /\ \A j \in 1 .. Len(c) : Ids(c)[j] = c[j].id
    BY <1>2
  <2>4. /\ m \in Seq(Nat) /\ Len(m) = Len(c) + 1
        /\ \A j \in 1 .. Len(c) + 1 :
             m[j] = IF j = Len(c) + 1 THEN ch.id ELSE Ids(c)[j]
    BY <1>1, <2>1, <2>3
  <2> HIDE DEF l, m
  <2>5. ASSUME NEW j \in 1 .. Len(c) + 1 PROVE Ids(l)[j] = m[j]
    <3>1. Ids(l)[j] = l[j].id
      BY <2>2
    <3>2. CASE j = Len(c) + 1
      BY <2>1, <2>4, <3>1, <3>2
    <3>3. CASE j # Len(c) + 1
      <4>1. j \in 1 .. Len(c)
        BY <1>1, <3>3
      <4> QED
        BY <2>1, <2>3, <2>4, <3>1, <3>3, <4>1, Zenon
    <3> QED
      BY <3>2, <3>3
  <2>6. Ids(l) = m
    BY <2>2, <2>4, <2>5, SeqEqual
  <2> QED
    BY <2>6 DEF l, m
<1>4. ASSUME c # <<>> PROVE Ids(parentOf(c)) = parentOf(Ids(c))
  <2> DEFINE p == parentOf(c)
             q == parentOf(Ids(c))
  <2>1. /\ Len(c) \in Nat \ {0} /\ p \in Seq(Change) /\ Len(p) = Len(c) - 1
        /\ \A j \in 1 .. Len(c) - 1 : p[j] = c[j]
    BY <1>4, ParentFacts
  <2>2. /\ Ids(p) \in Seq(Nat) /\ Len(Ids(p)) = Len(c) - 1
        /\ \A j \in 1 .. Len(c) - 1 : Ids(p)[j] = p[j].id
    BY <1>2, <2>1
  <2>3. /\ Ids(c) \in Seq(Nat) /\ Len(Ids(c)) = Len(c)
        /\ \A j \in 1 .. Len(c) : Ids(c)[j] = c[j].id
    BY <1>2
  <2>4. Ids(c) # <<>>
    BY <2>1, <2>3
  <2>5. /\ q \in Seq(Nat) /\ Len(q) = Len(c) - 1
        /\ \A j \in 1 .. Len(c) - 1 : q[j] = Ids(c)[j]
    BY <2>3, <2>4, ParentFacts
  <2> HIDE DEF p, q
  <2>6. ASSUME NEW j \in 1 .. Len(c) - 1 PROVE Ids(p)[j] = q[j]
    <3>1. j \in 1 .. Len(c)
      BY <2>1
    <3>2. Ids(p)[j] = p[j].id /\ p[j] = c[j]
      BY <2>1, <2>2
    <3>3. q[j] = Ids(c)[j] /\ Ids(c)[j] = c[j].id
      BY <2>3, <2>5, <3>1
    <3> QED
      BY <3>2, <3>3
  <2>7. Ids(p) = q
    BY <2>2, <2>5, <2>6, SeqEqual, Zenon
  <2> QED
    BY <2>7 DEF p, q
<1> QED
  BY <1>3, <1>4

\* The other session moves a branch.
LEMMA OtherInv == ASSUME ForkAssumption, ForkInv, Push \/ Drop PROVE ForkInv'
<1>1. PICK b \in Branches : \E h \in Seq(Change) :
        /\ heads' = [heads EXCEPT ![b] = h]
        /\ work' = [work EXCEPT ![b] = Ids(h)]
        /\ moved' = moved \cup {b}
  <2>1. ASSUME Push
        PROVE  \E b \in Branches : \E h \in Seq(Change) :
                 /\ heads' = [heads EXCEPT ![b] = h]
                 /\ work' = [work EXCEPT ![b] = Ids(h)]
                 /\ moved' = moved \cup {b}
    <3>1. PICK b \in Branches, ch \in Pushed :
            /\ heads' = [heads EXCEPT ![b] = Append(heads[b], ch)]
            /\ work' = [work EXCEPT ![b] = Append(work[b], ch.id)]
            /\ moved' = moved \cup {b}
      BY <2>1, Zenon DEF Push
    <3>2. heads[b] \in Seq(Change) /\ ch \in Change /\ work[b] = Ids(heads[b])
      BY DEF ForkInv, ForkTypeOK, NoWorkLost, ForkAssumption
    <3>3. /\ Append(heads[b], ch) \in Seq(Change)
          /\ Ids(Append(heads[b], ch)) = Append(work[b], ch.id)
      <4>1. Ids(Append(heads[b], ch)) = Append(Ids(heads[b]), ch.id)
        BY <3>2, IdsFacts, Zenon
      <4>2. Append(heads[b], ch) \in Seq(Change)
        BY <3>2, AppendProperties, Zenon
      <4> QED
        BY <3>2, <4>1, <4>2, Zenon
    <3> QED
      BY <3>1, <3>3, Zenon
  <2>2. ASSUME Drop
        PROVE  \E b \in Branches : \E h \in Seq(Change) :
                 /\ heads' = [heads EXCEPT ![b] = h]
                 /\ work' = [work EXCEPT ![b] = Ids(h)]
                 /\ moved' = moved \cup {b}
    <3>1. PICK b \in Branches :
            /\ heads[b] # <<>>
            /\ heads' = [heads EXCEPT ![b] = parentOf(heads[b])]
            /\ work' = [work EXCEPT ![b] = parentOf(work[b])]
            /\ moved' = moved \cup {b}
      BY <2>2, Zenon DEF Drop, NoCommit
    <3>2. heads[b] \in Seq(Change) /\ work[b] = Ids(heads[b])
      BY DEF ForkInv, ForkTypeOK, NoWorkLost
    <3>3. /\ parentOf(heads[b]) \in Seq(Change)
          /\ Ids(parentOf(heads[b])) = parentOf(work[b])
      BY <3>1, <3>2, IdsFacts, ParentFacts, Zenon
    <3> QED
      BY <3>1, <3>3, Zenon
  <2> QED
    BY <2>1, <2>2
<1>2. PICK h \in Seq(Change) :
        /\ heads' = [heads EXCEPT ![b] = h]
        /\ work' = [work EXCEPT ![b] = Ids(h)]
        /\ moved' = moved \cup {b}
  BY <1>1, Zenon
<1>3. /\ UNCHANGED callVars
      /\ UNCHANGED <<drefs, fpc, order, newof, upd, turn, got, first>>
  BY DEF Push, Drop
<1>4. /\ \A x : Rewritten(x)' = Rewritten(x)
      /\ \A x : is_ancestor(start', x) = is_ancestor(start, x)
  BY <1>3, RewrittenSame
<1>5. Known' = Known /\ \A c : NewOf(c)' = NewOf(c)
  BY <1>3, Zenon DEF Known, NewOf
<1>6. ForkTypeOK'
  BY <1>2, <1>3, <1>5 DEF ForkInv, ForkTypeOK, callVars
<1>7. OrderClosed'
  BY <1>3, <1>4, <1>5 DEF ForkInv, OrderClosed, callVars
<1>8. Turns'
  <2>1. \A d \in Branches \ moved' : d \in Branches \ moved /\ heads'[d] = heads[d]
    BY <1>2 DEF ForkInv, ForkTypeOK
  <2>2. script' = script /\ fdry' = fdry /\ seen' = seen
    BY <1>3 DEF callVars
  <2> QED
    BY <1>3, <1>5, <2>1, <2>2, Zenon DEF ForkInv, Turns
<1>9. ParentsRemapped'
  BY <1>3, <1>4 DEF ForkInv, ParentsRemapped
<1>10. NoWorkLost'
  <2>1. ASSUME NEW d \in Branches PROVE Ids(heads'[d]) = work'[d]
    <3>1. heads \in [Branches -> Seq(Change)] /\ Ids(heads[d]) = work[d]
      BY DEF ForkInv, ForkTypeOK, NoWorkLost
    <3>2. DOMAIN work = Branches
      BY DEF ForkInv, ForkTypeOK
    <3> QED
      BY <1>2, <3>1, <3>2
  <2> QED
    BY <2>1, Zenon DEF NoWorkLost, Ids
<1> QED
  BY <1>6, <1>7, <1>8, <1>9, <1>10 DEF ForkInv

-----------------------------------------------------------------------------
(***************************************************************************)
(* Theorems.                                                               *)
(***************************************************************************)
\* ForkInv holds in every state of the scripts, whatever the branches are,
\* however often a call is killed, and whatever another session does.
THEOREM ForkInvHolds == FSpec => []ForkInv
<1>1. FInit => ForkInv
  BY ForkAssumption, ForkInitInv
<1>2. ForkInv /\ [FNext]_fvars => ForkInv'
  <2> SUFFICES ASSUME ForkInv, [FNext]_fvars PROVE ForkInv'
    OBVIOUS
  <2>1. CASE Begin
    BY <2>1, BeginInv
  <2>2. CASE RewriteOne
    BY <2>2, RewriteOneInv
  <2>3. CASE RewriteDies \/ RewriteDone \/ Finish \/ Kill
    BY <2>3, QuietInv
  <2>4. CASE ReadHead
    BY <2>4, ReadHeadInv
  <2>5. CASE MoveHead
    BY <2>5, MoveHeadInv
  <2>6. CASE Push \/ Drop
    BY <2>6, ForkAssumption, OtherInv
  <2>7. CASE UNCHANGED fvars
    <3>1. /\ UNCHANGED callVars /\ UNCHANGED otherVars
          /\ UNCHANGED <<heads, drefs, fpc, order, newof, upd, turn, got>>
      BY <2>7 DEF fvars, callVars, otherVars
    <3>2. /\ \A x : Rewritten(x)' = Rewritten(x)
          /\ \A x : is_ancestor(start', x) = is_ancestor(start, x)
      BY <3>1, RewrittenSame
    <3>3. Known' = Known /\ \A c : NewOf(c)' = NewOf(c)
      BY <3>1, Zenon DEF Known, NewOf
    <3>4. ForkTypeOK'
      BY <3>1, <3>3, Zenon DEF ForkInv, ForkTypeOK, callVars, otherVars
    <3>5. OrderClosed'
      BY <3>1, <3>2, <3>3, Zenon DEF ForkInv, OrderClosed, callVars
    <3>6. Turns'
      BY <3>1, <3>3, Zenon DEF ForkInv, Turns, callVars, otherVars
    <3>7. ParentsRemapped' /\ NoWorkLost'
      BY <3>1, <3>2, Zenon DEF ForkInv, ParentsRemapped, NoWorkLost, otherVars, Ids
    <3> QED
      BY <3>4, <3>5, <3>6, <3>7 DEF ForkInv
  <2> QED
    BY <2>1, <2>2, <2>3, <2>4, <2>5, <2>6, <2>7 DEF FNext
<1> QED
  BY <1>1, <1>2, PTL DEF FSpec

\* forktx.py: "Parents are remapped".  On any forks, in any order of the
\* commits that has parents first, newof[c] is c's history with each change's
\* own edits made, so branches that shared c share its new commit.
THEOREM ForkParentsRemapped == FSpec => []ParentsRemapped
<1>1. ForkInv => ParentsRemapped
  BY DEF ForkInv
<1> QED
  BY <1>1, ForkInvHolds, PTL

\* update-ref with the old value: no change that belongs on a branch is lost,
\* doubled or reordered, in any interleaving with another session's commits.
THEOREM ForkLosesNothing == FSpec => []NoWorkLost
<1>1. ForkInv => NoWorkLost
  BY DEF ForkInv
<1> QED
  BY <1>1, ForkInvHolds, PTL

\* A call that ends left no branch behind: each one that nobody else moved is
\* at its rewritten tip, or, after a dry call, where it was.
THEOREM ForkFinishedMeansAll == FSpec => []FinishedMeansAll
<1>1. ForkInv => FinishedMeansAll
  <2> SUFFICES ASSUME ForkInv, fpc = "finished", NEW b \in Branches \ moved
               PROVE  /\ heads[b] = IF fdry THEN seen[b] ELSE Expected(seen[b])
                      /\ fdry /\ script = "forktx5" =>
                           drefs[b] = Expected(seen[b])
    BY DEF FinishedMeansAll
  <2>1. NewOf(seen[b]) = Expected(seen[b])
    BY NewOfTip
  <2>2. b \notin upd \cup turn
    BY Zenon DEF ForkInv, Turns
  <2>3. /\ heads[b] = IF fdry THEN seen[b] ELSE NewOf(seen[b])
        /\ fdry /\ script = "forktx5" => drefs[b] = NewOf(seen[b])
    BY <2>2, Zenon DEF ForkInv, Turns
  <2> QED
    BY <2>1, <2>3, Zenon
<1> QED
  BY <1>1, ForkInvHolds, PTL

-----------------------------------------------------------------------------
(***************************************************************************)
(* The replies.                                                            *)
(***************************************************************************)
\* Before the first run nothing is posted.
LEMMA RepliesStart == ASSUME RInit PROVE RepliesInv
BY Zenon DEF RInit, RepliesInv, InThread

\* A step of the script keeps every reply in its thread.
LEMMA ReplyStep == ASSUME RepliesInv, [RNext]_rvars PROVE RepliesInv'
<1>1. CASE Run
  <2>1. /\ posts' = posts + 1 /\ posts \in Nat /\ rpc' = "change" /\ rest' \in Onlys
        /\ UNCHANGED <<on, gone, asked>>
    BY <1>1 DEF Run, RepliesInv
  <2>2. rest' \subseteq Changes
    BY <2>1, ReplyAssumption
  <2>3. \A a \in asked' : a.row \in Rows /\ a.run \in Nat /\ a.run <= posts' /\ a.run # posts'
    BY <2>1 DEF RepliesInv
  <2>4. InThread'
    BY <2>1, <2>3, Zenon DEF RepliesInv, InThread
  <2>5. posts' \in Nat /\ rpc' \in {"idle", "change", "post"} /\ rpc' # "post"
    BY <2>1
  <2> QED
    BY <2>2, <2>3, <2>4, <2>5, Zenon DEF RepliesInv
<1>2. CASE NextChange
  <2>1. /\ rpc = "change" /\ rpc' = "post" /\ Found(Least(rest)) /\ now' = Least(rest)
        /\ rest' = rest \ {now'} /\ byps' = Gather(now')
        /\ pend' \subseteq PatchSets
        /\ UNCHANGED <<on, gone, posts, asked>> /\ rest # {}
    BY <1>2, Zenon DEF NextChange
  <2>2. now' \in rest
    <3>1. rest \subseteq Nat
      BY ReplyAssumption DEF RepliesInv
    <3>2. PICK x \in rest : \A y \in rest : x <= y
      BY <2>1, <3>1, LeastNat, Zenon
    <3> QED
      BY <2>1, <3>2, Zenon DEF Least
  <2>3. byps' = Gather(now)' /\ Found(now)'
    BY <2>1 DEF Gather, Found
  <2>4. \A row \in Rows : row \in ToPost' => row \in ToPost
    BY <2>1, <2>2, Zenon DEF ToPost
  <2>5. \A a \in asked' : a.run = posts' => a.row \notin ToPost'
    BY <2>1, <2>4, Zenon DEF RepliesInv, InThread
  <2> QED
    BY <2>1, <2>3, <2>5, Zenon DEF RepliesInv, InThread
<1>3. CASE Post
  <2> DEFINE ps == Least(pend)
             new == {[row |-> x, change |-> now, ps |-> ps, run |-> posts] : x \in byps[ps]}
  <2>1. /\ rpc = "post" /\ rpc' = "post" /\ pend # {} /\ pend' = pend \ {ps}
        /\ asked' = asked \cup new \/ asked' = asked
        /\ UNCHANGED <<on, gone, rest, now, byps, posts>>
    BY <1>3, Zenon DEF Post
  <2>2. /\ byps = Gather(now) /\ Found(now) /\ now \notin rest /\ pend \subseteq PatchSets
    BY <2>1, Zenon DEF RepliesInv
  <2>3. ps \in pend
    <3>1. pend \subseteq Nat
      BY <2>2, ReplyAssumption
    <3>2. PICK x \in pend : \A y \in pend : x <= y
      BY <2>1, <3>1, LeastNat, Zenon
    <3> QED
      BY <3>2 DEF Least
  <2> HIDE DEF ps
  <2>4. ASSUME NEW a \in new
        PROVE  /\ a.row \in Rows /\ a.run = posts /\ a.change = now
               /\ a.row.change = now /\ on[a.row.cid] = ps /\ a.ps = ps
    <3>1. PICK x \in byps[ps] : a = [row |-> x, change |-> now, ps |-> ps, run |-> posts]
      BY <2>4, Zenon
    <3>2. x \in Rows /\ x.change = now /\ on[x.cid] = ps
      BY <2>2, <2>3, Zenon DEF Gather
    <3> QED
      BY <3>1, <3>2, Zenon
  <2> HIDE DEF new
  <2>5. \A a \in asked' : a \in asked \/ a \in new
    BY <2>1
  <2>6. \A a \in asked' : a.row \in Rows /\ a.run \in Nat /\ a.run <= posts'
    <3>1. posts \in Nat /\ posts' = posts /\ posts <= posts
      BY <2>1 DEF RepliesInv
    <3>2. \A a \in asked : a.row \in Rows /\ a.run \in Nat /\ a.run <= posts
      BY DEF RepliesInv
    <3> QED
      BY <2>4, <2>5, <3>1, <3>2, Zenon
  <2>7. \A a \in asked' : a.change = a.row.change /\ a.ps = on'[a.row.cid]
    BY <2>1, <2>4, <2>5, Zenon DEF RepliesInv, InThread
  <2>8. \A a \in asked' : \A row \in Rows : row.change = a.change => row.cid \notin gone'
    BY <2>1, <2>2, <2>4, <2>5, Zenon DEF RepliesInv, InThread, Found
  <2>9. \A row \in Rows : row \in ToPost' => row \in ToPost
    BY <2>1, Zenon DEF ToPost
  <2>10. \A a \in new : a.row \notin ToPost'
    BY <2>1, <2>2, <2>4, Zenon DEF ToPost
  <2>11. \A a \in asked' : a.run = posts' => a.row \notin ToPost'
    BY <2>1, <2>5, <2>6, <2>9, <2>10, Zenon DEF RepliesInv, InThread
  <2>12. byps' = Gather(now)' /\ Found(now)'
    BY <2>1, <2>2, Zenon DEF Gather, Found
  <2> QED
    BY <2>1, <2>2, <2>6, <2>7, <2>8, <2>11, <2>12, Zenon DEF RepliesInv, InThread
<1>4. CASE ChangeDone
  <2>1. /\ rpc' = "change" /\ rpc = "post" /\ pend = {} 
        /\ UNCHANGED <<on, gone, rest, now, byps, pend, posts, asked>>
    BY <1>4 DEF ChangeDone
  <2>2. ToPost' = ToPost
    BY <2>1 DEF ToPost
  <2> QED
    BY <2>1, <2>2, Zenon DEF RepliesInv, InThread
<1>5. CASE LookupFails \/ RunDone \/ KillPost
  <2>1. /\ rpc' = "idle"
        /\ UNCHANGED <<on, gone, rest, now, byps, pend, posts, asked>>
    BY <1>5 DEF LookupFails, RunDone, KillPost
  <2> QED
    BY <2>1, Zenon DEF RepliesInv, InThread
<1>6. CASE UNCHANGED rvars
  <2>1. UNCHANGED <<on, gone, rpc, rest, now, byps, pend, posts, asked>>
    BY <1>6 DEF rvars
  <2>2. ToPost' = ToPost /\ Gather(now)' = Gather(now) /\ Found(now)' = Found(now)
    BY <2>1 DEF ToPost, Gather, Found
  <2> QED
    BY <2>1, <2>2, Zenon DEF RepliesInv, InThread
<1> QED
  BY <1>1, <1>2, <1>3, <1>4, <1>5, <1>6 DEF RNext

\* Every reply is in the thread of the comment it answers, and a run posts none
\* twice, for any rows, any patch sets and any number of runs.
THEOREM RepliesInThread == RSpec => []InThread
<1>1. RInit => RepliesInv
  BY RepliesStart
<1>2. RepliesInv /\ [RNext]_rvars => RepliesInv'
  BY ReplyStep
<1>3. RepliesInv => InThread
  BY DEF RepliesInv
<1> QED
  BY <1>1, <1>2, <1>3, PTL DEF RSpec
=============================================================================
