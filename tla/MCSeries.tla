------------------------------ MODULE MCSeries ------------------------------
(***************************************************************************)
(* The scripts of docs/rounds for TLC: every table over every commit of    *)
(* its stack, and the drivers, the fork rewrite and the replies on small   *)
(* instances.  The scripts of a round are run by hand, one at a time, and  *)
(* share nothing but the repository and Gerrit; each behaviour follows one *)
(* of them, and the variables of the other three rest.                     *)
(***************************************************************************)
EXTENDS SeriesPass, SeriesDrive, SeriesFork, SeriesReplies

VARIABLE machine    \* "tables", "drive", "fork" or "replies"

vars == <<machine, pvars, dvars, fvars, rvars>>

-----------------------------------------------------------------------------
AllRounds == DOMAIN RoundOf

(* Two files, one of which the edit is for from the second commit on.      *)
TwoFiles == {"a", "b"}
Later == [p \in Paths |-> IF p = "b" THEN 2 ELSE 1]
Text(x, y, z) == [p \in Paths |-> IF p = "a" THEN x ELSE IF p = "b" THEN y ELSE z]
FourTexts == {Text("old", "none", "none"), Text("none", "old", "old"),
              Text("new", "none", "none"), Text("none", "dup", "none")}

(* A trunk, a branch that leaves it above 68288, and one that leaves it    *)
(* below, at START.                                                        *)
ThreeBranches == {"trunk", "above", "below"}
IdsOf(b) == CASE b = "trunk" -> <<1, 2, 3, 4>>
              [] b = "above" -> <<1, 2, 3, 5>>
              [] b = "below" -> <<1, 2, 6>>
TextOf(id, x) == CASE id = 1 -> "old"
                   [] id = 2 -> x[1]
                   [] id = 3 -> x[2]
                   [] id = 4 -> x[3]
                   [] id = 5 -> "none"
                   [] id = 6 -> "old288"
SomeForks ==
  {[b \in ThreeBranches |->
      [j \in 1 .. Len(IdsOf(b)) |->
         [id |-> IdsOf(b)[j], text |-> TextOf(IdsOf(b)[j], x)]]] :
     x \in {"old", "none"} \X {"old", "old288"} \X {"old288", "dup"}}
OnePush == {[id |-> 9, text |-> "old"]}

(* Two changes with two replies each.                                      *)
FourRows == {[change |-> 1, cid |-> "a"], [change |-> 1, cid |-> "b"],
             [change |-> 2, cid |-> "c"], [change |-> 2, cid |-> "d"]}
AtMostOne == {{}} \cup {{row.cid} : row \in FourRows}
AllOrOne == {{1, 2}, {1}, {2}}

-----------------------------------------------------------------------------
PIdle ==
  /\ round = "" /\ at = 0 /\ twist = Untwisted /\ disk = <<>> /\ mem = <<>>
  /\ k = 0 /\ pass = 0 /\ applied = {} /\ failed = {} /\ status = "idle"

DIdle ==
  /\ tool = "" /\ src = <<>> /\ pc = "idle" /\ i = 0 /\ wt = <<>>
  /\ todo = {} /\ out = <<>> /\ prev = <<>> /\ dry = FALSE /\ fail = FALSE
  /\ last = <<>> /\ runs = 0 /\ tips = {}

FIdle ==
  /\ script = "forktx" /\ heads = [b \in Branches |-> NoCommit] /\ drefs = heads
  /\ R288 = NoCommit /\ fpc = "idle" /\ start = NoCommit /\ fdry = FALSE
  /\ seen = heads /\ order = {} /\ newof = [c \in {} |-> NoCommit]
  /\ upd = {} /\ turn = {} /\ got = NoCommit /\ calls = 0 /\ moves = 0
  /\ moved = {} /\ first = heads /\ work = heads

RIdle ==
  /\ on = <<>> /\ gone = {} /\ rpc = "idle" /\ rdry = FALSE /\ rest = {}
  /\ now = 0 /\ byps = <<>> /\ pend = {} /\ posts = 0 /\ asked = {}

Init ==
  \/ machine = "tables" /\ PInit /\ DIdle /\ FIdle /\ RIdle
  \/ machine = "drive" /\ PIdle /\ DInit /\ FIdle /\ RIdle
  \/ machine = "fork" /\ PIdle /\ DIdle /\ FInit /\ RIdle
  \/ machine = "replies" /\ PIdle /\ DIdle /\ FIdle /\ RInit

Ended ==
  \/ machine = "tables" /\ status = "raised"
  \/ machine = "tables" /\ status = "done" /\ (pass = 2 \/ failed # {})
  \/ machine = "drive" /\ pc = "idle" /\ runs = MaxRuns
  \/ machine = "fork" /\ fpc \in {"died", "finished"} /\ calls = MaxCalls
  \/ machine = "replies" /\ rpc = "idle" /\ posts = MaxPosts

Next ==
  \/ machine = "tables" /\ PNext /\ UNCHANGED <<machine, dvars, fvars, rvars>>
  \/ machine = "drive" /\ DNext /\ UNCHANGED <<machine, pvars, fvars, rvars>>
  \/ machine = "fork" /\ FNext /\ UNCHANGED <<machine, pvars, dvars, rvars>>
  \/ machine = "replies" /\ RNext /\ UNCHANGED <<machine, pvars, dvars, fvars>>
  \/ Ended /\ UNCHANGED vars

Spec == Init /\ [][Next]_vars
=============================================================================
