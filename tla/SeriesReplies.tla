---------------------------- MODULE SeriesReplies ----------------------------
(***************************************************************************)
(* post_replies.py of the rounds a-1007 to a-1019: the round's replies go  *)
(* to Gerrit, each into the thread it answers.  For one change after the   *)
(* other the script fetches the change's comments, looks up the comment    *)
(* each reply answers (an id that is not there is a KeyError and ends the  *)
(* script), gathers the replies by the patch set of those comments, and    *)
(* makes one "gerrit review" call for each patch set.  A call's exit       *)
(* status is printed and nothing else.                                     *)
(***************************************************************************)
EXTENDS Naturals

CONSTANTS
  Rows,       \* R: the replies, as records of a change and a comment id
  PatchSets,  \* the patch sets of a change
  Missing,    \* sets of comment ids that Gerrit may not know
  Onlys,      \* the ONLY sets, and all changes
  MaxPosts    \* bound on the runs of the script

Cids == {row.cid : row \in Rows}
Changes == {row.change : row \in Rows}

ASSUME ReplyAssumption ==
  /\ Changes \subseteq Nat /\ PatchSets \subseteq Nat
  /\ Onlys \subseteq SUBSET Changes
  /\ MaxPosts \in Nat

VARIABLES
  on,       \* on[cid]: the patch set its comment is on
  gone,     \* the ids Gerrit does not know
  rpc,      \* "idle", "change" or "post"
  rdry,     \* --dry, or DRY=1
  rest,     \* the changes still to do
  now,      \* the change of this turn
  byps,     \* byps[ps]: the replies of this turn on patch set ps
  pend,     \* the patch sets of byps still to post
  posts,    \* runs of the script
  asked     \* what Gerrit got: the reply, the change, the patch set, the run

rvars == <<on, gone, rpc, rdry, rest, now, byps, pend, posts, asked>>

Least(S) == CHOOSE x \in S : \A y \in S : x <= y

-----------------------------------------------------------------------------
RInit ==
  /\ on \in [Cids -> PatchSets]
  /\ gone \in Missing
  /\ rpc = "idle"
  /\ rdry = FALSE
  /\ rest = {}
  /\ now = 0
  /\ byps = [ps \in PatchSets |-> {}]
  /\ pend = {}
  /\ posts = 0
  /\ asked = {}

Run ==
  /\ rpc = "idle"
  /\ posts < MaxPosts
  /\ posts' = posts + 1
  /\ rdry' \in BOOLEAN
  /\ rest' \in Onlys
  /\ rpc' = "change"
  /\ UNCHANGED <<on, gone, now, byps, pend, asked>>

\* Mutant: all of them on the latest patch set.
GatherLast(n) ==
  LET cur == CHOOSE p \in PatchSets : \A q \in PatchSets : q <= p
  IN  [ps \in PatchSets |-> {row \in Rows : row.change = n /\ ps = cur}]

\* The replies of change n, by the patch set of the comment they answer.
Gather(n) ==
  [ps \in PatchSets |-> {row \in Rows : row.change = n /\ on[row.cid] = ps}]

\* Every reply of change n answers a comment Gerrit knows.
Found(n) == \A row \in Rows : row.change = n => row.cid \notin gone

\* The next change in order.
NextChange ==
  /\ rpc = "change"
  /\ rest # {}
  /\ Found(Least(rest))
  /\ now' = Least(rest)
  /\ rest' = rest \ {now'}
  /\ byps' = Gather(now')
  /\ pend' = {ps \in PatchSets : byps'[ps] # {}}
  /\ rpc' = "post"
  /\ UNCHANGED <<on, gone, rdry, posts, asked>>

\* The fetch fails, or an id is not among the comments: the script ends.
LookupFails ==
  /\ rpc = "change"
  /\ rest # {}
  /\ rpc' = "idle"
  /\ UNCHANGED <<on, gone, rdry, rest, now, byps, pend, posts, asked>>

\* One call, for the next patch set in order.  Gerrit takes it or not; that
\* the script sees which of the two changes nothing.
Post ==
  /\ rpc = "post"
  /\ pend # {}
  /\ LET ps == Least(pend)
     IN  /\ pend' = pend \ {ps}
         /\ \/ /\ ~rdry
               /\ asked' = asked \cup
                    {[row |-> x, change |-> now, ps |-> ps, run |-> posts] :
                       x \in byps[ps]}
            \/ UNCHANGED asked
  /\ UNCHANGED <<on, gone, rpc, rdry, rest, now, byps, posts>>

ChangeDone ==
  /\ rpc = "post"
  /\ pend = {}
  /\ rpc' = "change"
  /\ UNCHANGED <<on, gone, rdry, rest, now, byps, pend, posts, asked>>

RunDone ==
  /\ rpc = "change"
  /\ rest = {}
  /\ rpc' = "idle"
  /\ UNCHANGED <<on, gone, rdry, rest, now, byps, pend, posts, asked>>

\* The script is killed.
KillPost ==
  /\ rpc # "idle"
  /\ rpc' = "idle"
  /\ UNCHANGED <<on, gone, rdry, rest, now, byps, pend, posts, asked>>

RNext ==
  \/ Run \/ NextChange \/ LookupFails \/ Post \/ ChangeDone \/ RunDone
  \/ KillPost

RSpec == RInit /\ [][RNext]_rvars

-----------------------------------------------------------------------------
(***************************************************************************)
(* Properties.                                                             *)
(***************************************************************************)
\* The replies that this run may still post.
ToPost ==
  {row \in Rows : \/ row.change \in rest
                  \/ rpc = "post" /\ row.change = now /\ on[row.cid] \in pend}

\* post_replies.py: "on the patch set each root comment is on, so its line and
\* range still fit".  Every reply Gerrit gets is for the change and the patch
\* set of the comment it answers, however many runs were cut short before and
\* whatever Gerrit answered; a run posts none of its replies again; and a
\* change with an id that is wrong gets no reply, rather than some of them.
InThread ==
  /\ \A a \in asked : a.change = a.row.change /\ a.ps = on[a.row.cid]
  /\ rpc # "idle" => \A a \in asked : a.run = posts => a.row \notin ToPost
  /\ \A a \in asked : \A row \in Rows : row.change = a.change => row.cid \notin gone

-----------------------------------------------------------------------------
(***************************************************************************)
(* Why it holds: an inductive invariant.                                   *)
(***************************************************************************)
\* The turn at hand: its replies are gathered from the comments Gerrit knows,
\* its change is done with, and no run of the future has posted yet.
RepliesInv ==
  /\ rpc \in {"idle", "change", "post"}
  /\ posts \in Nat
  /\ rest \subseteq Changes
  /\ \A a \in asked : a.row \in Rows /\ a.run \in Nat /\ a.run <= posts
  /\ rpc = "post" =>
       /\ byps = Gather(now) /\ Found(now)
       /\ now \notin rest
       /\ pend \subseteq PatchSets
  /\ InThread
=============================================================================
