------------------------------ MODULE LfuStream ------------------------------
(***************************************************************************)
(* What /dev/lfu_ring promises its reader while it is open: a stream of    *)
(* records in table order, each at most once, received in the order sent,  *)
(* with at most Capacity of them in flight.  Opening the device again      *)
(* starts a new stream.                                                    *)
(***************************************************************************)
EXTENDS Naturals, Sequences

CONSTANTS Capacity, MaxRec

VARIABLES sent, received

streamVars == <<sent, received>>

Init == sent = <<>> /\ received = <<>>

Send ==
    /\ Len(sent) - Len(received) < Capacity
    /\ \E x \in 1 .. MaxRec :
         /\ \A i \in 1 .. Len(sent) : sent[i] < x
         /\ sent' = Append(sent, x)
    /\ UNCHANGED received

Receive ==
    /\ \E n \in 1 .. Len(sent) - Len(received) :
         received' = SubSeq(sent, 1, Len(received) + n)
    /\ UNCHANGED sent

Reopen == sent' = <<>> /\ received' = <<>>

Next == Send \/ Receive \/ Reopen

Spec == Init /\ [][Next]_streamVars

=============================================================================
