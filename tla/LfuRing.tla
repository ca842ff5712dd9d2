------------------------------- MODULE LfuRing -------------------------------
(***************************************************************************)
(* The data plane of the lfu_ring kernel module (src/src/kernel/lfu_ring.c):*)
(* one enumerator kthread writes the objects its filter passes into a      *)
(* single-producer single-consumer ring, and read() copies them out.       *)
(*                                                                         *)
(* A step is one access to state the other side can see.  Sleeping follows *)
(* wait_event(): queue oneself, test the condition, then sleep until a     *)
(* wake-up takes one off the queue.  The object a record describes is its  *)
(* position in the table; what the filter makes of it is a choice.         *)
(***************************************************************************)
EXTENDS Integers, Sequences

CONSTANTS RingRecs,  \* module parameter ring_recs
          Batch,     \* module parameter batch
          FilterChoices,  \* the filters a user may set
          MaxObjs,   \* bound: objects in the table
          MaxWant    \* bound: records one read() asks for

\* lfu_ring_init() refuses every other setting.  That ring_recs is a power of
\* two only makes the mask a modulus, which is how slots are indexed here.
ASSUME RingAssumption ==
    /\ RingRecs \in Nat \ {0}
    /\ Batch \in Nat \ {0}
    /\ 2 * Batch <= RingRecs

VARIABLES
    opened,     \* lfu_open_cnt = 1 and the ring is allocated
    tableLen,   \* objects the OSD iterator will present
    filter,     \* r->filter and r->emit_unknown
    started, stop, done, err,    \* r->started, kthread_should_stop(), r->done, r->err
    buf, head, tail, lastWake,   \* r->buf, r->head, r->tail, r->last_wake
    st,         \* r->st, the counters a property is about
    ppc, pos, rc, rc2,           \* the producer: control, iterator, locals
    rpc, want, avail, got, ret,  \* the reader: control, locals, last result
    sig,        \* a signal is pending on the reader
    prodQ, consQ,                \* queued on wq_prod / wq_cons, not yet woken
    matched,    \* history: objects the filter passed, in table order
    delivered   \* history: records read() handed out

prodLocals == <<pos, rc, rc2, st>>
prodVars == <<ppc, prodLocals>>
readLocals == <<want, avail, got, ret, sig>>
readVars == <<rpc, readLocals>>
ringVars == <<buf, head, tail, lastWake>>
ctlVars  == <<opened, tableLen, filter, started, stop>>
ends == <<done, err>>
queues == <<prodQ, consQ>>
hist == <<matched, delivered>>
vars == <<prodVars, readVars, ringVars, ctlVars, ends, queues, hist>>

Slots == 0 .. RingRecs - 1
NoFilter == [set |-> FALSE, needs |-> FALSE, emitUnknown |-> FALSE]
Filters == [set : {TRUE}, needs : BOOLEAN, emitUnknown : BOOLEAN]
ZeroStats == [seen |-> 0, filtered0 |-> 0, filtered1 |-> 0, unknown |-> 0, emitted |-> 0]

ASSUME BoundAssumption ==
    MaxObjs \in Nat /\ MaxWant \in Nat \ {0} /\ FilterChoices \subseteq Filters

ENOENT == -2
EOPNOTSUPP == -95

ProdStates == {"none", "created", "loop", "push", "prep", "test", "sleep", "fill",
               "publish", "batch", "next", "finish", "setdone", "wakeall", "parked",
               "exited"}
ReadStates == {"idle", "avail", "done", "prep", "test", "sleep", "copy", "advance",
               "wake", "closing"}
Results == {"none", "data", "eof", "err", "eintr", "efault", "refused"}

Min2(a, b) == IF a <= b THEN a ELSE b
ring_avail == head - tail

\* Mutant: one slot too many reported free.
ring_freeMut == RingRecs - (head - tail) + 1

ring_free == RingRecs - (head - tail)

Init ==
    /\ opened = FALSE /\ tableLen = 0 /\ filter = NoFilter
    /\ started = FALSE /\ stop = FALSE /\ done = FALSE /\ err = 0
    /\ buf = [i \in Slots |-> 0] /\ head = 0 /\ tail = 0 /\ lastWake = 0
    /\ st = ZeroStats
    /\ ppc = "none" /\ pos = 0 /\ rc = 0 /\ rc2 = 0
    /\ rpc = "idle" /\ want = 0 /\ avail = 0 /\ got = <<>> /\ ret = "none" /\ sig = FALSE
    /\ prodQ = FALSE /\ consQ = FALSE
    /\ matched = <<>> /\ delivered = <<>>

-----------------------------------------------------------------------------
(* The file operations other than read().                                  *)

\* open(): a zeroed ring over whatever table the target now holds.
Open ==
    /\ ~opened /\ rpc = "idle"
    /\ opened' = TRUE
    /\ tableLen' \in 0 .. MaxObjs
    /\ filter' = NoFilter
    /\ started' = FALSE /\ stop' = FALSE /\ done' = FALSE /\ err' = 0
    /\ buf' = [i \in Slots |-> 0] /\ head' = 0 /\ tail' = 0 /\ lastWake' = 0
    /\ st' = ZeroStats
    /\ ppc' = "none" /\ pos' = 0 /\ rc' = 0 /\ rc2' = 0
    /\ prodQ' = FALSE /\ consQ' = FALSE
    /\ matched' = <<>> /\ delivered' = <<>>
    /\ ret' = "none"
    /\ UNCHANGED <<rpc, want, avail, got, sig>>

\* SET_FILTER: refused once the scan has begun, and for a payload that does
\* not validate or asks what the OSD cannot answer; otherwise it replaces
\* the filter.
SetFilter ==
    /\ opened /\ rpc = "idle"
    /\ \/ ret' = "refused" /\ UNCHANGED filter
       \/ ~started /\ filter' \in FilterChoices /\ ret' = "none"
    /\ UNCHANGED <<opened, tableLen, started, stop, prodVars, rpc, want, avail,
                   got, sig, ringVars, ends, queues, hist>>

\* release(): kthread_stop() raises the flag and wakes the producer ...
Close ==
    /\ opened /\ rpc = "idle"
    /\ rpc' = "closing"
    /\ stop' = (ppc # "none")
    /\ prodQ' = FALSE
    /\ UNCHANGED <<opened, tableLen, filter, started, prodVars, readLocals,
                   ringVars, ends, consQ, hist>>

\* ... and returns when it has exited; only then is the ring freed.
CloseDone ==
    /\ rpc = "closing"
    /\ ppc \in {"none", "exited"}
    /\ rpc' = "idle" /\ opened' = FALSE
    /\ UNCHANGED <<tableLen, filter, started, stop, prodVars, readLocals,
                   ringVars, ends, queues, hist>>

-----------------------------------------------------------------------------
(* read().                                                                 *)

\* Entry: a request for no whole record is refused; the first call creates
\* the enumerator, which may fail and leave started unset.
ReadCall ==
    /\ opened /\ rpc = "idle"
    /\ \/ /\ ret' = "refused"
          /\ UNCHANGED <<rpc, want, started, ppc>>
       \/ /\ want' \in 1 .. MaxWant
          /\ rpc' = "avail"
          /\ started' = TRUE
          /\ ppc' = IF started THEN ppc ELSE "created"
          /\ UNCHANGED ret
    /\ UNCHANGED <<opened, tableLen, filter, stop, prodLocals, avail, got,
                   sig, ringVars, ends, queues, hist>>

ReadAvail ==
    /\ rpc = "avail"
    /\ avail' = ring_avail
    /\ rpc' = IF ring_avail > 0 THEN "copy" ELSE "done"
    /\ UNCHANGED <<want, got, ret, sig, prodVars, ringVars, ctlVars, ends, queues, hist>>

\* The ring was empty a moment ago: end of stream if the producer is done.
ReadDone ==
    /\ rpc = "done"
    /\ IF done THEN /\ rpc' = "idle" /\ want' = 0
                    /\ ret' = IF err # 0 THEN "err" ELSE "eof"
               ELSE rpc' = "prep" /\ UNCHANGED <<want, ret>>
    /\ UNCHANGED <<avail, got, sig, prodVars, ringVars, ctlVars, ends, queues, hist>>

\* wait_event_interruptible(wq_cons, avail > 0 || done)
ReadPrep ==
    /\ rpc = "prep"
    /\ consQ' = TRUE /\ rpc' = "test"
    /\ UNCHANGED <<readLocals, prodVars, ringVars, ctlVars, ends, prodQ, hist>>

ReadTest ==
    /\ rpc = "test"
    /\ \/ /\ ring_avail > 0 \/ done
          /\ rpc' = "avail" /\ consQ' = FALSE
          /\ UNCHANGED <<want, ret, sig>>
       \/ /\ ~(ring_avail > 0 \/ done) /\ sig
          /\ rpc' = "idle" /\ want' = 0 /\ ret' = "eintr" /\ sig' = FALSE /\ consQ' = FALSE
       \/ /\ ~(ring_avail > 0 \/ done) /\ ~sig
          /\ rpc' = "sleep"
          /\ UNCHANGED <<want, ret, sig, consQ>>
    /\ UNCHANGED <<avail, got, prodVars, ringVars, ctlVars, ends, prodQ, hist>>

ReadWoken ==
    /\ rpc = "sleep" /\ ~consQ
    /\ rpc' = "prep"
    /\ UNCHANGED <<readLocals, prodVars, ringVars, ctlVars, ends, queues, hist>>

\* A signal makes a waiting reader runnable.
Signal ==
    /\ rpc = "sleep" /\ ~sig
    /\ sig' = TRUE /\ consQ' = FALSE
    /\ UNCHANGED <<rpc, want, avail, got, ret, prodVars,
                   ringVars, ctlVars, ends, prodQ, hist>>

\* One contiguous run, capped at the wrap point, or a fault that leaves the
\* tail where it was.
ReadCopy ==
    /\ rpc = "copy"
    /\ LET idx == tail % RingRecs
           run == Min2(Min2(avail, want), RingRecs - idx)
       IN  \/ /\ got' = [k \in 1 .. run |-> buf[idx + k - 1]]
              /\ rpc' = "advance"
              /\ UNCHANGED <<want, avail, ret>>
           \/ rpc' = "idle" /\ want' = 0 /\ avail' = 0 /\ ret' = "efault" /\ UNCHANGED got
    /\ UNCHANGED <<sig, prodVars, ringVars, ctlVars, ends, queues, hist>>

\* Mutant: the tail moves past what was available, not what was copied.
ReadAdvanceMut ==
    /\ rpc = "advance"
    /\ tail' = tail + avail
    /\ delivered' = delivered \o got
    /\ rpc' = "wake"
    /\ UNCHANGED <<readLocals, prodVars, buf, head, lastWake,
                   ctlVars, ends, queues, matched>>

ReadAdvance ==
    /\ rpc = "advance"
    /\ tail' = tail + Len(got)
    /\ delivered' = delivered \o got
    /\ rpc' = "wake"
    /\ UNCHANGED <<readLocals, prodVars, buf, head, lastWake,
                   ctlVars, ends, queues, matched>>

ReadReturn ==
    /\ rpc = "wake"
    /\ prodQ' = (prodQ /\ ring_free < Batch)
    /\ rpc' = "idle" /\ want' = 0 /\ avail' = 0 /\ got' = <<>> /\ ret' = "data"
    /\ UNCHANGED <<sig, prodVars, ringVars, ctlVars, ends, consQ, hist>>

-----------------------------------------------------------------------------
(* lfu_producer().                                                         *)

\* kthread_stop() on a thread that never ran: its function is not called.
ProdNeverRan ==
    /\ ppc = "created" /\ stop
    /\ ppc' = "exited"
    /\ UNCHANGED <<prodLocals, readVars, ringVars, ctlVars, ends, queues, hist>>

\* Device, environment, iterator and load(): any may fail; an empty table is
\* the end of the scan already.
ProdSetup ==
    /\ ppc = "created" /\ ~stop
    /\ \/ rc' = ENOENT /\ ppc' = "finish" /\ UNCHANGED pos
       \/ tableLen = 0 /\ ppc' = "finish" /\ UNCHANGED <<rc, pos>>
       \/ tableLen > 0 /\ pos' = 1 /\ ppc' = "loop" /\ UNCHANGED rc
    /\ UNCHANGED <<rc2, st, readVars, ringVars, ctlVars, ends, queues, hist>>

\* What lfu_filter_object() can answer under the filter in force.
Verdicts ==
    IF ~filter.set THEN {"match"}
    ELSE {"match", "filtered0"} \union
         IF filter.needs THEN {"filtered1", "unknown", "notsupp"} ELSE {}

\* The counters after an object with verdict m.
Counted(m) ==
    [seen |-> st.seen + 1,
     filtered0 |-> IF m = "filtered0" THEN st.filtered0 + 1 ELSE st.filtered0,
     filtered1 |-> IF m = "filtered1" THEN st.filtered1 + 1 ELSE st.filtered1,
     unknown |-> IF m = "unknown" THEN st.unknown + 1 ELSE st.unknown,
     emitted |-> st.emitted]

\* One object: rec() fails and the object is passed over, or it is counted
\* and filtered; an xattr the OSD cannot serve ends the scan.
ProdObject ==
    /\ ppc = "loop"
    /\ \/ /\ stop
          /\ ppc' = "finish" /\ UNCHANGED <<rc, rc2, st, matched>>
       \/ /\ ~stop
          /\ rc2' = -1 /\ ppc' = "next" /\ UNCHANGED <<rc, st, matched>>
       \/ /\ ~stop
          /\ rc2' = 0
          /\ \E m \in Verdicts :
               LET push == m = "match" \/ (m = "unknown" /\ filter.emitUnknown)
               IN  /\ st' = Counted(m)
                   /\ matched' = IF push THEN Append(matched, pos) ELSE matched
                   /\ rc' = IF m = "notsupp" THEN EOPNOTSUPP ELSE rc
                   /\ ppc' = IF push THEN "push"
                             ELSE IF m = "notsupp" THEN "finish" ELSE "next"
    /\ UNCHANGED <<pos, readVars, ringVars, ctlVars, ends, queues, delivered>>

\* while (free == 0): wake the reader and wait for a batch of free slots.
ProdPush ==
    /\ ppc = "push"
    /\ IF ring_free = 0 THEN ppc' = "prep" /\ consQ' = FALSE
                        ELSE ppc' = "fill" /\ UNCHANGED consQ
    /\ UNCHANGED <<prodLocals, readVars, ringVars, ctlVars, ends, prodQ, hist>>

ProdPrep ==
    /\ ppc = "prep"
    /\ prodQ' = TRUE /\ ppc' = "test"
    /\ UNCHANGED <<prodLocals, readVars, ringVars, ctlVars, ends, consQ, hist>>

\* Mutant: the wait does not watch kthread_should_stop().
ProdTestMut ==
    /\ ppc = "test"
    /\ IF ring_free >= Batch THEN prodQ' = FALSE /\ ppc' = "push"
                             ELSE ppc' = "sleep" /\ UNCHANGED prodQ
    /\ UNCHANGED <<prodLocals, readVars, ringVars, ctlVars, ends, consQ, hist>>

ProdTest ==
    /\ ppc = "test"
    /\ IF ring_free >= Batch \/ stop
       THEN prodQ' = FALSE /\ ppc' = (IF stop THEN "finish" ELSE "push")
       ELSE ppc' = "sleep" /\ UNCHANGED prodQ
    /\ UNCHANGED <<prodLocals, readVars, ringVars, ctlVars, ends, consQ, hist>>

ProdWoken ==
    /\ ppc = "sleep" /\ ~prodQ
    /\ ppc' = "prep"
    /\ UNCHANGED <<prodLocals, readVars, ringVars, ctlVars, ends, queues, hist>>

ProdFill ==
    /\ ppc = "fill"
    /\ buf' = [buf EXCEPT ![head % RingRecs] = pos]
    /\ ppc' = "publish"
    /\ UNCHANGED <<prodLocals, readVars, head, tail, lastWake,
                   ctlVars, ends, queues, hist>>

ProdPublish ==
    /\ ppc = "publish"
    /\ head' = head + 1
    /\ st' = [st EXCEPT !.emitted = @ + 1]
    /\ ppc' = "batch"
    /\ UNCHANGED <<pos, rc, rc2, readVars, buf, tail,
                   lastWake, ctlVars, ends, queues, hist>>

ProdBatch ==
    /\ ppc = "batch"
    /\ IF head - lastWake >= Batch THEN lastWake' = head /\ consQ' = FALSE
                                   ELSE UNCHANGED <<lastWake, consQ>>
    /\ ppc' = "next"
    /\ UNCHANGED <<prodLocals, readVars, buf, head, tail, ctlVars, ends, prodQ, hist>>

\* next(): the following object, the end of the table, or an error.
ProdNext ==
    /\ ppc = "next"
    /\ \/ pos < tableLen /\ pos' = pos + 1 /\ rc2' = 0 /\ ppc' = "loop"
       \/ pos = tableLen /\ rc2' = 1 /\ ppc' = "finish" /\ UNCHANGED pos
       \/ rc2' = -1 /\ ppc' = "finish" /\ UNCHANGED pos
    /\ UNCHANGED <<rc, st, readVars, ringVars, ctlVars, ends, queues, hist>>

ProdFinish ==
    /\ ppc = "finish"
    /\ err' = rc /\ ppc' = "setdone"
    /\ UNCHANGED <<prodLocals, readVars, ringVars, ctlVars, done, queues, hist>>

ProdSetDone ==
    /\ ppc = "setdone"
    /\ done' = TRUE /\ ppc' = "wakeall"
    /\ UNCHANGED <<prodLocals, readVars, ringVars, ctlVars, err, queues, hist>>

\* Mutant: the end of the scan wakes nobody.
ProdWakeAllMut ==
    /\ ppc = "wakeall"
    /\ ppc' = "parked"
    /\ UNCHANGED <<prodLocals, readVars, ringVars, ctlVars, ends, queues, hist>>

ProdWakeAll ==
    /\ ppc = "wakeall"
    /\ consQ' = FALSE /\ ppc' = "parked"
    /\ UNCHANGED <<prodLocals, readVars, ringVars, ctlVars, ends, prodQ, hist>>

ProdExit ==
    /\ ppc = "parked" /\ stop
    /\ ppc' = "exited"
    /\ UNCHANGED <<prodLocals, readVars, ringVars, ctlVars, ends, queues, hist>>

-----------------------------------------------------------------------------
User == Open \/ SetFilter \/ Close \/ ReadCall \/ Signal

\* The steps of read() and release() once the call is made.
Reader ==
    \/ ReadAvail \/ ReadDone \/ ReadPrep \/ ReadTest \/ ReadWoken
    \/ ReadCopy \/ ReadAdvance \/ ReadReturn \/ CloseDone

Producer ==
    \/ ProdNeverRan \/ ProdSetup \/ ProdObject \/ ProdPush \/ ProdPrep \/ ProdTest
    \/ ProdWoken \/ ProdFill \/ ProdPublish \/ ProdBatch \/ ProdNext
    \/ ProdFinish \/ ProdSetDone \/ ProdWakeAll \/ ProdExit

Next == User \/ Reader \/ Producer

Spec == Init /\ [][Next]_vars

\* The kernel runs a runnable task; nothing obliges the user to call.
FairSpec == Spec /\ WF_vars(Reader) /\ WF_vars(Producer)

-----------------------------------------------------------------------------
(* Properties.                                                             *)

CtlType ==
    /\ opened \in BOOLEAN /\ started \in BOOLEAN /\ stop \in BOOLEAN
    /\ tableLen \in 0 .. MaxObjs /\ filter \in {NoFilter} \union Filters
RingType ==
    /\ buf \in [Slots -> 0 .. MaxObjs]
    /\ head \in Nat /\ tail \in Nat /\ lastWake \in Nat
ProdType ==
    /\ ppc \in ProdStates /\ pos \in 0 .. MaxObjs /\ rc2 \in {-1, 0, 1}
    /\ rc \in {0, ENOENT, EOPNOTSUPP} /\ err \in {0, ENOENT, EOPNOTSUPP}
    /\ st \in [seen : Nat, filtered0 : Nat, filtered1 : Nat, unknown : Nat, emitted : Nat]
ReadType ==
    /\ rpc \in ReadStates /\ want \in 0 .. MaxWant /\ avail \in Nat
    /\ got \in Seq(0 .. MaxObjs) /\ ret \in Results
FlagType ==
    /\ done \in BOOLEAN /\ sig \in BOOLEAN /\ prodQ \in BOOLEAN /\ consQ \in BOOLEAN
HistType == matched \in Seq(0 .. MaxObjs) /\ delivered \in Seq(0 .. MaxObjs)

\* Type invariant of the ring, the producer and the reader.
TypeOK == CtlType /\ RingType /\ ProdType /\ ReadType /\ FlagType /\ HistType

\* A record between the filter's verdict and its publication.
Pushing == ppc \in {"push", "prep", "test", "sleep", "fill", "publish"}

\* The cursors never cross and never lap: what read() may copy and what the
\* producer may fill stay disjoint (lfu_ring_avail(), lfu_ring_free()).
RingBounded == tail <= head /\ head - tail <= RingRecs

\* What read() has handed out is exactly the first objects the filter passed:
\* no gap, no duplicate, no reordering and no overwritten slot, whatever the
\* wrap point, the request sizes and the stalls.
DeliveredIsPrefix ==
    /\ Len(delivered) <= Len(matched)
    /\ \A i \in 1 .. Len(delivered) : delivered[i] = matched[i]

\* "STALL, never drop": unless it is being stopped, a producer past an object
\* has put every object the filter passed into the ring.
NothingDropped == ~stop /\ ~Pushing => head = Len(matched)

\* The batched wake-ups never leave both sides asleep: the producer sleeping
\* on a full ring and the reader sleeping on an empty one.
NoMutualSleep == ~(ppc = "sleep" /\ prodQ /\ rpc = "sleep" /\ consQ)

\* lfu_ring_release() frees the ring only when no producer can touch it.
FreedAfterExit == ~opened => ppc \in {"none", "exited"}

\* No step of the producer changes a published slot the reader has still to
\* read (lfu_fill_rec() against copy_to_user()).
NoOverwrite ==
    [][opened /\ opened' => \A i \in tail' .. head - 1 :
                                buf'[i % RingRecs] = buf[i % RingRecs]]_vars

\* Every read() returns, without a signal to help it: with a record, with an
\* error or at end of stream.
ReadReturns == rpc = "avail" ~> rpc = "idle"

\* close() always completes, wherever the producer is when it is stopped.
CloseCompletes == rpc = "closing" ~> ~opened

Stream == INSTANCE LfuStream WITH Capacity <- RingRecs, MaxRec <- MaxObjs,
                                  sent <- SubSeq(matched, 1, head),
                                  received <- delivered

\* The ring implements the abstract stream: publishing the head sends, moving
\* the tail receives, and everything else the two sides do is invisible.
ImplementsStream == Stream!Spec

-----------------------------------------------------------------------------
(* The inductive invariant behind the safety properties.                   *)

\* Producer against history: it exists once started, at most the record being pushed is missing from
\* the ring, a slot being filled is free, and a filled one holds its object.
PushInv ==
    /\ ~started => ppc = "none"
    /\ Len(matched) \in {head, head + 1}
    /\ Pushing => Len(matched) = head + 1 /\ matched[head + 1] = pos
    /\ ppc \in {"none", "created", "loop", "batch", "next"} => Len(matched) = head
    /\ ppc \in {"fill", "publish"} => head - tail < RingRecs
    /\ ppc = "publish" => buf[head % RingRecs] = pos

\* A published slot the reader has still to read holds the object it should.
SlotInv == \A i \in tail .. head - 1 : buf[i % RingRecs] = matched[i + 1]

\* What has been handed out is what the tail has passed.
DeliverInv ==
    /\ Len(delivered) = tail
    /\ \A i \in 1 .. tail : delivered[i] = matched[i]

\* The reader's locals stay true while the producer runs on.
ReadInv ==
    /\ rpc = "copy" => avail <= head - tail
    /\ rpc = "advance" => /\ Len(got) <= head - tail
                          /\ \A k \in 1 .. Len(got) : got[k] = matched[tail + k]

\* Every safety property of the ring follows from this.
RingInv ==
    TypeOK /\ RingBounded /\ NothingDropped /\ PushInv /\ SlotInv /\ DeliverInv /\ ReadInv

\* Behind NoMutualSleep: a producer asleep short of a batch is owed a wake-up
\* the reader is about to give, and a reader asleep beside a waiting producer
\* went to sleep on an empty ring.
SleepInv ==
    /\ ppc = "sleep" /\ prodQ => ring_free < Batch \/ rpc = "wake"
    /\ rpc = "sleep" /\ consQ /\ ppc \in {"prep", "test", "sleep"} => head = tail

\* Behind the refinement: the objects passed stand in table order, and the one
\* under the iterator comes after all of them.
OrderInv ==
    /\ ppc \in {"none", "created"} => matched = <<>>
    /\ ppc = "loop" => pos >= 1
    /\ \A i \in 1 .. Len(matched) : matched[i] \in 1 .. (IF ppc = "loop" THEN pos - 1 ELSE pos)
    /\ \A i, j \in 1 .. Len(matched) : i < j => matched[i] < matched[j]

\* The end of a scan: after done nothing of it changes any more, the error
\* is the producer's, and unless an xattr could not be served the counters
\* account for every object looked at.
EndInv ==
    /\ done => ppc \in {"wakeall", "parked", "exited"} /\ err = rc
    /\ ppc \in {"setdone", "wakeall", "parked"} => err = rc
    /\ ~started => st = ZeroStats
    /\ ppc \in {"none", "created"} => rc = 0
    /\ rc = EOPNOTSUPP \/
         st.seen = st.filtered0 + st.filtered1 + Len(matched)
                   + IF filter.emitUnknown THEN 0 ELSE st.unknown

-----------------------------------------------------------------------------
(* What the comments promise and the code does not do.                     *)

\* "EOF when the scan is done and the ring is drained."
EofMeansDrained == opened /\ rpc = "idle" /\ ret = "eof" => head = tail

\* "EOF (read() == 0) means the scan completed": the iterator reached the end
\* of its table.
EofMeansComplete == opened /\ rpc = "idle" /\ ret = "eof" => tableLen = 0 \/ rc2 = 1

=============================================================================
