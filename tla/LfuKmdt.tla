------------------------------- MODULE LfuKmdt -------------------------------
(***************************************************************************)
(* The live-MDT scanner (src/src/lfu_scan_kmdt.c) on top of the kernel     *)
(* ring: one process opens the device, negotiates, sends the filter, reads *)
(* to the end of the stream, fetches the kernel's counters and closes.     *)
(* The system calls it makes are the actions of LfuRing; the steps inside  *)
(* them interleave with the producer as there.                             *)
(*                                                                         *)
(* Each record is shown or hidden by its class (lfu_object()), a choice    *)
(* here; LfuObject has the ladder.                                         *)
(***************************************************************************)
EXTENDS LfuRing

CONSTANTS Limits     \* values of --limit (0: none)

ASSUME KmdtAssumption == Limits \subseteq Nat

VARIABLES
    cpc,       \* where the scanner is
    limit,     \* --limit
    unread,    \* records of the last read() still to be processed
    seen,      \* cx->st->seen
    emitted,   \* the records emitted, in order
    cstop,     \* cx->stop
    summary,   \* the kernel counters folded in, or NoSummary
    status     \* what the process will exit with

client == <<cpc, limit, unread, seen, emitted, cstop, summary, status>>
kvars == <<vars, client>>

NoSummary == [have |-> FALSE, st |-> ZeroStats]

KInit ==
    /\ Init
    /\ cpc = "open" /\ limit \in Limits
    /\ unread = <<>> /\ seen = 0 /\ emitted = <<>> /\ cstop = FALSE
    /\ summary = NoSummary /\ status = 0

KOpen ==
    /\ cpc = "open" /\ Open
    /\ cpc' = "negotiate"
    /\ UNCHANGED <<limit, unread, seen, emitted, cstop, summary, status>>

\* No module, or another reader.
KOpenFails ==
    /\ cpc = "open"
    /\ cpc' = "exit" /\ status' = 1
    /\ UNCHANGED <<vars, limit, unread, seen, emitted, cstop, summary>>

\* lfu_kmdt_negotiate() without a filter sends none.
KNoFilter ==
    /\ cpc = "negotiate"
    /\ cpc' = "read"
    /\ UNCHANGED <<vars, limit, unread, seen, emitted, cstop, summary, status>>

KSetFilter ==
    /\ cpc = "negotiate" /\ SetFilter /\ ret' # "refused"
    /\ cpc' = "read"
    /\ UNCHANGED <<limit, unread, seen, emitted, cstop, summary, status>>

\* INFO does not fit this scanner, the OSD cannot supply a demand, or the
\* ioctl refuses the filter: the target is closed and not scanned.
KRefused ==
    /\ cpc = "negotiate"
    /\ cpc' = "close" /\ status' = 1
    /\ UNCHANGED <<vars, limit, unread, seen, emitted, cstop, summary>>

\* while (!cx->stop): one read() of a whole batch.
KRead ==
    /\ cpc = "read" /\ ~cstop
    /\ ReadCall
    /\ rpc' = "avail" => want' = MaxWant
    /\ cpc' = "reading"
    /\ UNCHANGED <<limit, unread, seen, emitted, cstop, summary, status>>

\* The buffer cannot be allocated.
KNoMemory ==
    /\ cpc = "read" /\ ~started
    /\ cpc' = "close" /\ status' = 1
    /\ UNCHANGED <<vars, limit, unread, seen, emitted, cstop, summary>>

KStopped ==
    /\ cpc = "read" /\ cstop
    /\ cpc' = "stats"
    /\ UNCHANGED <<vars, limit, unread, seen, emitted, cstop, summary, status>>

\* Mutants: an error ends the loop like an end of file; the end of file does
\* not end it.
KReadReturnedLax ==
    /\ cpc = "reading" /\ rpc = "idle"
    /\ unread' = IF ret = "data" THEN SubSeq(delivered, seen + 1, Len(delivered)) ELSE <<>>
    /\ cpc' = CASE ret = "data"  -> "record"
                [] ret = "eintr" -> "read"
                [] OTHER         -> "stats"
    /\ UNCHANGED <<vars, limit, seen, emitted, cstop, summary, status>>
KReadReturnedOn ==
    /\ cpc = "reading" /\ rpc = "idle"
    /\ unread' = IF ret = "data" THEN SubSeq(delivered, seen + 1, Len(delivered)) ELSE <<>>
    /\ cpc' = CASE ret = "data"             -> "record"
                [] ret \in {"eintr", "eof"} -> "read"
                [] OTHER                    -> "close"
    /\ status' = IF ret \in {"data", "eintr", "eof"} THEN status ELSE 1
    /\ UNCHANGED <<vars, limit, seen, emitted, cstop, summary>>

\* What read() returned: EINTR is retried, any other error ends the scan.
KReadReturned ==
    /\ cpc = "reading" /\ rpc = "idle"
    /\ unread' = IF ret = "data" THEN SubSeq(delivered, seen + 1, Len(delivered)) ELSE <<>>
    /\ cpc' = CASE ret = "data"  -> "record"
                [] ret = "eintr" -> "read"
                [] ret = "eof"   -> "stats"
                [] OTHER         -> "close"
    /\ status' = IF ret \in {"data", "eintr", "eof"} THEN status ELSE 1
    /\ UNCHANGED <<vars, limit, seen, emitted, cstop, summary>>

\* lfu_object(): a shown record is emitted and may reach the limit.
Emit(x) ==
    \/ UNCHANGED <<emitted, cstop>>
    \/ /\ emitted' = Append(emitted, x)
       /\ cstop' = (cstop \/ (limit > 0 /\ Len(emitted') >= limit))

\* Mutants: the stop is not looked at within a batch; a record is counted
\* only when it is shown.
KRecordMut ==
    /\ cpc = "record" /\ unread # <<>>
    /\ seen' = seen + 1
    /\ unread' = Tail(unread)
    /\ Emit(Head(unread))
    /\ UNCHANGED <<vars, cpc, limit, summary, status>>
KRecordShown ==
    /\ cpc = "record" /\ unread # <<>> /\ ~cstop
    /\ Emit(Head(unread))
    /\ seen' = Len(emitted')
    /\ unread' = Tail(unread)
    /\ UNCHANGED <<vars, cpc, limit, summary, status>>

KRecord ==
    /\ cpc = "record" /\ unread # <<>> /\ ~cstop
    /\ seen' = seen + 1
    /\ unread' = Tail(unread)
    /\ Emit(Head(unread))
    /\ UNCHANGED <<vars, cpc, limit, summary, status>>

KBatchEnd ==
    /\ cpc = "record" /\ (unread = <<>> \/ cstop)
    /\ cpc' = "read"
    /\ UNCHANGED <<vars, limit, unread, seen, emitted, cstop, summary, status>>

\* Mutant: the counters are asked for and not taken over.
KStatsMut ==
    /\ cpc = "stats"
    /\ summary' = [have |-> TRUE, st |-> [st EXCEPT !.filtered1 = 0]]
    /\ cpc' = "close"
    /\ UNCHANGED <<vars, limit, unread, seen, emitted, cstop, status>>

\* The STATS ioctl, which may fail: then the summary goes without.
KStats ==
    /\ cpc = "stats"
    /\ summary' \in {NoSummary, [have |-> TRUE, st |-> st]}
    /\ cpc' = "close"
    /\ UNCHANGED <<vars, limit, unread, seen, emitted, cstop, status>>

KClose ==
    /\ cpc = "close" /\ Close
    /\ cpc' = "closing"
    /\ UNCHANGED <<limit, unread, seen, emitted, cstop, summary, status>>

KExit ==
    /\ cpc = "closing" /\ ~opened
    /\ cpc' = "exit"
    /\ UNCHANGED <<vars, limit, unread, seen, emitted, cstop, summary, status>>

Client ==
    \/ KOpen \/ KOpenFails \/ KNoFilter \/ KSetFilter \/ KRefused
    \/ KRead \/ KNoMemory \/ KStopped \/ KReadReturned \/ KRecord \/ KBatchEnd
    \/ KStats \/ KClose \/ KExit

Kernel == (Reader \/ Producer) /\ UNCHANGED client

KSignal == Signal /\ UNCHANGED client

\* The process has gone.
Gone == cpc = "exit" /\ UNCHANGED kvars

KNext == Client \/ Kernel \/ KSignal \/ Gone

\* The scheduler runs the scanner, its system calls and the producer.
KSpec ==
    /\ KInit /\ [][KNext]_kvars
    /\ WF_kvars(Client)
    /\ WF_kvars(Reader /\ UNCHANGED client)
    /\ WF_kvars(Producer /\ UNCHANGED client)

-----------------------------------------------------------------------------

\* Records cross from the kernel to the output once and in order: what has
\* been seen and what waits in the batch are exactly what read() delivered,
\* and what is emitted was seen.
StreamAccounted ==
    cpc \in {"read", "record", "stats"} =>
        /\ seen + Len(unread) = Len(delivered)
        /\ \A i \in 1 .. Len(unread) : unread[i] = matched[seen + i]
        /\ \A i, j \in 1 .. Len(emitted) : i < j => emitted[i] < emitted[j]
        /\ \A i \in 1 .. Len(emitted) : \E k \in 1 .. seen : emitted[i] = matched[k]

\* --limit is reached mid-batch and holds to the record; a scan that ends
\* with success short of it has processed all it was given.
LimitHeld ==
    /\ limit > 0 => Len(emitted) <= limit
    /\ cpc = "exit" /\ status = 0 /\ (limit = 0 \/ Len(emitted) < limit)
         => seen = Len(delivered)

\* A scan that exits 0 without having reached --limit ended on a producer
\* that recorded no error, however the signals and the retries fell.
ZeroMeansNoError ==
    cpc = "exit" /\ status = 0 /\ ~cstop => done /\ err = 0

\* The printed summary accounts for every object the kernel walked: rejected
\* by a tier, undecided, or among the records seen.  Excepted are a --limit
\* and an end of stream returned before the ring was drained.
SummaryBalances ==
    cpc = "exit" /\ summary.have /\ ~cstop /\ head = tail =>
        summary.st.seen = summary.st.filtered0 + summary.st.filtered1 + seen
                          + IF filter.emitUnknown THEN 0 ELSE summary.st.unknown

\* The scanner always exits: signals only make it retry, a stalled producer
\* is drained or stopped, and close() returns.
KmdtExits == <>(cpc = "exit")
-----------------------------------------------------------------------------
(* The inductive invariant, on top of RingInv, OrderInv and EndInv.        *)

ClientType ==
    /\ cpc \in {"open", "negotiate", "read", "reading", "record", "stats", "close",
                "closing", "exit"}
    /\ limit \in Nat /\ seen \in Nat /\ status \in {0, 1} /\ cstop \in BOOLEAN
    /\ unread \in Seq(0 .. MaxObjs) /\ emitted \in Seq(0 .. MaxObjs)
    /\ summary.have \in BOOLEAN

\* Which system call the scanner can be in, and when it has failed.
CallInv ==
    /\ rpc \in (CASE cpc = "reading" -> ReadStates \ {"closing"}
                  [] cpc = "closing" -> {"closing", "idle"}
                  [] OTHER -> {"idle"})
    /\ rpc = "closing" => opened
    /\ cpc \notin {"open", "closing", "exit"} => opened /\ ~stop
    /\ cpc \in {"open", "negotiate"} =>
         seen = 0 /\ unread = <<>> /\ delivered = <<>> /\ ~started
    /\ cpc = "open" => ~opened /\ ~done
    /\ cpc \in {"open", "negotiate", "read", "reading", "record", "stats"} =>
         status = 0 /\ ~summary.have
    /\ summary.have => status = 0

\* A call in progress has handed out nothing the scanner has not taken, until
\* it returns data; a scanner that stops early has the rest of its batch.
BatchInv ==
    /\ cpc = "reading" =>
         /\ unread = <<>> /\ ~cstop
         /\ seen <= Len(delivered)
         /\ rpc # "wake" /\ ~(rpc = "idle" /\ ret = "data") => seen = Len(delivered)
    /\ cpc = "read" /\ ~cstop => unread = <<>>
    /\ StreamAccounted

\* Emitted records are records seen, in order, and stop at the limit.
EmitInv ==
    /\ cstop = (limit > 0 /\ Len(emitted) >= limit)
    /\ limit > 0 => Len(emitted) <= limit
    /\ \A i, j \in 1 .. Len(emitted) : i < j => emitted[i] < emitted[j]
    /\ \A i \in 1 .. Len(emitted) : \E k \in 1 .. seen : emitted[i] = matched[k]
    /\ seen <= Len(delivered)

\* A scan that ends without an error and short of the limit has read to the
\* end of a stream whose producer is done, and what it knows stays true.
EofInv ==
    /\ cpc = "reading" /\ rpc = "idle" /\ ret = "eof" => done /\ err = 0
    /\ cpc \in {"stats", "close", "closing", "exit"} /\ status = 0 /\ ~cstop =>
         /\ done /\ err = 0
         /\ seen = Len(delivered) /\ unread = <<>>
         /\ head = Len(matched)
         /\ summary.have => summary.st = st

KmdtInv ==
    /\ RingInv /\ OrderInv /\ EndInv
    /\ ClientType /\ CallInv /\ BatchInv /\ EmitInv /\ EofInv
=============================================================================
