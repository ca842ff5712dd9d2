---------------------------- MODULE LfuKmdtProofs ----------------------------
(***************************************************************************)
(* Proofs about the live-MDT scanner on the ring, for every ring size,     *)
(* batch, table, filter and limit.                                         *)
(***************************************************************************)
EXTENDS LfuKmdt, LfuRingProofs

\* Every step of the scanner and of the kernel is a step of the ring, or none.
LEMMA RingStep == [KNext]_kvars => [Next]_vars
BY DEF KNext, Client, Kernel, KSignal, Gone, kvars, KOpen, KOpenFails, KNoFilter, KSetFilter,
       KRefused, KRead, KNoMemory, KStopped, KReadReturned, KRecord, KBatchEnd, KStats, KClose,
       KExit, Next, User

\* What the producer leaves alone, and what it leaves alone after done.
LEMMA ProdFrame ==
  ASSUME RingInv, EndInv, Producer
  PROVE  /\ UNCHANGED <<rpc, ret, delivered, opened, stop, started, tail, filter>>
         /\ Len(matched') \in Nat /\ Len(matched') >= Len(matched)
         /\ \A i \in 1 .. Len(matched) : matched'[i] = matched[i]
         /\ done => UNCHANGED <<done, err, matched, head, st>>
         /\ ~started => done' = done
<1>1. matched \in Seq(0 .. MaxObjs) /\ Len(matched) \in Nat /\ pos \in 0 .. MaxObjs
      /\ (~started => ppc = "none")
  BY DEF RingInv, TypeOK, HistType, ProdType, PushInv
<1> USE <1>1 DEF EndInv, prodVars, readVars, ringVars, ctlVars, prodLocals, readLocals, ends, queues, hist
<1>2. CASE ProdNeverRan
  BY <1>2 DEF ProdNeverRan
<1>3. CASE ProdSetup
  BY <1>3 DEF ProdSetup
<1>4. CASE ProdObject
  BY <1>4 DEF ProdObject
<1>5. CASE ProdPush
  BY <1>5 DEF ProdPush
<1>6. CASE ProdPrep
  BY <1>6 DEF ProdPrep
<1>7. CASE ProdTest
  BY <1>7 DEF ProdTest
<1>8. CASE ProdWoken
  BY <1>8 DEF ProdWoken
<1>9. CASE ProdFill
  BY <1>9 DEF ProdFill
<1>10. CASE ProdPublish
  BY <1>10 DEF ProdPublish
<1>11. CASE ProdBatch
  BY <1>11 DEF ProdBatch
<1>12. CASE ProdNext
  BY <1>12 DEF ProdNext
<1>13. CASE ProdFinish
  BY <1>13 DEF ProdFinish
<1>14. CASE ProdSetDone
  <2>1. ~done /\ started
    BY <1>14 DEF ProdSetDone
  <2>2. UNCHANGED <<rpc, ret, delivered, opened, stop, started, tail, filter, matched>>
    BY <1>14 DEF ProdSetDone
  <2> QED
    BY <2>1, <2>2
<1>15. CASE ProdWakeAll
  BY <1>15 DEF ProdWakeAll
<1>16. CASE ProdExit
  BY <1>16 DEF ProdExit
<1> QED
  BY <1>2, <1>3, <1>4, <1>5, <1>6, <1>7, <1>8, <1>9, <1>10, <1>11, <1>12, <1>13,
     <1>14, <1>15, <1>16, Zenon
     DEF Producer

\* What the steps inside read() and release() do to what the scanner looks at.
LEMMA ReadFrame ==
  ASSUME RingInv, Reader \/ Signal
  PROVE  /\ UNCHANGED <<matched, head, st, done, err, stop, started, filter>>
         /\ opened' = opened \/ (rpc = "closing" /\ rpc' = "idle" /\ opened' = FALSE)
         /\ rpc' \in ReadStates /\ (rpc' = "closing" => rpc = "closing") /\ rpc # "idle"
         /\ rpc = "closing" => rpc' \in {"closing", "idle"} /\ delivered' = delivered
         /\ delivered' = delivered \/ (rpc = "advance" /\ rpc' = "wake")
         /\ Len(delivered') \in Nat /\ Len(delivered') >= Len(delivered)
         /\ rpc = "wake" => rpc' = "idle" /\ ret' = "data"
         /\ rpc' = "idle" /\ rpc \notin {"wake", "closing"} =>
              ret' \in {"err", "eof", "eintr", "efault"} /\ (ret' = "eof" => done /\ err = 0)
<1>1. delivered \in Seq(0 .. MaxObjs) /\ Len(delivered) \in Nat /\ got \in Seq(0 .. MaxObjs)
      /\ Len(got) \in Nat /\ rpc \in ReadStates
  BY DEF RingInv, TypeOK, HistType, ReadType
<1> USE <1>1 DEF ReadStates, prodVars, readVars, ringVars, ctlVars, prodLocals, readLocals, ends, queues, hist
<1>2. CASE ReadAvail
  BY <1>2 DEF ReadAvail
<1>3. CASE ReadDone
  BY <1>3 DEF ReadDone
<1>4. CASE ReadPrep
  BY <1>4 DEF ReadPrep
<1>5. CASE ReadTest
  BY <1>5 DEF ReadTest
<1>6. CASE ReadWoken
  BY <1>6 DEF ReadWoken
<1>7. CASE ReadCopy
  BY <1>7 DEF ReadCopy
<1>8. CASE ReadAdvance
  BY <1>8 DEF ReadAdvance
<1>9. CASE ReadReturn
  BY <1>9 DEF ReadReturn
<1>10. CASE CloseDone
  BY <1>10 DEF CloseDone
<1>11. CASE Signal
  BY <1>11 DEF Signal
<1> QED
  BY <1>2, <1>3, <1>4, <1>5, <1>6, <1>7, <1>8, <1>9, <1>10, <1>11, Zenon
     DEF Reader

\* What the ring's invariant says of the histories the scanner looks at.
LEMMA RingHistory ==
  ASSUME RingInv
  PROVE  /\ Len(delivered) = tail /\ tail \in Nat /\ head \in Nat /\ tail <= head
         /\ head <= Len(matched) /\ Len(matched) \in Nat
         /\ delivered \in Seq(0 .. MaxObjs) /\ matched \in Seq(0 .. MaxObjs)
         /\ \A i \in 1 .. Len(delivered) : delivered[i] = matched[i]
         /\ rpc \in ReadStates /\ ret \in Results
BY RingFacts DEF RingInv, DeliverInv, TypeOK, ReadType

\* The types of the scanner's variables.
LEMMA ClientTypeStep == ASSUME KmdtInv, [KNext]_kvars PROVE ClientType'
<1>1. delivered \in Seq(0 .. MaxObjs) /\ Len(delivered) \in Nat
  BY RingHistory DEF KmdtInv
<1>2. ClientType
  BY DEF KmdtInv
<1> USE <1>1, <1>2
<1>3. CASE KOpen
  BY <1>3 DEF ClientType, KOpen, Open
<1>4. CASE KOpenFails
  BY <1>4 DEF ClientType, KOpenFails, vars
<1>5. CASE KNoFilter
  BY <1>5 DEF ClientType, KNoFilter, vars
<1>6. CASE KSetFilter
  BY <1>6 DEF ClientType, KSetFilter, SetFilter
<1>7. CASE KRefused
  BY <1>7 DEF ClientType, KRefused, vars
<1>8. CASE KRead
  BY <1>8 DEF ClientType, KRead, ReadCall
<1>9. CASE KNoMemory
  BY <1>9 DEF ClientType, KNoMemory, vars
<1>10. CASE KStopped
  BY <1>10 DEF ClientType, KStopped, vars
<1>11. CASE KReadReturned
  <2>1. unread' \in Seq(0 .. MaxObjs)
    <3>0. seen \in Nat
      BY DEF ClientType
    <3>1. seen + 1 \in Int /\ \A i \in seen + 1 .. Len(delivered) : delivered[i] \in 0 .. MaxObjs
      <4> SUFFICES ASSUME NEW i \in seen + 1 .. Len(delivered)
                   PROVE  delivered[i] \in 0 .. MaxObjs
        BY <3>0
      <4>1. i \in 1 .. Len(delivered)
        BY <3>0
      <4> QED
        BY <4>1, ElementOfSeq, Zenon
    <3>2. SubSeq(delivered, seen + 1, Len(delivered)) \in Seq(0 .. MaxObjs)
      BY <3>1, SubSeqProperties
    <3> QED
      BY <1>11, <3>2, EmptySeq, Zenon DEF KReadReturned
  <2>2. cpc' \in {"record", "read", "stats", "close"} /\ status' \in {0, 1}
    BY <1>11 DEF KReadReturned, ClientType
  <2> QED
    BY <1>11, <2>1, <2>2 DEF KReadReturned, ClientType
<1>12. CASE KRecord
  <2>1. Head(unread) \in 0 .. MaxObjs /\ Tail(unread) \in Seq(0 .. MaxObjs)
    BY <1>12, HeadTailProperties, Zenon DEF KRecord, ClientType
  <2>2. emitted' \in Seq(0 .. MaxObjs)
    <3>1. emitted \in Seq(0 .. MaxObjs)
      BY DEF ClientType
    <3>2. Append(emitted, Head(unread)) \in Seq(0 .. MaxObjs)
      BY <2>1, <3>1, AppendProperties
    <3> QED
      BY <1>12, <3>1, <3>2, Zenon DEF KRecord, Emit
  <2>3. cstop' \in BOOLEAN
    BY <1>12, Zenon DEF KRecord, Emit, ClientType
  <2> QED
    BY <1>12, <2>1, <2>2, <2>3 DEF KRecord, ClientType
<1>13. CASE KBatchEnd
  BY <1>13 DEF ClientType, KBatchEnd, vars
<1>14. CASE KStats
  <2>0. summary'.have = TRUE \/ summary'.have = FALSE
    BY <1>14 DEF KStats, NoSummary
  <2>1. summary'.have \in BOOLEAN
    BY <2>0, Zenon
  <2> QED
    BY <1>14, <2>1 DEF KStats, ClientType
<1>15. CASE KClose
  BY <1>15 DEF ClientType, KClose, Close
<1>16. CASE KExit
  BY <1>16 DEF ClientType, KExit, vars
<1>17. CASE Producer /\ UNCHANGED client
  BY <1>17 DEF ClientType, client
<1>18. CASE (Reader \/ Signal) /\ UNCHANGED client
  BY <1>18 DEF ClientType, client
<1>19. CASE UNCHANGED kvars
  BY <1>19 DEF ClientType, kvars, vars, client
<1> QED
  BY <1>3, <1>4, <1>5, <1>6, <1>7, <1>8, <1>9, <1>10, <1>11, <1>12, <1>13, <1>14,
     <1>15, <1>16, <1>17, <1>18, <1>19
     DEF KNext, Client, Kernel, KSignal, Gone

\* Which system call the scanner is in.
LEMMA CallStep == ASSUME KmdtInv, [KNext]_kvars PROVE CallInv'
<1>1. RingInv /\ EndInv /\ OrderInv /\ ClientType /\ CallInv
  BY DEF KmdtInv
<1>2. rpc \in ReadStates
  BY <1>1, RingHistory
<1>3. ~started => ppc = "none" /\ ~done
  BY <1>1 DEF RingInv, PushInv, EndInv
<1> USE <1>1, <1>2, <1>3 DEF ReadStates, prodVars, readVars, ringVars, ctlVars, prodLocals, readLocals, ends, queues, hist
<1>4. CASE KOpen
  BY <1>4 DEF CallInv, ClientType, KOpen, Open
<1>5. CASE KOpenFails
  BY <1>5 DEF CallInv, ClientType, KOpenFails, vars
<1>6. CASE KNoFilter
  BY <1>6 DEF CallInv, ClientType, KNoFilter, vars
<1>7. CASE KSetFilter
  BY <1>7 DEF CallInv, ClientType, KSetFilter, SetFilter
<1>8. CASE KRefused
  BY <1>8 DEF CallInv, ClientType, KRefused, vars
<1>9. CASE KRead
  BY <1>9 DEF CallInv, ClientType, KRead, ReadCall
<1>10. CASE KNoMemory
  BY <1>10 DEF CallInv, ClientType, KNoMemory, vars
<1>11. CASE KStopped
  BY <1>11 DEF CallInv, ClientType, KStopped, vars
<1>12. CASE KReadReturned
  BY <1>12 DEF CallInv, ClientType, KReadReturned, vars
<1>13. CASE KRecord
  BY <1>13 DEF CallInv, ClientType, KRecord, Emit, vars
<1>14. CASE KBatchEnd
  BY <1>14 DEF CallInv, ClientType, KBatchEnd, vars
<1>15. CASE KStats
  BY <1>15 DEF CallInv, ClientType, KStats, vars
<1>16. CASE KClose
  BY <1>16 DEF CallInv, ClientType, KClose, Close
<1>17. CASE KExit
  BY <1>17 DEF CallInv, ClientType, KExit, vars
<1>18. CASE Producer /\ UNCHANGED client
  BY <1>18, ProdFrame DEF CallInv, ClientType, client
<1>19. CASE (Reader \/ Signal) /\ UNCHANGED client
  <2>1. cpc' = cpc /\ seen' = seen /\ unread' = unread /\ status' = status /\ summary' = summary
    BY <1>19 DEF client
  <2>2. CASE cpc = "reading"
    <3>0. rpc # "closing" /\ opened /\ ~stop /\ status = 0 /\ ~summary.have
      BY <2>2 DEF CallInv
    <3>1. rpc' \in ReadStates \ {"closing"} /\ opened' /\ ~stop'
      <4>1. opened' = opened /\ stop' = stop
        BY <1>19, <3>0, ReadFrame, Zenon
      <4> QED
        BY <1>19, <3>0, <4>1, ReadFrame
    <3> QED
      BY <2>1, <2>2, <3>0, <3>1 DEF CallInv
  <2>3. CASE cpc = "closing"
    BY <1>19, <2>1, <2>3, ReadFrame, Zenon DEF CallInv
  <2> QED
    BY <1>19, <2>1, <2>2, <2>3, ReadFrame, Zenon DEF CallInv
<1>20. CASE UNCHANGED kvars
  BY <1>20 DEF CallInv, ClientType, kvars, vars, client
<1> QED
  BY <1>4, <1>5, <1>6, <1>7, <1>8, <1>9, <1>10, <1>11, <1>12, <1>13, <1>14, <1>15,
     <1>16, <1>17, <1>18, <1>19, <1>20
     DEF KNext, Client, Kernel, KSignal, Gone

\* Emitted records stay records seen, in the order of the table.
LEMMA EmitStep == ASSUME KmdtInv, [KNext]_kvars PROVE EmitInv'
<1>1. RingInv /\ EndInv /\ OrderInv /\ ClientType /\ CallInv /\ BatchInv /\ EmitInv
  BY DEF KmdtInv
<1>2. /\ Len(delivered) \in Nat /\ Len(matched) \in Nat /\ Len(delivered) <= Len(matched)
      /\ matched \in Seq(0 .. MaxObjs) /\ seen \in Nat /\ limit \in Nat
      /\ emitted \in Seq(0 .. MaxObjs) /\ Len(emitted) \in Nat
      /\ unread \in Seq(0 .. MaxObjs) /\ Len(unread) \in Nat /\ cstop \in BOOLEAN
      /\ \A i \in 1 .. Len(emitted) : emitted[i] \in 0 .. MaxObjs
  <2>1. seen \in Nat /\ limit \in Nat /\ emitted \in Seq(0 .. MaxObjs)
        /\ unread \in Seq(0 .. MaxObjs) /\ cstop \in BOOLEAN
    BY <1>1 DEF ClientType
  <2>2. Len(emitted) \in Nat /\ Len(unread) \in Nat
    BY <2>1, LenProperties
  <2>3. \A i \in 1 .. Len(emitted) : emitted[i] \in 0 .. MaxObjs
    BY <2>1, ElementOfSeq, Zenon
  <2> QED
    BY <1>1, <2>1, <2>2, <2>3, RingHistory
<1>3. ASSUME UNCHANGED <<limit, emitted, cstop, seen>>, Len(delivered') \in Nat,
             Len(delivered') >= Len(delivered),
             \A i \in 1 .. Len(matched) : matched'[i] = matched[i]
      PROVE  EmitInv'
  <2>1. \A k \in 1 .. seen : matched'[k] = matched[k]
    BY <1>1, <1>2, <1>3 DEF EmitInv
  <2> QED
    BY <1>1, <1>2, <1>3, <2>1 DEF EmitInv
<1> USE DEF prodVars, readVars, ringVars, ctlVars, prodLocals, readLocals, ends, queues, hist
<1>4. CASE KOpen
  <2>1. seen = 0 /\ seen' = 0 /\ UNCHANGED <<limit, emitted, cstop>> /\ delivered' = <<>>
    BY <1>4, <1>1 DEF KOpen, Open, CallInv
  <2>2. Len(emitted) = 0
    BY <2>1, <1>1, <1>2 DEF EmitInv
  <2> QED
    BY <1>1, <2>1, <2>2 DEF EmitInv
<1>5. CASE KOpenFails
  BY <1>5, <1>3, <1>2 DEF KOpenFails, vars
<1>6. CASE KNoFilter
  BY <1>6, <1>3, <1>2 DEF KNoFilter, vars
<1>7. CASE KSetFilter
  BY <1>7, <1>3, <1>2 DEF KSetFilter, SetFilter
<1>8. CASE KRefused
  BY <1>8, <1>3, <1>2 DEF KRefused, vars
<1>9. CASE KRead
  BY <1>9, <1>3, <1>2 DEF KRead, ReadCall
<1>10. CASE KNoMemory
  BY <1>10, <1>3, <1>2 DEF KNoMemory, vars
<1>11. CASE KStopped
  BY <1>11, <1>3, <1>2 DEF KStopped, vars
<1>12. CASE KReadReturned
  BY <1>12, <1>3, <1>2 DEF KReadReturned, vars
<1>13. CASE KRecord
  <2>1. /\ unread # <<>> /\ ~cstop /\ seen' = seen + 1 /\ UNCHANGED <<limit, matched, delivered>>
        /\ seen + Len(unread) = Len(delivered) /\ unread[1] = matched[seen + 1]
        /\ Len(unread) >= 1
    <3>1. Len(unread) >= 1
      BY <1>13, <1>2, EmptySeq DEF KRecord
    <3> QED
      BY <1>13, <3>1, <1>1, <1>2 DEF KRecord, vars, BatchInv, StreamAccounted
  <2>2. Head(unread) = matched[seen + 1]
    BY <2>1
  <2>3. CASE UNCHANGED <<emitted, cstop>>
    BY <1>1, <1>2, <2>1, <2>3 DEF EmitInv
  <2>4. CASE /\ emitted' = Append(emitted, Head(unread))
             /\ cstop' = (cstop \/ (limit > 0 /\ Len(emitted') >= limit))
    <3>1. /\ Len(emitted') = Len(emitted) + 1
          /\ emitted'[Len(emitted) + 1] = matched[seen + 1]
          /\ \A i \in 1 .. Len(emitted) : emitted'[i] = emitted[i]
      BY <1>2, <2>2, <2>4
    <3>2. cstop' = (limit > 0 /\ Len(emitted') >= limit)
      BY <2>1, <2>4
    <3>3. limit > 0 => Len(emitted') <= limit
      <4>1. ~(limit > 0 /\ Len(emitted) >= limit)
        BY <1>1, <2>1, Zenon DEF EmitInv
      <4> QED
        BY <1>2, <3>1, <4>1
    <3>4. \A i \in 1 .. Len(emitted) : emitted[i] < matched[seen + 1]
      <4> SUFFICES ASSUME NEW i \in 1 .. Len(emitted) PROVE emitted[i] < matched[seen + 1]
        OBVIOUS
      <4>1. PICK k \in 1 .. seen : emitted[i] = matched[k]
        BY <1>1 DEF EmitInv
      <4>2. k \in 1 .. Len(matched) /\ seen + 1 \in 1 .. Len(matched) /\ k < seen + 1
        BY <1>2, <2>1
      <4> QED
        BY <1>1, <4>1, <4>2 DEF OrderInv
    <3>5. \A i, j \in 1 .. Len(emitted') : i < j => emitted'[i] < emitted'[j]
      BY <1>1, <1>2, <3>1, <3>4 DEF EmitInv
    <3>6. \A i \in 1 .. Len(emitted') : \E k \in 1 .. seen' : emitted'[i] = matched'[k]
      <4> SUFFICES ASSUME NEW i \in 1 .. Len(emitted')
                   PROVE  \E k \in 1 .. seen + 1 : emitted'[i] = matched[k]
        BY <2>1
      <4>1. CASE i = Len(emitted) + 1
        BY <1>2, <3>1, <4>1
      <4>2. CASE i \in 1 .. Len(emitted)
        BY <1>1, <1>2, <3>1, <4>2 DEF EmitInv
      <4> QED
        BY <1>2, <3>1, <4>1, <4>2
    <3>7. seen' <= Len(delivered')
      BY <1>2, <2>1
    <3> QED
      BY <3>2, <3>3, <3>5, <3>6, <3>7, <2>1 DEF EmitInv
  <2> QED
    BY <1>13, <2>3, <2>4 DEF KRecord, Emit
<1>14. CASE KBatchEnd
  BY <1>14, <1>3, <1>2 DEF KBatchEnd, vars
<1>15. CASE KStats
  BY <1>15, <1>3, <1>2 DEF KStats, vars
<1>16. CASE KClose
  BY <1>16, <1>3, <1>2 DEF KClose, Close
<1>17. CASE KExit
  BY <1>17, <1>3, <1>2 DEF KExit, vars
<1>18. CASE Producer /\ UNCHANGED client
  BY <1>18, ProdFrame, <1>1, <1>2, <1>3 DEF client
<1>19. CASE (Reader \/ Signal) /\ UNCHANGED client
  BY <1>19, ReadFrame, <1>1, <1>2, <1>3, Zenon DEF client
<1>20. CASE UNCHANGED kvars
  BY <1>20, <1>3, <1>2 DEF kvars, vars, client
<1> QED
  BY <1>4, <1>5, <1>6, <1>7, <1>8, <1>9, <1>10, <1>11, <1>12, <1>13, <1>14, <1>15,
     <1>16, <1>17, <1>18, <1>19, <1>20
     DEF KNext, Client, Kernel, KSignal, Gone

\* What was read is what was seen and what waits.
LEMMA BatchStep == ASSUME KmdtInv, [KNext]_kvars, EmitInv', RingInv' PROVE BatchInv'
<1>1. RingInv /\ EndInv /\ ClientType /\ CallInv /\ BatchInv /\ EmitInv
  BY DEF KmdtInv
<1>2. /\ Len(delivered) \in Nat /\ Len(matched) \in Nat /\ Len(delivered) <= Len(matched)
      /\ delivered \in Seq(0 .. MaxObjs) /\ seen \in Nat
      /\ unread \in Seq(0 .. MaxObjs) /\ Len(unread) \in Nat
      /\ \A i \in 1 .. Len(delivered) : delivered[i] = matched[i]
      /\ rpc \in ReadStates
  <2>1. seen \in Nat /\ unread \in Seq(0 .. MaxObjs)
    BY <1>1 DEF ClientType
  <2>2. Len(unread) \in Nat
    BY <2>1, LenProperties
  <2> QED
    BY <1>1, <2>1, <2>2, RingHistory
<1>3. ASSUME UNCHANGED <<cpc, seen, unread, delivered, cstop, rpc, ret>>,
             \A i \in 1 .. Len(matched) : matched'[i] = matched[i]
      PROVE  BatchInv'
  <2>1. ASSUME cpc \in {"read", "record", "stats"}
        PROVE  \A i \in 1 .. Len(unread) : unread[i] = matched'[seen + i]
    <3>1. \A i \in 1 .. Len(unread) : seen + i \in 1 .. Len(matched)
      BY <1>1, <1>2, <2>1 DEF BatchInv, StreamAccounted
    <3> QED
      BY <1>1, <1>3, <2>1, <3>1 DEF BatchInv, StreamAccounted
  <2>2. StreamAccounted'
    BY <1>1, <1>3, <2>1 DEF BatchInv, StreamAccounted, EmitInv
  <2> QED
    BY <1>1, <1>3, <2>2 DEF BatchInv
<1>4. ASSUME cpc' \notin {"reading", "read", "record", "stats"} PROVE BatchInv'
  BY <1>4 DEF BatchInv, StreamAccounted
<1>5. ASSUME cpc' \in {"read", "record", "stats"}, unread' = <<>>, seen' = Len(delivered')
      PROVE  BatchInv'
  <2>1. Len(delivered') \in Nat
    BY DEF RingInv, DeliverInv, TypeOK, RingType
  <2> QED
    BY <1>5, <2>1 DEF BatchInv, StreamAccounted, EmitInv
<1> USE DEF prodVars, readVars, ringVars, ctlVars, prodLocals, readLocals, ends, queues, hist
<1>6. CASE KOpen
  BY <1>6, <1>4 DEF KOpen, Open
<1>7. CASE KOpenFails
  BY <1>7, <1>4 DEF KOpenFails, vars
<1>8. CASE KNoFilter
  BY <1>8, <1>1, <1>2, <1>5 DEF KNoFilter, vars, CallInv
<1>9. CASE KSetFilter
  BY <1>9, <1>1, <1>2, <1>5 DEF KSetFilter, SetFilter, CallInv
<1>10. CASE KRefused
  BY <1>10, <1>4 DEF KRefused, vars
<1>11. CASE KRead
  <2>1. seen = Len(delivered) /\ unread = <<>> /\ ~cstop
    BY <1>11, <1>1, <1>2 DEF KRead, BatchInv, StreamAccounted
  <2>2. UNCHANGED <<seen, unread, cstop, delivered>> /\ cpc' = "reading"
        /\ (rpc' = "idle" => ret' = "refused")
    BY <1>11 DEF KRead, ReadCall
  <2> QED
    BY <1>2, <2>1, <2>2 DEF BatchInv, StreamAccounted
<1>12. CASE KNoMemory
  BY <1>12, <1>4 DEF KNoMemory, vars
<1>13. CASE KStopped
  <2>1. UNCHANGED <<seen, unread, delivered, matched>> /\ cpc = "read" /\ cpc' = "stats"
    BY <1>13 DEF KStopped, vars
  <2> QED
    BY <1>1, <2>1 DEF BatchInv, StreamAccounted, EmitInv
<1>14. CASE KReadReturned
  <2>1. cpc = "reading" /\ rpc = "idle" /\ UNCHANGED <<seen, delivered, matched, cstop>>
        /\ ~cstop /\ seen <= Len(delivered)
    BY <1>14, <1>1 DEF KReadReturned, vars, BatchInv
  <2>2. CASE ret = "data"
    <3> DEFINE u == SubSeq(delivered, seen + 1, Len(delivered))
    <3>1. unread' = u /\ cpc' = "record"
      BY <1>14, <2>2 DEF KReadReturned
    <3>2. /\ seen + 1 \in Int /\ Len(delivered) \in Int
          /\ \A i \in seen + 1 .. Len(delivered) : delivered[i] \in 0 .. MaxObjs
      <4> SUFFICES ASSUME NEW i \in seen + 1 .. Len(delivered)
                   PROVE  delivered[i] \in 0 .. MaxObjs
        BY <1>2
      <4>1. i \in 1 .. Len(delivered)
        BY <1>2
      <4> QED
        BY <1>2, <4>1, ElementOfSeq, Zenon
    <3>3. /\ Len(u) = IF seen + 1 <= Len(delivered) THEN Len(delivered) - (seen + 1) + 1 ELSE 0
          /\ \A i \in 1 .. Len(delivered) - (seen + 1) + 1 : u[i] = delivered[seen + 1 + i - 1]
      BY <3>2, SubSeqProperties
    <3> HIDE DEF u
    <3>4. seen + Len(u) = Len(delivered)
      BY <1>2, <2>1, <3>3
    <3>5. \A i \in 1 .. Len(u) : u[i] = matched[seen + i]
      <4> SUFFICES ASSUME NEW i \in 1 .. Len(u) PROVE u[i] = matched[seen + i]
        OBVIOUS
      <4>1. /\ i \in 1 .. Len(delivered) - (seen + 1) + 1
            /\ seen + 1 + i - 1 = seen + i /\ seen + i \in 1 .. Len(delivered)
        BY <1>2, <2>1, <3>4
      <4> QED
        BY <1>2, <3>3, <4>1, Zenon
    <3> QED
      BY <2>1, <3>1, <3>4, <3>5 DEF BatchInv, StreamAccounted, EmitInv
  <2>3. CASE ret # "data"
    <3>1. unread' = <<>> /\ cpc' \in {"read", "stats", "close"}
      BY <1>14, <2>3 DEF KReadReturned
    <3>2. seen = Len(delivered)
      BY <1>1, <2>1, <2>3 DEF BatchInv
    <3> QED
      BY <1>4, <1>5, <2>1, <3>1, <3>2
  <2> QED
    BY <2>2, <2>3
<1>15. CASE KRecord
  <2>1. /\ unread # <<>> /\ cpc = "record" /\ cpc' = "record" /\ seen' = seen + 1
        /\ unread' = Tail(unread) /\ UNCHANGED <<matched, delivered>>
        /\ seen + Len(unread) = Len(delivered)
        /\ \A i \in 1 .. Len(unread) : unread[i] = matched[seen + i]
    BY <1>15, <1>1 DEF KRecord, vars, BatchInv, StreamAccounted
  <2>2. /\ Len(Tail(unread)) = Len(unread) - 1
        /\ \A i \in 1 .. Len(Tail(unread)) : Tail(unread)[i] = unread[i + 1]
    BY <1>2, <2>1, HeadTailProperties
  <2>3. seen' + Len(unread') = Len(delivered')
    BY <1>2, <2>1, <2>2
  <2>4. \A i \in 1 .. Len(unread') : unread'[i] = matched'[seen' + i]
    BY <1>2, <2>1, <2>2
  <2> QED
    BY <2>1, <2>3, <2>4 DEF BatchInv, StreamAccounted, EmitInv
<1>16. CASE KBatchEnd
  <2>1. UNCHANGED <<seen, unread, delivered, matched, cstop>> /\ cpc = "record" /\ cpc' = "read"
        /\ (unread = <<>> \/ cstop)
    BY <1>16 DEF KBatchEnd, vars
  <2> QED
    BY <1>1, <2>1 DEF BatchInv, StreamAccounted, EmitInv
<1>17. CASE KStats
  BY <1>17, <1>4 DEF KStats, vars
<1>18. CASE KClose
  BY <1>18, <1>4 DEF KClose, Close
<1>19. CASE KExit
  BY <1>19, <1>4 DEF KExit, vars
<1>20. CASE Producer /\ UNCHANGED client
  BY <1>20, ProdFrame, <1>1, <1>2, <1>3 DEF client
<1>21. CASE (Reader \/ Signal) /\ UNCHANGED client
  <2>1. cpc \in {"reading", "closing"} /\ UNCHANGED <<cpc, seen, unread, cstop>>
    BY <1>21, ReadFrame, <1>1, Zenon DEF client, CallInv, ClientType
  <2>2. CASE cpc = "closing"
    BY <1>4, <2>1, <2>2
  <2>3. CASE cpc = "reading"
    <3>1. /\ unread = <<>> /\ ~cstop /\ seen <= Len(delivered)
          /\ rpc # "wake" => seen = Len(delivered)
      <4>1. rpc # "idle"
        BY <1>21, ReadFrame, <1>1, Zenon
      <4> QED
        BY <1>1, <2>3, <4>1 DEF BatchInv
    <3>2. seen <= Len(delivered')
      BY <1>21, ReadFrame, <1>1, <1>2, <3>1, Zenon
    <3>3. ASSUME rpc' # "wake", ~(rpc' = "idle" /\ ret' = "data") PROVE seen = Len(delivered')
      <4>1. delivered' = delivered /\ rpc # "wake"
        BY <1>21, ReadFrame, <1>1, <3>3, Zenon
      <4> QED
        BY <3>1, <4>1
    <3> QED
      BY <2>1, <2>3, <3>1, <3>2, <3>3 DEF BatchInv, StreamAccounted
  <2> QED
    BY <2>1, <2>2, <2>3
<1>22. CASE UNCHANGED kvars
  BY <1>22, <1>3 DEF kvars, vars, client
<1> QED
  BY <1>6, <1>7, <1>8, <1>9, <1>10, <1>11, <1>12, <1>13, <1>14, <1>15, <1>16, <1>17,
     <1>18, <1>19, <1>20, <1>21, <1>22
     DEF KNext, Client, Kernel, KSignal, Gone

\* What the scanner learnt from the end of the stream stays true.
LEMMA EofStep == ASSUME KmdtInv, [KNext]_kvars PROVE EofInv'
<1>1. RingInv /\ EndInv /\ ClientType /\ CallInv /\ BatchInv /\ EmitInv /\ EofInv
  BY DEF KmdtInv
<1>2. cstop \in BOOLEAN /\ status \in {0, 1}
  BY <1>1 DEF ClientType
<1> USE DEF prodVars, readVars, ringVars, ctlVars, prodLocals, readLocals, ends, queues, hist
<1>3. CASE KOpen
  BY <1>3, <1>1 DEF EofInv, KOpen, Open
<1>4. CASE KOpenFails
  BY <1>4, <1>1 DEF EofInv, KOpenFails, vars
<1>5. CASE KNoFilter
  BY <1>5, <1>1 DEF EofInv, KNoFilter, vars
<1>6. CASE KSetFilter
  BY <1>6, <1>1 DEF EofInv, KSetFilter, SetFilter
<1>7. CASE KRefused
  BY <1>7, <1>1 DEF EofInv, KRefused, vars
<1>8. CASE KRead
  BY <1>8, <1>1 DEF EofInv, KRead, ReadCall
<1>9. CASE KNoMemory
  BY <1>9, <1>1 DEF EofInv, KNoMemory, vars
<1>10. CASE KStopped
  BY <1>10, <1>1 DEF EofInv, KStopped, vars
<1>11. CASE KReadReturned
  <2>1. /\ cpc = "reading" /\ rpc = "idle" /\ UNCHANGED <<done, err, seen, delivered, head, matched, cstop>>
        /\ cpc' # "reading"
    BY <1>11 DEF KReadReturned, vars
  <2>2. CASE ret = "eof"
    <3>1. done /\ err = 0 /\ seen = Len(delivered) /\ unread' = <<>> /\ ~stop /\ ~summary.have
      BY <1>11, <1>1, <2>1, <2>2 DEF KReadReturned, EofInv, BatchInv, CallInv
    <3>2. head = Len(matched)
      BY <1>1, <3>1 DEF RingInv, NothingDropped, Pushing, EndInv
    <3>3. summary' = summary
      BY <1>11 DEF KReadReturned
    <3> QED
      BY <2>1, <3>1, <3>2, <3>3 DEF EofInv
  <2>3. CASE ret # "eof"
    <3>1. cpc' \in {"stats", "close", "closing", "exit"} => status' = 1
      BY <1>11, <2>3 DEF KReadReturned
    <3> QED
      BY <2>1, <3>1 DEF EofInv
  <2> QED
    BY <2>2, <2>3
<1>12. CASE KRecord
  BY <1>12, <1>1 DEF EofInv, KRecord, Emit, vars
<1>13. CASE KBatchEnd
  BY <1>13, <1>1 DEF EofInv, KBatchEnd, vars
<1>14. CASE KStats
  <2>1. /\ cpc = "stats" /\ cpc' = "close" /\ (summary' = NoSummary \/ summary' = [have |-> TRUE, st |-> st])
        /\ UNCHANGED <<done, err, seen, delivered, unread, head, matched, cstop, status, st>>
    BY <1>14 DEF KStats, vars
  <2>2. summary'.have => summary'.st = st
    BY <2>1 DEF NoSummary
  <2> QED
    BY <1>1, <2>1, <2>2 DEF EofInv
<1>15. CASE KClose
  BY <1>15, <1>1 DEF EofInv, KClose, Close
<1>16. CASE KExit
  BY <1>16, <1>1 DEF EofInv, KExit, vars
<1>17. CASE Producer /\ UNCHANGED client
  <2>1. UNCHANGED <<cpc, rpc, ret, status, cstop, seen, delivered, unread, summary>>
    BY <1>17, ProdFrame, <1>1 DEF client
  <2>2. done => UNCHANGED <<done, err, matched, head, st>>
    BY <1>17, ProdFrame, <1>1
  <2> QED
    BY <1>1, <2>1, <2>2 DEF EofInv
<1>18. CASE (Reader \/ Signal) /\ UNCHANGED client
  <2>1. UNCHANGED <<cpc, status, cstop, seen, unread, summary, done, err, head, matched, st>>
    BY <1>18, ReadFrame, <1>1, Zenon DEF client
  <2>2. cpc \in {"reading", "closing"}
    BY <1>18, ReadFrame, <1>1, Zenon DEF client, CallInv, ClientType
  <2>3. CASE cpc = "reading"
    <3>1. rpc # "closing"
      BY <1>1, <2>3 DEF CallInv
    <3> QED
      BY <1>18, <1>1, <2>1, <2>3, <3>1, ReadFrame, Zenon DEF EofInv
  <2>4. CASE cpc = "closing"
    <3>1. rpc = "closing"
      BY <1>18, <1>1, <2>4, ReadFrame, Zenon DEF CallInv
    <3>2. delivered' = delivered
      BY <1>18, <1>1, <3>1, ReadFrame, Zenon
    <3> QED
      BY <1>1, <2>1, <2>4, <3>2 DEF EofInv
  <2> QED
    BY <2>2, <2>3, <2>4
<1>19. CASE UNCHANGED kvars
  BY <1>19, <1>1 DEF EofInv, kvars, vars, client
<1> QED
  BY <1>3, <1>4, <1>5, <1>6, <1>7, <1>8, <1>9, <1>10, <1>11, <1>12, <1>13, <1>14,
     <1>15, <1>16, <1>17, <1>18, <1>19
     DEF KNext, Client, Kernel, KSignal, Gone

\* Every step keeps the invariant of the scanner on the ring.
LEMMA KmdtStep == KmdtInv /\ [KNext]_kvars => KmdtInv'
<1> SUFFICES ASSUME KmdtInv, [KNext]_kvars PROVE KmdtInv'
  OBVIOUS
<1>1. RingInv' /\ OrderInv' /\ EndInv'
  <2>1. [Next]_vars
    BY RingStep
  <2> QED
    BY <2>1, TypeStep, CoreStep, OrderStep, EndStep DEF KmdtInv, RingInv
<1>2. EmitInv'
  BY EmitStep
<1> QED
  BY <1>1, <1>2, ClientTypeStep, CallStep, BatchStep, EofStep DEF KmdtInv

\* The scanner before it opens the device.
LEMMA KmdtStart == KInit => KmdtInv
<1> SUFFICES ASSUME KInit PROVE KmdtInv
  OBVIOUS
<1>1. RingInv
  BY InitRingInv DEF KInit
<1>2. OrderInv /\ EndInv
  BY DEF KInit, Init, OrderInv, EndInv, ZeroStats
<1>3. ClientType
  <2>1. NoSummary.have = FALSE
    BY DEF NoSummary
  <2>2. limit \in Nat
    BY KmdtAssumption DEF KInit
  <2> QED
    BY <2>1, <2>2, EmptySeq, Zenon DEF KInit, ClientType
<1>4. CallInv /\ BatchInv /\ EofInv
  BY DEF KInit, Init, CallInv, BatchInv, StreamAccounted, EofInv, NoSummary
<1>5. EmitInv
  <2>1. limit \in Nat
    BY KmdtAssumption DEF KInit
  <2>2. emitted = <<>> /\ Len(emitted) = 0 /\ cstop = FALSE /\ seen = 0 /\ Len(delivered) = 0
    BY DEF KInit, Init
  <2>3. ~(limit > 0 /\ Len(emitted) >= limit)
    BY <2>1, <2>2
  <2>4. cstop = (limit > 0 /\ Len(emitted) >= limit)
    BY <2>2, <2>3, Zenon
  <2> QED
    BY <2>1, <2>2, <2>4 DEF EmitInv
<1> QED
  BY <1>1, <1>2, <1>3, <1>4, <1>5 DEF KmdtInv

\* The invariant of the live scanner holds in every reachable state.
THEOREM KmdtInvariant == KSpec => []KmdtInv
BY KmdtStart, KmdtStep, PTL DEF KSpec

\* Between the kernel's ring and the output no record is lost, doubled or
\* reordered by lfu_kmdt_scan_chunk(), for every ring, batch and read size.
THEOREM KmdtAccounts == KSpec => []StreamAccounted
<1>1. KmdtInv => StreamAccounted
  BY DEF KmdtInv, BatchInv
<1> QED
  BY KmdtInvariant, <1>1, PTL

\* --limit holds to the record, and a successful scan short of it has taken
\* everything read() gave it.
THEOREM KmdtLimits == KSpec => []LimitHeld
<1>1. KmdtInv => LimitHeld
  <2> SUFFICES ASSUME KmdtInv PROVE LimitHeld
    OBVIOUS
  <2>1. limit \in Nat /\ Len(emitted) \in Nat
    BY LenProperties DEF KmdtInv, ClientType
  <2>2. limit = 0 \/ Len(emitted) < limit => ~(limit > 0 /\ Len(emitted) >= limit)
    BY <2>1
  <2>3. limit = 0 \/ Len(emitted) < limit => ~cstop
    BY <2>2, Zenon DEF KmdtInv, EmitInv
  <2> QED
    BY <2>3 DEF KmdtInv, EmitInv, EofInv, LimitHeld
<1> QED
  BY KmdtInvariant, <1>1, PTL

\* Exit status 0 short of --limit means that the producer recorded no error.
THEOREM KmdtZero == KSpec => []ZeroMeansNoError
<1>1. KmdtInv => ZeroMeansNoError
  BY DEF KmdtInv, EofInv, ZeroMeansNoError
<1> QED
  BY KmdtInvariant, <1>1, PTL

\* The printed summary accounts for every object the kernel walked.
THEOREM KmdtSummary == KSpec => []SummaryBalances
<1>1. KmdtInv => SummaryBalances
  <2> SUFFICES ASSUME KmdtInv, cpc = "exit", summary.have, ~cstop, head = tail
               PROVE  summary.st.seen = summary.st.filtered0 + summary.st.filtered1 + seen
                        + IF filter.emitUnknown THEN 0 ELSE summary.st.unknown
    BY DEF SummaryBalances
  <2>1. status = 0
    BY DEF KmdtInv, CallInv
  <2>2. summary.st = st /\ done /\ err = 0 /\ seen = Len(delivered) /\ head = Len(matched)
    BY <2>1 DEF KmdtInv, EofInv
  <2>3. Len(delivered) = tail
    BY RingHistory DEF KmdtInv
  <2>4. rc = 0
    BY <2>2 DEF KmdtInv, EndInv
  <2>5. st.seen = st.filtered0 + st.filtered1 + Len(matched)
                  + IF filter.emitUnknown THEN 0 ELSE st.unknown
    BY <2>4 DEF KmdtInv, EndInv, EOPNOTSUPP
  <2>6. Len(matched) = seen
    BY <2>2, <2>3, Zenon
  <2> QED
    BY <2>2, <2>5, <2>6
<1> QED
  BY KmdtInvariant, <1>1, PTL

=============================================================================
