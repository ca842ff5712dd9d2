---------------------------- MODULE LfuRingProofs ----------------------------
(***************************************************************************)
(* Proofs about LfuRing, for every ring size, batch, table and filter.     *)
(***************************************************************************)
EXTENDS LfuRing, TLAPS, SequenceTheorems

\* Slots less than a full ring apart are distinct (ring_recs masks head and
\* tail to slots).
LEMMA SlotsDistinct ==
    ASSUME NEW R \in Nat \ {0}, NEW i \in Nat, NEW j \in Nat, i < j, j < i + R
    PROVE  i % R # j % R
<1> DEFINE qi == i \div R
           qj == j \div R
<1>1. i = R * qi + (i % R) /\ i % R \in 0 .. R - 1 /\ qi \in Int
  OBVIOUS
<1>2. j = R * qj + (j % R) /\ j % R \in 0 .. R - 1 /\ qj \in Int
  OBVIOUS
<1> HIDE DEF qi, qj
<1>3. SUFFICES ASSUME i % R = j % R PROVE FALSE
  OBVIOUS
<1>4. R * qj - R * qi \in 1 .. R - 1
  BY <1>1, <1>2, <1>3
<1>5. R * qj - R * qi = R * (qj - qi)
  BY <1>1, <1>2
<1>6. CASE qj - qi <= 0
  BY <1>1, <1>2, <1>4, <1>5, <1>6
<1>7. CASE qj - qi >= 1
  BY <1>1, <1>2, <1>4, <1>5, <1>7
<1>8. QED
  BY <1>1, <1>2, <1>6, <1>7

\* A run that stops at the wrap point is contiguous (lfu_ring_read()'s cap).
LEMMA RunContiguous ==
    ASSUME NEW R \in Nat \ {0}, NEW i \in Nat, NEW k \in Nat, k < R - (i % R)
    PROVE  (i + k) % R = (i % R) + k
<1> DEFINE n == i + k
           qi == i \div R
           qn == n \div R
           a == i % R
           b == n % R
<1>1. i = R * qi + a /\ a \in 0 .. R - 1 /\ qi \in Int
  OBVIOUS
<1>2. n = R * qn + b /\ b \in 0 .. R - 1 /\ qn \in Int /\ n = i + k
  OBVIOUS
<1>3. k < R - a
  OBVIOUS
<1> HIDE DEF n, qi, qn, a, b
<1>4. R * (qn - qi) = (a + k) - b
  BY <1>1, <1>2
<1>5. (a + k) - b \in (1 - R) .. (R - 1)
  BY <1>1, <1>2, <1>3
<1>6. CASE qn - qi <= -1
  <2>1. R * (qn - qi) <= -R
    BY <1>1, <1>2, <1>6
  <2> QED BY <2>1, <1>4, <1>5, <1>1, <1>2
<1>7. CASE qn - qi >= 1
  <2>1. R * (qn - qi) >= R
    BY <1>1, <1>2, <1>7
  <2> QED BY <2>1, <1>4, <1>5, <1>1, <1>2
<1>8. CASE qn - qi = 0
  BY <1>1, <1>2, <1>4, <1>8 DEF n, a, b
<1>9. QED
  BY <1>1, <1>2, <1>6, <1>7, <1>8

\* A slot index is a slot.
LEMMA SlotInRing == ASSUME NEW i \in Nat PROVE i % RingRecs \in Slots
BY RingAssumption DEF Slots

\* The zeroed ring of open() and of the initial state.
LEMMA InitRingInv == Init => RingInv
<1> SUFFICES ASSUME Init PROVE RingInv
  OBVIOUS
<1> USE RingAssumption, BoundAssumption DEF Init
<1>1. CtlType /\ FlagType
  <2>1. tableLen \in 0 .. MaxObjs
    OBVIOUS
  <2>2. QED BY <2>1, Zenon DEF CtlType, FlagType
<1>2. RingType
  BY DEF RingType
<1>3. ProdType /\ ReadType /\ HistType
  BY DEF ProdType, ReadType, HistType, ProdStates, ReadStates, Results, ZeroStats
<1>4. RingBounded /\ NothingDropped /\ PushInv
  BY DEF RingBounded, NothingDropped, PushInv, Pushing
<1>5. SlotInv /\ DeliverInv /\ ReadInv
  BY DEF SlotInv, DeliverInv, ReadInv
<1>6. QED
  BY <1>1, <1>3, <1>4, <1>5, <1>2 DEF RingInv, TypeOK

\* Every step keeps the types; RingBounded keeps what avail computes a natural.
LEMMA TypeStep == RingInv /\ [Next]_vars => TypeOK'
<1> SUFFICES ASSUME RingInv, [Next]_vars PROVE TypeOK'
  OBVIOUS
<1> USE RingAssumption, BoundAssumption
    DEF RingInv, RingBounded, TypeOK, prodVars, readVars, ringVars, ctlVars,
        prodLocals, readLocals, ends, queues, hist
<1>1. CtlType'
  <2>1. CASE Open
    BY <2>1, Zenon DEF Open, CtlType, NoFilter, Filters
  <2>2. CASE SetFilter
    BY <2>2, Zenon DEF SetFilter, CtlType, NoFilter, Filters
  <2>3. CASE Close
    BY <2>3, Zenon DEF Close, CtlType, NoFilter, Filters
  <2>4. CASE CloseDone
    BY <2>4, Zenon DEF CloseDone, CtlType, NoFilter, Filters
  <2>5. CASE ReadCall
    BY <2>5, Zenon DEF ReadCall, CtlType, NoFilter, Filters
  <2>6. CASE ReadAvail \/ ReadDone \/ ReadPrep \/ ReadTest \/ ReadWoken \/ Signal \/
              ReadCopy \/ ReadAdvance \/ ReadReturn \/ ProdNeverRan \/ ProdSetup \/
              ProdObject \/ ProdPush \/ ProdPrep \/ ProdTest \/ ProdWoken \/ ProdFill \/
              ProdPublish \/ ProdBatch \/ ProdNext \/ ProdFinish \/ ProdSetDone \/
              ProdWakeAll \/ ProdExit \/ UNCHANGED vars
    BY <2>6, Zenon DEF CtlType, vars, ReadAvail, ReadDone, ReadPrep, ReadTest, ReadWoken, Signal,
            ReadCopy, ReadAdvance, ReadReturn, ProdNeverRan, ProdSetup, ProdObject,
            ProdPush, ProdPrep, ProdTest, ProdWoken, ProdFill, ProdPublish, ProdBatch,
            ProdNext, ProdFinish, ProdSetDone, ProdWakeAll, ProdExit
  <2>7. QED BY <2>1, <2>2, <2>3, <2>4, <2>5, <2>6
            DEF Next, User, Reader, Producer
<1>2. RingType'
  <2>1. CASE Open
    BY <2>1 DEF Open, RingType
  <2>2. CASE ReadAdvance
    BY <2>2 DEF ReadAdvance, RingType
  <2>3. CASE ProdFill
    BY <2>3, SlotInRing, Zenon DEF ProdFill, RingType, ProdType
  <2>4. CASE ProdPublish
    BY <2>4 DEF ProdPublish, RingType
  <2>5. CASE ProdBatch
    BY <2>5 DEF ProdBatch, RingType
  <2>6. CASE SetFilter \/ Close \/ CloseDone \/ ReadCall \/ ReadAvail \/ ReadDone \/
              ReadPrep \/ ReadTest \/ ReadWoken \/ Signal \/ ReadCopy \/ ReadReturn \/
              ProdNeverRan \/ ProdSetup \/ ProdObject \/ ProdPush \/ ProdPrep \/
              ProdTest \/ ProdWoken \/ ProdNext \/ ProdFinish \/ ProdSetDone \/
              ProdWakeAll \/ ProdExit \/ UNCHANGED vars
    BY <2>6, Zenon DEF RingType, vars, SetFilter, Close, CloseDone, ReadCall, ReadAvail, ReadDone,
            ReadPrep, ReadTest, ReadWoken, Signal, ReadCopy, ReadReturn, ProdNeverRan,
            ProdSetup, ProdObject, ProdPush, ProdPrep, ProdTest, ProdWoken, ProdNext,
            ProdFinish, ProdSetDone, ProdWakeAll, ProdExit
  <2>7. QED BY <2>1, <2>2, <2>3, <2>4, <2>5, <2>6
            DEF Next, User, Reader, Producer
<1>3. ProdType'
  <2>1. CASE Open
    BY <2>1 DEF Open, ProdType, ProdStates, ZeroStats
  <2>2. CASE ReadCall
    BY <2>2 DEF ReadCall, ProdType, ProdStates, ZeroStats
  <2>3. CASE ProdNeverRan
    BY <2>3 DEF ProdNeverRan, ProdType, ProdStates, ZeroStats
  <2>4. CASE ProdSetup
    BY <2>4 DEF ProdSetup, ProdType, CtlType, ProdStates
  <2>5. CASE ProdObject
    <3>1. st' \in [seen : Nat, filtered0 : Nat, filtered1 : Nat, unknown : Nat,
                   emitted : Nat]
      <4>1. CASE UNCHANGED st
        BY <4>1 DEF ProdType
      <4>2. ASSUME NEW m PROVE Counted(m) \in [seen : Nat, filtered0 : Nat,
                                   filtered1 : Nat, unknown : Nat, emitted : Nat]
        BY DEF ProdType, Counted
      <4>3. QED BY <2>5, <4>1, <4>2 DEF ProdObject
    <3>2. ppc' \in ProdStates /\ rc2' \in {-1, 0, 1}
      BY <2>5 DEF ProdObject, ProdType, ProdStates
    <3>3. rc' \in {0, ENOENT, EOPNOTSUPP} /\ UNCHANGED <<pos, err>>
      BY <2>5 DEF ProdObject, ProdType
    <3>4. QED BY <3>1, <3>2, <3>3 DEF ProdType
  <2>6. CASE ProdPush
    BY <2>6 DEF ProdPush, ProdType, ProdStates, ZeroStats
  <2>7. CASE ProdPrep
    BY <2>7 DEF ProdPrep, ProdType, ProdStates, ZeroStats
  <2>8. CASE ProdTest
    BY <2>8 DEF ProdTest, ProdType, ProdStates, ZeroStats
  <2>9. CASE ProdWoken
    BY <2>9 DEF ProdWoken, ProdType, ProdStates, ZeroStats
  <2>10. CASE ProdFill
    BY <2>10 DEF ProdFill, ProdType, ProdStates, ZeroStats
  <2>11. CASE ProdPublish
    BY <2>11 DEF ProdPublish, ProdType, ProdStates, ZeroStats
  <2>12. CASE ProdBatch
    BY <2>12 DEF ProdBatch, ProdType, ProdStates, ZeroStats
  <2>13. CASE ProdNext
    BY <2>13 DEF ProdNext, ProdType, CtlType, ProdStates
  <2>14. CASE ProdFinish
    BY <2>14 DEF ProdFinish, ProdType, ProdStates, ZeroStats
  <2>15. CASE ProdSetDone
    BY <2>15 DEF ProdSetDone, ProdType, ProdStates, ZeroStats
  <2>16. CASE ProdWakeAll
    BY <2>16 DEF ProdWakeAll, ProdType, ProdStates, ZeroStats
  <2>17. CASE ProdExit
    BY <2>17 DEF ProdExit, ProdType, ProdStates, ZeroStats
  <2>18. CASE SetFilter \/ Close \/ CloseDone \/ ReadAvail \/ ReadDone \/ ReadPrep \/
              ReadTest \/ ReadWoken \/ Signal \/ ReadCopy \/ ReadAdvance \/ ReadReturn
              \/ UNCHANGED vars
    BY <2>18, Zenon DEF ProdType, vars, SetFilter, Close, CloseDone, ReadAvail, ReadDone, ReadPrep,
            ReadTest, ReadWoken, Signal, ReadCopy, ReadAdvance, ReadReturn
  <2>19. QED BY <2>1, <2>2, <2>3, <2>4, <2>5, <2>6, <2>7, <2>8, <2>9, <2>10, <2>11, <2>12,
            <2>13, <2>14, <2>15, <2>16, <2>17, <2>18
            DEF Next, User, Reader, Producer
<1>4. ReadType'
  <2>1. CASE Open
    BY <2>1 DEF Open, ReadType, ReadStates, Results
  <2>2. CASE SetFilter
    BY <2>2 DEF SetFilter, ReadType, ReadStates, Results
  <2>3. CASE Close
    BY <2>3 DEF Close, ReadType, ReadStates, Results
  <2>4. CASE CloseDone
    BY <2>4 DEF CloseDone, ReadType, ReadStates, Results
  <2>5. CASE ReadCall
    BY <2>5 DEF ReadCall, ReadType, ReadStates, Results
  <2>6. CASE ReadAvail
    BY <2>6 DEF ReadAvail, ReadType, RingType, ring_avail, ReadStates
  <2>7. CASE ReadDone
    BY <2>7 DEF ReadDone, ReadType, ReadStates, Results
  <2>8. CASE ReadPrep
    BY <2>8 DEF ReadPrep, ReadType, ReadStates, Results
  <2>9. CASE ReadTest
    BY <2>9 DEF ReadTest, ReadType, ReadStates, Results
  <2>10. CASE ReadWoken
    BY <2>10 DEF ReadWoken, ReadType, ReadStates, Results
  <2>11. CASE ReadCopy
    <3> DEFINE idx == tail % RingRecs
               run == Min2(Min2(avail, want), RingRecs - idx)
    <3>1. idx \in Slots
      BY SlotInRing, Zenon DEF RingType
    <3> HIDE DEF idx
    <3>2. idx \in Slots /\ run \in Nat /\ run <= RingRecs - idx
      BY <3>1 DEF ReadType, Min2, Slots
    <3>3. CASE got' = [k \in 1 .. run |-> buf[idx + k - 1]]
      <4>1. \A k \in 1 .. run : idx + k - 1 \in Slots
        BY <3>2 DEF Slots
      <4>2. got' \in [1 .. run -> 0 .. MaxObjs]
        BY <3>3, <4>1 DEF RingType
      <4>3. got' \in Seq(0 .. MaxObjs)
        BY <4>2, <3>2, SeqDef
      <4>4. QED BY <2>11, <4>3, <3>3 DEF ReadCopy, ReadType, idx, ReadStates, Results
    <3>4. CASE UNCHANGED got
      BY <2>11, <3>4 DEF ReadCopy, ReadType, ReadStates, Results
    <3>5. QED BY <2>11, <3>3, <3>4 DEF ReadCopy, idx
  <2>12. CASE ReadAdvance
    BY <2>12 DEF ReadAdvance, ReadType, ReadStates, Results
  <2>13. CASE ReadReturn
    BY <2>13 DEF ReadReturn, ReadType, ReadStates, Results
  <2>14. CASE Signal \/ ProdNeverRan \/ ProdSetup \/ ProdObject \/ ProdPush \/ ProdPrep
              \/ ProdTest \/ ProdWoken \/ ProdFill \/ ProdPublish \/ ProdBatch \/
              ProdNext \/ ProdFinish \/ ProdSetDone \/ ProdWakeAll \/ ProdExit \/
              UNCHANGED vars
    BY <2>14, Zenon DEF ReadType, vars, Signal, ProdNeverRan, ProdSetup, ProdObject, ProdPush,
            ProdPrep, ProdTest, ProdWoken, ProdFill, ProdPublish, ProdBatch, ProdNext,
            ProdFinish, ProdSetDone, ProdWakeAll, ProdExit
  <2>15. QED BY <2>1, <2>2, <2>3, <2>4, <2>5, <2>6, <2>7, <2>8, <2>9, <2>10, <2>11, <2>12,
            <2>13, <2>14
            DEF Next, User, Reader, Producer
<1>5. FlagType'
  <2>1. CASE Open
    BY <2>1, Zenon DEF Open, FlagType
  <2>2. CASE Close
    BY <2>2, Zenon DEF Close, FlagType
  <2>3. CASE ReadPrep
    BY <2>3 DEF ReadPrep, FlagType
  <2>4. CASE ReadTest
    BY <2>4, Zenon DEF ReadTest, FlagType
  <2>5. CASE Signal
    BY <2>5, Zenon DEF Signal, FlagType
  <2>6. CASE ReadReturn
    BY <2>6 DEF ReadReturn, FlagType
  <2>7. CASE ProdPush
    BY <2>7, Zenon DEF ProdPush, FlagType
  <2>8. CASE ProdPrep
    BY <2>8 DEF ProdPrep, FlagType
  <2>9. CASE ProdTest
    BY <2>9, Zenon DEF ProdTest, FlagType
  <2>10. CASE ProdBatch
    BY <2>10, Zenon DEF ProdBatch, FlagType
  <2>11. CASE ProdSetDone
    BY <2>11 DEF ProdSetDone, FlagType
  <2>12. CASE ProdWakeAll
    BY <2>12, Zenon DEF ProdWakeAll, FlagType
  <2>13. CASE SetFilter \/ CloseDone \/ ReadCall \/ ReadAvail \/ ReadDone \/ ReadWoken
              \/ ReadCopy \/ ReadAdvance \/ ProdNeverRan \/ ProdSetup \/ ProdObject \/
              ProdWoken \/ ProdFill \/ ProdPublish \/ ProdNext \/ ProdFinish \/ ProdExit
              \/ UNCHANGED vars
    BY <2>13, Zenon DEF FlagType, vars, SetFilter, CloseDone, ReadCall, ReadAvail, ReadDone,
            ReadWoken, ReadCopy, ReadAdvance, ProdNeverRan, ProdSetup, ProdObject,
            ProdWoken, ProdFill, ProdPublish, ProdNext, ProdFinish, ProdExit
  <2>14. QED BY <2>1, <2>2, <2>3, <2>4, <2>5, <2>6, <2>7, <2>8, <2>9, <2>10, <2>11, <2>12,
            <2>13
            DEF Next, User, Reader, Producer
<1>6. HistType'
  <2>1. CASE Open
    BY <2>1 DEF Open, HistType
  <2>2. CASE ReadAdvance
    BY <2>2, ConcatProperties DEF ReadAdvance, HistType, ReadType
  <2>3. CASE ProdObject
    <3>1. (matched' = matched \/ matched' = Append(matched, pos)) /\ UNCHANGED delivered
      BY <2>3 DEF ProdObject
    <3>2. pos \in 0 .. MaxObjs /\ matched \in Seq(0 .. MaxObjs) /\ HistType
      BY DEF HistType, ProdType
    <3>3. Append(matched, pos) \in Seq(0 .. MaxObjs)
      BY <3>2, AppendProperties
    <3>4. QED BY <3>1, <3>2, <3>3, Zenon DEF HistType
  <2>4. CASE SetFilter \/ Close \/ CloseDone \/ ReadCall \/ ReadAvail \/ ReadDone \/
              ReadPrep \/ ReadTest \/ ReadWoken \/ Signal \/ ReadCopy \/ ReadReturn \/
              ProdNeverRan \/ ProdSetup \/ ProdPush \/ ProdPrep \/ ProdTest \/ ProdWoken
              \/ ProdFill \/ ProdPublish \/ ProdBatch \/ ProdNext \/ ProdFinish \/
              ProdSetDone \/ ProdWakeAll \/ ProdExit \/ UNCHANGED vars
    BY <2>4, Zenon DEF HistType, vars, SetFilter, Close, CloseDone, ReadCall, ReadAvail, ReadDone,
            ReadPrep, ReadTest, ReadWoken, Signal, ReadCopy, ReadReturn, ProdNeverRan,
            ProdSetup, ProdPush, ProdPrep, ProdTest, ProdWoken, ProdFill, ProdPublish,
            ProdBatch, ProdNext, ProdFinish, ProdSetDone, ProdWakeAll, ProdExit
  <2>5. QED BY <2>1, <2>2, <2>3, <2>4
            DEF Next, User, Reader, Producer
<1>7. QED BY <1>1, <1>2, <1>3, <1>4, <1>5, <1>6

\* Facts about the values in RingInv that the steps below use.
LEMMA RingFacts ==
    ASSUME RingInv
    PROVE  /\ head \in Nat /\ tail \in Nat /\ pos \in 0 .. MaxObjs
           /\ tail <= head /\ head - tail <= RingRecs
           /\ buf \in [Slots -> 0 .. MaxObjs]
           /\ matched \in Seq(0 .. MaxObjs) /\ Len(matched) \in Nat
           /\ delivered \in Seq(0 .. MaxObjs) /\ Len(delivered) \in Nat
           /\ got \in Seq(0 .. MaxObjs) /\ Len(got) \in Nat
           /\ Len(matched) \in {head, head + 1}
BY LenProperties
   DEF RingInv, TypeOK, RingType, ProdType, ReadType, HistType, RingBounded, PushInv

\* Appending to the history keeps what the history already says.
LEMMA HistoryGrows ==
    ASSUME RingInv, ProdObject
    PROVE  /\ Len(matched') \in Nat /\ Len(matched') >= Len(matched)
           /\ \A i \in 1 .. Len(matched) : matched'[i] = matched[i]
           /\ ppc' = "push" => Len(matched') = Len(matched) + 1
                               /\ matched'[Len(matched) + 1] = pos
           /\ ppc' # "push" => matched' = matched
<1>1. /\ matched' = matched \/ matched' = Append(matched, pos)
      /\ ppc' = "push" => matched' = Append(matched, pos)
      /\ ppc' # "push" => matched' = matched
  BY DEF ProdObject
<1>2. QED
  BY <1>1, RingFacts, AppendProperties

\* Every step keeps the part of RingInv that is not typing.
LEMMA CoreStep ==
    RingInv /\ [Next]_vars =>
        (RingBounded /\ NothingDropped /\ PushInv /\ SlotInv /\ DeliverInv /\ ReadInv)'
<1> SUFFICES ASSUME RingInv, [Next]_vars
             PROVE  (RingBounded /\ NothingDropped /\ PushInv /\ SlotInv /\ DeliverInv
                     /\ ReadInv)'
  OBVIOUS
<1> USE RingAssumption, RingFacts DEF prodVars, readVars, ringVars, ctlVars,
        prodLocals, readLocals, ends, queues, hist
<1>1. RingBounded'
  <2>1. CASE Open
    BY <2>1 DEF Open, RingBounded
  <2>2. CASE ReadAdvance
    BY <2>2 DEF ReadAdvance, RingBounded, RingInv, ReadInv
  <2>3. CASE ProdPublish
    BY <2>3 DEF ProdPublish, RingBounded, RingInv, PushInv
  <2>4. CASE SetFilter \/ Close \/ CloseDone \/ ReadCall \/ ReadAvail \/ ReadDone \/
              ReadPrep \/ ReadTest \/ ReadWoken \/ Signal \/ ReadCopy \/ ReadReturn \/
              ProdNeverRan \/ ProdSetup \/ ProdObject \/ ProdPush \/ ProdPrep \/
              ProdTest \/ ProdWoken \/ ProdFill \/ ProdBatch \/ ProdNext \/ ProdFinish
              \/ ProdSetDone \/ ProdWakeAll \/ ProdExit \/ UNCHANGED vars
    BY <2>4, Zenon DEF RingBounded, vars, RingInv, SetFilter, Close, CloseDone, ReadCall,
            ReadAvail, ReadDone, ReadPrep, ReadTest, ReadWoken, Signal, ReadCopy,
            ReadReturn, ProdNeverRan, ProdSetup, ProdObject, ProdPush, ProdPrep,
            ProdTest, ProdWoken, ProdFill, ProdBatch, ProdNext, ProdFinish, ProdSetDone,
            ProdWakeAll, ProdExit
  <2>5. QED BY <2>1, <2>2, <2>3, <2>4
            DEF Next, User, Reader, Producer
<1>2. NothingDropped'
  <2>1. CASE Open
    BY <2>1 DEF Open, NothingDropped, RingInv, PushInv, Pushing
  <2>2. CASE Close
    BY <2>2, Zenon DEF Close, NothingDropped, RingInv, PushInv, Pushing
  <2>3. CASE ReadCall
    BY <2>3 DEF ReadCall, NothingDropped, RingInv, PushInv, Pushing
  <2>4. CASE ProdNeverRan
    BY <2>4 DEF ProdNeverRan, NothingDropped, RingInv, PushInv, Pushing
  <2>5. CASE ProdSetup
    BY <2>5 DEF ProdSetup, NothingDropped, RingInv, PushInv, Pushing
  <2>6. CASE ProdObject
    BY <2>6, HistoryGrows DEF ProdObject, NothingDropped, RingInv, PushInv, Pushing
  <2>7. CASE ProdPush
    BY <2>7 DEF ProdPush, NothingDropped, RingInv, PushInv, Pushing
  <2>8. CASE ProdPrep
    BY <2>8 DEF ProdPrep, NothingDropped, RingInv, PushInv, Pushing
  <2>9. CASE ProdTest
    BY <2>9 DEF ProdTest, NothingDropped, RingInv, PushInv, Pushing
  <2>10. CASE ProdWoken
    BY <2>10 DEF ProdWoken, NothingDropped, RingInv, PushInv, Pushing
  <2>11. CASE ProdFill
    BY <2>11 DEF ProdFill, NothingDropped, RingInv, PushInv, Pushing
  <2>12. CASE ProdPublish
    BY <2>12 DEF ProdPublish, NothingDropped, RingInv, PushInv, Pushing
  <2>13. CASE ProdBatch
    BY <2>13 DEF ProdBatch, NothingDropped, RingInv, PushInv, Pushing
  <2>14. CASE ProdNext
    BY <2>14 DEF ProdNext, NothingDropped, RingInv, PushInv, Pushing
  <2>15. CASE ProdFinish
    BY <2>15 DEF ProdFinish, NothingDropped, RingInv, PushInv, Pushing
  <2>16. CASE ProdSetDone
    BY <2>16 DEF ProdSetDone, NothingDropped, RingInv, PushInv, Pushing
  <2>17. CASE ProdWakeAll
    BY <2>17 DEF ProdWakeAll, NothingDropped, RingInv, PushInv, Pushing
  <2>18. CASE ProdExit
    BY <2>18 DEF ProdExit, NothingDropped, RingInv, PushInv, Pushing
  <2>19. CASE SetFilter \/ CloseDone \/ ReadAvail \/ ReadDone \/ ReadPrep \/ ReadTest \/
              ReadWoken \/ Signal \/ ReadCopy \/ ReadAdvance \/ ReadReturn \/ UNCHANGED
              vars
    BY <2>19, Zenon DEF NothingDropped, vars, RingInv, Pushing, SetFilter, CloseDone, ReadAvail,
            ReadDone, ReadPrep, ReadTest, ReadWoken, Signal, ReadCopy, ReadAdvance,
            ReadReturn
  <2>20. QED BY <2>1, <2>2, <2>3, <2>4, <2>5, <2>6, <2>7, <2>8, <2>9, <2>10, <2>11, <2>12,
            <2>13, <2>14, <2>15, <2>16, <2>17, <2>18, <2>19
            DEF Next, User, Reader, Producer
<1>3. PushInv'
  <2>1. CASE Open
    BY <2>1 DEF Open, PushInv, RingInv, Pushing
  <2>2. CASE ReadCall
    BY SMTT(30), <2>2 DEF ReadCall, PushInv, RingInv, Pushing
  <2>3. CASE ReadAdvance
    BY SMTT(30), <2>3 DEF ReadAdvance, PushInv, RingInv, Pushing, RingBounded
  <2>4. CASE ProdNeverRan
    BY <2>4 DEF ProdNeverRan, PushInv, RingInv, Pushing
  <2>5. CASE ProdSetup
    BY <2>5 DEF ProdSetup, PushInv, RingInv, Pushing
  <2>6. CASE ProdObject
    BY <2>6, HistoryGrows, Zenon DEF ProdObject, PushInv, RingInv, Pushing
  <2>7. CASE ProdPush
    BY SMTT(30), <2>7 DEF ProdPush, PushInv, RingInv, RingBounded, Pushing, ring_free
  <2>8. CASE ProdPrep
    BY <2>8 DEF ProdPrep, PushInv, RingInv, Pushing
  <2>9. CASE ProdTest
    BY <2>9 DEF ProdTest, PushInv, RingInv, Pushing
  <2>10. CASE ProdWoken
    BY <2>10 DEF ProdWoken, PushInv, RingInv, Pushing
  <2>11. CASE ProdFill
    BY <2>11, SlotInRing, Zenon DEF ProdFill, PushInv, RingInv, Pushing
  <2>12. CASE ProdPublish
    BY <2>12 DEF ProdPublish, PushInv, RingInv, Pushing
  <2>13. CASE ProdBatch
    BY <2>13 DEF ProdBatch, PushInv, RingInv, Pushing
  <2>14. CASE ProdNext
    BY <2>14 DEF ProdNext, PushInv, RingInv, Pushing
  <2>15. CASE ProdFinish
    BY <2>15 DEF ProdFinish, PushInv, RingInv, Pushing
  <2>16. CASE ProdSetDone
    BY <2>16 DEF ProdSetDone, PushInv, RingInv, Pushing
  <2>17. CASE ProdWakeAll
    BY <2>17 DEF ProdWakeAll, PushInv, RingInv, Pushing
  <2>18. CASE ProdExit
    BY <2>18 DEF ProdExit, PushInv, RingInv, Pushing
  <2>19. CASE SetFilter \/ Close \/ CloseDone \/ ReadAvail \/ ReadDone \/ ReadPrep \/
              ReadTest \/ ReadWoken \/ Signal \/ ReadCopy \/ ReadReturn \/ UNCHANGED
              vars
    BY <2>19, Zenon DEF PushInv, vars, RingInv, Pushing, SetFilter, Close, CloseDone, ReadAvail,
            ReadDone, ReadPrep, ReadTest, ReadWoken, Signal, ReadCopy, ReadReturn
  <2>20. QED BY <2>1, <2>2, <2>3, <2>4, <2>5, <2>6, <2>7, <2>8, <2>9, <2>10, <2>11, <2>12,
            <2>13, <2>14, <2>15, <2>16, <2>17, <2>18, <2>19
            DEF Next, User, Reader, Producer
<1>4. SlotInv'
  <2>1. CASE Open
    BY <2>1 DEF Open, SlotInv, RingInv
  <2>2. CASE ReadAdvance
    <3>1. tail' \in Nat /\ tail' >= tail /\ UNCHANGED <<buf, head, matched>>
      BY <2>2 DEF ReadAdvance, ringVars
    <3>2. QED BY SMTT(30), <3>1 DEF SlotInv, RingInv
  <2>3. CASE ProdObject
    <3>1. UNCHANGED <<buf, head, tail>>
      BY <2>3 DEF ProdObject
    <3>2. \A i \in tail .. head - 1 : i + 1 \in 1 .. Len(matched)
      OBVIOUS
    <3>3. QED BY <2>3, <3>1, <3>2, HistoryGrows, Zenon DEF SlotInv, RingInv
  <2>4. CASE ProdFill
    <3> SUFFICES ASSUME NEW i \in tail .. head - 1
                 PROVE  buf'[i % RingRecs] = matched[i + 1]
      BY <2>4 DEF ProdFill, SlotInv
    <3>1. head - tail < RingRecs /\ buf[i % RingRecs] = matched[i + 1]
      BY <2>4 DEF ProdFill, RingInv, PushInv, SlotInv
    <3>2. i % RingRecs # head % RingRecs
      BY <3>1, SlotsDistinct
    <3>3. i % RingRecs \in Slots
      BY SlotInRing
    <3>4. QED BY <2>4, <3>1, <3>2, <3>3 DEF ProdFill
  <2>5. CASE ProdPublish
    BY SMTT(30), <2>5 DEF ProdPublish, SlotInv, RingInv, PushInv, Pushing
  <2>6. CASE SetFilter \/ Close \/ CloseDone \/ ReadCall \/ ReadAvail \/ ReadDone \/
              ReadPrep \/ ReadTest \/ ReadWoken \/ Signal \/ ReadCopy \/ ReadReturn \/
              ProdNeverRan \/ ProdSetup \/ ProdPush \/ ProdPrep \/ ProdTest \/ ProdWoken
              \/ ProdBatch \/ ProdNext \/ ProdFinish \/ ProdSetDone \/ ProdWakeAll \/
              ProdExit \/ UNCHANGED vars
    BY <2>6, Zenon DEF SlotInv, vars, RingInv, SetFilter, Close, CloseDone, ReadCall, ReadAvail,
            ReadDone, ReadPrep, ReadTest, ReadWoken, Signal, ReadCopy, ReadReturn,
            ProdNeverRan, ProdSetup, ProdPush, ProdPrep, ProdTest, ProdWoken, ProdBatch,
            ProdNext, ProdFinish, ProdSetDone, ProdWakeAll, ProdExit
  <2>7. QED BY <2>1, <2>2, <2>3, <2>4, <2>5, <2>6
            DEF Next, User, Reader, Producer
<1>5. DeliverInv'
  <2>1. CASE Open
    BY <2>1 DEF Open, DeliverInv, RingInv
  <2>2. CASE ReadAdvance
    <3>1. /\ delivered' = delivered \o got /\ tail' = tail + Len(got) /\ UNCHANGED matched
          /\ Len(delivered) = tail
          /\ \A i \in 1 .. tail : delivered[i] = matched[i]
          /\ \A k \in 1 .. Len(got) : got[k] = matched[tail + k]
      BY <2>2 DEF ReadAdvance, RingInv, DeliverInv, ReadInv
    <3>2. /\ Len(delivered') = tail'
          /\ \A i \in 1 .. tail' :
                delivered'[i] = IF i <= tail THEN delivered[i] ELSE got[i - tail]
      <4>1. /\ Len(delivered \o got) = Len(delivered) + Len(got)
            /\ \A i \in 1 .. Len(delivered) + Len(got) : (delivered \o got)[i] =
                  IF i <= Len(delivered) THEN delivered[i] ELSE got[i - Len(delivered)]
        BY ConcatProperties
      <4>2. QED BY <3>1, <4>1, Zenon
    <3>3. ASSUME NEW i \in 1 .. tail' PROVE delivered'[i] = matched[i]
      <4>1. CASE i <= tail
        BY <3>1, <3>2, <4>1
      <4>2. CASE i > tail
        <5>1. i - tail \in 1 .. Len(got) /\ tail + (i - tail) = i
          BY <3>1, <4>2
        <5>2. got[i - tail] = matched[tail + (i - tail)]
          BY <3>1, <5>1, Zenon
        <5>3. ~(i <= tail)
          BY <3>1, <4>2
        <5>4. QED BY <3>2, <5>1, <5>2, <5>3, Zenon
      <4>3. QED BY <3>1, <4>1, <4>2
    <3>4. QED BY <3>1, <3>2, <3>3 DEF DeliverInv
  <2>3. CASE ProdObject
    <3>1. UNCHANGED <<delivered, tail>>
      BY <2>3 DEF ProdObject
    <3>2. \A i \in 1 .. tail : i \in 1 .. Len(matched)
      OBVIOUS
    <3>3. QED BY <2>3, <3>1, <3>2, HistoryGrows, Zenon DEF DeliverInv, RingInv
  <2>4. CASE SetFilter \/ Close \/ CloseDone \/ ReadCall \/ ReadAvail \/ ReadDone \/
              ReadPrep \/ ReadTest \/ ReadWoken \/ Signal \/ ReadCopy \/ ReadReturn \/
              ProdNeverRan \/ ProdSetup \/ ProdPush \/ ProdPrep \/ ProdTest \/ ProdWoken
              \/ ProdFill \/ ProdPublish \/ ProdBatch \/ ProdNext \/ ProdFinish \/
              ProdSetDone \/ ProdWakeAll \/ ProdExit \/ UNCHANGED vars
    BY <2>4, Zenon DEF DeliverInv, vars, RingInv, SetFilter, Close, CloseDone, ReadCall, ReadAvail,
            ReadDone, ReadPrep, ReadTest, ReadWoken, Signal, ReadCopy, ReadReturn,
            ProdNeverRan, ProdSetup, ProdPush, ProdPrep, ProdTest, ProdWoken, ProdFill,
            ProdPublish, ProdBatch, ProdNext, ProdFinish, ProdSetDone, ProdWakeAll,
            ProdExit
  <2>5. QED BY <2>1, <2>2, <2>3, <2>4
            DEF Next, User, Reader, Producer
<1>6. ReadInv'
  <2>1. CASE Open
    BY <2>1 DEF Open, ReadInv, RingInv
  <2>2. CASE Close
    BY <2>2 DEF Close, ReadInv, RingInv
  <2>3. CASE CloseDone
    BY <2>3 DEF CloseDone, ReadInv, RingInv
  <2>4. CASE ReadCall
    BY <2>4 DEF ReadCall, ReadInv, RingInv
  <2>5. CASE ReadAvail
    <3>1. /\ rpc' \in {"copy", "done"} /\ avail' = head - tail
          /\ head' = head /\ tail' = tail /\ head - tail \in Int
      BY <2>5 DEF ReadAvail, ring_avail
    <3> QED
      BY <3>1 DEF ReadInv
  <2>6. CASE ReadDone
    BY <2>6 DEF ReadDone, ReadInv, RingInv
  <2>7. CASE ReadPrep
    BY <2>7 DEF ReadPrep, ReadInv, RingInv
  <2>8. CASE ReadTest
    BY <2>8 DEF ReadTest, ReadInv, RingInv
  <2>9. CASE ReadWoken
    BY <2>9 DEF ReadWoken, ReadInv, RingInv
  <2>10. CASE ReadCopy
    <3> DEFINE idx == tail % RingRecs
               run == Min2(Min2(avail, want), RingRecs - idx)
    <3>1. CASE UNCHANGED got /\ rpc' = "idle"
      BY <3>1 DEF ReadInv
    <3>2. CASE got' = [k \in 1 .. run |-> buf[idx + k - 1]] /\ rpc' = "advance"
      <4>1. idx \in Slots
        BY SlotInRing
      <4>2. avail <= head - tail /\ avail \in Nat /\ want \in Nat
        <5>1. rpc = "copy" /\ ReadInv /\ ReadType
          BY <2>10 DEF ReadCopy, RingInv, TypeOK
        <5> QED BY <5>1 DEF ReadInv, ReadType
      <4>3. run \in Nat /\ run <= head - tail /\ run <= RingRecs - idx
        <5> HIDE DEF idx
        <5> QED BY <4>1, <4>2 DEF Min2, Slots
      <4>4. Len(got') = run
        BY <3>2, <4>3
      <4>5. ASSUME NEW k \in 1 .. run PROVE got'[k] = matched[tail + k]
        <5>1. (tail + (k - 1)) % RingRecs = idx + (k - 1)
          <6>1. k - 1 \in Nat /\ k - 1 < RingRecs - idx
            <7> HIDE DEF idx, run
            <7> QED BY <4>1, <4>3 DEF Slots
          <6>2. RingRecs \in Nat \ {0} /\ tail \in Nat
            OBVIOUS
          <6> QED BY <6>1, <6>2, RunContiguous, ZenonT(30)
        <5>2. tail + (k - 1) \in tail .. head - 1
          BY <4>3
        <5>3. buf[idx + (k - 1)] = matched[tail + (k - 1) + 1]
          BY <5>1, <5>2, Zenon DEF RingInv, SlotInv
        <5>4. tail + (k - 1) + 1 = tail + k /\ idx + (k - 1) = idx + k - 1
          <6> HIDE DEF idx
          <6> QED BY <4>1, <4>3 DEF Slots
        <5>5. got'[k] = buf[idx + k - 1]
          BY <3>2
        <5>6. QED BY <5>3, <5>4, <5>5
      <4>6. UNCHANGED <<head, tail, matched, avail>>
        BY <2>10, <3>2 DEF ReadCopy
      <4> HIDE DEF idx, run
      <4>7. QED BY <3>2, <4>3, <4>4, <4>5, <4>6 DEF ReadInv
    <3>3. QED BY <2>10, <3>1, <3>2 DEF ReadCopy
  <2>11. CASE ReadAdvance
    BY <2>11 DEF ReadAdvance, ReadInv, RingInv
  <2>12. CASE ReadReturn
    BY <2>12 DEF ReadReturn, ReadInv, RingInv
  <2>13. CASE ProdObject
    <3>1. UNCHANGED <<rpc, avail, got, head, tail>>
      BY <2>13 DEF ProdObject
    <3>2. rpc = "advance" => \A k \in 1 .. Len(got) : tail + k \in 1 .. Len(matched)
      BY DEF RingInv, ReadInv
    <3>3. QED BY <2>13, <3>1, <3>2, HistoryGrows, Zenon DEF ReadInv, RingInv
  <2>14. CASE ProdPublish
    <3>1. UNCHANGED <<rpc, avail, got, tail, matched>> /\ head' = head + 1
      BY <2>14 DEF ProdPublish
    <3>2. avail \in Nat
      BY DEF RingInv, TypeOK, ReadType
    <3>3. QED BY <3>1, <3>2 DEF ReadInv, RingInv
  <2>15. CASE SetFilter \/ Signal \/ ProdNeverRan \/ ProdSetup \/ ProdPush \/ ProdPrep
              \/ ProdTest \/ ProdWoken \/ ProdFill \/ ProdBatch \/ ProdNext \/
              ProdFinish \/ ProdSetDone \/ ProdWakeAll \/ ProdExit \/ UNCHANGED vars
    BY <2>15, Zenon DEF ReadInv, vars, RingInv, SetFilter, Signal, ProdNeverRan, ProdSetup,
            ProdPush, ProdPrep, ProdTest, ProdWoken, ProdFill, ProdBatch, ProdNext,
            ProdFinish, ProdSetDone, ProdWakeAll, ProdExit
  <2>16. QED BY <2>1, <2>2, <2>3, <2>4, <2>5, <2>6, <2>7, <2>8, <2>9, <2>10, <2>11, <2>12,
            <2>13, <2>14, <2>15
            DEF Next, User, Reader, Producer
<1>7. QED BY <1>1, <1>2, <1>3, <1>4, <1>5, <1>6

\* The inductive invariant of the ring holds in every reachable state.
THEOREM RingInvariant == Spec => []RingInv
<1>1. RingInv /\ [Next]_vars => RingInv'
  BY TypeStep, CoreStep DEF RingInv
<1>2. QED
  BY InitRingInv, <1>1, PTL DEF Spec

\* Type correctness of the ring module.
THEOREM TypeCorrect == Spec => []TypeOK
<1>1. RingInv => TypeOK
  BY DEF RingInv
<1>2. QED
  BY RingInvariant, <1>1, PTL

\* read() hands out exactly the first objects the filter passed, in order,
\* for every ring size, batch and request size (lfu_ring_read()).
THEOREM InOrderDelivery == Spec => []DeliveredIsPrefix
<1>1. RingInv => DeliveredIsPrefix
  <2> SUFFICES ASSUME RingInv PROVE DeliveredIsPrefix
    OBVIOUS
  <2>1. Len(delivered) = tail /\ \A i \in 1 .. tail : delivered[i] = matched[i]
    BY DEF RingInv, DeliverInv
  <2>2. Len(delivered) <= Len(matched)
    BY <2>1, RingFacts
  <2>3. QED BY <2>1, <2>2 DEF DeliveredIsPrefix
<1>2. QED
  BY RingInvariant, <1>1, PTL

\* A full ring stalls the producer and loses nothing (lfu_producer()).
THEOREM StallNeverDrops == Spec => []NothingDropped
<1>1. RingInv => NothingDropped
  BY DEF RingInv
<1>2. QED
  BY RingInvariant, <1>1, PTL

\* No step overwrites a published record the reader has still to read.
THEOREM UnreadStays == Spec => NoOverwrite
<1>1. RingInv /\ RingInv' /\ [Next]_vars =>
        [opened /\ opened' => \A i \in tail' .. head - 1 :
                                  buf'[i % RingRecs] = buf[i % RingRecs]]_vars
  <2> SUFFICES ASSUME RingInv, Next, opened,
                      NEW i \in tail' .. head - 1
               PROVE  buf'[i % RingRecs] = buf[i % RingRecs]
    OBVIOUS
  <2> USE RingAssumption, RingFacts DEF prodVars, readVars, ringVars, ctlVars,
        prodLocals, readLocals, ends, queues, hist
  <2>1. CASE ProdFill
    <3>1. tail' = tail /\ head - tail < RingRecs
      BY <2>1 DEF ProdFill, RingInv, PushInv
    <3>2. i % RingRecs # head % RingRecs
      BY <3>1, SlotsDistinct
    <3>3. i \in Nat
      BY <3>1
    <3>4. i % RingRecs \in Slots
      <4> HIDE RingAssumption, RingFacts
      <4> QED BY <3>3, SlotInRing
    <3>5. QED BY <2>1, <3>2, <3>4 DEF ProdFill
  <2>2. CASE Open
    BY <2>2 DEF Open
  <2>3. CASE SetFilter \/ Close \/ CloseDone \/ ReadCall \/ ReadAvail \/ ReadDone \/
              ReadPrep \/ ReadTest \/ ReadWoken \/ Signal \/ ReadCopy \/ ReadAdvance \/
              ReadReturn \/ ProdNeverRan \/ ProdSetup \/ ProdObject \/ ProdPush \/
              ProdPrep \/ ProdTest \/ ProdWoken \/ ProdPublish \/ ProdBatch \/ ProdNext
              \/ ProdFinish \/ ProdSetDone \/ ProdWakeAll \/ ProdExit
    BY <2>3, Zenon DEF SetFilter, Close, CloseDone, ReadCall, ReadAvail, ReadDone, ReadPrep,
            ReadTest, ReadWoken, Signal, ReadCopy, ReadAdvance, ReadReturn,
            ProdNeverRan, ProdSetup, ProdObject, ProdPush, ProdPrep, ProdTest,
            ProdWoken, ProdPublish, ProdBatch, ProdNext, ProdFinish, ProdSetDone,
            ProdWakeAll, ProdExit
  <2>4. QED BY <2>1, <2>2, <2>3 DEF Next, User, Reader, Producer
<1>2. QED
  BY RingInvariant, <1>1, PTL DEF Spec, NoOverwrite

\* The batched wake-ups never leave producer and reader asleep on each other:
\* the argument needs 2 * batch <= ring_recs only as batch <= ring_recs.
THEOREM NeverBothAsleep == Spec => []NoMutualSleep
<1>1. Init => SleepInv
  BY DEF Init, SleepInv
<1>2. RingInv /\ SleepInv /\ [Next]_vars => SleepInv'
  <2> SUFFICES ASSUME RingInv, SleepInv, [Next]_vars PROVE SleepInv'
    OBVIOUS
  <2> USE RingAssumption, RingFacts
      DEF SleepInv, ring_free, ring_avail, prodVars, readVars, ringVars, ctlVars,
        prodLocals, readLocals, ends, queues, hist
  <2>1. CASE Open
    BY <2>1 DEF Open
  <2>2. CASE SetFilter
    BY <2>2 DEF SetFilter
  <2>3. CASE Close
    BY <2>3 DEF Close
  <2>4. CASE CloseDone
    BY <2>4 DEF CloseDone
  <2>5. CASE ReadCall
    BY <2>5 DEF ReadCall
  <2>6. CASE ReadAvail
    BY <2>6 DEF ReadAvail
  <2>7. CASE ReadDone
    BY <2>7 DEF ReadDone
  <2>8. CASE ReadPrep
    BY <2>8 DEF ReadPrep
  <2>9. CASE ReadTest
    BY <2>9 DEF ReadTest
  <2>10. CASE ReadWoken
    BY <2>10 DEF ReadWoken
  <2>11. CASE Signal
    BY <2>11 DEF Signal
  <2>12. CASE ReadCopy
    BY <2>12 DEF ReadCopy
  <2>13. CASE ReadAdvance
    BY <2>13 DEF ReadAdvance
  <2>14. CASE ReadReturn
    BY <2>14, Zenon DEF ReadReturn
  <2>15. CASE ProdNeverRan
    BY <2>15 DEF ProdNeverRan
  <2>16. CASE ProdSetup
    BY <2>16 DEF ProdSetup
  <2>17. CASE ProdObject
    BY <2>17 DEF ProdObject
  <2>18. CASE ProdPush
    BY <2>18 DEF ProdPush
  <2>19. CASE ProdPrep
    BY <2>19 DEF ProdPrep
  <2>20. CASE ProdTest
    BY <2>20 DEF ProdTest
  <2>21. CASE ProdWoken
    BY <2>21 DEF ProdWoken
  <2>22. CASE ProdFill
    BY <2>22 DEF ProdFill
  <2>23. CASE ProdPublish
    BY <2>23 DEF ProdPublish
  <2>24. CASE ProdBatch
    BY <2>24 DEF ProdBatch
  <2>25. CASE ProdNext
    BY <2>25 DEF ProdNext
  <2>26. CASE ProdFinish
    BY <2>26 DEF ProdFinish
  <2>27. CASE ProdSetDone
    BY <2>27 DEF ProdSetDone
  <2>28. CASE ProdWakeAll
    BY <2>28 DEF ProdWakeAll
  <2>29. CASE ProdExit
    BY <2>29 DEF ProdExit
  <2>30. CASE UNCHANGED vars
    BY <2>30 DEF vars
  <2>31. QED BY <2>1, <2>2, <2>3, <2>4, <2>5, <2>6, <2>7, <2>8, <2>9, <2>10, <2>11, <2>12,
            <2>13, <2>14, <2>15, <2>16, <2>17, <2>18, <2>19, <2>20, <2>21, <2>22, <2>23,
            <2>24, <2>25, <2>26, <2>27, <2>28, <2>29, <2>30, Zenon
            DEF Next, User, Reader, Producer
<1>3. RingInv /\ SleepInv => NoMutualSleep
  BY RingAssumption, RingFacts DEF SleepInv, NoMutualSleep, ring_free
<1>4. QED
  BY RingInvariant, <1>1, <1>2, <1>3, PTL DEF Spec

\* lfu_ring_release() frees nothing a running producer can reach.
THEOREM NoUseAfterFree == Spec => []FreedAfterExit
<1>1. Init => FreedAfterExit
  BY DEF Init, FreedAfterExit
<1>2. FreedAfterExit /\ [Next]_vars => FreedAfterExit'
  <2> SUFFICES ASSUME FreedAfterExit, [Next]_vars PROVE FreedAfterExit'
    OBVIOUS
  <2> USE DEF FreedAfterExit, prodVars, readVars, ringVars, ctlVars,
        prodLocals, readLocals, ends, queues, hist
  <2>1. CASE Open
    BY <2>1 DEF Open
  <2>2. CASE CloseDone
    BY <2>2 DEF CloseDone
  <2>3. CASE ReadCall
    BY <2>3 DEF ReadCall
  <2>4. CASE SetFilter \/ Close \/ ReadAvail \/ ReadDone \/ ReadPrep \/ ReadTest \/
              ReadWoken \/ Signal \/ ReadCopy \/ ReadAdvance \/ ReadReturn
    BY <2>4, Zenon DEF SetFilter, Close, ReadAvail, ReadDone, ReadPrep, ReadTest, ReadWoken,
            Signal, ReadCopy, ReadAdvance, ReadReturn
  <2>5. CASE ProdNeverRan \/ ProdSetup \/ ProdObject \/ ProdPush \/ ProdPrep \/
              ProdTest \/ ProdWoken \/ ProdFill \/ ProdPublish \/ ProdBatch \/ ProdNext
              \/ ProdFinish \/ ProdSetDone \/ ProdWakeAll \/ ProdExit
    BY <2>5, Zenon DEF ProdNeverRan, ProdSetup, ProdObject, ProdPush, ProdPrep, ProdTest,
            ProdWoken, ProdFill, ProdPublish, ProdBatch, ProdNext, ProdFinish,
            ProdSetDone, ProdWakeAll, ProdExit
  <2>6. CASE UNCHANGED vars
    BY <2>6 DEF vars
  <2>7. QED BY <2>4, <2>5, <2>6, <2>1, <2>2, <2>3 DEF Next, User, Reader, Producer
<1>3. QED
  BY <1>1, <1>2, PTL DEF Spec

\* The producer passes the objects in table order.
LEMMA OrderStep == RingInv /\ OrderInv /\ [Next]_vars => OrderInv'
<1> SUFFICES ASSUME RingInv, OrderInv, [Next]_vars PROVE OrderInv'
  OBVIOUS
<1>0. pos \in Nat /\ matched \in Seq(0 .. MaxObjs) /\ Len(matched) \in Nat
  BY BoundAssumption DEF RingInv, TypeOK, ProdType, HistType
<1> USE <1>0 DEF OrderInv, prodVars, readVars, ringVars, ctlVars, prodLocals, readLocals, ends, queues, hist
<1>1. CASE Open
  BY <1>1 DEF Open
<1>2. CASE SetFilter
  BY <1>2 DEF SetFilter
<1>3. CASE Close
  BY <1>3 DEF Close
<1>4. CASE CloseDone
  BY <1>4 DEF CloseDone
<1>5. CASE ReadCall
  <3>1. pos' = pos /\ matched' = matched
    BY <1>5 DEF ReadCall
  <3>2. ppc' = ppc \/ (ppc = "none" /\ ppc' = "created")
    BY <1>5 DEF ReadCall, RingInv, PushInv
  <3> QED
    BY <3>1, <3>2
<1>6. CASE ReadAvail
  BY <1>6 DEF ReadAvail
<1>7. CASE ReadDone
  BY <1>7 DEF ReadDone
<1>8. CASE ReadPrep
  BY <1>8 DEF ReadPrep
<1>9. CASE ReadTest
  BY <1>9 DEF ReadTest
<1>10. CASE ReadWoken
  BY <1>10 DEF ReadWoken
<1>11. CASE Signal
  BY <1>11 DEF Signal
<1>12. CASE ReadCopy
  BY <1>12 DEF ReadCopy
<1>13. CASE ReadAdvance
  BY <1>13 DEF ReadAdvance
<1>14. CASE ReadReturn
  BY <1>14 DEF ReadReturn
<1>15. CASE ProdNeverRan
  BY <1>15 DEF ProdNeverRan
<1>16. CASE ProdSetup
  BY <1>16 DEF ProdSetup
<1>17. CASE ProdObject
  <3>1. CASE matched' = matched
    BY <1>17, <3>1 DEF ProdObject
  <3>2. CASE matched' = Append(matched, pos) /\ ppc = "loop" /\ ppc' = "push" /\ pos' = pos
    <4>1. Len(matched') = Len(matched) + 1 /\ matched'[Len(matched) + 1] = pos
          /\ \A i \in 1 .. Len(matched) : matched'[i] = matched[i]
      BY <3>2
    <4> QED
      BY <3>2, <4>1
  <3> QED
    BY <1>17, <3>1, <3>2 DEF ProdObject
<1>18. CASE ProdPush
  BY <1>18 DEF ProdPush
<1>19. CASE ProdPrep
  BY <1>19 DEF ProdPrep
<1>20. CASE ProdTest
  BY <1>20 DEF ProdTest
<1>21. CASE ProdWoken
  BY <1>21 DEF ProdWoken
<1>22. CASE ProdFill
  BY <1>22 DEF ProdFill
<1>23. CASE ProdPublish
  BY <1>23 DEF ProdPublish
<1>24. CASE ProdBatch
  BY <1>24 DEF ProdBatch
<1>25. CASE ProdNext
  BY <1>25 DEF ProdNext
<1>26. CASE ProdFinish
  BY <1>26 DEF ProdFinish
<1>27. CASE ProdSetDone
  BY <1>27 DEF ProdSetDone
<1>28. CASE ProdWakeAll
  BY <1>28 DEF ProdWakeAll
<1>29. CASE ProdExit
  BY <1>29 DEF ProdExit
<1>30. CASE UNCHANGED vars
  BY <1>30 DEF vars
<1> QED
  BY <1>1, <1>2, <1>3, <1>4, <1>5, <1>6, <1>7, <1>8, <1>9, <1>10, <1>11, <1>12, <1>13, <1>14, <1>15, <1>16, <1>17, <1>18, <1>19, <1>20, <1>21, <1>22, <1>23, <1>24, <1>25, <1>26, <1>27, <1>28, <1>29, <1>30, Zenon
     DEF Next, User, Reader, Producer

\* After done the producer changes nothing; until then it counts.
LEMMA EndStep == RingInv /\ EndInv /\ [Next]_vars => EndInv'
<1> SUFFICES ASSUME RingInv, EndInv, [Next]_vars PROVE EndInv'
  OBVIOUS
<1>0. /\ matched \in Seq(0 .. MaxObjs) /\ Len(matched) \in Nat /\ err \in {0, ENOENT, EOPNOTSUPP}
      /\ st \in [seen : Nat, filtered0 : Nat, filtered1 : Nat, unknown : Nat, emitted : Nat]
      /\ ~started => ppc = "none" /\ Len(matched) = head
      /\ done \in BOOLEAN /\ ppc \in ProdStates
  BY DEF RingInv, TypeOK, ProdType, HistType, PushInv, FlagType
<1> USE <1>0 DEF EndInv, prodVars, readVars, ringVars, ctlVars, prodLocals, readLocals, ends, queues, hist
<1>1. CASE Open
  BY <1>1 DEF Open, ZeroStats, EOPNOTSUPP
<1>2. CASE SetFilter
  <2>1. UNCHANGED <<started, done, err, st, ppc, rc, matched>>
    BY <1>2 DEF SetFilter
  <2>2. CASE UNCHANGED filter
    BY <2>1, <2>2
  <2>3. CASE ~started
    <3>1. st.unknown = 0
      BY <2>3 DEF ZeroStats
    <3> QED
      BY <2>1, <2>3, <3>1
  <2> QED
    BY <1>2, <2>2, <2>3 DEF SetFilter
<1>3. CASE Close
  BY <1>3 DEF Close
<1>4. CASE CloseDone
  BY <1>4 DEF CloseDone
<1>5. CASE ReadCall
  BY <1>5 DEF ReadCall
<1>6. CASE ReadAvail
  BY <1>6 DEF ReadAvail
<1>7. CASE ReadDone
  BY <1>7 DEF ReadDone
<1>8. CASE ReadPrep
  BY <1>8 DEF ReadPrep
<1>9. CASE ReadTest
  BY <1>9 DEF ReadTest
<1>10. CASE ReadWoken
  BY <1>10 DEF ReadWoken
<1>11. CASE Signal
  BY <1>11 DEF Signal
<1>12. CASE ReadCopy
  BY <1>12 DEF ReadCopy
<1>13. CASE ReadAdvance
  BY <1>13 DEF ReadAdvance
<1>14. CASE ReadReturn
  BY <1>14 DEF ReadReturn
<1>15. CASE ProdNeverRan
  BY <1>15 DEF ProdNeverRan
<1>16. CASE ProdSetup
  BY <1>16 DEF ProdSetup, ENOENT, EOPNOTSUPP
<1>17. CASE ProdObject
  <2>1. done' = done /\ err' = err /\ started' = started /\ filter' = filter /\ ppc = "loop"
        /\ ~done /\ started /\ ppc' \in {"finish", "next", "push"}
    BY <1>17 DEF ProdObject
  <2>2. CASE st' = st /\ matched' = matched /\ rc' = rc
    BY <2>1, <2>2
  <2>3. CASE \E m \in Verdicts :
               LET push == m = "match" \/ (m = "unknown" /\ filter.emitUnknown)
               IN  /\ st' = Counted(m)
                   /\ matched' = IF push THEN Append(matched, pos) ELSE matched
                   /\ rc' = IF m = "notsupp" THEN EOPNOTSUPP ELSE rc
    <3> DEFINE push(m) == m = "match" \/ (m = "unknown" /\ filter.emitUnknown)
    <3>1. PICK m \in Verdicts :
               /\ st' = Counted(m)
               /\ matched' = IF push(m) THEN Append(matched, pos) ELSE matched
               /\ rc' = IF m = "notsupp" THEN EOPNOTSUPP ELSE rc
      BY <2>3
    <3>2. m \in {"match", "filtered0", "filtered1", "unknown", "notsupp"}
      BY DEF Verdicts
    <3>3. Len(matched') = IF push(m) THEN Len(matched) + 1 ELSE Len(matched)
      BY <3>1
    <3>4. /\ st'.seen = st.seen + 1
          /\ st'.filtered0 = IF m = "filtered0" THEN st.filtered0 + 1 ELSE st.filtered0
          /\ st'.filtered1 = IF m = "filtered1" THEN st.filtered1 + 1 ELSE st.filtered1
          /\ st'.unknown = IF m = "unknown" THEN st.unknown + 1 ELSE st.unknown
      BY <3>1 DEF Counted
    <3>5. rc' = EOPNOTSUPP \/
            st'.seen = st'.filtered0 + st'.filtered1 + Len(matched')
                       + IF filter'.emitUnknown THEN 0 ELSE st'.unknown
      <4>1. CASE rc = EOPNOTSUPP \/ m = "notsupp"
        BY <3>1, <4>1
      <4>2. CASE ~(rc = EOPNOTSUPP \/ m = "notsupp")
        <5>1. st.seen \in Nat /\ st.filtered0 \in Nat /\ st.filtered1 \in Nat /\ st.unknown \in Nat
          OBVIOUS
        <5>2. st.seen = st.filtered0 + st.filtered1 + Len(matched)
                        + IF filter.emitUnknown THEN 0 ELSE st.unknown
          BY <4>2
        <5>3. CASE m = "match"
          BY <2>1, <3>3, <3>4, <5>1, <5>2, <5>3
        <5>4. CASE m = "filtered0"
          BY <2>1, <3>3, <3>4, <5>1, <5>2, <5>4
        <5>6. CASE m = "filtered1"
          BY <2>1, <3>3, <3>4, <5>1, <5>2, <5>6
        <5>5. CASE m = "unknown"
          BY <2>1, <3>3, <3>4, <5>1, <5>2, <5>5
        <5> QED
          BY <3>2, <4>2, <5>3, <5>4, <5>5, <5>6
      <4> QED
        BY <4>1, <4>2
    <3> QED
      BY <2>1, <3>1, <3>5
  <2> QED
    BY <1>17, <2>2, <2>3 DEF ProdObject
<1>18. CASE ProdPush
  BY <1>18 DEF ProdPush
<1>19. CASE ProdPrep
  BY <1>19 DEF ProdPrep
<1>20. CASE ProdTest
  BY <1>20 DEF ProdTest
<1>21. CASE ProdWoken
  BY <1>21 DEF ProdWoken
<1>22. CASE ProdFill
  BY <1>22 DEF ProdFill
<1>23. CASE ProdPublish
  BY <1>23 DEF ProdPublish
<1>24. CASE ProdBatch
  BY <1>24 DEF ProdBatch
<1>25. CASE ProdNext
  BY <1>25 DEF ProdNext
<1>26. CASE ProdFinish
  BY <1>26 DEF ProdFinish
<1>27. CASE ProdSetDone
  BY <1>27 DEF ProdSetDone
<1>28. CASE ProdWakeAll
  BY <1>28 DEF ProdWakeAll
<1>29. CASE ProdExit
  BY <1>29 DEF ProdExit
<1>30. CASE UNCHANGED vars
  BY <1>30 DEF vars
<1> QED
  BY <1>1, <1>2, <1>3, <1>4, <1>5, <1>6, <1>7, <1>8, <1>9, <1>10, <1>11, <1>12, <1>13, <1>14, <1>15, <1>16, <1>17, <1>18, <1>19, <1>20, <1>21, <1>22, <1>23, <1>24, <1>25, <1>26, <1>27, <1>28, <1>29, <1>30, Zenon
     DEF Next, User, Reader, Producer

\* A step of the ring is a step of the stream, or none.
LEMMA StreamStep ==
  ASSUME RingInv, RingInv', OrderInv, [Next]_vars
  PROVE  [Stream!Next]_(Stream!streamVars)
<1>1. pos \in 0 .. MaxObjs /\ matched \in Seq(0 .. MaxObjs) /\ matched' \in Seq(0 .. MaxObjs)
  BY DEF RingInv, TypeOK, ProdType, HistType
<1>3. /\ head \in Nat /\ tail \in Nat /\ tail <= head /\ head <= Len(matched) /\ Len(matched) \in Nat
      /\ matched \in Seq(0 .. MaxObjs) /\ Len(delivered) = tail /\ MaxObjs \in Nat
      /\ Len(SubSeq(matched, 1, head)) = head
      /\ RingRecs \in Nat
  BY BoundAssumption, RingAssumption DEF RingInv, TypeOK, RingType, HistType, RingBounded, PushInv, DeliverInv
<1>4. delivered' \in Seq(0 .. MaxObjs)
  BY DEF RingInv, TypeOK, HistType
<1>5. delivered \in Seq(0 .. MaxObjs) /\ got \in Seq(0 .. MaxObjs)
  BY DEF RingInv, TypeOK, HistType, ReadType
<1> USE DEF prodVars, readVars, ringVars, ctlVars, prodLocals, readLocals, ends, queues, hist
<1>11. CASE Open
  <2>1. matched' = <<>> /\ head' = 0 /\ delivered' = <<>>
    BY <1>11 DEF Open
  <2> QED
    BY <2>1 DEF Stream!Next, Stream!Reopen
<1>12. CASE SetFilter
  BY <1>12 DEF SetFilter, Stream!streamVars
<1>13. CASE Close
  BY <1>13 DEF Close, Stream!streamVars
<1>14. CASE CloseDone
  BY <1>14 DEF CloseDone, Stream!streamVars
<1>15. CASE ReadCall
  BY <1>15 DEF ReadCall, Stream!streamVars
<1>16. CASE ReadAvail
  BY <1>16 DEF ReadAvail, Stream!streamVars
<1>17. CASE ReadDone
  BY <1>17 DEF ReadDone, Stream!streamVars
<1>18. CASE ReadPrep
  BY <1>18 DEF ReadPrep, Stream!streamVars
<1>19. CASE ReadTest
  BY <1>19 DEF ReadTest, Stream!streamVars
<1>20. CASE ReadWoken
  BY <1>20 DEF ReadWoken, Stream!streamVars
<1>21. CASE Signal
  BY <1>21 DEF Signal, Stream!streamVars
<1>22. CASE ReadCopy
  BY <1>22 DEF ReadCopy, Stream!streamVars
<1>23. CASE ReadAdvance
  <2>1. matched' = matched /\ head' = head /\ tail' = tail + Len(got)
        /\ Len(got) \in Nat /\ Len(got) <= head - tail
    <3>1. matched' = matched /\ head' = head /\ tail' = tail + Len(got) /\ rpc = "advance"
      BY <1>23 DEF ReadAdvance
    <3>2. Len(got) \in Nat
      BY <1>5, LenProperties
    <3>3. Len(got) <= head - tail
      BY <3>1, Zenon DEF RingInv, ReadInv
    <3> QED
      BY <3>1, <3>2, <3>3, Zenon
  <2>2. Len(delivered') = tail + Len(got)
        /\ \A i \in 1 .. tail + Len(got) : delivered'[i] = matched[i]
    BY <2>1 DEF RingInv, DeliverInv
  <2>3. delivered' = SubSeq(SubSeq(matched, 1, head), 1, Len(delivered) + Len(got))
    <3> DEFINE d == SubSeq(SubSeq(matched, 1, head), 1, tail + Len(got))
    <3>1. Len(d) = tail + Len(got) /\ \A i \in 1 .. tail + Len(got) : d[i] = matched[i]
      BY <2>1, <1>3
    <3>2. d \in Seq(0 .. MaxObjs)
      BY <2>1, <1>3
    <3> HIDE DEF d
    <3>3. d = delivered'
      BY <3>1, <3>2, <2>2, <1>4, SeqEqual
    <3> QED
      BY <3>3, <1>3, Zenon DEF d
  <2>4. CASE Len(got) = 0
    <3>1. delivered' = delivered
      BY <2>4, <1>23, EmptySeq, ConcatEmptySeq, <1>3, <1>5 DEF ReadAdvance
    <3> QED
      BY <2>1, <3>1 DEF Stream!streamVars
  <2>5. CASE Len(got) # 0
    <3>1. Len(got) \in 1 .. Len(SubSeq(matched, 1, head)) - Len(delivered)
      BY <2>1, <2>5, <1>3
    <3> QED
      BY <2>1, <2>3, <3>1, Zenon DEF Stream!Next, Stream!Receive
  <2> QED
    BY <2>4, <2>5
<1>24. CASE ReadReturn
  BY <1>24 DEF ReadReturn, Stream!streamVars
<1>25. CASE ProdNeverRan
  BY <1>25 DEF ProdNeverRan, Stream!streamVars
<1>26. CASE ProdSetup
  BY <1>26 DEF ProdSetup, Stream!streamVars
<1>27. CASE ProdObject
  <2>1. head' = head /\ delivered' = delivered /\ Len(matched) = head
        /\ (matched' = matched \/ matched' = Append(matched, pos))
    BY <1>27, Zenon DEF ProdObject, RingInv, PushInv
  <2>2. SubSeq(matched', 1, head') = SubSeq(matched, 1, head)
    <3>1. CASE matched' = matched
      BY <2>1, <3>1, Zenon
    <3>2. CASE matched' = Append(matched, pos)
      BY <2>1, <3>2, <1>1, <1>3
    <3> QED
      BY <2>1, <3>1, <3>2, Zenon
  <2> QED
    BY <2>1, <2>2 DEF Stream!streamVars
<1>28. CASE ProdPush
  BY <1>28 DEF ProdPush, Stream!streamVars
<1>29. CASE ProdPrep
  BY <1>29 DEF ProdPrep, Stream!streamVars
<1>30. CASE ProdTest
  BY <1>30 DEF ProdTest, Stream!streamVars
<1>31. CASE ProdWoken
  BY <1>31 DEF ProdWoken, Stream!streamVars
<1>32. CASE ProdFill
  BY <1>32 DEF ProdFill, Stream!streamVars
<1>33. CASE ProdPublish
  <2>1. matched' = matched /\ head' = head + 1 /\ delivered' = delivered
        /\ Len(matched) = head + 1 /\ head - tail < RingRecs
    BY <1>33 DEF ProdPublish, RingInv, PushInv, Pushing
  <2> DEFINE x == matched[head + 1]
  <2>2. x \in 1 .. MaxObjs
    <3>1. ppc = "publish"
      BY <1>33 DEF ProdPublish
    <3>2. x \in 1 .. pos
      BY <2>1, <1>3, <3>1 DEF OrderInv
    <3> QED
      BY <3>2, <1>1, <1>3
  <2>3. \A i \in 1 .. Len(SubSeq(matched, 1, head)) : SubSeq(matched, 1, head)[i] < x
    BY <2>1, <1>3 DEF OrderInv
  <2>4. SubSeq(matched, 1, head + 1) = Append(SubSeq(matched, 1, head), x)
    BY <2>1, <1>3
  <2>5. Len(SubSeq(matched, 1, head)) - Len(delivered) < RingRecs
    BY <2>1, <1>3
  <2> QED
    BY <2>1, <2>2, <2>3, <2>4, <2>5, Zenon DEF Stream!Next, Stream!Send
<1>34. CASE ProdBatch
  BY <1>34 DEF ProdBatch, Stream!streamVars
<1>35. CASE ProdNext
  BY <1>35 DEF ProdNext, Stream!streamVars
<1>36. CASE ProdFinish
  BY <1>36 DEF ProdFinish, Stream!streamVars
<1>37. CASE ProdSetDone
  BY <1>37 DEF ProdSetDone, Stream!streamVars
<1>38. CASE ProdWakeAll
  BY <1>38 DEF ProdWakeAll, Stream!streamVars
<1>39. CASE ProdExit
  BY <1>39 DEF ProdExit, Stream!streamVars
<1>40. CASE UNCHANGED vars
  BY <1>40 DEF vars, Stream!streamVars
<1> QED
  BY <1>11, <1>12, <1>13, <1>14, <1>15, <1>16, <1>17, <1>18, <1>19, <1>20, <1>21, <1>22, <1>23, <1>24, <1>25, <1>26, <1>27, <1>28, <1>29, <1>30, <1>31, <1>32, <1>33, <1>34, <1>35, <1>36, <1>37, <1>38, <1>39, <1>40
     DEF Next, User, Reader, Producer

\* The producer passes the objects in table order, and its counters account
\* for every object it looked at.
LEMMA OrderAndEnd == Spec => [](OrderInv /\ EndInv)
<1>1. Init => OrderInv /\ EndInv
  BY DEF Init, OrderInv, EndInv, ZeroStats
<1> QED
  BY RingInvariant, OrderStep, EndStep, <1>1, PTL DEF Spec

\* The ring implements the abstract stream, for every ring size, batch, table,
\* filter and sequence of reads: publishing the head sends the next object in
\* table order while there is room, moving the tail receives what was sent
\* first, and no other step of lfu_producer() or lfu_ring_read() shows.
THEOREM RingImplementsStream == Spec => ImplementsStream
<1>1. Init => Stream!Init
  BY DEF Init, Stream!Init
<1>2. Spec => []RingInv /\ []OrderInv
  BY RingInvariant, OrderAndEnd, PTL
<1> QED
  BY <1>1, <1>2, StreamStep, PTL DEF Spec, ImplementsStream, Stream!Spec

=============================================================================
