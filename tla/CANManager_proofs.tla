------------------------- MODULE CANManager_proofs -------------------------
(***************************************************************************)
(* Proofs about CANManager, for any callbacks, any traffic and any number  *)
(* of restarts.                                                            *)
(*                                                                         *)
(* None of the properties is inductive alone.  What makes them hold is     *)
(* where each thread can be while the owner is at each place of stop() and *)
(* who holds each mutex where: Lifecycle and Locks, proved with them.      *)
(***************************************************************************)
EXTENDS CANManager, SequenceTheorems, TLAPS

\* A mutex is held, and a frame is in hand, exactly where the code has them.
Locks ==
  /\ filter_mutex = "rx" <=> rx_pc \in {"match", "send"}
  /\ tx_mutex = "tx" <=> tx_pc = "sleep"
  /\ rx_pc \in {"lock", "match", "send"} => rx_frame # <<>>
  /\ tx_frame # <<>> <=> tx_pc = "write"

\* A thread exists only while the socket is open; stop() has passed a join
\* only when that thread is gone, and nothing starts one meanwhile.
Lifecycle ==
  /\ rx_pc # "none" \/ tx_pc # "none" => socket_open
  /\ main_pc # "idle" => state = "DOWN"
  /\ main_pc \in {"join_tx", "close"} => rx_pc = "none"
  /\ main_pc = "close" => tx_pc = "none"
  /\ main_pc = "idle" /\ state # "UP" => rx_pc = "none" /\ tx_pc = "none"

IInv == TypeOK /\ Locks /\ Lifecycle

LEMMA FrameType ==
  ASSUME NEW k \in Kinds, NEW n \in 1 .. (MaxRequests + MaxSends)
  PROVE  Frame(k, n) \in Frames
  BY DEF Frame, Frames

\* Membership of InHand gives the frame.
LEMMA HandType ==
  ASSUME NEW h \in InHand, h # <<>>
  PROVE  h[1] \in Frames /\ h = <<h[1]>>
  BY DEF InHand

LEMMA InitIInv == Init => IInv
<1> SUFFICES ASSUME Init PROVE IInv
    OBVIOUS
<1>1. TypeOK
  <2>1. running \in BOOLEAN /\ socket_open \in BOOLEAN
      BY Zenon DEF Init
  <2>2. rx_frame \in InHand /\ tx_frame \in InHand
      BY DEF Init, InHand
  <2>3. /\ tx_queue \in Seq(Frames) /\ kernel_in \in Seq(Frames)
        /\ accepted \in Seq(Frames) /\ written \in Seq(Frames)
        /\ filters \in Seq(FilterIds)
      BY DEF Init
  <2>4. requests \in 0 .. MaxRequests /\ sends \in 0 .. MaxSends
      BY CANAssumption DEF Init
  <2> QED BY <2>1, <2>2, <2>3, <2>4 DEF Init, TypeOK, RxPCs, TxPCs
<1>2. Locks
    BY DEF Init, Locks
<1>3. Lifecycle
    BY DEF Init, Lifecycle
<1> QED BY <1>1, <1>2, <1>3 DEF IInv

-----------------------------------------------------------------------------
\* Every step keeps the types.
LEMMA NextTypeOK == TypeOK /\ Locks /\ [Next]_vars => TypeOK'
<1> SUFFICES ASSUME TypeOK, Locks, [Next]_vars PROVE TypeOK'
    OBVIOUS
<1> USE CANAssumption DEF TypeOK, RxPCs, TxPCs, mainVars, rxVars, txVars, queueVars
<1>1. CASE StartUp
    BY <1>1 DEF StartUp
<1>2. CASE StartFails
    BY <1>2 DEF StartFails
<1>3. CASE Stop
    BY <1>3 DEF Stop
<1>4. CASE JoinRx
    BY <1>4 DEF JoinRx
<1>5. CASE JoinTx
    BY <1>5 DEF JoinTx
<1>6. CASE Close
  <2>1. kernel_in' \in Seq(Frames)
      BY <1>6 DEF Close
  <2> QED BY <1>6, <2>1 DEF Close
<1>7. CASE SendByOwner
  <2>1. sends' \in 1 .. MaxSends /\ sends' \in 0 .. MaxSends
      BY <1>7 DEF SendByOwner
  <2>2. Frame("notice", sends + 1) \in Frames
      BY <1>7, <2>1, FrameType DEF SendByOwner, Kinds
  <2>3. tx_queue' \in Seq(Frames) /\ accepted' \in Seq(Frames)
      BY <1>7, <2>2 DEF SendByOwner, sendFrame
  <2> QED BY <1>7, <2>1, <2>3 DEF SendByOwner, sendFrame
<1>8. ASSUME NEW i \in FilterIds, registerCallback(i) PROVE TypeOK'
    BY <1>8 DEF registerCallback
<1>9. ASSUME NEW i \in FilterIds, unregisterCallback(i) PROVE TypeOK'
  <2>1. PICK n \in 0 .. Len(filters) : \E kept \in [1 .. n -> 1 .. Len(filters)] :
          filters' = [j \in 1 .. n |-> filters[kept[j]]]
      BY <1>9 DEF unregisterCallback
  <2>2. PICK kept \in [1 .. n -> 1 .. Len(filters)] :
          filters' = [j \in 1 .. n |-> filters[kept[j]]]
      BY <2>1
  <2>3. filters' \in [1 .. n -> FilterIds]
      BY <2>2
  <2>4. filters' \in Seq(FilterIds)
      BY <2>3, SeqDef
  <2> QED BY <1>9, <2>4 DEF unregisterCallback
<1>10. CASE RxCheck
    BY <1>10 DEF RxCheck
<1>11. CASE RxNothing
    BY <1>11 DEF RxNothing
<1>12. CASE RxError
    BY <1>12 DEF RxError
<1>13. CASE RxRead
  <2>1. Head(kernel_in) \in Frames /\ Tail(kernel_in) \in Seq(Frames)
      BY <1>13 DEF RxRead
  <2>2. rx_frame' \in InHand
      BY <1>13, <2>1 DEF RxRead, InHand
  <2> QED BY <1>13, <2>1, <2>2 DEF RxRead
<1>14. CASE RxLock
    BY <1>14 DEF RxLock
<1>15. CASE RxMatch
    BY <1>15 DEF RxMatch
<1>16. CASE RxSend
  <2>1. rx_frame[1] \in Frames
      BY <1>16, HandType DEF RxSend, Locks
  <2>2. rx_frame[1].n \in 1 .. (MaxRequests + MaxSends)
      BY <2>1 DEF Frames
  <2>3. Frame("reply", rx_frame[1].n) \in Frames
      BY <2>2, FrameType DEF Kinds
  <2>4. tx_queue' \in Seq(Frames) /\ accepted' \in Seq(Frames)
      BY <1>16, <2>3 DEF RxSend, sendFrame
  <2> QED BY <1>16, <2>4 DEF RxSend, sendFrame
<1>17. CASE RxUnlock
  <2>1. rx_frame' \in InHand
      BY <1>17 DEF RxUnlock, InHand
  <2> QED BY <1>17, <2>1 DEF RxUnlock
<1>18. CASE TxCheck
    BY <1>18 DEF TxCheck
<1>19. CASE TxSleep
    BY <1>19 DEF TxSleep
<1>20. CASE TxWake
    BY <1>20 DEF TxWake
<1>21. CASE TxTake
  <2>1. Head(tx_queue) \in Frames /\ Tail(tx_queue) \in Seq(Frames)
      BY <1>21 DEF TxTake
  <2>2. tx_frame' \in InHand
      BY <1>21, <2>1 DEF TxTake, InHand
  <2> QED BY <1>21, <2>1, <2>2 DEF TxTake
<1>22. CASE TxWrite
  <2>1. tx_frame[1] \in Frames
      BY <1>22, HandType DEF TxWrite, Locks
  <2>2. kernel_in' \in Seq(Frames)
    <3>1. CASE UNCHANGED kernel_in
        BY <3>1
    <3>2. CASE Receive(tx_frame[1])
        BY <2>1, <3>2 DEF Receive
    <3> QED BY <1>22, <3>1, <3>2 DEF TxWrite
  <2>4. written' \in Seq(Frames)
      BY <1>22, <2>1 DEF TxWrite
  <2>3. tx_frame' \in InHand
      BY <1>22 DEF TxWrite, InHand
  <2> QED BY <1>22, <2>2, <2>3, <2>4 DEF TxWrite
<1>23. CASE BusRequest
  <2>1. requests' \in 1 .. MaxRequests /\ requests' \in 0 .. MaxRequests
      BY <1>23 DEF BusRequest
  <2>2. Frame("request", requests + 1) \in Frames
      BY <1>23, <2>1, FrameType DEF BusRequest, Kinds
  <2>3. kernel_in' \in Seq(Frames)
      BY <1>23, <2>2 DEF BusRequest, Receive
  <2> QED BY <1>23, <2>1, <2>3 DEF BusRequest
<1>24. CASE UNCHANGED vars
    BY <1>24 DEF vars
<1> QED
    BY <1>1, <1>2, <1>3, <1>4, <1>5, <1>6, <1>7, <1>8, <1>9, <1>10, <1>11, <1>12,
       <1>13, <1>14, <1>15, <1>16, <1>17, <1>18, <1>19, <1>20, <1>21, <1>22, <1>23, <1>24
    DEF Next, Owner, Rx, Tx

-----------------------------------------------------------------------------
\* Every step of a thread releases what it took, and takes what it needs.
LEMMA NextLocks == TypeOK /\ Locks /\ Lifecycle /\ [Next]_vars => Locks'
<1> SUFFICES ASSUME TypeOK, Locks, Lifecycle, [Next]_vars PROVE Locks'
    OBVIOUS
<1> USE DEF Locks, mainVars, rxVars, txVars, queueVars
<1>1. CASE Owner
  <2>1. CASE StartUp
      \* Neither thread exists yet, so neither mutex is held.
      BY <2>1 DEF StartUp, TypeOK, Lifecycle
  <2>2. CASE StartFails
      BY <2>2 DEF StartFails
  <2>6. CASE Stop \/ Close
      BY <2>6 DEF Stop, Close
  <2>7. CASE SendByOwner
      BY <2>7 DEF SendByOwner
  <2>3. CASE JoinRx
      BY <2>3 DEF JoinRx
  <2>4. CASE JoinTx
      BY <2>4 DEF JoinTx
  <2>5. ASSUME NEW i \in FilterIds, registerCallback(i) \/ unregisterCallback(i) PROVE Locks'
      BY <2>5 DEF registerCallback, unregisterCallback
  <2> QED BY <1>1, <2>1, <2>2, <2>3, <2>4, <2>5, <2>6, <2>7 DEF Owner
<1>2. CASE Rx
  <2>1. CASE RxCheck
      BY <2>1 DEF RxCheck
  <2>2. CASE RxNothing \/ RxError
      BY <2>2 DEF RxNothing, RxError
  <2>3. CASE RxRead
      BY <2>3 DEF RxRead
  <2>4. CASE RxLock
      BY <2>4 DEF RxLock
  <2>5. CASE RxMatch
      BY <2>5 DEF RxMatch
  <2>6. CASE RxSend
      BY <2>6 DEF RxSend, sendFrame
  <2>7. CASE RxUnlock
      BY <2>7 DEF RxUnlock
  <2> QED BY <1>2, <2>1, <2>2, <2>3, <2>4, <2>5, <2>6, <2>7 DEF Rx
<1>3. CASE Tx
  <2>1. CASE TxCheck
      BY <2>1 DEF TxCheck
  <2>2. CASE TxSleep
      BY <2>2 DEF TxSleep
  <2>3. CASE TxWake
      BY <2>3 DEF TxWake
  <2>4. CASE TxTake
      BY <2>4 DEF TxTake
  <2>5. CASE TxWrite
      BY <2>5 DEF TxWrite
  <2> QED BY <1>3, <2>1, <2>2, <2>3, <2>4, <2>5 DEF Tx
<1>4. CASE BusRequest
    BY <1>4 DEF BusRequest
<1>5. CASE UNCHANGED vars
    BY <1>5 DEF vars
<1> QED BY <1>1, <1>2, <1>3, <1>4, <1>5 DEF Next

\* Only start() makes threads and only the joins take them away.
LEMMA NextLifecycle == TypeOK /\ Lifecycle /\ [Next]_vars => Lifecycle'
<1> SUFFICES ASSUME TypeOK, Lifecycle, [Next]_vars PROVE Lifecycle'
    OBVIOUS
<1> USE DEF Lifecycle, mainVars, rxVars, txVars, queueVars
<1>1. CASE Owner
  <2>1. CASE StartUp
      BY <2>1 DEF StartUp
  <2>2. CASE StartFails
      BY <2>2 DEF StartFails
  <2>3. CASE Stop
      BY <2>3 DEF Stop
  <2>4. CASE JoinRx
      BY <2>4 DEF JoinRx
  <2>5. CASE JoinTx
      BY <2>5 DEF JoinTx
  <2>6. CASE Close
      BY <2>6 DEF Close
  <2>7. CASE SendByOwner
      BY <2>7 DEF SendByOwner
  <2>8. ASSUME NEW i \in FilterIds, registerCallback(i) \/ unregisterCallback(i)
        PROVE  Lifecycle'
      BY <2>8 DEF registerCallback, unregisterCallback
  <2> QED BY <1>1, <2>1, <2>2, <2>3, <2>4, <2>5, <2>6, <2>7, <2>8 DEF Owner
<1>2. CASE Rx
    BY <1>2 DEF Rx, RxCheck, RxNothing, RxError, RxRead, RxLock, RxMatch, RxSend, RxUnlock
<1>3. CASE Tx
    BY <1>3 DEF Tx, TxCheck, TxSleep, TxWake, TxTake, TxWrite
<1>4. CASE BusRequest
    BY <1>4 DEF BusRequest
<1>5. CASE UNCHANGED vars
    BY <1>5 DEF vars
<1> QED BY <1>1, <1>2, <1>3, <1>4, <1>5 DEF Next

\* Two facts about the concatenation: the head of the last part may move to
\* the middle, and the middle to the first.
LEMMA HeadToMiddle ==
  ASSUME NEW S, NEW a \in Seq(S), NEW q \in Seq(S), q # <<>>
  PROVE  a \o <<>> \o q = a \o <<Head(q)>> \o Tail(q)
<1>1. Head(q) \in S /\ Tail(q) \in Seq(S) /\ <<Head(q)>> \in Seq(S)
    BY HeadTailProperties
<1>2. q = <<Head(q)>> \o Tail(q)
    BY <1>1
<1>3. a \o <<>> = a
    BY ConcatEmptySeq
<1>4. a \o <<Head(q)>> \o Tail(q) = a \o (<<Head(q)>> \o Tail(q))
    BY <1>1, ConcatAssociative
<1> QED BY <1>2, <1>3, <1>4

LEMMA MiddleToFirst ==
  ASSUME NEW S, NEW a \in Seq(S), NEW x \in S, NEW c \in Seq(S)
  PROVE  a \o <<x>> \o c = Append(a, x) \o <<>> \o c
<1>1. Append(a, x) = a \o <<x>> /\ Append(a, x) \in Seq(S)
    BY AppendIsConcat, AppendProperties
<1> QED BY <1>1, ConcatEmptySeq

\* The order of acceptance is the order of writing: sendFrame appends to both
\* sides, taking and writing a frame move it one place along.
LEMMA NextFifo == TypeOK /\ Locks /\ Fifo /\ [Next]_vars => Fifo'
<1> SUFFICES ASSUME TypeOK, Locks, Fifo, [Next]_vars PROVE Fifo'
    OBVIOUS
<1> USE DEF mainVars, rxVars, txVars, queueVars
<1>0. /\ written \in Seq(Frames) /\ tx_queue \in Seq(Frames) /\ accepted \in Seq(Frames)
      /\ tx_frame \in InHand /\ tx_frame \in Seq(Frames)
  <2>1. \A f \in Frames : <<f>> \in Seq(Frames)
      OBVIOUS
  <2>2. tx_frame \in Seq(Frames)
    <3>1. CASE tx_frame = <<>>
        BY <3>1
    <3>2. CASE tx_frame # <<>>
        BY <2>1, <3>2, HandType DEF TypeOK
    <3> QED BY <3>1, <3>2
  <2> QED BY <2>2 DEF TypeOK
<1>1. ASSUME NEW f \in Frames, sendFrame(f), UNCHANGED <<written, tx_frame>> PROVE Fifo'
  <2>1. tx_queue' = Append(tx_queue, f) /\ accepted' = Append(accepted, f)
          /\ written' = written /\ tx_frame' = tx_frame
      BY <1>1 DEF sendFrame
  <2>2. Append(written \o tx_frame \o tx_queue, f) = written \o tx_frame \o Append(tx_queue, f)
    <3>1. <<f>> \in Seq(Frames)
        OBVIOUS
    <3>2. written \o tx_frame \in Seq(Frames)
        BY <1>0
    <3>3. written \o tx_frame \o tx_queue \in Seq(Frames)
        BY <1>0, <3>2
    <3>4. /\ Append(written \o tx_frame \o tx_queue, f)
               = (written \o tx_frame \o tx_queue) \o <<f>>
          /\ Append(tx_queue, f) = tx_queue \o <<f>>
        BY <1>0, <3>1, <3>3, AppendIsConcat
    <3>5. tx_queue \in Seq(Frames)
        BY <1>0
    <3>6. ((written \o tx_frame) \o tx_queue) \o <<f>> = (written \o tx_frame) \o (tx_queue \o <<f>>)
        BY ONLY <3>1, <3>2, <3>5, ConcatAssociative
    <3> QED BY <3>4, <3>6, Zenon
  <2>3. accepted' = written \o tx_frame \o Append(tx_queue, f)
      BY <2>1, <2>2 DEF Fifo
  <2> QED BY <2>1, <2>3 DEF Fifo
<1>2. CASE SendByOwner
  <2>1. sends + 1 \in 1 .. (MaxRequests + MaxSends)
      BY <1>2, CANAssumption DEF SendByOwner, TypeOK
  <2>2. Frame("notice", sends + 1) \in Frames
      BY <2>1, FrameType DEF Kinds
  <2> QED BY <1>1, <1>2, <2>2 DEF SendByOwner
<1>3. CASE RxSend
  <2>1. rx_frame[1] \in Frames
      BY <1>3, HandType DEF RxSend, Locks, TypeOK
  <2>2. rx_frame[1].n \in 1 .. (MaxRequests + MaxSends)
      BY <2>1 DEF Frames
  <2>3. Frame("reply", rx_frame[1].n) \in Frames
      BY <2>2, FrameType DEF Kinds
  <2> QED BY <1>1, <1>3, <2>3 DEF RxSend
<1>4. CASE TxTake
  <2>1. tx_frame = <<>>
      BY <1>4 DEF TxTake, Locks
  <2>2. tx_queue # <<>> /\ tx_frame' = <<Head(tx_queue)>> /\ tx_queue' = Tail(tx_queue)
          /\ UNCHANGED <<accepted, written>>
      BY <1>4 DEF TxTake
  <2> QED BY <1>0, <2>1, <2>2, HeadToMiddle DEF Fifo
<1>5. CASE TxWrite
  <2>1. tx_frame[1] \in Frames /\ tx_frame = <<tx_frame[1]>>
      BY <1>0, <1>5, HandType DEF TxWrite, Locks
  <2>2. written' = Append(written, tx_frame[1]) /\ tx_frame' = <<>>
          /\ UNCHANGED <<accepted, tx_queue>>
      BY <1>5 DEF TxWrite
  <2>3. accepted = written \o <<tx_frame[1]>> \o tx_queue
      BY <2>1 DEF Fifo
  <2> QED BY <1>0, <2>1, <2>2, <2>3, MiddleToFirst DEF Fifo
<1>6. ASSUME UNCHANGED <<accepted, written, tx_frame, tx_queue>> PROVE Fifo'
    BY <1>6 DEF Fifo
<1>7. CASE Owner
  <2>1. ASSUME NEW i \in FilterIds, registerCallback(i) \/ unregisterCallback(i) PROVE Fifo'
      BY <2>1, <1>6 DEF registerCallback, unregisterCallback
  <2> QED
      BY <1>2, <1>6, <1>7, <2>1 DEF Owner, StartUp, StartFails, Stop, JoinRx, JoinTx, Close
<1>8. CASE Rx
    BY <1>3, <1>6, <1>8 DEF Rx, RxCheck, RxNothing, RxError, RxRead, RxLock, RxMatch, RxUnlock
<1>9. CASE Tx
    BY <1>4, <1>5, <1>6, <1>9 DEF Tx, TxCheck, TxSleep, TxWake
<1>10. CASE BusRequest
    BY <1>6, <1>10 DEF BusRequest
<1>11. CASE UNCHANGED vars
    BY <1>6, <1>11 DEF vars
<1> QED BY <1>7, <1>8, <1>9, <1>10, <1>11 DEF Next

LEMMA Invariance == Spec => []IInv
<1>1. IInv /\ [Next]_vars => IInv'
    BY NextTypeOK, NextLocks, NextLifecycle DEF IInv
<1> QED BY <1>1, InitIInv, PTL DEF Spec

-----------------------------------------------------------------------------
\* Type correctness.
THEOREM TypeCorrect == Spec => []TypeOK
  BY Invariance, PTL DEF IInv

\* Frames leave in the order in which they were accepted, none lost, none
\* twice, over every stop and restart.
THEOREM FifoOrder == Spec => []Fifo
<1>1. Init => Fifo
    BY DEF Init, Fifo
<1>2. IInv /\ Fifo /\ [Next]_vars => Fifo'
    BY NextFifo DEF IInv
<1> QED BY <1>1, <1>2, Invariance, PTL DEF Spec

\* Neither loop uses a descriptor that stop() has closed.
THEOREM SocketSafe == Spec => []SocketOpenInUse
<1>1. IInv => SocketOpenInUse
    BY DEF IInv, Lifecycle, SocketOpenInUse
<1> QED BY <1>1, Invariance, PTL

\* start() never overwrites a joinable thread.
THEOREM RestartSafe == Spec => []SpawnSafe
<1>1. IInv => SpawnSafe
    BY DEF IInv, Lifecycle, SpawnSafe
<1> QED BY <1>1, Invariance, PTL

\* The list of callbacks stands still while the receive thread walks it.
THEOREM DispatchStable == Spec => FiltersStable
<1>1. IInv /\ [Next]_vars => [(rx_pc \in {"match", "send"}) => filters' = filters]_vars
  <2> SUFFICES ASSUME Locks, Next, rx_pc \in {"match", "send"} PROVE filters' = filters
      BY DEF IInv, vars
  <2>1. filter_mutex # "free"
      BY DEF Locks
  <2> QED
      BY <2>1
      DEF Next, Owner, Rx, Tx, StartUp, StartFails, Stop, JoinRx, JoinTx, Close,
          registerCallback, unregisterCallback, SendByOwner, RxCheck, RxNothing, RxError,
          RxRead, RxLock, RxMatch, RxSend, RxUnlock, TxCheck, TxSleep, TxWake, TxTake,
          TxWrite, BusRequest
<1> QED BY <1>1, Invariance, PTL DEF Spec, FiltersStable
=============================================================================
