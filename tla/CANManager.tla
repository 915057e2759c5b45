----------------------------- MODULE CANManager -----------------------------
(***************************************************************************)
(* core/can_manager.{hpp,cpp}: the SocketCAN gateway of the emulator.      *)
(*                                                                         *)
(* Three threads share it.  The owner starts and stops it, registers       *)
(* callbacks and may send; rxLoop receives frames and runs the callbacks   *)
(* with filter_mutex_ held, and a callback answers a request by calling    *)
(* sendFrame; txLoop drains tx_queue_.  A thread's step ends where it can  *)
(* lose the processor with an effect on the others: at a lock, a system    *)
(* call, a loop test or a join.  A mutex is a variable only while it is    *)
(* held across steps; a critical section without one is a single step.     *)
(*                                                                         *)
(* A frame is what the properties tell apart: its kind and a number.  The  *)
(* socket delivers the process's own frames back (CAN_RAW_RECV_OWN_MSGS)   *)
(* and drops what finds its buffer full.                                   *)
(***************************************************************************)
EXTENDS Naturals, Sequences

CONSTANTS FilterIds,                \* the ids callbacks are registered under
          Accepts,                  \* Accepts[i]: kinds of frame id and mask let through
          MaxFilters,               \* bound: length of filters_
          MaxRequests, MaxSends,    \* bounds: requests on the bus, sendFrame by the owner
          KernelCap                 \* frames the socket buffers

Kinds == {"request", "reply", "notice"}

ASSUME CANAssumption ==
  /\ Accepts \in [FilterIds -> SUBSET Kinds]
  /\ MaxFilters \in Nat /\ MaxRequests \in Nat /\ MaxSends \in Nat /\ KernelCap \in Nat

Frame(kind, n) == [kind |-> kind, n |-> n]
Frames == [kind : Kinds, n : 1 .. (MaxRequests + MaxSends)]

VARIABLES main_pc,                  \* the owner: idle, or where it is in stop()
          rx_pc, tx_pc,             \* "none": the thread object is not joinable
          state, running, socket_open,
          filters,                  \* filters_, by id
          filter_mutex, tx_mutex,   \* "free" or the thread that holds it
          rx_frame, rx_next,        \* the frame being dispatched, the filter it is at
          tx_queue,
          tx_frame,                 \* the frame taken and not yet written: <<>> or <<f>>
          kernel_in,                \* receive buffer of the socket
          requests, sends,          \* requests seen on the bus, frames sent by the owner
          accepted, written         \* every frame sendFrame accepted, write() was given

mainVars == <<state, running, socket_open>>
rxVars   == <<rx_pc, filter_mutex, rx_frame, rx_next>>
txVars   == <<tx_pc, tx_mutex, tx_frame>>
queueVars == <<tx_queue, accepted>>
vars == <<main_pc, mainVars, filters, rxVars, txVars, queueVars, kernel_in,
          requests, sends, written>>

Init ==
  /\ main_pc = "idle" /\ rx_pc = "none" /\ tx_pc = "none"
  /\ state = "DOWN" /\ running = FALSE /\ socket_open = FALSE
  /\ filters = <<>> /\ filter_mutex = "free" /\ tx_mutex = "free"
  /\ rx_frame = <<>> /\ rx_next = 1
  /\ tx_queue = <<>> /\ tx_frame = <<>> /\ kernel_in = <<>>
  /\ requests = 0 /\ sends = 0 /\ accepted = <<>> /\ written = <<>>

\* sendFrame: one critical section of tx_mutex_.
sendFrame(f) ==
  /\ tx_mutex = "free"
  /\ tx_queue' = Append(tx_queue, f)
  /\ accepted' = Append(accepted, f)

\* The socket takes a frame off the bus, if it is open and has room.
Receive(f) ==
  kernel_in' = IF socket_open /\ Len(kernel_in) < KernelCap
                 THEN Append(kernel_in, f) ELSE kernel_in

-----------------------------------------------------------------------------
\* The owner.  start() on a manager that is up returns at once.
StartUp ==
  /\ main_pc = "idle" /\ state # "UP"
  /\ socket_open' = TRUE /\ running' = TRUE /\ state' = "UP"
  /\ rx_pc' = "check" /\ tx_pc' = "check"
  /\ UNCHANGED <<main_pc, filters, filter_mutex, rx_frame, rx_next, tx_mutex,
                 tx_frame, queueVars, kernel_in, requests, sends, written>>

\* openSocket or configureInterface fails; the socket is closed again.
StartFails ==
  /\ main_pc = "idle" /\ state # "UP"
  /\ state' = "ERROR"
  /\ UNCHANGED <<main_pc, running, socket_open, filters, rxVars, txVars, queueVars,
                 kernel_in, requests, sends, written>>

\* Slip: the threads are joined before they are told to stop.
StopBeforeFlag ==
  /\ main_pc = "idle"
  /\ state' = "DOWN" /\ main_pc' = "join_rx"
  /\ UNCHANGED <<running, socket_open, filters, rxVars, txVars, queueVars, kernel_in,
                 requests, sends, written>>

Stop ==
  /\ main_pc = "idle"
  /\ running' = FALSE /\ state' = "DOWN" /\ main_pc' = "join_rx"
  /\ UNCHANGED <<socket_open, filters, rxVars, txVars, queueVars, kernel_in,
                 requests, sends, written>>

JoinRx ==
  /\ main_pc = "join_rx" /\ rx_pc \in {"none", "done"}
  /\ rx_pc' = "none" /\ main_pc' = "join_tx"
  /\ UNCHANGED <<mainVars, filters, filter_mutex, rx_frame, rx_next, txVars,
                 queueVars, kernel_in, requests, sends, written>>

\* Slip: the transmit thread is detached, not joined.
JoinTxDetaches ==
  /\ main_pc = "join_tx"
  /\ main_pc' = "close"
  /\ UNCHANGED <<mainVars, filters, rxVars, txVars, queueVars, kernel_in, requests,
                 sends, written>>

JoinTx ==
  /\ main_pc = "join_tx" /\ tx_pc \in {"none", "done"}
  /\ tx_pc' = "none" /\ main_pc' = "close"
  /\ UNCHANGED <<mainVars, filters, rxVars, tx_mutex, tx_frame, queueVars,
                 kernel_in, requests, sends, written>>

\* Frames not read go with the socket; tx_queue_ keeps what was not written.
Close ==
  /\ main_pc = "close"
  /\ socket_open' = FALSE /\ kernel_in' = <<>> /\ main_pc' = "idle"
  /\ UNCHANGED <<state, running, filters, rxVars, txVars, queueVars, requests,
                 sends, written>>

\* Slip: filters_ is extended without taking filter_mutex_.
RegisterUnlocked(i) ==
  /\ main_pc = "idle" /\ Len(filters) < MaxFilters
  /\ filters' = Append(filters, i)
  /\ UNCHANGED <<main_pc, mainVars, rxVars, txVars, queueVars, kernel_in, requests,
                 sends, written>>

registerCallback(i) ==
  /\ main_pc = "idle" /\ filter_mutex = "free" /\ Len(filters) < MaxFilters
  /\ filters' = Append(filters, i)
  /\ UNCHANGED <<main_pc, mainVars, rxVars, txVars, queueVars, kernel_in, requests,
                 sends, written>>

\* erase(remove_if(...)): every entry of the id goes, the others, at the
\* positions "kept", keep their order.
unregisterCallback(i) ==
  /\ main_pc = "idle" /\ filter_mutex = "free"
  /\ \E n \in 0 .. Len(filters) : \E kept \in [1 .. n -> 1 .. Len(filters)] :
       /\ \A j \in 2 .. n : kept[j - 1] < kept[j]
       /\ {kept[j] : j \in 1 .. n} = {k \in 1 .. Len(filters) : filters[k] # i}
       /\ filters' = [j \in 1 .. n |-> filters[kept[j]]]
  /\ UNCHANGED <<main_pc, mainVars, rxVars, txVars, queueVars, kernel_in, requests,
                 sends, written>>

SendByOwner ==
  /\ main_pc = "idle" /\ sends < MaxSends
  /\ sends' = sends + 1
  /\ sendFrame(Frame("notice", sends + 1))
  /\ UNCHANGED <<main_pc, mainVars, filters, rxVars, txVars, kernel_in, requests, written>>

-----------------------------------------------------------------------------
\* rxLoop.
RxCheck ==
  /\ rx_pc = "check"
  /\ rx_pc' = IF running THEN "poll" ELSE "done"
  /\ UNCHANGED <<main_pc, mainVars, filters, filter_mutex, rx_frame, rx_next, txVars,
                 queueVars, kernel_in, requests, sends, written>>

\* poll() times out after 100 ms, or poll or recvfrom is interrupted.
RxNothing ==
  /\ rx_pc = "poll"
  /\ rx_pc' = "check"
  /\ UNCHANGED <<main_pc, mainVars, filters, filter_mutex, rx_frame, rx_next, txVars,
                 queueVars, kernel_in, requests, sends, written>>

\* Any other error ends the thread; state_ and running_ stay as they are.
RxError ==
  /\ rx_pc = "poll"
  /\ rx_pc' = "done"
  /\ UNCHANGED <<main_pc, mainVars, filters, filter_mutex, rx_frame, rx_next, txVars,
                 queueVars, kernel_in, requests, sends, written>>

RxRead ==
  /\ rx_pc = "poll" /\ kernel_in # <<>>
  /\ rx_frame' = <<Head(kernel_in)>> /\ kernel_in' = Tail(kernel_in)
  /\ rx_pc' = "lock"
  /\ UNCHANGED <<main_pc, mainVars, filters, filter_mutex, rx_next, txVars,
                 queueVars, requests, sends, written>>

RxLock ==
  /\ rx_pc = "lock" /\ filter_mutex = "free"
  /\ filter_mutex' = "rx" /\ rx_next' = 1 /\ rx_pc' = "match"
  /\ UNCHANGED <<main_pc, mainVars, filters, rx_frame, txVars, queueVars, kernel_in,
                 requests, sends, written>>

\* The entry at rx_next matches: its callback answers a request and ignores
\* every other frame.
Answers == /\ rx_frame[1].kind = "request"
           /\ rx_frame[1].kind \in Accepts[filters[rx_next]]

\* Slip: the walk over filters_ goes the wrong way.
RxMatchBackwards ==
  /\ rx_pc = "match" /\ rx_next <= Len(filters)
  /\ rx_next' = rx_next - 1
  /\ UNCHANGED <<main_pc, mainVars, filters, filter_mutex, rx_pc, rx_frame, txVars,
                 queueVars, kernel_in, requests, sends, written>>

RxMatch ==
  /\ rx_pc = "match" /\ rx_next <= Len(filters)
  /\ IF Answers THEN rx_pc' = "send" /\ UNCHANGED rx_next
                ELSE rx_next' = rx_next + 1 /\ UNCHANGED rx_pc
  /\ UNCHANGED <<main_pc, mainVars, filters, filter_mutex, rx_frame, txVars,
                 queueVars, kernel_in, requests, sends, written>>

\* The callback's sendFrame, still under filter_mutex_.
RxSend ==
  /\ rx_pc = "send"
  /\ sendFrame(Frame("reply", rx_frame[1].n))
  /\ rx_pc' = "match" /\ rx_next' = rx_next + 1
  /\ UNCHANGED <<main_pc, mainVars, filters, filter_mutex, rx_frame, txVars,
                 kernel_in, requests, sends, written>>

RxUnlock ==
  /\ rx_pc = "match" /\ rx_next > Len(filters)
  /\ filter_mutex' = "free" /\ rx_frame' = <<>> /\ rx_pc' = "check"
  /\ UNCHANGED <<main_pc, mainVars, filters, rx_next, txVars, queueVars, kernel_in,
                 requests, sends, written>>

-----------------------------------------------------------------------------
\* txLoop.
TxCheck ==
  /\ tx_pc = "check"
  /\ tx_pc' = IF running THEN "lock" ELSE "done"
  /\ UNCHANGED <<main_pc, mainVars, filters, rxVars, tx_mutex, tx_frame, queueVars,
                 kernel_in, requests, sends, written>>

\* Slip: the thread returns when it finds the queue empty.
TxSleepReturns ==
  /\ tx_pc = "lock" /\ tx_mutex = "free" /\ tx_queue = <<>>
  /\ tx_pc' = "done"
  /\ UNCHANGED <<main_pc, mainVars, filters, rxVars, tx_mutex, tx_frame, queueVars,
                 kernel_in, requests, sends, written>>

\* An empty queue is slept on for 10 ms with tx_mutex_ held.
TxSleep ==
  /\ tx_pc = "lock" /\ tx_mutex = "free" /\ tx_queue = <<>>
  /\ tx_mutex' = "tx" /\ tx_pc' = "sleep"
  /\ UNCHANGED <<main_pc, mainVars, filters, rxVars, tx_frame, queueVars, kernel_in,
                 requests, sends, written>>

TxWake ==
  /\ tx_pc = "sleep"
  /\ tx_mutex' = "free" /\ tx_pc' = "check"
  /\ UNCHANGED <<main_pc, mainVars, filters, rxVars, tx_frame, queueVars, kernel_in,
                 requests, sends, written>>

\* Slip: the frame is taken from the wrong end.
TxTakeLast ==
  /\ tx_pc = "lock" /\ tx_mutex = "free" /\ tx_queue # <<>>
  /\ tx_frame' = <<tx_queue[Len(tx_queue)]>>
  /\ tx_queue' = SubSeq(tx_queue, 1, Len(tx_queue) - 1)
  /\ tx_pc' = "write"
  /\ UNCHANGED <<main_pc, mainVars, filters, rxVars, tx_mutex, accepted, kernel_in,
                 requests, sends, written>>

TxTake ==
  /\ tx_pc = "lock" /\ tx_mutex = "free" /\ tx_queue # <<>>
  /\ tx_frame' = <<Head(tx_queue)>> /\ tx_queue' = Tail(tx_queue)
  /\ tx_pc' = "write"
  /\ UNCHANGED <<main_pc, mainVars, filters, rxVars, tx_mutex, accepted, kernel_in,
                 requests, sends, written>>

\* write() outside the lock: the frame reaches the bus, and comes back to the
\* socket, or the write fails and the frame is gone.
TxWrite ==
  /\ tx_pc = "write"
  /\ Receive(tx_frame[1]) \/ UNCHANGED kernel_in
  /\ written' = Append(written, tx_frame[1])
  /\ tx_frame' = <<>> /\ tx_pc' = "check"
  /\ UNCHANGED <<main_pc, mainVars, filters, rxVars, tx_mutex, queueVars, requests, sends>>

-----------------------------------------------------------------------------
\* A tester puts a request on the bus.
BusRequest ==
  /\ requests < MaxRequests
  /\ requests' = requests + 1
  /\ Receive(Frame("request", requests + 1))
  /\ UNCHANGED <<main_pc, mainVars, filters, rxVars, txVars, queueVars, sends, written>>

Owner == \/ StartUp \/ StartFails \/ Stop \/ JoinRx \/ JoinTx \/ Close \/ SendByOwner
         \/ \E i \in FilterIds : registerCallback(i) \/ unregisterCallback(i)
Rx == RxCheck \/ RxNothing \/ RxError \/ RxRead \/ RxLock \/ RxMatch \/ RxSend \/ RxUnlock
Tx == TxCheck \/ TxSleep \/ TxWake \/ TxTake \/ TxWrite

Next == Owner \/ Rx \/ Tx \/ BusRequest

\* The scheduler runs every thread that can run, and a call of stop() that has
\* begun goes on.  Nobody has to call anything, and no tester has to send.
Fairness == WF_vars(Rx) /\ WF_vars(Tx) /\ WF_vars(JoinRx \/ JoinTx \/ Close)

Spec == Init /\ [][Next]_vars /\ Fairness

-----------------------------------------------------------------------------
RxPCs == {"none", "check", "poll", "lock", "match", "send", "done"}
TxPCs == {"none", "check", "lock", "sleep", "write", "done"}
InHand == {<<>>} \cup {<<f>> : f \in Frames}

TypeOK ==
  /\ main_pc \in {"idle", "join_rx", "join_tx", "close"}
  /\ rx_pc \in RxPCs /\ tx_pc \in TxPCs
  /\ state \in {"DOWN", "UP", "ERROR"} /\ running \in BOOLEAN /\ socket_open \in BOOLEAN
  /\ filters \in Seq(FilterIds)
  /\ filter_mutex \in {"free", "rx"} /\ tx_mutex \in {"free", "tx"}
  /\ rx_frame \in InHand /\ tx_frame \in InHand /\ rx_next \in Nat \ {0}
  /\ tx_queue \in Seq(Frames) /\ kernel_in \in Seq(Frames)
  /\ accepted \in Seq(Frames) /\ written \in Seq(Frames)
  /\ requests \in 0 .. MaxRequests /\ sends \in 0 .. MaxSends

\* No frame overtakes another, is sent twice or vanishes between sendFrame and
\* write(), over every stop and restart (sendFrame, txLoop, stop).
Fifo == accepted = written \o tx_frame \o tx_queue

\* Neither loop polls, reads or writes a descriptor that stop() has closed.
SocketOpenInUse == rx_pc = "poll" \/ tx_pc = "write" => socket_open

\* start() never assigns to a std::thread that is still joinable, which would
\* end the program: a manager that is not up has no thread (start, stop).
SpawnSafe == main_pc = "idle" /\ state # "UP" => rx_pc = "none" /\ tx_pc = "none"

\* filters_ does not change under the loop that walks it (rxLoop, lines 173-179).
FiltersStable == [][(rx_pc \in {"match", "send"}) => filters' = filters]_vars

\* stop() returns, whatever the two threads were doing when it was called, a
\* callback waiting for tx_mutex_ included.
StopReturns == main_pc # "idle" ~> main_pc = "idle"

\* While the manager stays up, every frame accepted is given to write().
Drains == \A n \in 1 .. (MaxFilters * MaxRequests + MaxSends) :
            Len(accepted) >= n ~> Len(written) >= n \/ state # "UP"
=============================================================================
