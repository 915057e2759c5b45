------------------------------- MODULE CanTp -------------------------------
(***************************************************************************)
(* protocols/can_tp.{hpp,cpp}: CANTransportProtocol cuts a message into    *)
(* frames (prepareMessage) and puts the frames of any source together      *)
(* again (processFrame), with one reassembly buffer for all of them.       *)
(*                                                                         *)
(* Several sources send on one bus, which keeps frames in order but may    *)
(* lose any of them or deliver it twice; a source may stop in the middle   *)
(* of a message.  The code has no timeout and a frame does not name its    *)
(* message: when a first frame is lost, the consecutive frames behind it   *)
(* may continue an older message of their source.                          *)
(* Payload bytes are named by their message and position.                  *)
(***************************************************************************)
EXTENDS Integers, Sequences, FiniteSetsExt

CONSTANTS Sources,                  \* CAN identifiers that send messages
          Sizes,                    \* payload sizes, in bytes
          MaxMessages, MaxFaults    \* bounds: messages and faults of a behaviour

\* buildFirstFrame keeps twelve bits of the size; "none" stands for no source.
ASSUME CanTpAssumption ==
  /\ Sizes \subseteq 0 .. 4095 /\ "none" \notin Sources
  /\ MaxMessages \in Nat /\ MaxFaults \in Nat

VARIABLES out,                      \* out[s]: frames s has still to send
          last_frame,               \* the frame last seen on the bus
          state, current_source_id, receive_buffer,
          expected_total_size, received_size, expected_seq_num,
          size, sender,             \* of each message prepared so far
          delivered,                \* what the last processFrame returned
          arrived,                  \* arrived[s]: last message delivered from s
          clean,                    \* clean[s]: nothing went wrong for s's last message
          headless,                 \* the messages whose first frame was lost
          faults

rxVars == <<state, current_source_id, receive_buffer,
            expected_total_size, received_size, expected_seq_num>>
sentVars == <<size, sender>>
vars == <<out, last_frame, rxVars, sentVars, delivered, arrived, clean, headless, faults>>

Ids == 1 .. MaxMessages
NextId == Len(size) + 1

\* Bytes first to last - 1 of message id.
Piece(id, first, last) == [id |-> id, first |-> first, last |-> last]
Bytes(p) == p.last - p.first

Frame(kind, s, total, seq, p) ==
  [kind |-> kind, source |-> s, total |-> total, seq |-> seq, piece |-> p]
NoFrame == [kind |-> "none"]
NoMessage == [source |-> "none"]

buildSingleFrame(s, id, n) == Frame("SF", s, n, 0, Piece(id, 0, n))
buildFirstFrame(s, id, n) == Frame("FF", s, n, 0, Piece(id, 0, 6))
buildConsecutiveFrame(s, id, n, i) ==
  Frame("CF", s, 0, (i + 1) % 16, Piece(id, 7 * i - 1, Min({n, 7 * i + 6})))

\* Consecutive frame i carries sequence number i + 1, which wraps to 0;
\* n \div 7 of them hold what the six bytes of the first frame leave.
prepareMessage(s, id, n) ==
  IF n <= 7
    THEN <<buildSingleFrame(s, id, n)>>
    ELSE <<buildFirstFrame(s, id, n)>>
         \o [i \in 1 .. (n \div 7) |-> buildConsecutiveFrame(s, id, n, i)]

Init ==
  /\ out = [s \in Sources |-> <<>>] /\ last_frame = NoFrame
  /\ state = "IDLE" /\ current_source_id = "none" /\ receive_buffer = <<>>
  /\ expected_total_size = 0 /\ received_size = 0 /\ expected_seq_num = 1
  /\ size = <<>> /\ sender = <<>>
  /\ delivered = NoMessage
  /\ arrived = [s \in Sources |-> 0] /\ clean = [s \in Sources |-> FALSE]
  /\ headless = {} /\ faults = 0

-----------------------------------------------------------------------------
\* The message that arrives is the one whose frame was processed.
Deliver(s, pieces) ==
  /\ delivered' = [source |-> s, pieces |-> pieces]
  /\ arrived' = [arrived EXCEPT ![s] = pieces[Len(pieces)].id]

Nothing == delivered' = NoMessage /\ UNCHANGED arrived

\* A single frame is returned at once and leaves a reassembly alone.
ReceiveSingle(f) ==
  /\ f.kind = "SF"
  /\ Deliver(f.source, <<f.piece>>)
  /\ UNCHANGED rxVars

\* Slip: the buffer of the message before is not cleared.
ReceiveFirstKeepsBuffer(f) ==
  /\ f.kind = "FF"
  /\ state' = "RECEIVING" /\ current_source_id' = f.source
  /\ receive_buffer' = receive_buffer \o <<f.piece>>
  /\ expected_total_size' = f.total /\ received_size' = Bytes(f.piece)
  /\ expected_seq_num' = 2
  /\ Nothing

\* A first frame of any source takes the buffer over.
ReceiveFirst(f) ==
  /\ f.kind = "FF"
  /\ state' = "RECEIVING" /\ current_source_id' = f.source
  /\ receive_buffer' = <<f.piece>>
  /\ expected_total_size' = f.total /\ received_size' = Bytes(f.piece)
  /\ expected_seq_num' = 2
  /\ Nothing

\* Slips: sequence numbers wrap to 1, or never.
WrapToOne(seq) == IF seq = 15 THEN 1 ELSE seq + 1
NoWrap(seq) == seq + 1

NextSeq(seq) == IF seq = 15 THEN 0 ELSE seq + 1

InSequence(f) ==
  state = "RECEIVING" /\ f.source = current_source_id /\ f.seq = expected_seq_num

OutOfSequence(f) ==
  state = "RECEIVING" /\ f.source = current_source_id /\ f.seq # expected_seq_num

\* What a consecutive frame adds never exceeds the announced size.
Taken(p) == LET n == Min({expected_total_size - received_size, Bytes(p)})
            IN  Piece(p.id, p.first, p.first + n)

\* Slip: the message is returned before anything is written down.
ReceiveNextReturnsEarly(f) ==
  /\ f.kind = "CF" /\ InSequence(f)
  /\ LET buffer == Append(receive_buffer, Taken(f.piece)) IN
       IF received_size + Bytes(Taken(f.piece)) >= expected_total_size
         THEN Deliver(f.source, buffer) /\ UNCHANGED rxVars
         ELSE /\ receive_buffer' = buffer /\ expected_seq_num' = NextSeq(f.seq)
              /\ received_size' = received_size + Bytes(Taken(f.piece))
              /\ UNCHANGED <<state, current_source_id, expected_total_size>> /\ Nothing

ReceiveNext(f) ==
  /\ f.kind = "CF" /\ InSequence(f)
  /\ expected_seq_num' = NextSeq(f.seq)
  /\ received_size' = received_size + Bytes(Taken(f.piece))
  /\ LET buffer == Append(receive_buffer, Taken(f.piece)) IN
       IF received_size' >= expected_total_size
         THEN state' = "IDLE" /\ receive_buffer' = <<>> /\ Deliver(f.source, buffer)
         ELSE receive_buffer' = buffer /\ UNCHANGED state /\ Nothing
  /\ UNCHANGED <<current_source_id, expected_total_size>>

\* The buffer is left as it is until the next first frame.
ReceiveOutOfSequence(f) ==
  /\ f.kind = "CF" /\ OutOfSequence(f)
  /\ state' = "IDLE" /\ Nothing
  /\ UNCHANGED <<current_source_id, receive_buffer, expected_total_size,
                 received_size, expected_seq_num>>

ReceiveStray(f) ==
  /\ f.kind = "CF" /\ ~InSequence(f) /\ ~OutOfSequence(f)
  /\ Nothing /\ UNCHANGED rxVars

processFrame(f) ==
  ReceiveSingle(f) \/ ReceiveFirst(f) \/ ReceiveNext(f) \/ ReceiveOutOfSequence(f)
    \/ ReceiveStray(f)

\* A first frame takes the buffer from every other source in mid-message.
Undisturbed(f) ==
  [s \in Sources |-> clean[s] /\ ~(f.kind = "FF" /\ s # f.source /\ out[s] # <<>>)]

-----------------------------------------------------------------------------
StartMessage(s, n) ==
  /\ NextId \in Ids /\ out[s] = <<>>
  /\ out' = [out EXCEPT ![s] = prepareMessage(s, NextId, n)]
  /\ size' = Append(size, n) /\ sender' = Append(sender, s)
  /\ clean' = [clean EXCEPT ![s] = TRUE]
  /\ delivered' = NoMessage
  /\ UNCHANGED <<last_frame, rxVars, arrived, headless, faults>>

Transmit(s) ==
  /\ out[s] # <<>>
  /\ processFrame(Head(out[s]))
  /\ last_frame' = Head(out[s])
  /\ clean' = Undisturbed(Head(out[s]))
  /\ out' = [out EXCEPT ![s] = Tail(@)]
  /\ UNCHANGED <<sentVars, headless, faults>>

Fault == faults < MaxFaults /\ faults' = faults + 1

Lose(s) ==
  /\ Fault /\ out[s] # <<>>
  /\ out' = [out EXCEPT ![s] = Tail(@)]
  /\ headless' = IF Head(out[s]).kind = "FF" THEN headless \cup {Head(out[s]).piece.id}
                                              ELSE headless
  /\ clean' = [clean EXCEPT ![s] = FALSE]
  /\ delivered' = NoMessage
  /\ UNCHANGED <<last_frame, rxVars, sentVars, arrived>>

\* The controller sends its last frame again, although it had arrived.
Repeat ==
  /\ Fault /\ last_frame # NoFrame
  /\ processFrame(last_frame)
  /\ clean' = [Undisturbed(last_frame) EXCEPT ![last_frame.source] =
                 @ /\ (last_frame.kind = "CF" => out[last_frame.source] = <<>>)]
  /\ UNCHANGED <<out, last_frame, sentVars, headless>>

\* A source stops in the middle of a message.
Abandon(s) ==
  /\ Fault /\ out[s] # <<>>
  /\ out' = [out EXCEPT ![s] = <<>>] /\ clean' = [clean EXCEPT ![s] = FALSE]
  /\ delivered' = NoMessage
  /\ UNCHANGED <<last_frame, rxVars, sentVars, arrived, headless>>

reset ==
  /\ Fault
  /\ state' = "IDLE" /\ receive_buffer' = <<>>
  /\ expected_total_size' = 0 /\ received_size' = 0 /\ expected_seq_num' = 0
  /\ clean' = [s \in Sources |-> clean[s] /\ out[s] = <<>>]
  /\ delivered' = NoMessage
  /\ UNCHANGED <<out, last_frame, current_source_id, sentVars, arrived, headless>>

Next ==
  \/ \E s \in Sources : \/ \E n \in Sizes : StartMessage(s, n)
                        \/ Transmit(s) \/ Lose(s) \/ Abandon(s)
  \/ Repeat \/ reset

Spec == Init /\ [][Next]_vars

-----------------------------------------------------------------------------
Pieces == [id : Ids, first : Nat, last : Nat]

TypeOK ==
  /\ \A s \in Sources : \A i \in DOMAIN out[s] : out[s][i].source = s
  /\ state \in {"IDLE", "RECEIVING"} /\ current_source_id \in Sources \cup {"none"}
  /\ receive_buffer \in Seq(Pieces) /\ expected_seq_num \in 0 .. 15
  /\ received_size \in 0 .. expected_total_size /\ expected_total_size \in 0 .. 4095
  /\ arrived \in [Sources -> Ids \cup {0}] /\ clean \in [Sources -> BOOLEAN]
  /\ headless \subseteq Ids /\ faults \in 0 .. MaxFaults

\* The pieces are the whole of one message of that source, in order.
Whole(m) ==
  LET id == m.pieces[1].id
      n  == Len(m.pieces)
  IN  /\ sender[id] = m.source
      /\ m.pieces[1].first = 0 /\ m.pieces[n].last = size[id]
      /\ \A i \in 2 .. n : /\ m.pieces[i].id = id
                           /\ m.pieces[i].first = m.pieces[i - 1].last

\* The message contains pieces of one whose first frame was lost.
Mixed(pieces) == \E i \in 2 .. Len(pieces) : pieces[i].id \in headless

\* Whatever is lost, repeated, interleaved or abandoned on the bus, a message
\* that processFrame returns is one that was sent, whole, unless it took over
\* consecutive frames of a message whose own first frame was lost: nothing in
\* lines 60-78 tells these from the frames it waits for.
DeliveredIntact == delivered # NoMessage => Whole(delivered) \/ Mixed(delivered.pieces)

\* A message all of whose frames arrive once and in order, with no other first
\* frame in between, has been returned when its last frame has been processed:
\* prepareMessage and processFrame agree on sizes and sequence numbers.
CleanArrives ==
  \A s \in Sources : clean[s] /\ out[s] = <<>> =>
    arrived[s] = CHOOSE id \in DOMAIN sender :
                   sender[id] = s /\ \A j \in DOMAIN sender : sender[j] = s => j <= id

\* A message of several frames is returned once and never after a later one
\* of its source, whatever frames are repeated or lost.  Where two messages
\* were mixed it counts as the later one, whose frame completed it.
OnceInOrder ==
  [][\A s \in Sources : delivered'.source = s /\ Len(delivered'.pieces) > 1
       => delivered'.pieces[Len(delivered'.pieces)].id > arrived[s]]_vars
=============================================================================
