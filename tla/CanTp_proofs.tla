----------------------------- MODULE CanTp_proofs -----------------------------
(***************************************************************************)
(* Proofs about CanTp, for any sources, sizes, numbers of messages and of  *)
(* faults: the type invariant, that what processFrame returns was sent     *)
(* (DeliveredIntact), once and in order (OnceInOrder), and that it returns *)
(* every message whose frames arrive undisturbed (CleanArrives).           *)
(*                                                                         *)
(* The invariant describes each frame still to come and the one seen last  *)
(* (OnBus, LastSeen), the beginning of a message that the buffer holds     *)
(* (Reassembly), and how the two fit together (Ahead and those below it).  *)
(***************************************************************************)
EXTENDS CanTp, SequenceTheorems, TLAPS

\* The sizes that a first frame can announce.
TwelveBits == 0 .. 4095

Frames == [kind : {"SF", "FF", "CF"}, source : Sources, total : TwelveBits,
           seq : 0 .. 15, piece : Pieces]

\* f is a frame of a message that was prepared.
Good(f) ==
  /\ f.piece.id \in DOMAIN size /\ sender[f.piece.id] = f.source
  /\ f.piece.last <= size[f.piece.id]
  /\ f.kind = "SF" => f.piece.first = 0 /\ f.piece.last = size[f.piece.id]
  /\ f.kind = "FF" => /\ f.piece.first = 0 /\ f.piece.last = 6
                      /\ f.total = size[f.piece.id] /\ f.total >= 8
  /\ f.kind = "CF" => 6 <= f.piece.first /\ f.piece.first < f.piece.last

\* g is the frame behind f in its message.
Follows(f, g) ==
  /\ g.kind = "CF" /\ g.piece.id = f.piece.id /\ g.piece.first = f.piece.last
  /\ g.seq = IF f.kind = "FF" THEN 2 ELSE NextSeq(f.seq)

Types ==
  /\ size \in Seq(TwelveBits) /\ sender \in Seq(Sources)
  /\ Len(sender) = Len(size) /\ Len(size) <= MaxMessages
  /\ out \in [Sources -> Seq(Frames)]

OnBus ==
  \A s \in Sources :
    /\ \A i \in 1 .. Len(out[s]) : out[s][i].source = s /\ Good(out[s][i])
    /\ \A i \in 1 .. Len(out[s]) - 1 : Follows(out[s][i], out[s][i + 1])

LastSeen == last_frame = NoFrame \/ (last_frame \in Frames /\ Good(last_frame))

\* The pieces in the buffer come from one message and leave no byte out, or
\* else too few bytes were counted for it ever to be complete.
Coherent ==
  LET n  == Len(receive_buffer)
      id == receive_buffer[1].id
  IN  /\ \A i \in 1 .. n : receive_buffer[i].id = id
      /\ receive_buffer[n].last <= size[id] /\ received_size <= receive_buffer[n].last
      /\ received_size = receive_buffer[n].last =>
           \A i \in 2 .. n : receive_buffer[i].first = receive_buffer[i - 1].last

\* A message being put together; only frames of a message without a first one
\* can have been mixed into it.
Reassembly ==
  state = "RECEIVING" =>
    LET id == receive_buffer[1].id IN
      /\ current_source_id \in Sources
      /\ Len(receive_buffer) >= 1 /\ id \in DOMAIN size /\ sender[id] = current_source_id
      /\ receive_buffer[1].first = 0
      /\ expected_total_size = size[id] /\ received_size < size[id]
      /\ Mixed(receive_buffer) \/ Coherent

\* The next frame of s continues a message begun before.
Continues(s) == out[s] # <<>> /\ out[s][1].kind = "CF"

\* Piece p continues the message being put together, behind what the buffer
\* holds, or belongs to a message without a first frame.
Fits(p) ==
  \/ Mixed(receive_buffer) \/ p.id \in headless
  \/ /\ p.id = receive_buffer[1].id
     /\ receive_buffer[Len(receive_buffer)].last <= p.first

Ahead ==
  state = "RECEIVING" /\ Continues(current_source_id) =>
    Fits(out[current_source_id][1].piece)

\* The frame seen last, seen once more, is out of sequence, or the first frame
\* of the message to come (unless that has lost its own), or a single frame
\* older than it.
SeenAgain ==
  /\ state = "RECEIVING" /\ last_frame.kind = "CF" /\ last_frame.source = current_source_id
       => last_frame.seq # expected_seq_num
  /\ last_frame.kind = "FF" /\ Continues(last_frame.source)
       => \/ out[last_frame.source][1].piece.id = last_frame.piece.id
          \/ out[last_frame.source][1].piece.id \in headless
  /\ last_frame.kind = "SF" /\ out[last_frame.source] # <<>>
       => last_frame.piece.id < out[last_frame.source][1].piece.id

\* What s sends next may yet be returned with what came before it.
Pending(s) ==
  \/ out[s][1].kind # "CF"
  \/ state = "RECEIVING" /\ current_source_id = s
  \/ last_frame.kind = "FF" /\ last_frame.source = s

\* What is still to come is no older than what was returned, and younger if it
\* may be returned: a message can be completed by the first of several frames
\* of a younger one, whose other frames then find no place.
Order ==
  \A s \in Sources :
    /\ arrived[s] <= Len(size)
    /\ out[s] # <<>> => /\ arrived[s] <= out[s][1].piece.id
                        /\ Pending(s) => arrived[s] < out[s][1].piece.id

Newest(s, id) ==
  /\ id \in DOMAIN sender /\ sender[id] = s
  /\ \A j \in DOMAIN sender : sender[j] = s => j <= id

\* As long as nothing went wrong for the newest message id of s, it was
\* returned, or all the rest of it is to come and the receiver waits for it.
OnCourse(s, id) ==
  /\ Newest(s, id)
  /\ out[s] = <<>> =>
       /\ arrived[s] = id
       /\ last_frame.kind = "SF" /\ last_frame.source = s => last_frame.piece.id = id
  /\ out[s] # <<>> => out[s][1].piece.id = id /\ out[s][Len(out[s])].piece.last = size[id]
  /\ Continues(s) =>
       /\ state = "RECEIVING" /\ current_source_id = s
       /\ received_size = out[s][1].piece.first /\ expected_seq_num = out[s][1].seq
       /\ expected_total_size = size[id]
       /\ last_frame.kind = "FF" /\ last_frame.source = s
            => last_frame.piece.id = id /\ out[s][1].piece.first = 6 /\ out[s][1].seq = 2

Undamaged == \A s \in Sources : clean[s] => \E id \in 1 .. Len(size) : OnCourse(s, id)

IInv ==
  /\ TypeOK /\ Types /\ OnBus /\ LastSeen /\ Reassembly /\ Ahead /\ SeenAgain /\ Order
  /\ DeliveredIntact /\ Undamaged

-----------------------------------------------------------------------------
LEMMA Within ==
  /\ \A k \in TwelveBits : k \in Nat /\ k <= 4095
  /\ \A k \in Nat : k <= 4095 => k \in TwelveBits
BY DEF TwelveBits

LEMMA MinOfTwo ==
  ASSUME NEW a \in Int, NEW b \in Int
  PROVE  Min({a, b}) = IF a <= b THEN a ELSE b
<1> DEFINE m == IF a <= b THEN a ELSE b
<1>1. m \in {a, b} /\ \A y \in {a, b} : m <= y
    OBVIOUS
<1>2. \A x \in {a, b} : (\A y \in {a, b} : x <= y) => x = m
    OBVIOUS
<1> HIDE DEF m
<1>3. Min({a, b}) = m
    BY <1>1, <1>2 DEF Min
<1> QED BY <1>3 DEF m

LEMMA SequenceNumbers ==
  \A i \in Nat : i % 16 \in 0 .. 15 /\ NextSeq(i % 16) = (i + 1) % 16
  BY DEF NextSeq

\* m is message id of n bytes from s, in frames: one single frame, or a first
\* frame and the consecutive frames that follow it, up to the last byte.
Message(m, s, id, n) ==
  /\ m \in Seq(Frames) /\ Len(m) \in Nat \ {0}
  /\ \A i \in 1 .. Len(m) :
       /\ m[i].source = s /\ m[i].piece.id = id /\ m[i].piece.last <= n
       /\ m[i].kind = "SF" => m[i].piece.first = 0 /\ m[i].piece.last = n
       /\ m[i].kind = "FF" => /\ m[i].piece.first = 0 /\ m[i].piece.last = 6
                              /\ m[i].total = n /\ n >= 8
       /\ m[i].kind = "CF" => 6 <= m[i].piece.first /\ m[i].piece.first < m[i].piece.last
  /\ \A i \in 1 .. Len(m) - 1 : Follows(m[i], m[i + 1])
  /\ m[1].kind \in {"SF", "FF"} /\ m[Len(m)].piece.last = n

\* What prepareMessage puts on the bus.
LEMMA Prepared ==
  ASSUME NEW s \in Sources, NEW id \in Ids, NEW n \in TwelveBits
  PROVE  Message(prepareMessage(s, id, n), s, id, n)
<1> DEFINE m == prepareMessage(s, id, n)
<1> HIDE DEF m
<1> USE CanTpAssumption DEF Ids
<1>0. n \in Nat /\ n <= 4095 /\ 0 \in TwelveBits
    BY Within
<1> USE <1>0
<1>1. ASSUME n <= 7 PROVE Message(m, s, id, n)
  <2>1. m = <<buildSingleFrame(s, id, n)>>
      BY <1>1 DEF m, prepareMessage
  <2>2. buildSingleFrame(s, id, n) \in Frames
      BY DEF buildSingleFrame, Frame, Piece, Frames, Pieces
  <2>3. Len(m) = 1 /\ m[1] = buildSingleFrame(s, id, n) /\ m \in Seq(Frames)
      BY <2>1, <2>2
  <2>4. /\ m[1].kind = "SF" /\ m[1].source = s
        /\ m[1].piece = [id |-> id, first |-> 0, last |-> n]
      BY <2>3 DEF buildSingleFrame, Frame, Piece
  <2>5. 1 .. Len(m) = {1} /\ 1 .. Len(m) - 1 = {}
      BY <2>3
  <2> QED BY ONLY <2>3, <2>4, <2>5, <1>0 DEF Message
<1>2. ASSUME n >= 8 PROVE Message(m, s, id, n)
  <2> DEFINE q == n \div 7
             first == buildFirstFrame(s, id, n)
             rest == [i \in 1 .. q |-> buildConsecutiveFrame(s, id, n, i)]
  <2>1. m = <<first>> \o rest /\ q \in Nat /\ q >= 1
      BY <1>2 DEF m, prepareMessage
  <2>2. first \in Frames
      BY <1>2 DEF buildFirstFrame, Frame, Piece, Frames, Pieces
  \* A consecutive frame holds the seven bytes behind 7 i - 1, or as many as
  \* there are; only the last one ends where the message ends.
  <2>3. ASSUME NEW i \in 1 .. q
        PROVE  /\ rest[i] \in Frames
               /\ rest[i].kind = "CF" /\ rest[i].source = s /\ rest[i].piece.id = id
               /\ rest[i].piece.first = 7 * i - 1 /\ rest[i].seq = (i + 1) % 16
               /\ 6 <= rest[i].piece.first /\ rest[i].piece.first < rest[i].piece.last
               /\ rest[i].piece.last <= n
               /\ i < q => rest[i].piece.last = 7 * (i + 1) - 1
               /\ i = q => rest[i].piece.last = n
    <3> DEFINE last == Min({n, 7 * i + 6})
    <3>1. /\ last \in Nat /\ 6 <= 7 * i - 1 /\ 7 * i - 1 < last /\ last <= n
          /\ i < q => last = 7 * (i + 1) - 1
          /\ i = q => last = n
      <4>1. last = IF n <= 7 * i + 6 THEN n ELSE 7 * i + 6
          BY MinOfTwo
      <4>2. /\ n \in Int /\ q \in Int /\ 7 * q <= n /\ n < 7 * q + 7
            /\ i \in Int /\ 1 <= i /\ i <= q
          BY <2>1
      <4> HIDE DEF last, q
      <4> QED BY ONLY <4>1, <4>2
    <3>2. (i + 1) % 16 \in 0 .. 15
        BY SequenceNumbers, i + 1 \in Nat
    <3>3. rest[i] = [kind |-> "CF", source |-> s, total |-> 0, seq |-> (i + 1) % 16,
                     piece |-> [id |-> id, first |-> 7 * i - 1, last |-> last]]
        BY DEF buildConsecutiveFrame, Frame, Piece
    <3> HIDE DEF last, rest, q
    <3>4. [id |-> id, first |-> 7 * i - 1, last |-> last] \in Pieces
        BY <3>1 DEF Pieces
    <3>5. rest[i] \in Frames
        BY <3>2, <3>3, <3>4 DEF Frames
    <3> QED BY <3>1, <3>3, <3>5
  <2>4. first.kind = "FF" /\ first.source = s /\ first.total = n
        /\ first.piece = [id |-> id, first |-> 0, last |-> 6]
      BY DEF buildFirstFrame, Frame, Piece
  <2>5. rest \in Seq(Frames) /\ Len(rest) = q
    <3>1. rest \in [1 .. q -> Frames]
        BY <2>3
    <3> QED BY <2>1, <3>1
  <2> HIDE DEF first, rest, q
  <2>6. /\ m \in Seq(Frames) /\ Len(m) = q + 1 /\ m[1] = first
        /\ \A i \in 2 .. q + 1 : m[i] = rest[i - 1]
      BY <2>1, <2>2, <2>5
  <2>7. ASSUME NEW i \in 1 .. Len(m)
        PROVE  /\ m[i].source = s /\ m[i].piece.id = id /\ m[i].piece.last <= n
               /\ m[i].kind = "SF" => m[i].piece.first = 0 /\ m[i].piece.last = n
               /\ m[i].kind = "FF" => /\ m[i].piece.first = 0 /\ m[i].piece.last = 6
                                      /\ m[i].total = n /\ n >= 8
               /\ m[i].kind = "CF" => 6 <= m[i].piece.first /\ m[i].piece.first < m[i].piece.last
    <3>1. CASE i = 1
        BY <1>2, <2>4, <2>6, <3>1
    <3>2. CASE i # 1
      <4>1. i - 1 \in 1 .. q /\ m[i] = rest[i - 1]
          BY <2>1, <2>6, <3>2
      <4> QED BY <2>3, <4>1
    <3> QED BY <3>1, <3>2
  <2>8. ASSUME NEW i \in 1 .. Len(m) - 1 PROVE Follows(m[i], m[i + 1])
    <3>1. i \in 1 .. q /\ m[i + 1] = rest[i]
        BY <2>1, <2>6
    <3>2. CASE i = 1
        BY <2>3, <2>4, <2>6, <3>1, <3>2 DEF Follows
    <3>3. CASE i # 1
      <4>1. i - 1 \in 1 .. q /\ i - 1 < q /\ m[i] = rest[i - 1]
        <5>1. i \in 2 .. q + 1 /\ i - 1 \in 1 .. q /\ i - 1 < q
            BY ONLY <2>1, <3>1, <3>3
        <5> QED BY ONLY <2>6, <5>1
      <4>2. rest[i - 1].piece.last = 7 * i - 1 /\ rest[i - 1].seq = i % 16
            /\ rest[i - 1].kind = "CF" /\ rest[i - 1].piece.id = id
        <5> DEFINE j == i - 1
        <5>1. /\ rest[j].piece.last = 7 * (j + 1) - 1 /\ rest[j].seq = (j + 1) % 16
              /\ rest[j].kind = "CF" /\ rest[j].piece.id = id
            BY ONLY <2>3, <4>1
        <5> QED BY <3>1, <5>1
      <4>3. NextSeq(i % 16) = (i + 1) % 16
          BY SequenceNumbers, i \in Nat
      <4>4. /\ rest[i].kind = "CF" /\ rest[i].piece.id = id
            /\ rest[i].piece.first = 7 * i - 1 /\ rest[i].seq = (i + 1) % 16
          BY <2>3, <3>1
      <4> QED BY ONLY <3>1, <4>1, <4>2, <4>3, <4>4 DEF Follows
    <3> QED BY <3>2, <3>3
  <2>9. m[Len(m)].piece.last = n
    <3>1. q \in 1 .. q
        BY <2>1
    <3>2. q + 1 \in 2 .. q + 1 /\ (q + 1) - 1 = q
        BY <2>1
    <3>3. m[Len(m)] = rest[q]
        BY ONLY <2>6, <3>2
    <3> QED BY <2>3, <3>1, <3>3
  <2>10. Len(m) \in Nat \ {0} /\ m[1].kind \in {"SF", "FF"}
      BY <2>1, <2>4, <2>6
  <2> QED BY ONLY <2>6, <2>7, <2>8, <2>9, <2>10, Zenon DEF Message
<1>3. n <= 7 \/ n >= 8
    OBVIOUS
<1> QED BY <1>1, <1>2, <1>3 DEF m

-----------------------------------------------------------------------------
LEMMA InitIInv == Init => IInv
<1> SUFFICES ASSUME Init PROVE IInv
    OBVIOUS
<1> USE CanTpAssumption DEF Init
<1>1. TypeOK
    BY DEF TypeOK, Pieces, Ids
<1>2. Types
    BY DEF Types
<1>3. OnBus
    BY DEF OnBus
<1>4. LastSeen /\ Reassembly /\ Ahead
    BY DEF LastSeen, Reassembly, Ahead
<1>5. SeenAgain
    BY DEF SeenAgain, NoFrame
<1>6. Order
    BY DEF Order
<1>7. DeliveredIntact /\ Undamaged
    BY DEF DeliveredIntact, Undamaged
<1> QED BY <1>1, <1>2, <1>3, <1>4, <1>5, <1>6, <1>7 DEF IInv

LEMMA Sized == Types => \A id \in DOMAIN size : size[id] \in Nat /\ size[id] <= 4095
<1> SUFFICES ASSUME Types PROVE \A id \in DOMAIN size : size[id] \in Nat /\ size[id] <= 4095
    OBVIOUS
<1>1. size \in Seq(TwelveBits)
    BY DEF Types
<1> QED BY <1>1, Within

LEMMA FrameTypes ==
  ASSUME NEW f \in Frames
  PROVE  /\ f.kind \in {"SF", "FF", "CF"} /\ f.source \in Sources
         /\ f.total \in TwelveBits /\ f.seq \in 0 .. 15
         /\ f.piece \in Pieces /\ f.piece.id \in Ids
         /\ f.piece.first \in Nat /\ f.piece.last \in Nat
BY DEF Frames, Pieces

\* The frame a source sends next, and the frame behind it: a single frame is
\* the only one of its message, and the end of a message has nothing behind it.
LEMMA Behind ==
  ASSUME Types, OnBus, NEW s \in Sources, out[s] # <<>>, NEW f, f = Head(out[s]),
         out' = [out EXCEPT ![s] = Tail(@)], UNCHANGED sentVars
  PROVE  /\ f \in Frames /\ f.source = s /\ Good(f) /\ f = out[s][1]
         /\ Types' /\ OnBus'
         /\ \A t \in Sources \ {s} : out'[t] = out[t]
         /\ out'[s] = <<>> => f = out[s][Len(out[s])]
         /\ out'[s] # <<>> => /\ Follows(f, out'[s][1]) /\ Good(out'[s][1])
                              /\ f.kind # "SF" /\ f.piece.last < size[f.piece.id]
                              /\ out'[s][Len(out'[s])] = out[s][Len(out[s])]
<1> DEFINE m == out[s]
           r == Tail(m)
<1>1. m \in Seq(Frames) /\ m # <<>> /\ f = Head(m)
    BY DEF Types
<1>2. /\ out'[s] = r /\ size' = size /\ sender' = sender
      /\ \A t \in Sources \ {s} : out'[t] = out[t]
    BY DEF Types, sentVars
<1>3. \A i \in 1 .. Len(m) : m[i].source = s /\ Good(m[i])
    BY DEF OnBus
<1>4. \A i \in 1 .. Len(m) - 1 : Follows(m[i], m[i + 1])
    BY DEF OnBus
<1> HIDE DEF m, r
<1>5. /\ r \in Seq(Frames) /\ Len(r) = Len(m) - 1 /\ f = m[1] /\ f \in Frames
      /\ \A i \in 1 .. Len(r) : r[i] = m[i + 1]
    BY <1>1 DEF r
<1>6. f.source = s /\ Good(f)
    BY <1>1, <1>3, <1>5
<1>7. Types'
    BY <1>2, <1>5 DEF Types
<1>8. OnBus'
  <2>1. ASSUME NEW t \in Sources
        PROVE  /\ \A i \in 1 .. Len(out'[t]) : out'[t][i].source = t /\ Good(out'[t][i])
               /\ \A i \in 1 .. Len(out'[t]) - 1 : Follows(out'[t][i], out'[t][i + 1])
    <3>1. CASE t = s
      <4>1. \A i \in 1 .. Len(r) : r[i].source = s /\ Good(r[i])
        <5> TAKE i \in 1 .. Len(r)
        <5>1. i + 1 \in 1 .. Len(m) /\ r[i] = m[i + 1]
            BY <1>1, <1>5
        <5> QED BY ONLY <1>3, <5>1
      <4>2. \A i \in 1 .. Len(r) - 1 : Follows(r[i], r[i + 1])
          BY <1>1, <1>4, <1>5
      <4> QED BY <1>2, <3>1, <4>1, <4>2
    <3>2. CASE t # s
        BY <1>2, <3>2 DEF OnBus
    <3> QED BY <3>1, <3>2
  <2> QED BY <1>2, <2>1 DEF OnBus, Good
<1>9. r = <<>> => f = m[Len(m)]
  <2>1. r = <<>> => Len(r) = 0
      OBVIOUS
  <2>2. Len(m) \in Nat
      BY <1>1
  <2>3. r = <<>> => Len(m) = 1
      BY ONLY <1>5, <2>1, <2>2
  <2> QED BY ONLY <1>5, <2>3, Zenon
<1>10. ASSUME r # <<>>
       PROVE  /\ Follows(f, r[1]) /\ Good(r[1])
              /\ f.kind # "SF" /\ f.piece.last < size[f.piece.id]
              /\ r[Len(r)] = m[Len(m)]
  <2>1. Len(r) \in Nat \ {0} /\ r[1] = m[2] /\ r[Len(r)] = m[Len(m)]
      BY <1>1, <1>5, <1>10
  <2>2. Follows(f, r[1]) /\ Good(r[1]) /\ r[1] \in Frames
      BY <1>1, <1>3, <1>4, <1>5, <2>1
  <2>3. /\ r[1].piece.first = f.piece.last /\ r[1].piece.id = f.piece.id
        /\ r[1].piece.first < r[1].piece.last /\ r[1].piece.last <= size[f.piece.id]
      BY <2>2 DEF Follows, Good
  <2>4. f.piece.last < size[f.piece.id]
    <3>1. f.piece.last \in Nat /\ r[1].piece.last \in Nat
        BY <1>5, <2>2, FrameTypes
    <3>2. f.piece.id \in DOMAIN size
        BY <1>6 DEF Good
    <3> QED BY <2>3, <3>1, <3>2, Sized
  <2>5. f.kind # "SF"
    <3>1. f.piece.id \in DOMAIN size /\ (f.kind = "SF" => f.piece.last = size[f.piece.id])
        BY <1>6 DEF Good
    <3> QED BY <2>4, <3>1, Sized
  <2> QED BY <2>1, <2>2, <2>4, <2>5
<1> QED BY <1>2, <1>5, <1>6, <1>7, <1>8, <1>9, <1>10 DEF m

\* What TypeOK says of the receiver.
Receiver ==
  /\ state \in {"IDLE", "RECEIVING"} /\ current_source_id \in Sources \cup {"none"}
  /\ receive_buffer \in Seq(Pieces) /\ expected_seq_num \in 0 .. 15
  /\ received_size \in 0 .. expected_total_size /\ expected_total_size \in TwelveBits
  /\ arrived \in [Sources -> Ids \cup {0}]

\* What is taken of the frame that is expected.
LEMMA Share ==
  ASSUME Receiver, Types, Reassembly, NEW f \in Frames, Good(f),
         f.kind = "CF", InSequence(f)
  PROVE  /\ Taken(f.piece) \in Pieces /\ Taken(f.piece).id = f.piece.id
         /\ Bytes(Taken(f.piece)) \in Nat
         /\ received_size + Bytes(Taken(f.piece)) <= expected_total_size
         /\ received_size + Bytes(f.piece) <= expected_total_size => Taken(f.piece) = f.piece
<1> DEFINE p == f.piece
           total == expected_total_size
           n == Min({total - received_size, Bytes(p)})
<1>1. /\ p = [id |-> p.id, first |-> p.first, last |-> p.last]
      /\ p.id \in Ids /\ p.first \in Nat /\ p.last \in Nat
  <2>1. p \in Pieces
      BY FrameTypes
  <2> QED BY <2>1 DEF Pieces
<1>2. p.first < p.last
    BY DEF Good
<1>3. received_size \in Nat /\ total \in Nat /\ received_size < total
  <2>1. receive_buffer[1].id \in DOMAIN size /\ total = size[receive_buffer[1].id]
        /\ received_size < total
      BY DEF Reassembly, InSequence
  <2>2. received_size \in Nat
      BY DEF Receiver
  <2> QED BY <2>1, <2>2, Sized
<1>4. Bytes(p) = p.last - p.first
    BY DEF Bytes
<1>5. Taken(p) = [id |-> p.id, first |-> p.first, last |-> p.first + n]
    BY DEF Taken, Piece
<1>6. n = IF total - received_size <= Bytes(p) THEN total - received_size ELSE Bytes(p)
  <2>1. total - received_size \in Int /\ Bytes(p) \in Int
      BY <1>1, <1>3, <1>4
  <2> HIDE DEF p, total
  <2> QED BY <2>1, MinOfTwo
<1> HIDE DEF p, total, n
<1>7. n \in Nat /\ received_size + n <= total
      /\ (received_size + Bytes(p) <= total => n = Bytes(p))
    BY <1>1, <1>2, <1>3, <1>4, <1>6
<1>8. Taken(p) \in Pieces /\ Bytes(Taken(p)) = n
  <2>1. p.first + n \in Nat /\ (p.first + n) - p.first = n
      BY <1>1, <1>7
  <2> QED BY <1>1, <1>5, <2>1 DEF Pieces, Bytes
<1>9. received_size + Bytes(p) <= total => Taken(p) = p
  <2>1. p.first + Bytes(p) = p.last
      BY <1>1, <1>4
  <2> QED BY <1>1, <1>5, <1>7, <2>1
<1> QED BY <1>5, <1>7, <1>8, <1>9 DEF p, total

\* A frame of the message being put together that lies behind what is there is
\* appended whole; it completes the message only if no byte is missing.
LEMMA Appending ==
  ASSUME Receiver, Types, Reassembly, Coherent, NEW f \in Frames, Good(f),
         f.kind = "CF", InSequence(f), receive_buffer[1].id = f.piece.id,
         receive_buffer[Len(receive_buffer)].last <= f.piece.first
  PROVE  /\ Taken(f.piece) = f.piece
         /\ expected_total_size = size[f.piece.id]
         /\ received_size + Bytes(f.piece) <= f.piece.last /\ f.piece.last <= size[f.piece.id]
         /\ received_size + Bytes(f.piece) = f.piece.last =>
              /\ received_size = f.piece.first
              /\ receive_buffer[Len(receive_buffer)].last = f.piece.first
<1> DEFINE p == f.piece
           last == receive_buffer[Len(receive_buffer)].last
           total == size[p.id]
<1>1. p.first \in Nat /\ p.last \in Nat
    BY FrameTypes
<1>2. /\ expected_total_size = total /\ received_size <= last /\ last <= p.first
  <2>1. state = "RECEIVING"
      BY DEF InSequence
  <2> QED BY <2>1 DEF Reassembly, Coherent
<1>3. p.first < p.last /\ p.last <= total /\ p.id \in DOMAIN size
    BY DEF Good
<1>4. total \in Nat
    BY <1>3, Sized
<1>5. received_size \in Nat /\ last \in Nat
  <2>1. receive_buffer \in Seq(Pieces) /\ Len(receive_buffer) >= 1
      BY DEF Receiver, Reassembly, InSequence
  <2>2. receive_buffer[Len(receive_buffer)] \in Pieces
      BY <2>1
  <2>3. received_size \in Nat
      BY DEF Receiver
  <2> QED BY <2>2, <2>3 DEF Pieces
<1>6. Bytes(p) = p.last - p.first
    BY DEF Bytes
<1>7. received_size + Bytes(p) <= expected_total_size => Taken(p) = p
    BY Share
<1> HIDE DEF p, last, total
<1>8. /\ received_size + Bytes(p) <= p.last /\ received_size + Bytes(p) <= total
      /\ received_size + Bytes(p) = p.last => received_size = p.first /\ last = p.first
    BY ONLY <1>1, <1>2, <1>3, <1>4, <1>5, <1>6
<1> QED BY <1>2, <1>3, <1>7, <1>8 DEF p, last, total

\* What processFrame does with a frame, by kind and by the state it meets.
Returned(f) == arrived' = [arrived EXCEPT ![f.source] = f.piece.id]

Sound == Receiver /\ Reassembly /\ DeliveredIntact

LEMMA Single ==
  ASSUME Receiver, Types, Reassembly, NEW f \in Frames, Good(f),
         f.kind = "SF", processFrame(f), UNCHANGED <<sentVars, headless>>
  PROVE  Sound' /\ Returned(f) /\ UNCHANGED rxVars
<1>1. ReceiveSingle(f)
    BY DEF processFrame, ReceiveFirst, ReceiveNext, ReceiveOutOfSequence, ReceiveStray
<1>2. /\ delivered' = [source |-> f.source, pieces |-> <<f.piece>>]
      /\ arrived' = [arrived EXCEPT ![f.source] = f.piece.id]
      /\ UNCHANGED rxVars
    BY <1>1 DEF ReceiveSingle, Deliver
<1>3. Receiver'
    BY <1>2, FrameTypes DEF Receiver, rxVars
<1>4. Reassembly'
    BY <1>2 DEF Reassembly, Coherent, Mixed, rxVars, sentVars
<1>5. DeliveredIntact'
  <2>1. /\ sender[f.piece.id] = f.source /\ f.piece.first = 0
        /\ f.piece.last = size[f.piece.id]
      BY DEF Good
  <2> QED BY <1>2, <2>1 DEF DeliveredIntact, Whole, sentVars
<1> QED BY <1>2, <1>3, <1>4, <1>5 DEF Sound, Returned

LEMMA First ==
  ASSUME Receiver, Types, Reassembly, NEW f \in Frames, Good(f),
         f.kind = "FF", processFrame(f), UNCHANGED <<sentVars, headless>>
  PROVE  /\ Sound' /\ UNCHANGED arrived
         /\ state' = "RECEIVING" /\ current_source_id' = f.source
         /\ receive_buffer' = <<f.piece>> /\ received_size' = 6 /\ expected_seq_num' = 2
         /\ expected_total_size' = size[f.piece.id]
<1>1. ReceiveFirst(f)
    BY DEF processFrame, ReceiveSingle, ReceiveNext, ReceiveOutOfSequence, ReceiveStray
<1>2. /\ f.piece.first = 0 /\ f.piece.last = 6 /\ f.total = size[f.piece.id] /\ f.total >= 8
      /\ f.piece.id \in DOMAIN size /\ sender[f.piece.id] = f.source
    BY DEF Good
<1>3. /\ state' = "RECEIVING" /\ current_source_id' = f.source
      /\ receive_buffer' = <<f.piece>> /\ received_size' = 6 /\ expected_seq_num' = 2
      /\ expected_total_size' = f.total /\ delivered' = NoMessage /\ UNCHANGED arrived
    BY <1>1, <1>2 DEF ReceiveFirst, Nothing, Bytes
<1>4. Receiver'
  <2>1. f.source \in Sources /\ f.total \in TwelveBits /\ f.piece \in Pieces
      BY FrameTypes
  <2>2. f.total \in Nat /\ 6 <= f.total
      BY <1>2, <2>1, Within
  <2>3. 6 \in 0 .. f.total /\ 2 \in 0 .. 15 /\ <<f.piece>> \in Seq(Pieces)
      BY ONLY <2>1, <2>2
  <2> QED BY ONLY Receiver, <1>3, <2>1, <2>3 DEF Receiver
<1>5. Reassembly'
  <2>1. f.source \in Sources /\ f.total \in Nat
      BY FrameTypes, Within
  <2>2. /\ Len(receive_buffer') = 1 /\ receive_buffer'[1] = f.piece
        /\ size' = size /\ sender' = sender
      BY <1>3 DEF sentVars
  <2>3. Coherent'
      BY <1>2, <1>3, <2>1, <2>2 DEF Coherent
  <2>4. 6 < f.total
      BY <1>2, <2>1
  <2>5. /\ current_source_id' \in Sources /\ Len(receive_buffer') >= 1
        /\ receive_buffer'[1].id \in DOMAIN size'
        /\ sender'[receive_buffer'[1].id] = current_source_id'
        /\ receive_buffer'[1].first = 0
        /\ expected_total_size' = size'[receive_buffer'[1].id]
        /\ received_size' < size'[receive_buffer'[1].id]
      BY <1>2, <1>3, <2>1, <2>2, <2>4
  <2> QED BY <2>3, <2>5 DEF Reassembly
<1>6. DeliveredIntact'
    BY <1>3 DEF DeliveredIntact
<1> QED BY <1>2, <1>3, <1>4, <1>5, <1>6 DEF Sound

LEMMA NoPlace ==
  ASSUME Receiver, Types, Reassembly, NEW f \in Frames,
         f.kind = "CF", ~InSequence(f), processFrame(f), UNCHANGED <<sentVars, headless>>
  PROVE  /\ Sound' /\ UNCHANGED arrived
         /\ \/ OutOfSequence(f) /\ state' = "IDLE"
            \/ ~OutOfSequence(f) /\ UNCHANGED rxVars
<1>1. /\ delivered' = NoMessage /\ UNCHANGED arrived
      /\ UNCHANGED <<current_source_id, receive_buffer, expected_total_size,
                     received_size, expected_seq_num>>
      /\ \/ OutOfSequence(f) /\ state' = "IDLE"
         \/ ~OutOfSequence(f) /\ UNCHANGED rxVars
    BY DEF processFrame, ReceiveSingle, ReceiveFirst, ReceiveNext, ReceiveOutOfSequence,
           ReceiveStray, Nothing, rxVars
<1>2. Receiver'
    BY <1>1 DEF Receiver, rxVars
<1>3. Reassembly'
    BY <1>1 DEF Reassembly, Coherent, Mixed, rxVars, sentVars
<1>4. DeliveredIntact'
    BY <1>1 DEF DeliveredIntact
<1> QED BY <1>1, <1>2, <1>3, <1>4 DEF Sound

\* The frame that is expected completes the message or is added to it.
LEMMA NextOne ==
  ASSUME Receiver, Types, Reassembly, NEW f \in Frames, Good(f),
         f.kind = "CF", InSequence(f), Fits(f.piece),
         processFrame(f), UNCHANGED <<sentVars, headless>>,
         NEW count, count = received_size + Bytes(Taken(f.piece))
  PROVE  /\ Sound'
         /\ \/ /\ count = expected_total_size /\ state' = "IDLE" /\ Returned(f)
               /\ delivered'.source = f.source
               /\ delivered'.pieces[Len(delivered'.pieces)].id = f.piece.id
            \/ /\ count < expected_total_size
               /\ state' = "RECEIVING" /\ current_source_id' = f.source
               /\ Mixed(receive_buffer)'
                    \/ /\ receive_buffer'[1].id = f.piece.id
                       /\ receive_buffer'[Len(receive_buffer')].last = f.piece.last
               /\ received_size' = count /\ expected_seq_num' = NextSeq(f.seq)
               /\ expected_total_size' = expected_total_size
               /\ delivered' = NoMessage /\ UNCHANGED arrived
<1> DEFINE p == f.piece
           q == Taken(p)
           buffer == Append(receive_buffer, q)
           n == Len(receive_buffer)
           id == receive_buffer[1].id
<1>1. ReceiveNext(f)
    BY DEF processFrame, ReceiveSingle, ReceiveFirst, ReceiveOutOfSequence, ReceiveStray,
           InSequence, OutOfSequence
<1>2. q \in Pieces /\ q.id = p.id /\ Bytes(q) \in Nat /\ count <= expected_total_size
    BY Share
<1>3. state = "RECEIVING" /\ current_source_id = f.source
    BY DEF InSequence
<1>4. /\ n \in Nat \ {0} /\ receive_buffer \in Seq(Pieces) /\ f.source \in Sources
      /\ id \in DOMAIN size /\ sender[id] = f.source /\ receive_buffer[1].first = 0
      /\ expected_total_size = size[id] /\ received_size < size[id]
      /\ Mixed(receive_buffer) \/ Coherent
  <2>1. n \in Nat
      BY DEF Receiver
  <2> QED BY <1>3, <2>1, FrameTypes DEF Receiver, Reassembly
<1>5. /\ buffer \in Seq(Pieces) /\ Len(buffer) = n + 1 /\ buffer[n + 1] = q
      /\ \A i \in 1 .. n : buffer[i] = receive_buffer[i]
    BY <1>2, <1>4
<1>6. buffer[1] = receive_buffer[1] /\ 1 \in 1 .. n
  <2>1. 1 \in 1 .. n
      BY <1>4
  <2> QED BY <1>5, <2>1
<1>7. /\ expected_seq_num' = NextSeq(f.seq) /\ received_size' = count
      /\ IF count >= expected_total_size
           THEN /\ state' = "IDLE" /\ receive_buffer' = <<>>
                /\ delivered' = [source |-> f.source, pieces |-> buffer]
                /\ arrived' = [arrived EXCEPT ![f.source] = buffer[Len(buffer)].id]
           ELSE /\ receive_buffer' = buffer /\ UNCHANGED state
                /\ delivered' = NoMessage /\ UNCHANGED arrived
      /\ UNCHANGED <<current_source_id, expected_total_size>>
    BY <1>1 DEF ReceiveNext, Deliver, Nothing
<1>8. size[id] \in Nat /\ received_size \in Nat /\ size[id] <= 4095
      /\ p.last \in Nat /\ p.first \in Nat /\ p.id \in Ids
    BY <1>4, Sized, FrameTypes DEF Receiver
<1>9. count \in Nat
    BY <1>2, <1>8
<1>10. NextSeq(f.seq) \in 0 .. 15
  <2>1. f.seq \in 0 .. 15
      BY FrameTypes
  <2> QED BY ONLY <2>1 DEF NextSeq
\* The buffer with the piece added: a foreign piece was mixed in, or it is the
\* next one of the same message.
<1> DEFINE Foreign == \E i \in 2 .. n + 1 : buffer[i].id \in headless
           Next1 == /\ q = p /\ p.id = id /\ p.last <= size[id]
                    /\ \A i \in 1 .. n + 1 : buffer[i].id = id
                    /\ count <= p.last
                    /\ count = p.last =>
                         \A i \in 2 .. n + 1 : buffer[i].first = buffer[i - 1].last
<1>11. Foreign \/ Next1
  <2>1. CASE Mixed(receive_buffer)
    <3> PICK i \in 2 .. n : receive_buffer[i].id \in headless
        BY <2>1 DEF Mixed
    <3>1. i \in 1 .. n /\ i \in 2 .. n + 1
        BY <1>4
    <3> QED BY <1>5, <3>1
  <2>2. CASE p.id \in headless
    <3>1. n + 1 \in 2 .. n + 1
        BY <1>4
    <3> QED BY <1>2, <1>5, <2>2, <3>1
  <2>3. CASE Coherent /\ p.id = id /\ receive_buffer[n].last <= p.first
    <3>1. /\ q = p /\ received_size + Bytes(p) <= p.last /\ p.last <= size[p.id]
          /\ received_size + Bytes(p) = p.last =>
               received_size = p.first /\ receive_buffer[n].last = p.first
        BY <2>3, Appending
    <3>2. \A i \in 1 .. n + 1 : buffer[i].id = id
      <4>1. \A i \in 1 .. n : receive_buffer[i].id = id
          BY <2>3 DEF Coherent
      <4>2. \A i \in 1 .. n + 1 : i \in 1 .. n \/ i = n + 1
          BY <1>4
      <4> QED BY ONLY <1>2, <1>5, <2>3, <4>1, <4>2, Zenon
    <3>3. ASSUME count = p.last
          PROVE  \A i \in 2 .. n + 1 : buffer[i].first = buffer[i - 1].last
      <4>1. received_size = p.first /\ receive_buffer[n].last = p.first
          BY <3>1, <3>3
      <4>2. \A i \in 2 .. n : receive_buffer[i].first = receive_buffer[i - 1].last
        <5>1. received_size = receive_buffer[n].last
            BY <4>1
        <5> QED BY ONLY <2>3, <5>1 DEF Coherent
      <4>3. /\ (n + 1) - 1 = n /\ n \in 1 .. n
            /\ \A i \in 2 .. n : i \in 1 .. n /\ i - 1 \in 1 .. n
            /\ \A i \in 2 .. n + 1 : i \in 2 .. n \/ i = n + 1
          BY <1>4
      <4> QED BY ONLY <1>5, <3>1, <4>1, <4>2, <4>3
    <3> QED BY <2>3, <3>1, <3>2, <3>3
  <2> QED BY <1>4, <2>1, <2>2, <2>3 DEF Fits
<1> HIDE DEF p, q, buffer, n, id
<1>12. CASE count >= expected_total_size
  <2>1. count = expected_total_size
      BY <1>2, <1>4, <1>8, <1>9, <1>12
  <2>2. /\ state' = "IDLE" /\ receive_buffer' = <<>>
        /\ delivered' = [source |-> f.source, pieces |-> buffer]
        /\ arrived' = [arrived EXCEPT ![f.source] = p.id]
        /\ buffer[Len(buffer)].id = p.id
      BY <1>2, <1>5, <1>7, <1>12
  <2>3. Receiver'
    <3>1. expected_total_size' \in TwelveBits /\ received_size' \in 0 .. expected_total_size'
      <4>1. expected_total_size' = size[id] /\ received_size' = size[id]
          BY <1>4, <1>7, <2>1
      <4> QED BY <1>8, <4>1, Within
    <3> QED BY <1>7, <1>3, <1>4, <1>8, <1>10, <2>2, <3>1 DEF Receiver
  <2>4. Reassembly'
      BY <2>2 DEF Reassembly
  <2>5. DeliveredIntact'
    <3>1. CASE Foreign
        BY <1>5, <2>2, <3>1 DEF DeliveredIntact, Mixed
    <3>2. CASE Next1
      <4>1. p.last = size[id] /\ count = p.last
          BY <1>4, <1>8, <1>9, <2>1, <3>2
      <4>2. /\ sender[buffer[1].id] = f.source /\ buffer[1].first = 0
            /\ buffer[Len(buffer)].last = size[buffer[1].id]
            /\ \A i \in 2 .. Len(buffer) : /\ buffer[i].id = buffer[1].id
                                           /\ buffer[i].first = buffer[i - 1].last
        <5>1. \A i \in 2 .. n + 1 : i \in 1 .. n + 1
            BY <1>4
        <5> QED BY <1>4, <1>5, <1>6, <3>2, <4>1, <5>1 DEF id
      <4> QED BY <2>2, <4>2 DEF DeliveredIntact, Whole, sentVars
    <3> QED BY <1>11, <3>1, <3>2
  <2> QED BY <2>1, <2>2, <2>3, <2>4, <2>5 DEF Sound, Returned, p
<1>13. CASE ~(count >= expected_total_size)
  <2>1. /\ state' = "RECEIVING" /\ receive_buffer' = buffer /\ current_source_id' = f.source
        /\ delivered' = NoMessage /\ UNCHANGED arrived
      BY <1>3, <1>7, <1>13
  <2>2. count < size[id] /\ count < expected_total_size
      BY <1>4, <1>8, <1>9, <1>13
  <2>3. Receiver'
    <3>1. expected_total_size' \in TwelveBits /\ received_size' \in 0 .. expected_total_size'
      <4>1. expected_total_size' = size[id] /\ received_size' = count
          BY <1>4, <1>7
      <4> QED BY <1>8, <1>9, <2>2, <4>1, Within
    <3> QED BY <1>4, <1>5, <1>7, <1>10, <2>1, <3>1 DEF Receiver
  <2>4. Mixed(receive_buffer)' \/ Next1
      BY <1>5, <1>11, <2>1 DEF Mixed
  <2>5. Reassembly'
    <3>1. /\ Len(receive_buffer') >= 1 /\ receive_buffer'[1].id = id
          /\ receive_buffer'[1].first = 0
          /\ id \in DOMAIN size' /\ sender'[id] = f.source
          /\ expected_total_size' = size'[id] /\ received_size' < size'[id]
        BY <1>4, <1>5, <1>6, <1>7, <2>1, <2>2 DEF sentVars, id
    <3>2. Next1 => Coherent'
      <4> SUFFICES ASSUME Next1 PROVE Coherent'
          OBVIOUS
      <4>1. /\ Len(receive_buffer') = n + 1 /\ receive_buffer'[n + 1] = p
            /\ size' = size /\ received_size' = count
          BY <1>5, <1>7, <2>1 DEF sentVars
      <4> QED BY <2>1, <3>1, <4>1 DEF Coherent
    <3> QED BY <1>4, <2>1, <2>4, <3>1, <3>2 DEF Reassembly
  <2>6. DeliveredIntact'
      BY <2>1 DEF DeliveredIntact
  <2>7. Next1 => /\ receive_buffer'[1].id = p.id
                 /\ receive_buffer'[Len(receive_buffer')].last = p.last
      BY <1>5, <1>6, <2>1 DEF id
  <2> HIDE DEF Next1
  <2> QED BY <1>7, <2>1, <2>2, <2>3, <2>4, <2>5, <2>6, <2>7 DEF Sound, p
<1> QED BY <1>12, <1>13

-----------------------------------------------------------------------------
LEMMA TransmitIInv ==
  ASSUME IInv, NEW s \in Sources, Transmit(s)
  PROVE  IInv'
<1> USE DEF IInv
<1> PICK f : f = Head(out[s])
    OBVIOUS
<1> PICK g : g = out'[s][1]
    OBVIOUS
<1>1. /\ out[s] # <<>> /\ processFrame(f) /\ last_frame' = f /\ clean' = Undisturbed(f)
      /\ out' = [out EXCEPT ![s] = Tail(@)] /\ UNCHANGED <<sentVars, headless>> /\ faults' = faults
      /\ size' = size /\ sender' = sender /\ headless' = headless
    BY DEF Transmit, sentVars
<1>2. /\ f \in Frames /\ f.source = s /\ Good(f) /\ f = out[s][1]
      /\ Types' /\ OnBus'
      /\ \A t \in Sources \ {s} : out'[t] = out[t]
      /\ out'[s] = <<>> => f = out[s][Len(out[s])]
      /\ out'[s] # <<>> => /\ Follows(f, g) /\ Good(g)
                           /\ f.kind # "SF" /\ f.piece.last < size[f.piece.id]
                           /\ out'[s][Len(out'[s])] = out[s][Len(out[s])]
    BY <1>1, Behind
<1>3. Receiver /\ f.kind \in {"SF", "FF", "CF"}
    BY <1>2, FrameTypes DEF TypeOK, Receiver, TwelveBits
<1>4. f.kind = "SF" => Sound' /\ Returned(f) /\ UNCHANGED rxVars
    BY <1>1, <1>2, <1>3, Single
<1>5. f.kind = "FF" =>
        /\ Sound' /\ UNCHANGED arrived
        /\ state' = "RECEIVING" /\ current_source_id' = s
        /\ receive_buffer' = <<f.piece>> /\ received_size' = 6 /\ expected_seq_num' = 2
        /\ expected_total_size' = size[f.piece.id]
    BY <1>1, <1>2, <1>3, First
<1>6. f.kind = "CF" /\ ~InSequence(f) =>
        /\ Sound' /\ UNCHANGED arrived
        /\ \/ OutOfSequence(f) /\ state' = "IDLE"
           \/ ~OutOfSequence(f) /\ UNCHANGED rxVars
    BY <1>1, <1>2, <1>3, NoPlace
<1> PICK count : count = received_size + Bytes(Taken(f.piece))
    OBVIOUS
<1>7. ASSUME f.kind = "CF", InSequence(f)
      PROVE  /\ Sound'
             /\ \/ /\ count = expected_total_size /\ state' = "IDLE" /\ Returned(f)
                \/ /\ count < expected_total_size
                   /\ state' = "RECEIVING" /\ current_source_id' = s
                   /\ Mixed(receive_buffer)'
                        \/ /\ receive_buffer'[1].id = f.piece.id
                           /\ receive_buffer'[Len(receive_buffer')].last = f.piece.last
                   /\ received_size' = count /\ expected_seq_num' = NextSeq(f.seq)
                   /\ expected_total_size' = expected_total_size
                   /\ UNCHANGED arrived
  <2>1. Fits(f.piece)
      BY <1>1, <1>2, <1>7 DEF Ahead, Continues, InSequence
  <2> QED BY <1>1, <1>2, <1>3, <1>7, <2>1, NextOne
<1>8. Sound'
    BY <1>3, <1>4, <1>5, <1>6, <1>7
<1>9. TypeOK'
  <2>1. clean' \in [Sources -> BOOLEAN]
      BY <1>1 DEF Undisturbed
  <2>2. \A t \in Sources : \A i \in DOMAIN out'[t] : out'[t][i].source = t
    <3> TAKE t \in Sources
    <3>1. DOMAIN out'[t] = 1 .. Len(out'[t])
        BY <1>2 DEF Types
    <3> QED BY <1>2, <3>1 DEF OnBus
  <2> QED BY <1>1, <1>8, <2>1, <2>2 DEF TypeOK, Sound, Receiver, TwelveBits
<1>10. LastSeen'
    BY <1>1, <1>2 DEF LastSeen, Good
<1>11. f.piece.last \in Nat /\ f.piece.id \in DOMAIN size /\ size[f.piece.id] \in Nat
       /\ f.piece.first \in Nat
    BY <1>2, FrameTypes, Sized DEF Good
\* The frame after an answered one, and the buffer it will meet.
<1>12. out'[s] # <<>> => /\ g.kind = "CF" /\ g.piece.id = f.piece.id
                         /\ g.piece.first = f.piece.last
                         /\ g.seq = IF f.kind = "FF" THEN 2 ELSE NextSeq(f.seq)
    BY <1>2 DEF Follows
<1>13. Ahead'
  <2> SUFFICES ASSUME state' = "RECEIVING", Continues(current_source_id)'
               PROVE  \/ Mixed(receive_buffer)'
                      \/ out'[current_source_id'][1].piece.id \in headless
                      \/ /\ out'[current_source_id'][1].piece.id = receive_buffer'[1].id
                         /\ receive_buffer'[Len(receive_buffer')].last
                              <= out'[current_source_id'][1].piece.first
      BY <1>1 DEF Ahead, Fits
  <2>1. current_source_id' \in Sources
      BY <1>8 DEF Sound, Reassembly
  <2>2. CASE UNCHANGED rxVars /\ current_source_id # s
    <3>1. Mixed(receive_buffer)' <=> Mixed(receive_buffer)
        BY <1>1, <2>2 DEF Mixed, rxVars
    <3>2. state = "RECEIVING" /\ Continues(current_source_id)
          /\ out'[current_source_id'][1] = out[current_source_id][1]
        BY <1>2, <2>1, <2>2 DEF Continues, rxVars
    <3> QED BY <2>2, <3>1, <3>2 DEF Ahead, Fits, rxVars
  <2>3. CASE current_source_id' = s
    <3>1. out'[s] # <<>>
        BY <2>3 DEF Continues
    <3>2. f.piece.last <= f.piece.last
        BY <1>11
    <3>3. CASE f.kind = "FF"
      <4>1. receive_buffer'[1] = f.piece /\ receive_buffer'[Len(receive_buffer')] = f.piece
        <5>1. receive_buffer' = <<f.piece>>
            BY <1>5, <3>3
        <5> QED BY ONLY <5>1
      <4> QED BY <1>12, <2>3, <3>1, <3>2, <4>1
    <3>4. CASE f.kind = "CF" /\ InSequence(f)
        BY <1>7, <1>12, <2>3, <3>1, <3>2, <3>4
    <3>5. CASE f.kind = "CF" /\ ~InSequence(f)
        BY <1>2, <1>6, <2>3, <3>5 DEF InSequence, OutOfSequence, rxVars
    <3> QED BY <1>2, <1>3, <3>1, <3>3, <3>4, <3>5
  <2>4. CASE f.kind = "CF" /\ ~InSequence(f)
      BY <1>6, <2>2, <2>3, <2>4 DEF rxVars
  <2> QED BY <1>3, <1>4, <1>5, <1>7, <2>2, <2>3, <2>4 DEF rxVars
<1>14. SeenAgain'
  <2>1. ASSUME state' = "RECEIVING", f.kind = "CF", s = current_source_id'
        PROVE  f.seq # expected_seq_num'
    <3>1. CASE InSequence(f)
      <4>1. f.seq \in 0 .. 15
          BY <1>2, FrameTypes
      <4>2. expected_seq_num' = NextSeq(f.seq)
          BY <1>7, <2>1, <3>1
      <4> QED BY ONLY <4>1, <4>2 DEF NextSeq
    <3>2. CASE ~InSequence(f)
        BY <1>2, <1>6, <2>1, <3>2 DEF InSequence, OutOfSequence, rxVars
    <3> QED BY <3>1, <3>2
  <2>2. ASSUME f.kind = "FF", Continues(s)'
        PROVE  out'[s][1].piece.id = f.piece.id
      BY <1>12, <2>2 DEF Continues
  <2>3. f.kind = "SF" => out'[s] = <<>>
      BY <1>2
  <2>4. (Continues(f.source))' <=> (Continues(s))'
      BY <1>2
  <2> QED BY <1>1, <1>2, <2>1, <2>2, <2>3, <2>4 DEF SeenAgain, Continues
<1>15. Order'
  <2> SUFFICES ASSUME NEW t \in Sources
               PROVE  /\ arrived'[t] <= Len(size)
                      /\ out'[t] # <<>> => /\ arrived'[t] <= out'[t][1].piece.id
                                           /\ Pending(t)' => arrived'[t] < out'[t][1].piece.id
      BY <1>1 DEF Order
  <2>1. /\ arrived[t] <= Len(size)
        /\ out[t] # <<>> => /\ arrived[t] <= out[t][1].piece.id
                            /\ Pending(t) => arrived[t] < out[t][1].piece.id
      BY DEF Order
  <2>2. arrived \in [Sources -> Ids \cup {0}] /\ f.piece.id <= Len(size)
    <3>1. DOMAIN size = 1 .. Len(size)
        BY DEF Types
    <3> QED BY <1>3, <1>11, <3>1 DEF Receiver
  <2>3. CASE t # s
    <3>1. out'[t] = out[t] /\ arrived'[t] = arrived[t]
        BY <1>2, <1>3, <1>4, <1>5, <1>6, <1>7, <2>2, <2>3 DEF Returned
    <3>2. Pending(t)' => Pending(t)
      <4>1. state' = "RECEIVING" /\ current_source_id' = t =>
              state = "RECEIVING" /\ current_source_id = t
          BY <1>2, <1>3, <1>4, <1>5, <1>6, <1>7, <2>3 DEF rxVars
      <4> QED BY <1>1, <1>2, <2>3, <3>1, <4>1 DEF Pending
    <3> QED BY <2>1, <3>1, <3>2
  <2>4. CASE t = s
    <3>1. CASE UNCHANGED arrived
      <4>1. Pending(s)' /\ out'[s] # <<>> => Pending(s)
        <5>1. CASE f.kind # "CF"
            BY <1>2, <5>1 DEF Pending
        <5>2. CASE f.kind = "CF"
          <6>1. state' = "RECEIVING" /\ current_source_id' = s =>
                  state = "RECEIVING" /\ current_source_id = s
              BY <1>2, <1>6, <1>7, <5>2 DEF InSequence, rxVars
          <6> QED BY <1>1, <1>12, <5>2, <6>1 DEF Pending
        <5> QED BY <5>1, <5>2
      <4> QED BY <1>1, <1>2, <1>12, <2>1, <2>4, <3>1, <4>1
    <3>2. CASE Returned(f) /\ out'[s] = <<>>
        BY <1>2, <2>2, <2>4, <3>2 DEF Returned
    <3>3. CASE Returned(f) /\ f.kind = "CF" /\ state' = "IDLE" /\ out'[s] # <<>>
      <4>1. ~Pending(s)'
          BY <1>1, <1>12, <3>3 DEF Pending
      <4>2. arrived'[s] = f.piece.id /\ g.piece.id = f.piece.id
          BY <1>2, <1>12, <2>2, <3>3 DEF Returned
      <4>3. f.piece.id \in Nat
          BY <1>2, FrameTypes DEF Ids
      <4> QED BY <2>2, <2>4, <4>1, <4>2, <4>3
    <3> QED BY <1>2, <1>3, <1>4, <1>5, <1>6, <1>7, <3>1, <3>2, <3>3
  <2> QED BY <2>3, <2>4
<1>16. Undamaged'
  <2> SUFFICES ASSUME NEW t \in Sources, clean'[t]
               PROVE  \E id \in 1 .. Len(size) : OnCourse(t, id)'
      BY <1>1 DEF Undamaged
  <2>1. clean[t] /\ ~(f.kind = "FF" /\ t # s /\ out[t] # <<>>)
      BY <1>1, <1>2 DEF Undisturbed
  <2> PICK id \in 1 .. Len(size) : OnCourse(t, id)
      BY <2>1 DEF Undamaged
  <2>2. Newest(t, id)'
      BY <1>1 DEF OnCourse, Newest
  <2>3. arrived \in [Sources -> Ids \cup {0}] /\ arrived' \in [Sources -> Ids \cup {0}]
      BY <1>3, <1>8 DEF Receiver, Sound
  <2>4. ASSUME t # s PROVE OnCourse(t, id)'
    <3>1. out'[t] = out[t] /\ last_frame'.source # t
        BY <1>1, <1>2, <2>4
    <3>2. arrived'[t] = arrived[t]
        BY <1>2, <1>3, <1>4, <1>5, <1>6, <1>7, <2>3, <2>4 DEF Returned
    <3>3. Continues(t) => UNCHANGED <<state, current_source_id, received_size,
                                      expected_seq_num, expected_total_size>>
      <4>1. Continues(t) => state = "RECEIVING" /\ current_source_id = t /\ f.kind # "FF"
          BY <2>1, <2>4 DEF OnCourse, Continues
      <4>2. Continues(t) => ~InSequence(f) /\ ~OutOfSequence(f)
          BY <1>2, <2>4, <4>1 DEF InSequence, OutOfSequence
      <4> QED BY <1>3, <1>4, <1>6, <4>1, <4>2 DEF rxVars
    <3> QED BY <1>1, <2>2, <3>1, <3>2, <3>3 DEF OnCourse, Continues
  <2>5. ASSUME t = s PROVE OnCourse(t, id)'
    <3>1. /\ f.piece.id = id /\ out[s][Len(out[s])].piece.last = size[id]
          /\ f.kind = "CF" => /\ InSequence(f) /\ received_size = f.piece.first
                              /\ expected_total_size = size[id]
        BY <1>1, <1>2, <2>5 DEF OnCourse, Continues, InSequence
    <3>2. f.kind = "CF" => count = f.piece.last
      <4> SUFFICES ASSUME f.kind = "CF" PROVE count = f.piece.last
          OBVIOUS
      <4>1. received_size + Bytes(f.piece) = f.piece.last
          BY ONLY f.kind = "CF", <1>11, <3>1 DEF Bytes
      <4>2. f.piece.last <= size[f.piece.id]
          BY <1>2 DEF Good
      <4>3. Taken(f.piece) = f.piece
          BY <1>2, <1>3, <3>1, <4>1, <4>2, Share
      <4> QED BY <4>1, <4>3
    <3>3. ASSUME out'[s] = <<>>
          PROVE  /\ arrived'[s] = id
                 /\ last_frame'.kind = "SF" /\ last_frame'.source = s => last_frame'.piece.id = id
      <4>1. f.piece.last = size[id]
          BY <1>2, <3>1, <3>3
      <4>2. f.kind # "FF"
          BY <1>2, <3>1, <4>1 DEF Good
      <4>3. Returned(f)
          BY <1>3, <1>4, <1>7, <1>11, <3>1, <3>2, <4>1, <4>2
      <4> QED BY <1>1, <1>2, <2>3, <3>1, <4>3 DEF Returned
    <3>4. ASSUME out'[s] # <<>>
          PROVE  /\ out'[s][1].piece.id = id /\ out'[s][Len(out'[s])].piece.last = size[id]
                 /\ state' = "RECEIVING" /\ current_source_id' = s
                 /\ received_size' = g.piece.first /\ expected_seq_num' = g.seq
                 /\ expected_total_size' = size[id]
                 /\ f.kind = "FF" => g.piece.first = 6 /\ g.seq = 2
      <4>1. g.piece.id = id /\ out'[s][Len(out'[s])].piece.last = size[id]
          BY <1>2, <1>12, <3>1, <3>4
      <4>2. CASE f.kind = "FF"
        <5>1. f.piece.last = 6
            BY <1>2, <4>2 DEF Good
        <5> QED BY <1>5, <1>12, <3>4, <4>1, <4>2, <5>1
      <4>3. CASE f.kind = "CF"
          BY <1>2, <1>7, <1>11, <1>12, <3>1, <3>2, <3>4, <4>1, <4>3
      <4> QED BY <1>2, <1>3, <3>4, <4>2, <4>3
    <3> QED BY <1>1, <1>2, <2>2, <2>5, <3>3, <3>4 DEF OnCourse, Continues
  <2> QED BY <2>4, <2>5
<1> QED BY <1>2, <1>8, <1>9, <1>10, <1>13, <1>14, <1>15, <1>16 DEF Sound

\* Seen again, a consecutive frame is never the one expected.
LEMMA RepeatedFrame ==
  ASSUME IInv, NEW f, f = last_frame, Repeat
  PROVE  /\ f \in Frames /\ Good(f) /\ f.source \in Sources /\ f.kind \in {"SF", "FF", "CF"}
         /\ Sound'
         /\ f.kind = "SF" => Returned(f) /\ UNCHANGED rxVars
         /\ f.kind = "FF" =>
              /\ UNCHANGED arrived
              /\ state' = "RECEIVING" /\ current_source_id' = f.source
              /\ receive_buffer' = <<f.piece>> /\ received_size' = 6 /\ expected_seq_num' = 2
              /\ expected_total_size' = size[f.piece.id]
         /\ f.kind = "CF" =>
              /\ UNCHANGED arrived
              /\ \/ OutOfSequence(f) /\ state' = "IDLE"
                 \/ ~OutOfSequence(f) /\ UNCHANGED rxVars
<1> USE DEF IInv
<1>1. f \in Frames /\ Good(f) /\ processFrame(f) /\ UNCHANGED <<sentVars, headless>>
    BY DEF Repeat, LastSeen
<1>2. f.source \in Sources /\ f.kind \in {"SF", "FF", "CF"}
    BY <1>1, FrameTypes
<1>3. Receiver
    BY DEF TypeOK, Receiver, TwelveBits
<1>4. f.kind = "CF" => ~InSequence(f)
    BY DEF SeenAgain, InSequence
<1>5. CASE f.kind = "SF"
    BY <1>1, <1>2, <1>3, <1>5, Single
<1>6. CASE f.kind = "FF"
    BY <1>1, <1>2, <1>3, <1>6, First
<1>7. CASE f.kind = "CF"
    BY <1>1, <1>2, <1>3, <1>4, <1>7, NoPlace DEF Sound
<1> QED BY <1>1, <1>2, <1>5, <1>6, <1>7

LEMMA RepeatIInv ==
  ASSUME IInv, Repeat
  PROVE  IInv'
<1> USE DEF IInv
<1> PICK f : f = last_frame
    OBVIOUS
<1>1. /\ UNCHANGED <<out, last_frame, sentVars, headless>> /\ faults' \in 0 .. MaxFaults
      /\ size' = size /\ sender' = sender /\ out' = out /\ last_frame' = f
      /\ clean' = [Undisturbed(f) EXCEPT ![f.source] =
                     @ /\ (f.kind = "CF" => out[f.source] = <<>>)]
  <2>1. faults \in 0 .. MaxFaults /\ faults < MaxFaults /\ faults' = faults + 1
      BY DEF TypeOK, Repeat, Fault
  <2>2. faults' \in 0 .. MaxFaults
      BY <2>1, CanTpAssumption
  <2> QED BY <2>2 DEF Repeat, sentVars
<1>2. /\ f \in Frames /\ Good(f) /\ f.source \in Sources /\ f.kind \in {"SF", "FF", "CF"}
      /\ Sound'
    BY RepeatedFrame
<1>3. f.kind = "SF" => Returned(f) /\ UNCHANGED rxVars
    BY RepeatedFrame
<1>4. f.kind = "FF" =>
        /\ UNCHANGED arrived
        /\ state' = "RECEIVING" /\ current_source_id' = f.source
        /\ receive_buffer' = <<f.piece>> /\ received_size' = 6 /\ expected_seq_num' = 2
        /\ expected_total_size' = size[f.piece.id]
    BY RepeatedFrame
<1>5. f.kind = "CF" =>
        /\ UNCHANGED arrived
        /\ \/ OutOfSequence(f) /\ state' = "IDLE"
           \/ ~OutOfSequence(f) /\ UNCHANGED rxVars
    BY RepeatedFrame
<1>6. Types' /\ OnBus' /\ LastSeen'
    BY <1>1 DEF Types, OnBus, LastSeen, Good
<1>7. \A t \in Sources : clean'[t] =>
        /\ clean[t] /\ ~(f.kind = "FF" /\ t # f.source /\ out[t] # <<>>)
        /\ f.kind = "CF" /\ t = f.source => out[t] = <<>>
    BY <1>1, <1>2 DEF Undisturbed
<1>8. TypeOK'
  <2>1. Undisturbed(f) \in [Sources -> BOOLEAN]
      BY DEF Undisturbed
  <2>2. clean' \in [Sources -> BOOLEAN]
      BY <1>1, <2>1
  <2>3. \A t \in Sources : \A i \in DOMAIN out[t] : out[t][i].source = t
      BY DEF TypeOK
  <2> QED BY <1>1, <1>2, <2>2, <2>3 DEF TypeOK, Sound, Receiver, TwelveBits
<1>9. ASSUME f.kind = "FF", Continues(f.source)
      PROVE  /\ \/ out[f.source][1].piece.id = f.piece.id
                \/ out[f.source][1].piece.id \in headless
             /\ 6 <= out[f.source][1].piece.first /\ f.piece.last = 6
  <2> DEFINE g == out[f.source][1]
  <2>1. 1 \in 1 .. Len(out[f.source])
      BY <1>2, <1>9 DEF Continues, Types
  <2>2. Good(g) /\ g.kind = "CF"
      BY <1>2, <1>9, <2>1 DEF OnBus, Continues
  <2> QED BY <1>1, <1>2, <1>9, <2>2 DEF SeenAgain, Good
<1>10. Ahead'
  <2>1. CASE UNCHANGED rxVars
      BY <1>1, <2>1 DEF Ahead, Fits, Mixed, Continues, rxVars
  <2>2. CASE state' = "IDLE"
      BY <2>2 DEF Ahead
  <2>3. CASE f.kind = "FF"
    <3>1. receive_buffer'[1] = f.piece /\ receive_buffer'[Len(receive_buffer')] = f.piece
      <4>1. receive_buffer' = <<f.piece>>
          BY <1>4, <2>3
      <4> QED BY ONLY <4>1
    <3> QED BY <1>1, <1>4, <1>9, <2>3, <3>1 DEF Ahead, Fits, Continues
  <2> QED BY <1>2, <1>3, <1>5, <2>1, <2>2, <2>3
<1>11. SeenAgain'
    BY <1>1, <1>2, <1>3, <1>5 DEF SeenAgain, Continues, rxVars
<1>12. Order'
  <2> SUFFICES ASSUME NEW t \in Sources
               PROVE  /\ arrived'[t] <= Len(size)
                      /\ out[t] # <<>> =>
                           /\ arrived'[t] <= out[t][1].piece.id
                           /\ Pending(t)' => arrived'[t] < out[t][1].piece.id
      BY <1>1 DEF Order
  <2>1. /\ arrived[t] <= Len(size)
        /\ out[t] # <<>> =>
             /\ arrived[t] <= out[t][1].piece.id
             /\ Pending(t) => arrived[t] < out[t][1].piece.id
      BY DEF Order
  <2>2. CASE UNCHANGED arrived /\ f.kind # "SF"
    <3>1. state' = "RECEIVING" /\ current_source_id' = t =>
            \/ state = "RECEIVING" /\ current_source_id = t
            \/ f.kind = "FF" /\ f.source = t
        BY <1>2, <1>4, <1>5, <2>2 DEF rxVars
    <3>2. Pending(t)' => Pending(t)
        BY <1>1, <3>1 DEF Pending
    <3> QED BY <2>1, <2>2, <3>2
  <2>3. CASE f.kind = "SF"
    <3>1. DOMAIN size = 1 .. Len(size)
        BY DEF Types
    <3>2. f.piece.id <= Len(size) /\ arrived \in [Sources -> Ids \cup {0}]
        BY <1>2, <3>1 DEF TypeOK, Good
    <3>3. t = f.source /\ out[t] # <<>> =>
            f.piece.id < out[t][1].piece.id /\ f.piece.id <= out[t][1].piece.id
      <4> SUFFICES ASSUME t = f.source, out[t] # <<>>
                   PROVE  f.piece.id < out[t][1].piece.id /\ f.piece.id <= out[t][1].piece.id
          OBVIOUS
      <4>1. f.piece.id < out[t][1].piece.id
          BY <2>3 DEF SeenAgain
      <4>2. out[t] \in Seq(Frames) /\ 1 \in 1 .. Len(out[t])
          BY DEF Types
      <4>3. out[t][1] \in Frames
          BY <4>2
      <4>4. f.piece.id \in Int /\ out[t][1].piece.id \in Int
          BY <1>2, <4>3, FrameTypes DEF Ids
      <4> QED BY <4>1, <4>4
    <3>4. Pending(t)' => Pending(t)
        BY <1>1, <1>3, <2>3 DEF Pending, rxVars
    <3> QED BY <1>3, <2>1, <2>3, <3>2, <3>3, <3>4 DEF Returned
  <2> QED BY <1>2, <1>4, <1>5, <2>2, <2>3
<1>13. Undamaged'
  <2> SUFFICES ASSUME NEW t \in Sources, clean'[t]
               PROVE  \E id \in 1 .. Len(size) : OnCourse(t, id)'
      BY <1>1 DEF Undamaged
  <2>1. /\ clean[t] /\ ~(f.kind = "FF" /\ t # f.source /\ out[t] # <<>>)
        /\ f.kind = "CF" /\ t = f.source => out[t] = <<>>
      BY <1>7
  <2> PICK id \in 1 .. Len(size) : OnCourse(t, id)
      BY <2>1 DEF Undamaged
  <2>2. Newest(t, id)'
      BY <1>1 DEF OnCourse, Newest
  <2>3. out[t] = <<>> => arrived'[t] = id
    <3>1. arrived \in [Sources -> Ids \cup {0}]
        BY DEF TypeOK
    <3>2. CASE f.kind = "SF" /\ f.source = t
        BY <1>3, <3>1, <3>2 DEF OnCourse, Returned
    <3>3. CASE ~(f.kind = "SF" /\ f.source = t)
        BY <1>2, <1>3, <1>4, <1>5, <3>1, <3>3 DEF OnCourse, Returned
    <3> QED BY <3>2, <3>3
  <2>4. ASSUME Continues(t)
        PROVE  /\ state' = "RECEIVING" /\ current_source_id' = t
               /\ received_size' = out[t][1].piece.first /\ expected_seq_num' = out[t][1].seq
               /\ expected_total_size' = size[id]
    <3>1. /\ state = "RECEIVING" /\ current_source_id = t
          /\ received_size = out[t][1].piece.first /\ expected_seq_num = out[t][1].seq
          /\ expected_total_size = size[id]
          /\ f.kind = "FF" /\ f.source = t =>
               f.piece.id = id /\ out[t][1].piece.first = 6 /\ out[t][1].seq = 2
        BY <2>4 DEF OnCourse
    <3>2. CASE f.kind = "FF"
        BY <1>4, <2>1, <2>4, <3>1, <3>2 DEF Continues
    <3>3. CASE f.kind = "CF"
        BY <1>5, <2>1, <2>4, <3>1, <3>3 DEF Continues, OutOfSequence, rxVars
    <3> QED BY <1>2, <1>3, <3>1, <3>2, <3>3 DEF rxVars
  <2>5. OnCourse(t, id)'
      BY <1>1, <2>2, <2>3, <2>4 DEF OnCourse, Continues
  <2> QED BY <2>5
<1> QED BY <1>2, <1>6, <1>8, <1>10, <1>11, <1>12, <1>13 DEF Sound

LEMMA LoseIInv ==
  ASSUME IInv, NEW s \in Sources, Lose(s)
  PROVE  IInv'
<1> USE DEF IInv
<1> PICK f : f = Head(out[s])
    OBVIOUS
<1> PICK g : g = out'[s][1]
    OBVIOUS
<1>1. /\ out[s] # <<>> /\ out' = [out EXCEPT ![s] = Tail(@)]
      /\ UNCHANGED sentVars /\ faults' \in 0 .. MaxFaults
      /\ size' = size /\ sender' = sender /\ last_frame' = last_frame
      /\ clean' = [clean EXCEPT ![s] = FALSE] /\ delivered' = NoMessage
      /\ UNCHANGED rxVars /\ arrived' = arrived
      /\ headless' = IF f.kind = "FF" THEN headless \cup {f.piece.id} ELSE headless
  <2>1. faults \in 0 .. MaxFaults /\ faults < MaxFaults /\ faults' = faults + 1
      BY DEF TypeOK, Lose, Fault
  <2>2. faults' \in 0 .. MaxFaults
      BY <2>1, CanTpAssumption
  <2> QED BY <2>2 DEF Lose, sentVars
<1>2. /\ f \in Frames /\ f.source = s /\ Good(f) /\ f = out[s][1]
      /\ Types' /\ OnBus'
      /\ \A t \in Sources \ {s} : out'[t] = out[t]
      /\ out'[s] # <<>> => Follows(f, g) /\ Good(g) /\ f.kind # "SF"
    BY <1>1, Behind
\* What is left behind f continues its message, without a head or as f did.
<1>3. out'[s] # <<>> =>
        /\ g.kind = "CF" /\ g.piece.id = f.piece.id /\ f.piece.first <= g.piece.first
        /\ f.kind = "FF" => g.piece.id \in headless'
        /\ f.kind # "FF" => Continues(s)
  <2>1. f.kind \in {"SF", "FF", "CF"} /\ f.piece.first \in Nat /\ f.piece.last \in Nat
      BY <1>2, FrameTypes
  <2> QED BY <1>1, <1>2, <2>1 DEF Follows, Continues, Good
<1>kept. /\ headless \subseteq headless' /\ headless' \subseteq Ids
         /\ Mixed(receive_buffer) => Mixed(receive_buffer)'
  <2>1. headless \subseteq headless'
      BY <1>1
  <2>2. headless' \subseteq Ids
      BY <1>1, <1>2, FrameTypes DEF TypeOK
  <2> QED BY <1>1, <2>1, <2>2 DEF Mixed, rxVars
<1>4. clean' \in [Sources -> BOOLEAN] /\ \A t \in Sources : clean'[t] => t # s /\ clean[t]
    BY <1>1 DEF TypeOK
<1>5. TypeOK'
  <2>1. \A t \in Sources : \A i \in DOMAIN out'[t] : out'[t][i].source = t
    <3> TAKE t \in Sources
    <3>1. DOMAIN out'[t] = 1 .. Len(out'[t])
        BY <1>2 DEF Types
    <3> QED BY <1>2, <3>1 DEF OnBus
  <2>2. /\ state' \in {"IDLE", "RECEIVING"} /\ current_source_id' \in Sources \cup {"none"}
        /\ receive_buffer' \in Seq(Pieces) /\ expected_seq_num' \in 0 .. 15
        /\ received_size' \in 0 .. expected_total_size' /\ expected_total_size' \in 0 .. 4095
        /\ arrived' \in [Sources -> Ids \cup {0}]
      BY <1>1 DEF TypeOK, rxVars
  <2>3. faults' \in 0 .. MaxFaults
      BY <1>1
  <2> QED BY ONLY <1>kept, <1>4, <2>1, <2>2, <2>3 DEF TypeOK
<1>6. LastSeen' /\ Reassembly' /\ DeliveredIntact'
  <2>1. Coherent => Coherent'
      BY <1>1 DEF Coherent, rxVars
  <2> QED BY <1>kept, <1>1, <2>1 DEF LastSeen, Good, Reassembly, DeliveredIntact, rxVars
<1>7. Ahead'
  <2> SUFFICES ASSUME state = "RECEIVING", Continues(current_source_id)'
               PROVE  Fits(out[current_source_id][1].piece)'
      BY <1>1 DEF Ahead, rxVars
  <2>1. current_source_id \in Sources /\ Len(receive_buffer) >= 1
        /\ current_source_id' = current_source_id /\ receive_buffer' = receive_buffer
      BY <1>1 DEF Reassembly, rxVars
  <2>2. CASE current_source_id # s
    <3>1. Fits(out[current_source_id][1].piece)
        BY <1>2, <2>1, <2>2 DEF Ahead, Continues
    <3> QED BY <1>kept, <1>2, <2>1, <2>2, <3>1 DEF Fits
  <2>3. CASE current_source_id = s /\ f.kind = "FF"
      BY <1>3, <2>1, <2>3 DEF Fits, Continues
  <2>4. CASE current_source_id = s /\ f.kind # "FF"
    <3>1. out'[s] # <<>> /\ Fits(f.piece)
        BY <1>2, <1>3, <2>1, <2>4 DEF Ahead, Continues
    <3>2. f.piece.first \in Nat /\ g.piece.first \in Int /\ f.piece.first <= g.piece.first
      <4>1. f.piece.first \in Nat /\ f.piece.last \in Nat
          BY <1>2, FrameTypes
      <4> QED BY <1>2, <1>3, <3>1, <4>1 DEF Follows
    <3>3. receive_buffer[Len(receive_buffer)].last \in Nat
      <4>1. receive_buffer \in Seq(Pieces)
          BY DEF TypeOK
      <4>2. receive_buffer[Len(receive_buffer)] \in Pieces
          BY <2>1, <4>1
      <4> QED BY <4>2 DEF Pieces
    <3>4. receive_buffer[Len(receive_buffer)].last <= f.piece.first =>
            receive_buffer[Len(receive_buffer)].last <= g.piece.first
        BY <3>2, <3>3
    <3> QED BY <1>kept, <1>3, <2>1, <2>4, <3>1, <3>4 DEF Fits
  <2> QED BY <2>2, <2>3, <2>4
<1>8. SeenAgain'
  <2>1. last_frame = NoFrame \/ last_frame.source \in Sources
      BY FrameTypes DEF LastSeen
  <2>2. NoFrame.kind = "none"
      BY DEF NoFrame
  <2>3. ASSUME last_frame.kind = "FF", Continues(last_frame.source)'
        PROVE  \/ out'[last_frame.source][1].piece.id = last_frame.piece.id
               \/ out'[last_frame.source][1].piece.id \in headless'
      BY <1>kept, <1>1, <1>2, <1>3, <2>1, <2>2, <2>3 DEF SeenAgain, Continues
  <2>4. ASSUME last_frame.kind = "SF", out'[last_frame.source] # <<>>
        PROVE  last_frame.piece.id < out'[last_frame.source][1].piece.id
      BY <1>1, <1>2, <1>3, <2>1, <2>2, <2>4 DEF SeenAgain
  <2> QED BY <1>1, <2>3, <2>4 DEF SeenAgain, rxVars
<1>9. Order'
  <2>1. ASSUME NEW t \in Sources
        PROVE  Pending(t)' /\ out'[t] # <<>> => Pending(t)
    <3>1. CASE t # s
        BY <1>1, <1>2, <3>1 DEF Pending, rxVars
    <3>2. CASE t = s
        BY <1>1, <1>2, <1>3, <3>2 DEF Pending, rxVars
    <3> QED BY <3>1, <3>2
  <2> QED BY <1>1, <1>2, <1>3, <2>1 DEF Order
<1>10. Undamaged'
  <2> SUFFICES ASSUME NEW t \in Sources, clean'[t]
               PROVE  \E id \in 1 .. Len(size) : OnCourse(t, id)'
      BY <1>1 DEF Undamaged
  <2>1. t # s /\ clean[t] /\ out'[t] = out[t]
      BY <1>2, <1>4
  <2> QED BY <1>1, <2>1 DEF Undamaged, OnCourse, Newest, Continues, rxVars
<1> QED BY <1>2, <1>5, <1>6, <1>7, <1>8, <1>9, <1>10

LEMMA AbandonIInv ==
  ASSUME IInv, NEW s \in Sources, Abandon(s)
  PROVE  IInv'
<1> USE DEF IInv
<1>1. /\ faults' \in 0 .. MaxFaults /\ size' = size /\ sender' = sender
      /\ last_frame' = last_frame /\ delivered' = NoMessage
      /\ UNCHANGED rxVars /\ arrived' = arrived /\ headless' = headless
  <2>1. faults \in 0 .. MaxFaults /\ faults < MaxFaults /\ faults' = faults + 1
      BY DEF TypeOK, Abandon, Fault
  <2>2. faults' \in 0 .. MaxFaults
      BY <2>1, CanTpAssumption
  <2> QED BY <2>2 DEF Abandon, sentVars
<1>2. /\ clean' \in [Sources -> BOOLEAN] /\ \A t \in Sources : clean'[t] => t # s /\ clean[t]
      /\ out' \in [Sources -> Seq(Frames)] /\ out'[s] = <<>>
      /\ \A t \in Sources : out'[t] = out[t] \/ out'[t] = <<>>
      /\ \A t \in Sources \ {s} : out'[t] = out[t]
    BY DEF TypeOK, Types, Abandon
<1>3. TypeOK' /\ Types'
  <2>1. \A t \in Sources : \A i \in DOMAIN out'[t] : out'[t][i].source = t
    <3> TAKE t \in Sources
    <3>1. out'[t] = out[t] \/ DOMAIN out'[t] = {}
        BY <1>2
    <3> QED BY <1>2, <3>1 DEF TypeOK
  <2> QED BY <1>1, <1>2, <2>1 DEF TypeOK, Types, rxVars
<1>4. OnBus'
  <2> SUFFICES ASSUME NEW t \in Sources
        PROVE  /\ \A i \in 1 .. Len(out'[t]) : out'[t][i].source = t /\ Good(out'[t][i])
               /\ \A i \in 1 .. Len(out'[t]) - 1 : Follows(out'[t][i], out'[t][i + 1])
      BY <1>1 DEF OnBus, Good
  <2>1. CASE out'[t] = out[t]
      BY <2>1 DEF OnBus
  <2>2. CASE out'[t] = <<>>
      BY <2>2
  <2> QED BY <1>2, <2>1, <2>2
<1>5. LastSeen' /\ Reassembly' /\ DeliveredIntact'
    BY <1>1 DEF LastSeen, Good, Reassembly, Coherent, Mixed, DeliveredIntact, rxVars
<1>6. Ahead'
  <2>1. state = "RECEIVING" => current_source_id \in Sources
      BY DEF Reassembly
  <2> QED BY <1>1, <1>2, <2>1 DEF Ahead, Fits, Mixed, Continues, rxVars
<1>7. SeenAgain'
  <2>1. last_frame = NoFrame \/ last_frame.source \in Sources
      BY FrameTypes DEF LastSeen
  <2> QED BY <1>1, <1>2, <2>1 DEF SeenAgain, Continues, NoFrame, rxVars
<1>8. Order'
    BY <1>1, <1>2 DEF Order, Pending, rxVars
<1>9. Undamaged'
  <2> SUFFICES ASSUME NEW t \in Sources, clean'[t]
               PROVE  \E id \in 1 .. Len(size) : OnCourse(t, id)'
      BY <1>1 DEF Undamaged
  <2>1. t # s /\ clean[t] /\ out'[t] = out[t]
      BY <1>2
  <2> QED BY <1>1, <2>1 DEF Undamaged, OnCourse, Newest, Continues, rxVars
<1> QED BY <1>3, <1>4, <1>5, <1>6, <1>7, <1>8, <1>9

LEMMA ResetIInv ==
  ASSUME IInv, reset
  PROVE  IInv'
<1> USE DEF IInv
<1>1. /\ faults' \in 0 .. MaxFaults /\ size' = size /\ sender' = sender /\ out' = out
      /\ last_frame' = last_frame /\ delivered' = NoMessage /\ arrived' = arrived
      /\ state' = "IDLE" /\ receive_buffer' = <<>> /\ current_source_id' = current_source_id
      /\ expected_total_size' = 0 /\ received_size' = 0 /\ expected_seq_num' = 0
      /\ headless' = headless
      /\ clean' \in [Sources -> BOOLEAN]
      /\ \A t \in Sources : clean'[t] => clean[t] /\ out[t] = <<>>
  <2>1. faults \in 0 .. MaxFaults /\ faults < MaxFaults /\ faults' = faults + 1
      BY DEF TypeOK, reset, Fault
  <2>2. faults' \in 0 .. MaxFaults
      BY <2>1, CanTpAssumption
  <2>3. clean' = [t \in Sources |-> clean[t] /\ out[t] = <<>>]
      BY DEF reset
  <2>4. /\ clean' \in [Sources -> BOOLEAN]
        /\ \A t \in Sources : clean'[t] => clean[t] /\ out[t] = <<>>
      BY ONLY <2>3
  <2> QED BY <2>2, <2>4 DEF reset, sentVars
<1>2. TypeOK' /\ Types'
    BY <1>1 DEF TypeOK, Types
<1>3. OnBus' /\ LastSeen' /\ Reassembly' /\ Ahead' /\ DeliveredIntact'
    BY <1>1 DEF OnBus, LastSeen, Good, Reassembly, Ahead, DeliveredIntact
<1>4. SeenAgain' /\ Order'
    BY <1>1 DEF SeenAgain, Continues, Order, Pending
<1>5. Undamaged'
  <2> SUFFICES ASSUME NEW t \in Sources, clean'[t]
               PROVE  \E id \in 1 .. Len(size) : OnCourse(t, id)'
      BY <1>1 DEF Undamaged
  <2>1. clean[t] /\ out[t] = <<>>
      BY <1>1
  <2> QED BY <1>1, <2>1 DEF Undamaged, OnCourse, Newest, Continues
<1> QED BY <1>2, <1>3, <1>4, <1>5

\* A new message is numbered behind all others, and nothing of it has arrived.
LEMMA StartMessageIInv ==
  ASSUME IInv, NEW s \in Sources, NEW n \in Sizes, StartMessage(s, n)
  PROVE  IInv'
<1> USE DEF IInv
<1> PICK id : id = NextId
    OBVIOUS
<1> PICK m : m = prepareMessage(s, id, n)
    OBVIOUS
<1>1. /\ id = Len(size) + 1 /\ id \in Ids /\ id <= MaxMessages /\ Len(size) \in Nat
      /\ DOMAIN size = 1 .. Len(size) /\ DOMAIN sender = 1 .. Len(size)
    BY DEF StartMessage, NextId, Types, Ids
<1>2. /\ out[s] = <<>> /\ out' = [out EXCEPT ![s] = m]
      /\ size' = Append(size, n) /\ sender' = Append(sender, s)
      /\ clean' = [clean EXCEPT ![s] = TRUE] /\ delivered' = NoMessage
      /\ last_frame' = last_frame /\ UNCHANGED rxVars
      /\ arrived' = arrived /\ faults' = faults /\ headless' = headless
    BY DEF StartMessage
<1>3. n \in TwelveBits /\ n \in Nat
    BY CanTpAssumption, Within DEF TwelveBits
<1>4. Message(m, s, id, n)
    BY <1>1, <1>3, Prepared
<1>5. /\ size' \in Seq(TwelveBits) /\ sender' \in Seq(Sources)
      /\ Len(sender') = Len(size') /\ Len(size') = id
      /\ DOMAIN size' = 1 .. id /\ DOMAIN sender' = 1 .. id
      /\ size'[id] = n /\ sender'[id] = s
      /\ \A j \in 1 .. Len(size) : size'[j] = size[j] /\ sender'[j] = sender[j]
    BY <1>1, <1>2, <1>3 DEF Types
<1>6. /\ \A j \in 1 .. Len(size) : j \in Nat /\ j < id /\ j # id /\ j \in 1 .. id
      /\ id \in 1 .. id /\ \A j \in 1 .. id : j \in 1 .. Len(size) \/ j = id
    BY <1>1
<1>7. /\ out' \in [Sources -> Seq(Frames)] /\ out'[s] = m
      /\ \A t \in Sources \ {s} : out'[t] = out[t]
    BY <1>2, <1>4 DEF Types, Message
<1>8. Types'
    BY <1>1, <1>5, <1>7 DEF Types
\* What was true of the frames of the other messages still is.
<1>9. ASSUME NEW f, Good(f) PROVE Good(f)'
  <2>1. f.piece.id \in 1 .. Len(size)
      BY <1>1, <1>9 DEF Good
  <2> QED BY <1>5, <1>6, <1>9, <2>1 DEF Good
<1>10. OnBus'
  <2>1. ASSUME NEW i \in 1 .. Len(m) PROVE m[i].source = s /\ Good(m[i])'
    <3>1. /\ m[i].source = s /\ m[i].piece.id = id /\ m[i].piece.last <= n
          /\ m[i].kind = "SF" => m[i].piece.first = 0 /\ m[i].piece.last = n
          /\ m[i].kind = "FF" => /\ m[i].piece.first = 0 /\ m[i].piece.last = 6
                                 /\ m[i].total = n /\ n >= 8
          /\ m[i].kind = "CF" => 6 <= m[i].piece.first /\ m[i].piece.first < m[i].piece.last
        BY <1>4 DEF Message
    <3> QED BY <1>5, <1>6, <3>1 DEF Good
  <2>2. \A i \in 1 .. Len(m) - 1 : Follows(m[i], m[i + 1])
      BY <1>4 DEF Message
  <2>3. ASSUME NEW t \in Sources
        PROVE  (/\ \A i \in 1 .. Len(out[t]) : out[t][i].source = t /\ Good(out[t][i])
                /\ \A i \in 1 .. Len(out[t]) - 1 : Follows(out[t][i], out[t][i + 1]))'
    <3>1. CASE t = s
        BY <1>7, <2>1, <2>2, <3>1
    <3>2. CASE t # s
      <4> PICK q : q = out[t]
          OBVIOUS
      <4>1. /\ \A i \in 1 .. Len(q) : q[i].source = t /\ Good(q[i])
            /\ \A i \in 1 .. Len(q) - 1 : Follows(q[i], q[i + 1])
          BY DEF OnBus
      <4>2. out'[t] = q
          BY <1>7, <3>2
      <4> QED BY <1>9, <4>1, <4>2
    <3> QED BY <3>1, <3>2
  <2> QED BY <2>3 DEF OnBus
<1>11. LastSeen' /\ DeliveredIntact'
    BY <1>2, <1>9 DEF LastSeen, DeliveredIntact
<1>12. TypeOK'
  <2>1. \A t \in Sources : \A i \in DOMAIN out'[t] : out'[t][i].source = t
    <3> TAKE t \in Sources
    <3>1. DOMAIN out'[t] = 1 .. Len(out'[t])
        BY <1>7
    <3> QED BY <1>10, <3>1 DEF OnBus
  <2>2. clean' \in [Sources -> BOOLEAN]
      BY <1>2 DEF TypeOK
  <2> QED BY <1>2, <2>1, <2>2 DEF TypeOK, rxVars
<1>13. Reassembly'
  <2>1. state = "RECEIVING" => receive_buffer[1].id \in 1 .. Len(size)
      BY <1>1 DEF Reassembly
  <2>2. state = "RECEIVING" /\ Coherent => Coherent'
      BY <1>2, <1>5, <2>1 DEF Coherent, rxVars
  <2> QED BY <1>1, <1>2, <1>5, <1>6, <2>2 DEF Reassembly, Mixed, rxVars
\* It begins with a frame that continues nothing.
<1>14. m # <<>> /\ m[1].kind \in {"SF", "FF"} /\ m[1].piece.id = id
       /\ m[Len(m)].piece.last = n
    BY <1>4 DEF Message
<1>15. Ahead'
  <2>1. state = "RECEIVING" => current_source_id \in Sources
      BY DEF Reassembly
  <2> QED BY <1>2, <1>7, <1>14, <2>1 DEF Ahead, Fits, Mixed, Continues, rxVars
<1>16. SeenAgain'
  <2>1. last_frame = NoFrame \/ (last_frame.source \in Sources /\ last_frame.piece.id < id)
      BY <1>1, <1>6, FrameTypes DEF LastSeen, Good
  <2> QED BY <1>2, <1>7, <1>14, <2>1 DEF SeenAgain, Continues, NoFrame, rxVars
<1>17. Order'
  <2>1. \A t \in Sources : arrived[t] \in Int
      BY CanTpAssumption DEF TypeOK, Ids
  <2>2. \A t \in Sources : arrived[t] <= Len(size) /\ arrived[t] < id /\ arrived[t] <= id
      BY <1>1, <2>1 DEF Order
  <2> QED BY <1>2, <1>5, <1>7, <1>14, <2>2 DEF Order, Pending, rxVars
<1>18. Undamaged'
  <2> SUFFICES ASSUME NEW t \in Sources, clean'[t]
               PROVE  \E k \in 1 .. id : OnCourse(t, k)'
      BY <1>5 DEF Undamaged
  <2>1. CASE t = s
    <3>1. Newest(s, id)'
        BY <1>1, <1>5, <1>6 DEF Newest
    <3>2. OnCourse(s, id)'
        BY <1>5, <1>7, <1>14, <3>1 DEF OnCourse, Continues
    <3> QED BY <1>6, <2>1, <3>2
  <2>2. CASE t # s
    <3>1. clean[t] /\ out'[t] = out[t]
        BY <1>2, <1>7, <2>2 DEF TypeOK
    <3> PICK k \in 1 .. Len(size) : OnCourse(t, k)
        BY <3>1 DEF Undamaged
    <3>2. Newest(t, k)'
        BY <1>1, <1>5, <1>6, <2>2 DEF OnCourse, Newest
    <3>3. OnCourse(t, k)'
        BY <1>2, <1>5, <3>1, <3>2 DEF OnCourse, Continues, rxVars
    <3> QED BY <1>6, <3>3
  <2> QED BY <2>1, <2>2
<1> QED BY <1>8, <1>10, <1>11, <1>12, <1>13, <1>15, <1>16, <1>17, <1>18

LEMMA StepIInv == IInv /\ [Next]_vars => IInv'
<1> SUFFICES ASSUME IInv, [Next]_vars PROVE IInv'
    OBVIOUS
<1>1. ASSUME NEW s \in Sources, NEW n \in Sizes, StartMessage(s, n) PROVE IInv'
    BY <1>1, StartMessageIInv
<1>2. ASSUME NEW s \in Sources, Transmit(s) PROVE IInv'
    BY <1>2, TransmitIInv
<1>3. ASSUME NEW s \in Sources, Lose(s) PROVE IInv'
    BY <1>3, LoseIInv
<1>4. ASSUME NEW s \in Sources, Abandon(s) PROVE IInv'
    BY <1>4, AbandonIInv
<1>5. CASE Repeat
    BY <1>5, RepeatIInv
<1>6. CASE reset
    BY <1>6, ResetIInv
<1>7. CASE UNCHANGED vars
  <2> USE <1>7 DEF IInv, vars, rxVars, sentVars
  <2>1. TypeOK' /\ Types'
      BY DEF TypeOK, Types
  <2>2. OnBus' /\ LastSeen'
      BY DEF OnBus, LastSeen, Good
  <2>3. Reassembly' /\ Ahead' /\ DeliveredIntact'
      BY DEF Reassembly, Coherent, Mixed, Ahead, Fits, Continues, DeliveredIntact, Whole
  <2>4. SeenAgain' /\ Order'
      BY DEF SeenAgain, Continues, Order, Pending
  <2>5. Undamaged'
      BY DEF Undamaged, OnCourse, Newest, Continues
  <2> QED BY <2>1, <2>2, <2>3, <2>4, <2>5
<1> QED BY <1>1, <1>2, <1>3, <1>4, <1>5, <1>6, <1>7 DEF Next

LEMMA Invariance == Spec => []IInv
BY InitIInv, StepIInv, PTL DEF Spec

-----------------------------------------------------------------------------
\* The receiver's counters stay in the widths of can_tp.hpp, whatever the bus
\* does: no more is counted than announced, no more announced than twelve bits.
THEOREM TypeCorrect == Spec => []TypeOK
<1>1. IInv => TypeOK
    BY DEF IInv
<1> QED BY <1>1, Invariance, PTL

\* Whatever is lost, repeated, interleaved or abandoned, what processFrame
\* returns (lines 36-80) is one message that was sent, whole, or one that took
\* over frames of a message whose own first frame was lost.
THEOREM WholeOrNothing == Spec => []DeliveredIntact
<1>1. IInv => DeliveredIntact
    BY DEF IInv
<1> QED BY <1>1, Invariance, PTL

\* A message whose frames arrive once, in order and with no other first frame in
\* between has been returned when its last frame has: prepareMessage and
\* processFrame agree on sizes and sequence numbers for every size.
THEOREM CleanArrival == Spec => []CleanArrives
<1>1. IInv => CleanArrives
  <2> SUFFICES ASSUME IInv, NEW s \in Sources, clean[s], out[s] = <<>>
               PROVE  arrived[s] = CHOOSE id \in DOMAIN sender :
                        sender[id] = s /\ \A j \in DOMAIN sender : sender[j] = s => j <= id
      BY DEF CleanArrives
  <2> PICK id \in 1 .. Len(size) : OnCourse(s, id)
      BY DEF IInv, Undamaged
  <2>1. Newest(s, id) /\ arrived[s] = id
      BY DEF OnCourse
  <2>2. \A j \in DOMAIN sender : j \in Int
      BY DEF IInv, Types
  <2>3. \A j \in DOMAIN sender :
          sender[j] = s /\ (\A k \in DOMAIN sender : sender[k] = s => k <= j) => j = id
      BY <2>1, <2>2 DEF Newest
  <2> QED BY <2>1, <2>3 DEF Newest
<1> QED BY <1>1, Invariance, PTL

LEMMA DeliveredNow ==
  ASSUME NEW f, processFrame(f), ~(f.kind = "CF" /\ InSequence(f))
  PROVE  delivered' = NoMessage \/ delivered' = [source |-> f.source, pieces |-> <<f.piece>>]
BY DEF processFrame, ReceiveSingle, ReceiveFirst, ReceiveNext, ReceiveOutOfSequence,
       ReceiveStray, Deliver, Nothing

\* A message of several frames is returned once and never after a later one of
\* its source, whatever is repeated or lost on the way.
THEOREM NeverTwiceNorLate == Spec => OnceInOrder
<1> DEFINE Later == \A s \in Sources : delivered'.source = s /\ Len(delivered'.pieces) > 1
                                        => delivered'.pieces[Len(delivered'.pieces)].id > arrived[s]
<1>1. delivered' = NoMessage => Later
    BY CanTpAssumption DEF NoMessage
<1>2. ASSUME NEW f, delivered' = [source |-> f.source, pieces |-> <<f.piece>>]
      PROVE  Later
  <2>1. Len(delivered'.pieces) = 1
      BY <1>2
  <2> QED BY <2>1
<1>3. ASSUME IInv, NEW s \in Sources, Transmit(s) PROVE Later
  <2> PICK f : f = Head(out[s])
      OBVIOUS
  <2>1. /\ processFrame(f) /\ UNCHANGED sentVars /\ out[s] # <<>>
        /\ out' = [out EXCEPT ![s] = Tail(@)]
      BY <1>3 DEF Transmit
  <2>2. f \in Frames /\ f.source = s /\ Good(f) /\ f = out[s][1]
      BY <1>3, <2>1, Behind DEF IInv
  <2>3. CASE ~(f.kind = "CF" /\ InSequence(f))
      BY <1>1, <1>2, <2>1, <2>3, DeliveredNow
  <2>4. CASE f.kind = "CF" /\ InSequence(f)
    <3>1. Fits(f.piece) /\ Pending(s) /\ UNCHANGED <<sentVars, headless>>
        BY <1>3, <2>1, <2>2, <2>4 DEF IInv, Ahead, Continues, InSequence, Pending, Transmit
    <3>2. Receiver /\ Types /\ Reassembly
        BY <1>3 DEF IInv, TypeOK, Receiver, TwelveBits
    <3>3. \/ delivered' = NoMessage
          \/ /\ delivered'.source = s
             /\ delivered'.pieces[Len(delivered'.pieces)].id = f.piece.id
        BY <2>1, <2>2, <2>4, <3>1, <3>2, NextOne
    <3>4. arrived[s] < f.piece.id
        BY <1>3, <2>1, <2>2, <3>1 DEF IInv, Order
    <3>5. f.piece.id > arrived[s]
        BY <3>4
    <3> QED BY <1>1, <3>3, <3>5
  <2> QED BY <2>3, <2>4
<1>4. ASSUME IInv, Repeat PROVE Later
  <2> PICK f : f = last_frame
      OBVIOUS
  <2>1. processFrame(f) /\ ~(f.kind = "CF" /\ InSequence(f))
      BY <1>4 DEF Repeat, IInv, SeenAgain, InSequence
  <2> QED BY <1>1, <1>2, <2>1, DeliveredNow
<1>5. ASSUME Next, ~Repeat, ~(\E s \in Sources : Transmit(s)) PROVE Later
    BY <1>1, <1>5 DEF Next, StartMessage, Lose, Abandon, reset
<1>6. IInv /\ [Next]_vars => [Later]_vars
    BY <1>3, <1>4, <1>5
<1> QED BY <1>6, Invariance, PTL DEF Spec, OnceInOrder
=============================================================================
