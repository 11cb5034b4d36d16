------------------------ MODULE CircularBufferProofs ------------------------
(***************************************************************************)
(* For every capacity, every alphabet and every set of blocks: the bounds  *)
(* the code asserts hold (TypeCorrect), the tail is always right behind    *)
(* the queued bytes (TailCorrect), and the circular buffer implements the  *)
(* first-in first-out sequence of ByteFifo (ImplementsByteFifo).           *)
(***************************************************************************)
EXTENDS CircularBuffer, SequenceTheorems, TLAPS

Inv == TypeOK /\ TailBehindContents

(* The cells of the queued bytes, and the tail behind them, are cells of   *)
(* the buffer, and no cell holds two queued bytes.                         *)
LEMMA CellProperties ==
    ASSUME Inv
    PROVE  /\ \A k \in 0..max_size_bytes : Cell(k) \in Index
           /\ \A k, l \in 0..max_size_bytes - 1 : Cell(k) = Cell(l) => k = l
BY CapacityAssumption DEF Inv, TypeOK, Index, Cell

LEMMA BlockType ==
    ASSUME NEW block \in Block
    PROVE  /\ block \in Seq(Byte)
           /\ Len(block) \in Nat
           /\ \A i \in 1..Len(block) : block[i] \in Byte
BY BlockAssumption

(* A write that fits puts the block right behind the queued bytes and      *)
(* touches none of them, whether or not it wraps.                          *)
LEMMA WriteEffect ==
    ASSUME Inv, NEW block \in Block, Write(block)
    PROVE  /\ buffer' \in [Index -> Byte]
           /\ tail' \in Index
           /\ size' = size + Len(block) /\ size' \in 0..max_size_bytes
           /\ head' = head /\ data' = data
           /\ tail' = Cell(size')
           /\ \A k \in 0..size' - 1 :
                 buffer'[Cell(k)] = IF k < size THEN buffer[Cell(k)]
                                                ELSE block[k - size + 1]
<1> DEFINE L == Len(block)
<1>0. /\ L \in Nat
      /\ \A i \in 1..L : block[i] \in Byte
      /\ size' = size + L /\ size' \in 0..max_size_bytes
      /\ head' = head /\ data' = data
      /\ size + L <= max_size_bytes
  BY BlockType DEF Write, circular_buffer_write, Inv, TypeOK
<1>c. ASSUME NEW k \in 0..size' - 1 PROVE Cell(k) \in Index
  <2>1. k \in 0..max_size_bytes
    BY <1>0, CapacityAssumption
  <2> QED BY <2>1, CellProperties
<1>1. CASE tail + L < max_size_bytes
  <2>1. /\ buffer' = CopyIn(buffer, tail, block, 0, L)
        /\ tail' = tail + L
    BY <1>0, <1>1, CapacityAssumption
       DEF Write, circular_buffer_write, Inv, TypeOK, Index
  <2>2. \A at \in Index : buffer'[at] = IF tail <= at /\ at < tail + L
                                        THEN block[at - tail + 1] ELSE buffer[at]
    <3> SUFFICES ASSUME NEW at \in Index
                 PROVE  buffer'[at] = IF tail <= at /\ at < tail + L
                                      THEN block[at - tail + 1] ELSE buffer[at]
      OBVIOUS
    <3>1. 0 + (at - tail) + 1 = at - tail + 1
      BY CapacityAssumption DEF Inv, TypeOK, Index
    <3> QED BY <2>1, <3>1 DEF CopyIn
  <2>3. buffer' \in [Index -> Byte]
    <3>1. \A at \in Index : tail <= at /\ at < tail + L => at - tail + 1 \in 1..L
      BY <1>0, CapacityAssumption DEF Inv, TypeOK, Index
    <3>2. \A at \in Index : buffer'[at] \in Byte
      BY <1>0, <2>2, <3>1 DEF Inv, TypeOK
    <3> QED BY <2>1, <3>2 DEF CopyIn
  <2>4. tail' \in Index /\ tail' = Cell(size')
    BY <1>0, <1>1, <2>1, CapacityAssumption
       DEF Inv, TypeOK, Index, TailBehindContents, Cell
  <2>5. ASSUME NEW k \in 0..size' - 1
        PROVE  buffer'[Cell(k)] = IF k < size THEN buffer[Cell(k)]
                                              ELSE block[k - size + 1]
    <3>1. Cell(k) \in Index
      BY <1>c
    <3>2. CASE k < size
      <4>1. ~(tail <= Cell(k) /\ Cell(k) < tail + L)
        BY <1>0, <1>1, <3>2, CapacityAssumption
           DEF Inv, TypeOK, Index, TailBehindContents, Cell
      <4> QED BY <2>2, <3>1, <3>2, <4>1
    <3>3. CASE ~(k < size)
      <4>1. tail <= Cell(k) /\ Cell(k) < tail + L /\ Cell(k) - tail = k - size
        BY <1>0, <1>1, <3>3, CapacityAssumption
           DEF Inv, TypeOK, Index, TailBehindContents, Cell
      <4> QED BY <2>2, <3>1, <3>3, <4>1
    <3> QED BY <3>2, <3>3
  <2> QED BY <1>0, <2>3, <2>4, <2>5
<1>2. CASE ~(tail + L < max_size_bytes)
  <2> DEFINE B == max_size_bytes - tail
             A == L - B
  <2>0. /\ B \in Nat /\ A \in Nat /\ B > 0 /\ A + B = L /\ B <= L
        /\ A <= tail /\ A < max_size_bytes /\ tail + B = max_size_bytes
    BY <1>0, <1>2, CapacityAssumption DEF Inv, TypeOK, Index
  <2>1. /\ buffer' = CopyIn(CopyIn(buffer, tail, block, 0, B), 0, block, B, A)
        /\ tail' = A
    BY <1>0, <1>2, CapacityAssumption
       DEF Write, circular_buffer_write, Inv, TypeOK, Index
  <2>2. \A at \in Index : buffer'[at] = IF at < A THEN block[B + at + 1]
                                        ELSE IF tail <= at THEN block[at - tail + 1]
                                        ELSE buffer[at]
    <3> SUFFICES ASSUME NEW at \in Index
                 PROVE  buffer'[at] = IF at < A THEN block[B + at + 1]
                                      ELSE IF tail <= at THEN block[at - tail + 1]
                                      ELSE buffer[at]
      OBVIOUS
    <3>1. /\ 0 + (at - tail) + 1 = at - tail + 1
          /\ B + (at - 0) + 1 = B + at + 1
          /\ (0 <= at /\ at < 0 + A) <=> at < A
          /\ (tail <= at /\ at < tail + B) <=> tail <= at
      BY <2>0, CapacityAssumption DEF Inv, TypeOK, Index
    <3> HIDE DEF A, B
    <3> QED BY <2>1, <3>1 DEF CopyIn
  <2>3. buffer' \in [Index -> Byte]
    <3>1. \A at \in Index : /\ at < A => B + at + 1 \in 1..L
                            /\ tail <= at => at - tail + 1 \in 1..L
      BY <1>0, <2>0, CapacityAssumption DEF Inv, TypeOK, Index
    <3> HIDE DEF A, B, L
    <3>2. \A at \in Index : buffer'[at] \in Byte
      BY <1>0, <2>2, <3>1 DEF Inv, TypeOK, L
    <3> QED BY <2>1, <3>2 DEF CopyIn
  <2>4. tail' \in Index /\ tail' = Cell(size')
    BY <1>0, <1>2, <2>1, CapacityAssumption
       DEF Inv, TypeOK, Index, TailBehindContents, Cell
  <2>5. ASSUME NEW k \in 0..size' - 1
        PROVE  buffer'[Cell(k)] = IF k < size THEN buffer[Cell(k)]
                                              ELSE block[k - size + 1]
    <3>1. Cell(k) \in Index
      BY <1>c
    <3>2. CASE k < size
      <4>1. ~(Cell(k) < A) /\ ~(tail <= Cell(k))
        BY <1>0, <1>2, <3>2, CapacityAssumption
           DEF Inv, TypeOK, Index, TailBehindContents, Cell
      <4> QED BY <2>2, <3>1, <3>2, <4>1
    <3>3. CASE ~(k < size)
      <4>1. \/ Cell(k) < A /\ B + Cell(k) + 1 = k - size + 1
            \/ ~(Cell(k) < A) /\ tail <= Cell(k) /\ Cell(k) - tail + 1 = k - size + 1
        BY <1>0, <1>2, <3>3, CapacityAssumption
           DEF Inv, TypeOK, Index, TailBehindContents, Cell
      <4> HIDE DEF A, B
      <4> QED BY <2>2, <3>1, <3>3, <4>1
    <3> QED BY <3>2, <3>3
  <2> QED BY <1>0, <2>3, <2>4, <2>5
<1> QED BY <1>1, <1>2

LEMMA ContentsType ==
    ASSUME Inv
    PROVE  /\ Contents \in Seq(Byte)
           /\ Len(Contents) = size
           /\ \A k \in 1..size : Contents[k] = buffer[Cell(k - 1)]
<1>1. \A k \in 1..size : Cell(k - 1) \in Index
  BY CapacityAssumption DEF Inv, TypeOK, Index, Cell
<1>2. \A k \in 1..size : buffer[Cell(k - 1)] \in Byte
  BY <1>1 DEF Inv, TypeOK
<1>3. size \in Nat
  BY DEF Inv, TypeOK
<1>4. Contents \in [1..size -> Byte]
  BY <1>2 DEF Contents
<1> QED BY <1>3, <1>4 DEF Contents

(* The facts of ContentsType, of the state a step leads to. *)
ContentsReadOff == /\ Contents \in Seq(Byte)
                   /\ Len(Contents) = size
                   /\ \A k \in 1..size : Contents[k] = buffer[Cell(k - 1)]

LEMMA ContentsTypeNext == Inv' => ContentsReadOff'
<1>1. Inv => ContentsReadOff
  BY ContentsType DEF ContentsReadOff
<1> QED BY <1>1, PTL

(* A read copies out the n oldest bytes, in one piece or in two. *)
LEMMA SegmentIsPrefix ==
    ASSUME Inv, NEW n \in 0..size
    PROVE  /\ Segment(n) = SubSeq(Contents, 1, n)
           /\ Segment(n) \in Seq(Byte)
<1>0. n \in Nat /\ size \in Nat /\ head \in Nat /\ head < max_size_bytes
  BY CapacityAssumption DEF Inv, TypeOK, Index
<1>1. /\ SubSeq(Contents, 1, n) \in Seq(Byte)
      /\ Len(SubSeq(Contents, 1, n)) = n
      /\ \A k \in 1..n : SubSeq(Contents, 1, n)[k] = buffer[Cell(k - 1)]
  BY <1>0, ContentsType
<1>2. \A at \in Index : buffer[at] \in Byte
  BY DEF Inv, TypeOK
<1>3. CASE head + n < max_size_bytes
  <2>1. Segment(n) = [k \in 1..n |-> buffer[head + k - 1]]
    BY <1>3 DEF Segment, CopyOut
  <2>2. \A k \in 1..n : head + k - 1 \in Index /\ head + k - 1 = Cell(k - 1)
    BY <1>0, <1>3, CapacityAssumption DEF Index, Cell
  <2>3. Segment(n) \in Seq(Byte) /\ Len(Segment(n)) = n
    <3>1. \A k \in 1..n : buffer[head + k - 1] \in Byte
      BY <1>2, <2>2
    <3>2. Segment(n) \in [1..n -> Byte]
      BY <2>1, <3>1
    <3> QED BY <1>0, <3>2
  <2>4. \A k \in 1..n : Segment(n)[k] = SubSeq(Contents, 1, n)[k]
    BY <1>1, <2>1, <2>2
  <2> QED BY <1>1, <2>3, <2>4, SeqEqual
<1>4. CASE ~(head + n < max_size_bytes)
  <2> DEFINE B == max_size_bytes - head
             A == n - B
             front == [k \in 1..B |-> buffer[head + k - 1]]
             back == [k \in 1..A |-> buffer[0 + k - 1]]
  <2>0. /\ B \in Nat /\ A \in Nat /\ A + B = n /\ A <= head
    BY <1>0, <1>4, CapacityAssumption DEF Inv, TypeOK, Index
  <2>1. Segment(n) = front \o back
    BY <1>4 DEF Segment, CopyOut
  <2>2. \A k \in 1..B : head + k - 1 \in Index /\ head + k - 1 = Cell(k - 1)
    BY <1>0, CapacityAssumption DEF Index, Cell
  <2>3. \A k \in 1..A : 0 + k - 1 \in Index /\ 0 + k - 1 = Cell(B + k - 1)
    BY <1>0, <2>0, CapacityAssumption DEF Index, Cell
  <2> HIDE DEF A, B
  <2>4. front \in Seq(Byte) /\ Len(front) = B
    BY <1>2, <2>0, <2>2
  <2>5. back \in Seq(Byte) /\ Len(back) = A
    BY <1>2, <2>0, <2>3
  <2>6. /\ front \o back \in Seq(Byte)
        /\ Len(front \o back) = n
        /\ \A k \in 1..n : (front \o back)[k] = IF k <= B THEN front[k] ELSE back[k - B]
    <3> HIDE DEF front, back
    <3>1. /\ front \o back \in Seq(Byte)
          /\ Len(front \o back) = Len(front) + Len(back)
          /\ \A k \in 1..(Len(front) + Len(back)) :
                (front \o back)[k] = IF k <= Len(front) THEN front[k]
                                                       ELSE back[k - Len(front)]
      BY <2>4, <2>5, ConcatProperties
    <3>2. Len(front) = B /\ Len(back) = A /\ B + A = n
      BY <2>0, <2>4, <2>5
    <3> QED BY <3>1, <3>2
  <2>7. ASSUME NEW k \in 1..n PROVE (front \o back)[k] = buffer[Cell(k - 1)]
    <3>1. CASE k <= B
      <4>1. k \in 1..B
        BY <2>0, <3>1
      <4> QED BY <2>2, <2>6, <3>1, <4>1
    <3>2. CASE ~(k <= B)
      <4>1. k - B \in 1..A /\ B + (k - B) - 1 = k - 1
        BY <2>0, <3>2
      <4>2. back[k - B] = buffer[Cell(k - 1)]
        BY <2>3, <4>1
      <4> HIDE DEF back, front
      <4> QED BY <2>6, <3>2, <4>2
    <3> QED BY <3>1, <3>2
  <2> HIDE DEF front, back
  <2>8. Segment(n) \in Seq(Byte) /\ Len(Segment(n)) = n
    BY <2>1, <2>6
  <2>9. \A k \in 1..n : Segment(n)[k] = SubSeq(Contents, 1, n)[k]
    BY <1>1, <2>1, <2>7
  <2> QED BY <1>1, <2>8, <2>9, SeqEqual
<1> QED BY <1>3, <1>4

(* A read that pops moves head over exactly the bytes it handed out. *)
LEMMA ReadEffect ==
    ASSUME Inv, NEW n \in 0..max_size_bytes, NEW pop_message \in BOOLEAN,
           Read(n, pop_message)
    PROVE  /\ Inv'
           /\ n <= size
           /\ data' = Segment(n)
           /\ buffer' = buffer
           /\ size' = IF pop_message THEN size - n ELSE size
           /\ \A k \in 0..size' - 1 :
                 Cell(k)' = IF pop_message THEN Cell(k + n) ELSE Cell(k)
<1>1. /\ n \in 0..size
      /\ data' = Segment(n)
      /\ head' = IF pop_message THEN NewHead(n) ELSE head
      /\ size' = IF pop_message THEN size - n ELSE size
      /\ buffer' = buffer /\ tail' = tail
  BY DEF Read, circular_buffer_read, Inv, TypeOK
<1>2. NewHead(n) \in Index
  BY <1>1, CapacityAssumption DEF NewHead, Inv, TypeOK, Index
<1>3. data' \in Seq(Byte)
  BY <1>1, SegmentIsPrefix
<1>4. TypeOK'
  <2>1. head' \in Index
    BY <1>1, <1>2 DEF Inv, TypeOK
  <2>2. size' \in 0..max_size_bytes
    BY <1>1, CapacityAssumption DEF Inv, TypeOK
  <2>3. buffer' \in [Index -> Byte] /\ tail' \in Index
    BY <1>1 DEF Inv, TypeOK
  <2>4. Index' = Index
    BY DEF Index
  <2> QED BY <1>3, <2>1, <2>2, <2>3, <2>4 DEF TypeOK
<1>5. CASE pop_message
  <2>1. head' = NewHead(n) /\ size' = size - n
    BY <1>1, <1>5
  <2>2. TailBehindContents'
    BY <1>1, <2>1, CapacityAssumption
       DEF NewHead, Inv, TypeOK, Index, TailBehindContents, Cell
  <2>3. \A k \in 0..size' - 1 : Cell(k)' = Cell(k + n)
    BY <1>1, <2>1, CapacityAssumption DEF NewHead, Inv, TypeOK, Index, Cell
  <2> QED BY <1>1, <1>4, <1>5, <2>2, <2>3 DEF Inv
<1>6. CASE ~pop_message
  <2>1. head' = head /\ size' = size
    BY <1>1, <1>6
  <2> QED BY <1>1, <1>4, <1>6, <2>1 DEF Inv, TailBehindContents, Cell
<1> QED BY <1>5, <1>6
-----------------------------------------------------------------------------
LEMMA InitInv ==
    ASSUME Init
    PROVE  Inv
BY CapacityAssumption, BlankAssumption
   DEF Init, Inv, TypeOK, TailBehindContents, Cell, Index

LEMMA NextInv ==
    ASSUME Inv, [Next]_vars
    PROVE  Inv'
<1>1. ASSUME NEW block \in Block, Write(block)
      PROVE  Inv'
  <2>1. data \in Seq(Byte) /\ head \in Index
    BY DEF Inv, TypeOK
  <2>2. Cell(size') = Cell(size)'
    BY <1>1, WriteEffect DEF Cell
  <2>3. Index' = Index
    BY DEF Index
  <2>4. /\ buffer' \in [Index -> Byte] /\ tail' \in Index
        /\ size' \in 0..max_size_bytes
        /\ head' = head /\ data' = data /\ tail' = Cell(size')
    BY <1>1, WriteEffect
  <2> QED BY <2>1, <2>2, <2>3, <2>4 DEF Inv, TypeOK, TailBehindContents
<1>2. ASSUME NEW n \in 0..max_size_bytes, NEW pop_message \in BOOLEAN,
             Read(n, pop_message)
      PROVE  Inv'
  BY <1>2, ReadEffect
<1>3. CASE UNCHANGED vars
  BY <1>3 DEF vars, Inv, TypeOK, TailBehindContents, Cell, Index
<1> QED BY <1>1, <1>2, <1>3 DEF Next

LEMMA Invariance == Spec => []Inv
<1>1. Init => Inv
  BY InitInv
<1>2. Inv /\ [Next]_vars => Inv'
  BY NextInv
<1> QED BY <1>1, <1>2, PTL DEF Spec

(* The assertions of circular_buffer_write and circular_buffer_read never  *)
(* fail: the cursors stay inside the buffer and the byte count between 0   *)
(* and the capacity.                                                       *)
THEOREM TypeCorrect == Spec => []TypeOK
<1>1. Inv => TypeOK
  BY DEF Inv
<1> QED BY <1>1, Invariance, PTL

(* The cursor the writers move is always right behind the bytes the        *)
(* readers' cursor and the byte count describe.                            *)
THEOREM TailCorrect == Spec => []TailBehindContents
<1>1. Inv => TailBehindContents
  BY DEF Inv
<1> QED BY <1>1, Invariance, PTL
-----------------------------------------------------------------------------
(* A write appends its block to the queued bytes. *)
LEMMA WriteRefines ==
    ASSUME Inv, Inv', NEW block \in Block, Write(block)
    PROVE  Fifo!Write(block)
<1>1. /\ Contents \in Seq(Byte) /\ Len(Contents) = size
      /\ \A k \in 1..size : Contents[k] = buffer[Cell(k - 1)]
  BY ContentsType
<1>2. /\ Contents' \in Seq(Byte) /\ Len(Contents)' = size'
      /\ \A k \in 1..size' : Contents'[k] = buffer'[Cell(k - 1)']
  BY ContentsTypeNext DEF ContentsReadOff
<1>3. /\ size' = size + Len(block) /\ size' \in 0..max_size_bytes
      /\ head' = head /\ data' = data
      /\ \A k \in 0..size' - 1 :
            buffer'[Cell(k)] = IF k < size THEN buffer[Cell(k)]
                                           ELSE block[k - size + 1]
  BY WriteEffect
<1>4. block \in Seq(Byte) /\ Len(block) \in Nat /\ size \in Nat
  BY BlockType DEF Inv, TypeOK
<1>5. /\ Contents \o block \in Seq(Byte)
      /\ Len(Contents \o block) = size'
      /\ \A k \in 1..size' : (Contents \o block)[k] =
            IF k <= size THEN Contents[k] ELSE block[k - size]
  <2>1. /\ Contents \o block \in Seq(Byte)
        /\ Len(Contents \o block) = Len(Contents) + Len(block)
        /\ \A k \in 1..(Len(Contents) + Len(block)) :
              (Contents \o block)[k] = IF k <= Len(Contents) THEN Contents[k]
                                                            ELSE block[k - Len(Contents)]
    BY <1>1, <1>4, ConcatProperties
  <2> QED BY <1>1, <1>3, <2>1
<1>6. ASSUME NEW k \in 1..size'
      PROVE  Contents'[k] = (Contents \o block)[k]
  <2>1. k - 1 \in 0..size' - 1 /\ (k - 1 < size <=> k <= size)
    BY <1>3, <1>4
  <2>2. Cell(k - 1)' = Cell(k - 1)
    BY <1>3 DEF Cell
  <2>3. Contents'[k] = IF k <= size THEN buffer[Cell(k - 1)]
                                    ELSE block[(k - 1) - size + 1]
    BY <1>2, <1>3, <2>1, <2>2
  <2>4. (k - 1) - size + 1 = k - size
    BY <1>4, <1>3
  <2>5. k <= size => k \in 1..size
    BY <1>4
  <2> QED BY <1>1, <1>5, <2>3, <2>4, <2>5
<1>7. Contents' = Contents \o block
  <2>1. Len(Contents') = Len(Contents \o block)
    BY <1>2, <1>5
  <2>2. \A k \in 1..Len(Contents') : Contents'[k] = (Contents \o block)[k]
    BY <1>2, <1>6
  <2> HIDE DEF Contents
  <2> QED BY <1>2, <1>5, <2>1, <2>2, SeqEqual
<1>8. Len(Contents) + Len(block) <= max_size_bytes
  BY <1>1, <1>3, <1>4
<1> QED BY <1>3, <1>7, <1>8 DEF Fifo!Write

(* A read hands out the oldest bytes and removes them only when it pops. *)
LEMMA ReadRefines ==
    ASSUME Inv, NEW n \in 0..max_size_bytes, NEW pop_message \in BOOLEAN,
           Read(n, pop_message)
    PROVE  Fifo!Read(n, pop_message)
<1>1. /\ Inv' /\ n <= size /\ data' = Segment(n) /\ buffer' = buffer
      /\ size' = IF pop_message THEN size - n ELSE size
      /\ \A k \in 0..size' - 1 :
            Cell(k)' = IF pop_message THEN Cell(k + n) ELSE Cell(k)
  BY ReadEffect
<1>2. n \in 0..size /\ n \in Nat /\ size \in Nat
  BY <1>1 DEF Inv, TypeOK
<1>3. /\ Contents \in Seq(Byte) /\ Len(Contents) = size
      /\ \A k \in 1..size : Contents[k] = buffer[Cell(k - 1)]
  BY ContentsType
<1>4. /\ Contents' \in Seq(Byte) /\ Len(Contents') = size'
      /\ \A k \in 1..size' : Contents'[k] = buffer'[Cell(k - 1)']
  BY <1>1, ContentsTypeNext DEF ContentsReadOff
<1>5. data' = SubSeq(Contents, 1, n)
  BY <1>1, <1>2, SegmentIsPrefix
<1>6. CASE pop_message
  <2>1. size' = size - n /\ size' \in Nat
    BY <1>1, <1>2, <1>6
  <2>2. /\ SubSeq(Contents, n + 1, size) \in Seq(Byte)
        /\ Len(SubSeq(Contents, n + 1, size)) = size - n
        /\ \A k \in 1..size - n : SubSeq(Contents, n + 1, size)[k] = Contents[n + k]
    <3> HIDE DEF Contents
    <3>1. \A k \in (n + 1)..size : Contents[k] \in Byte
      BY <1>2, <1>3
    <3>2. n + 1 \in Int /\ size \in Int
      BY <1>2
    <3>3. /\ SubSeq(Contents, n + 1, size) \in Seq(Byte)
          /\ Len(SubSeq(Contents, n + 1, size)) =
                IF n + 1 <= size THEN size - (n + 1) + 1 ELSE 0
          /\ \A k \in 1..size - (n + 1) + 1 :
                SubSeq(Contents, n + 1, size)[k] = Contents[(n + 1) + k - 1]
      BY <3>1, <3>2, SubSeqProperties
    <3>4. /\ size - (n + 1) + 1 = size - n
          /\ \A k \in 1..size - n : (n + 1) + k - 1 = n + k
          /\ ~(n + 1 <= size) => size - n = 0
      BY <1>2
    <3> QED BY <3>3, <3>4
  <2>3. ASSUME NEW k \in 1..size'
        PROVE  Contents'[k] = SubSeq(Contents, n + 1, size)[k]
    <3>1. /\ k - 1 \in 0..size' - 1 /\ k - 1 + n = (n + k) - 1
          /\ n + k \in 1..size /\ k \in 1..size - n
      BY <1>2, <2>1
    <3>2. Cell(k - 1)' = Cell((n + k) - 1)
      BY <1>1, <1>6, <3>1
    <3> QED BY <1>1, <1>3, <1>4, <2>2, <3>1, <3>2
  <2>4. Contents' = SubSeq(Contents, n + 1, size)
    <3> HIDE DEF Contents
    <3> QED BY <1>4, <2>1, <2>2, <2>3, SeqEqual
  <2> QED BY <1>2, <1>3, <1>5, <1>6, <2>4 DEF Fifo!Read
<1>7. CASE ~pop_message
  <2>1. size' = size /\ \A k \in 1..size : Cell(k - 1)' = Cell(k - 1)
    BY <1>1, <1>7, <1>2
  <2>2. Contents' = Contents
    BY <1>1, <2>1 DEF Contents
  <2> QED BY <1>2, <1>3, <1>5, <1>7, <2>2 DEF Fifo!Read
<1> QED BY <1>6, <1>7

(* The circular buffer implements the byte sequence of ByteFifo: every     *)
(* write appends, every read returns the oldest bytes, and a peek leaves   *)
(* them, wherever the memory wraps.                                        *)
THEOREM ImplementsByteFifo == Spec => IsByteFifo
<1>1. Init => Fifo!Init
  <2> SUFFICES ASSUME Init PROVE Fifo!Init
    OBVIOUS
  <2>1. Contents = <<>>
    BY InitInv, ContentsType DEF Init
  <2> QED BY <2>1 DEF Init, Fifo!Init
<1>2. Inv /\ Inv' /\ [Next]_vars => [Fifo!Next]_(Fifo!vars)
  <2> SUFFICES ASSUME Inv, Inv', [Next]_vars
               PROVE  [Fifo!Next]_(Fifo!vars)
    OBVIOUS
  <2>1. ASSUME NEW block \in Block, Write(block)
        PROVE  Fifo!Next
    BY <2>1, WriteRefines DEF Fifo!Next
  <2>2. ASSUME NEW n \in 0..max_size_bytes, NEW pop_message \in BOOLEAN,
               Read(n, pop_message)
        PROVE  Fifo!Next
    BY <2>2, ReadRefines DEF Fifo!Next
  <2>3. CASE UNCHANGED vars
    BY <2>3 DEF vars, Fifo!vars, Contents, Cell
  <2> QED BY <2>1, <2>2, <2>3 DEF Next
<1> QED BY <1>1, <1>2, Invariance, PTL DEF Spec, Fifo!Spec, IsByteFifo
=============================================================================
