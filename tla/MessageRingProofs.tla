------------------------- MODULE MessageRingProofs -------------------------
(***************************************************************************)
(* The critical sections of queue_put and queue_get, store by store, for   *)
(* any messages, batches, limits and capacities: the memory holds whole    *)
(* frames, parse_messages reads from it and from the caller's buffer what  *)
(* was put, and the calls implement FifoQueue; what those who look at the  *)
(* counters without the mutex are told; and that the sections of any       *)
(* number of threads, with the mutex and the waits, implement QueueSync.   *)
(*                                                                         *)
(* First, how messages lie in memory and that parse_messages finds them;   *)
(* then what the circular buffer does for its callers; the inductive       *)
(* invariant, with a lemma for each step; what follows from it; the        *)
(* refinement; the observers; and last the threads.                        *)
(***************************************************************************)
EXTENDS Observers, LockedRing, SequenceTheorems, TLAPS

(* The lemmas about the circular buffer, of the one the messages are in. *)
RP == INSTANCE CircularBufferProofs
          WITH Block <- Message \cup { SizeBytes(n) : n \in Sizes }

(* A message is a sequence of bytes, and its length a size. *)
LEMMA MessageTyped ==
    ASSUME NEW m \in Message
    PROVE  /\ m \in Seq(Byte) /\ Len(m) \in Nat /\ Len(m) \in Sizes
           /\ \A k \in 1..Len(m) : m[k] \in Byte
BY MessageAssumption DEF Sizes, MsgSize

LEMMA HeaderNat == HeaderSize \in Nat /\ 0 < HeaderSize
BY HeaderAssumption

LEMMA MessagesSized == Fifo!Sized
BY MessageTyped, HeaderAssumption DEF Fifo!Sized, MsgSize

(* A size is HeaderSize bytes, and each of them says which. *)
LEMMA SizeBytesTyped ==
    ASSUME NEW n \in Sizes
    PROVE  /\ n \in Nat
           /\ SizeBytes(n) \in Seq(Byte) /\ Len(SizeBytes(n)) = HeaderSize
           /\ \A k \in 1..HeaderSize : SizeBytes(n)[k] = <<"size", n, k>>
<1>1. n \in Nat /\ HeaderSize \in Nat
  BY MessageTyped, HeaderAssumption DEF Sizes, MsgSize
<1>2. \A k \in 1..HeaderSize : SizeBytes(n)[k] = <<"size", n, k>>
  BY DEF SizeBytes
<1>3. \A k \in 1..HeaderSize : SizeBytes(n)[k] \in Byte
  BY DEF Byte
<1>4. SizeBytes(n) = [k \in 1..HeaderSize |-> SizeBytes(n)[k]]
  BY DEF SizeBytes
<1>5. SizeBytes(n) \in [1..HeaderSize -> Byte]
  BY <1>3, <1>4
<1>6. SizeBytes(n) \in Seq(Byte)
  BY <1>1, <1>5, SeqDef
<1>7. DOMAIN SizeBytes(n) = 1..HeaderSize
  BY DEF SizeBytes
<1>8. Len(SizeBytes(n)) = HeaderSize
  BY <1>1, <1>6, <1>7, LenProperties
<1> QED BY <1>1, <1>2, <1>6, <1>8

(* So a size is read as it was written. *)
LEMMA SizeRead ==
    ASSUME NEW n \in Sizes
    PROVE  SizeOf(SizeBytes(n)) = n
<1>1. ASSUME NEW m \in Sizes, SizeBytes(n) = SizeBytes(m) PROVE m = n
  <2>1. 1 \in 1..HeaderSize
    BY HeaderAssumption
  <2>2. <<"size", n, 1>> = <<"size", m, 1>>
    BY <1>1, <2>1, SizeBytesTyped
  <2> QED BY <2>2
<1> QED BY <1>1 DEF SizeOf
-----------------------------------------------------------------------------
(* A message as it lies in memory, its size in front of it. *)
Frame(m) == SizeBytes(Len(m)) \o m

(* The bytes after `at` are those of the message. *)
FrameAt(bytes, at, m) == \A k \in 1..HeaderSize + Len(m) : bytes[at + k] = Frame(m)[k]

(* The bytes begin with the frames of the messages, one after the other.   *)
StartsWith(bytes, q) ==
    /\ Fifo!Bytes(q) <= Len(bytes)
    /\ \A n \in 1..Len(q) : FrameAt(bytes, Fifo!Sums(q)[n - 1], q[n])

LEMMA FrameTyped ==
    ASSUME NEW m \in Message
    PROVE  /\ Frame(m) \in Seq(Byte) /\ Len(Frame(m)) = HeaderSize + Len(m)
           /\ \A k \in 1..HeaderSize : Frame(m)[k] = SizeBytes(Len(m))[k]
           /\ \A k \in 1..Len(m) : Frame(m)[HeaderSize + k] = m[k]
<1>1. /\ SizeBytes(Len(m)) \in Seq(Byte) /\ Len(SizeBytes(Len(m))) = HeaderSize
      /\ m \in Seq(Byte) /\ Len(m) \in Nat /\ HeaderSize \in Nat
  BY MessageTyped, SizeBytesTyped, HeaderAssumption
<1>2. /\ SizeBytes(Len(m)) \o m \in Seq(Byte)
      /\ Len(SizeBytes(Len(m)) \o m) = HeaderSize + Len(m)
      /\ \A k \in 1..HeaderSize + Len(m) : (SizeBytes(Len(m)) \o m)[k] =
             IF k <= HeaderSize THEN SizeBytes(Len(m))[k] ELSE m[k - HeaderSize]
  BY <1>1, ConcatProperties
<1>3. \A k \in 1..HeaderSize : k \in 1..HeaderSize + Len(m) /\ k <= HeaderSize
  BY <1>1
<1>4. /\ Frame(m) \in Seq(Byte) /\ Len(Frame(m)) = HeaderSize + Len(m)
      /\ \A k \in 1..HeaderSize + Len(m) : Frame(m)[k] =
             IF k <= HeaderSize THEN SizeBytes(Len(m))[k] ELSE m[k - HeaderSize]
  BY <1>2 DEF Frame
<1>5. \A k \in 1..HeaderSize : Frame(m)[k] = SizeBytes(Len(m))[k]
  BY <1>3, <1>4
<1>6. ASSUME NEW k \in 1..Len(m) PROVE Frame(m)[HeaderSize + k] = m[k]
  <2> DEFINE j == HeaderSize + k
  <2>1. j \in 1..HeaderSize + Len(m) /\ ~(j <= HeaderSize) /\ j - HeaderSize = k
    BY <1>1
  <2> HIDE DEF j
  <2>2. Frame(m)[j] = m[k]
    BY <1>4, <2>1
  <2> QED BY <2>2 DEF j
<1> QED BY <1>4, <1>5, <1>6

(* A frame is taken apart the way it was put together. *)
LEMMA FrameRead ==
    ASSUME NEW m \in Message, NEW bytes \in Seq(Byte), NEW at \in Nat,
           at + HeaderSize + Len(m) <= Len(bytes), FrameAt(bytes, at, m)
    PROVE  /\ SubSeq(bytes, at + 1, at + HeaderSize) = SizeBytes(Len(m))
           /\ SizeAt(bytes, at) = Len(m)
           /\ SubSeq(bytes, at + HeaderSize + 1, at + HeaderSize + Len(m)) = m
<1>1. /\ m \in Seq(Byte) /\ Len(m) \in Nat /\ Len(m) \in Sizes /\ HeaderSize \in Nat
      /\ Len(bytes) \in Nat
  BY MessageTyped, HeaderAssumption
<1>2. SubSeq(bytes, at + 1, at + HeaderSize) = SizeBytes(Len(m))
  <2>1. \A k \in at + 1 .. at + HeaderSize : bytes[k] \in Byte
    BY <1>1
  <2>2. /\ SubSeq(bytes, at + 1, at + HeaderSize) \in Seq(Byte)
        /\ Len(SubSeq(bytes, at + 1, at + HeaderSize)) =
              IF at + 1 <= at + HeaderSize THEN at + HeaderSize - (at + 1) + 1 ELSE 0
        /\ \A k \in 1..at + HeaderSize - (at + 1) + 1 :
              SubSeq(bytes, at + 1, at + HeaderSize)[k] = bytes[at + 1 + k - 1]
    BY <1>1, <2>1, SubSeqProperties
  <2>3. /\ at + HeaderSize - (at + 1) + 1 = HeaderSize /\ at + 1 <= at + HeaderSize
        /\ \A k \in 1..HeaderSize : at + 1 + k - 1 = at + k /\ k \in 1..HeaderSize + Len(m)
    BY <1>1, HeaderAssumption
  <2>4. \A k \in 1..HeaderSize :
           SubSeq(bytes, at + 1, at + HeaderSize)[k] = SizeBytes(Len(m))[k]
    BY <2>2, <2>3, FrameTyped DEF FrameAt
  <2>5. SizeBytes(Len(m)) \in Seq(Byte) /\ Len(SizeBytes(Len(m))) = HeaderSize
    BY <1>1, SizeBytesTyped
  <2>6. Len(SubSeq(bytes, at + 1, at + HeaderSize)) = HeaderSize
    BY <2>2, <2>3
  <2> QED BY <2>2, <2>4, <2>5, <2>6, SeqEqual
<1>3. SubSeq(bytes, at + HeaderSize + 1, at + HeaderSize + Len(m)) = m
  <2> DEFINE from == at + HeaderSize + 1
             to   == at + HeaderSize + Len(m)
  <2>1. \A k \in from .. to : bytes[k] \in Byte
    BY <1>1
  <2>0. from \in Int /\ to \in Int
    BY <1>1
  <2>2. /\ SubSeq(bytes, from, to) \in Seq(Byte)
        /\ Len(SubSeq(bytes, from, to)) = IF from <= to THEN to - from + 1 ELSE 0
        /\ \A k \in 1..to - from + 1 : SubSeq(bytes, from, to)[k] = bytes[from + k - 1]
    <3> HIDE DEF from, to
    <3> QED BY <2>0, <2>1, SubSeqProperties
  <2>3. /\ to - from + 1 = Len(m) /\ (~(from <= to) => Len(m) = 0)
        /\ \A k \in 1..Len(m) : /\ from + k - 1 = at + (HeaderSize + k)
                                /\ HeaderSize + k \in 1..HeaderSize + Len(m)
    <3> DEFINE l == Len(m)
    <3>1. /\ at \in Nat /\ HeaderSize \in Nat /\ l \in Nat
          /\ from = at + HeaderSize + 1 /\ to = at + HeaderSize + l
      BY <1>1
    <3> HIDE DEF from, to, l
    <3>2. /\ to - from + 1 = l /\ (~(from <= to) => l = 0)
          /\ \A k \in 1..l : from + k - 1 = at + (HeaderSize + k)
                             /\ HeaderSize + k \in 1..HeaderSize + l
      BY <3>1
    <3> QED BY <3>2 DEF l
  <2> HIDE DEF from, to
  <2>4. ASSUME NEW k \in 1..Len(m) PROVE SubSeq(bytes, from, to)[k] = m[k]
    <3>1. k \in 1..to - from + 1 /\ from + k - 1 = at + (HeaderSize + k)
      BY <2>3
    <3>2. SubSeq(bytes, from, to)[k] = bytes[at + (HeaderSize + k)]
      BY <2>2, <3>1, Zenon
    <3>3. bytes[at + (HeaderSize + k)] = Frame(m)[HeaderSize + k]
      BY <2>3 DEF FrameAt
    <3> QED BY <3>2, <3>3, FrameTyped
  <2>5. Len(SubSeq(bytes, from, to)) = Len(m)
    BY <2>2, <2>3
  <2>6. SubSeq(bytes, from, to) = m
    BY <1>1, <2>2, <2>4, <2>5, SeqEqual
  <2> QED BY <2>6 DEF from, to
<1> QED BY <1>1, <1>2, <1>3, SizeRead DEF SizeAt

(* The recursive definition of the offsets, of which parse_messages takes  *)
(* the frames.                                                             *)
LEMMA OffsetsDef ==
    ASSUME NEW num \in Nat, NEW bytes
    PROVE  Offsets(num, bytes) = [k \in 0..num |->
              IF k = 0 THEN 0
              ELSE Offsets(num, bytes)[k - 1] + HeaderSize
                     + SizeAt(bytes, Offsets(num, bytes)[k - 1])]
<1> DEFINE Good(f, m) == f = [k \in 0..m |->
              IF k = 0 THEN 0 ELSE f[k - 1] + HeaderSize + SizeAt(bytes, f[k - 1])]
           S == { m \in Nat : \E f : Good(f, m) }
<1>1. 0 \in S
  <2>1. Good([k \in 0..0 |-> 0], 0)
    OBVIOUS
  <2> QED BY <2>1
<1>2. ASSUME NEW m \in S PROVE m + 1 \in S
  <2>1. PICK f : Good(f, m)
    BY <1>2
  <2>2. m \in Nat /\ DOMAIN f = 0..m
    BY <2>1
  <2>3. \A k \in 0..m :
           f[k] = IF k = 0 THEN 0 ELSE f[k - 1] + HeaderSize + SizeAt(bytes, f[k - 1])
    BY <2>1
  <2> DEFINE g == [k \in 0..m + 1 |->
                     IF k = m + 1 THEN f[m] + HeaderSize + SizeAt(bytes, f[m]) ELSE f[k]]
  <2>4. ASSUME NEW k \in 0..m + 1
        PROVE  g[k] = IF k = 0 THEN 0 ELSE g[k - 1] + HeaderSize + SizeAt(bytes, g[k - 1])
    <3> k \in Nat /\ k <= m + 1 /\ m \in Nat
      BY <2>2
    <3>1. CASE k = 0
      <4>1. 0 \in 0..m /\ k # m + 1
        BY <3>1
      <4> QED BY <3>1, <4>1, <2>3
    <3>2. CASE k = m + 1
      <4>1. k - 1 = m /\ k # 0 /\ m \in 0..m + 1 /\ m # m + 1
        BY <3>2
      <4> QED BY <3>2, <4>1
    <3>3. CASE k # 0 /\ k # m + 1
      <4>1. k \in 0..m /\ k - 1 \in 0..m + 1 /\ k - 1 # m + 1
        BY <3>3
      <4> QED BY <4>1, <2>3, <3>3
    <3> QED BY <3>1, <3>2, <3>3
  <2> HIDE DEF g
  <2>5. DOMAIN g = 0..m + 1 /\ g = [k \in DOMAIN g |-> g[k]]
    BY DEF g
  <2>6. Good(g, m + 1)
    BY <2>4, <2>5
  <2> QED BY <2>2, <2>6
<1>3. num \in S
  <2>1. S \in SUBSET Nat
    OBVIOUS
  <2>2. \A m \in S : m < num => m + 1 \in S
    BY <1>2
  <2> HIDE DEF S
  <2>3. \A m \in 0..num : m \in S
    BY <1>1, <2>1, <2>2, Fifo!Induction
  <2> QED BY <2>3
<1>4. PICK f : Good(f, num)
  BY <1>3
<1>5. Offsets(num, bytes) = CHOOSE h : Good(h, num)
  BY DEF Offsets
<1> HIDE DEF Good
<1>6. Good(Offsets(num, bytes), num)
  BY <1>4, <1>5
<1> QED BY <1>6 DEF Good

(* Where the messages of a queue begin and end. *)
LEMMA SumsStep ==
    ASSUME NEW q \in Seq(Message)
    PROVE  /\ Len(q) \in Nat /\ Fifo!Sums(q)[0] = 0 /\ Fifo!Bytes(q) \in Nat
           /\ \A n \in 0..Len(q) : /\ Fifo!Sums(q)[n] \in Nat
                                   /\ Fifo!Sums(q)[n] <= Fifo!Bytes(q)
           /\ \A n \in 1..Len(q) :
                 /\ q[n] \in Message /\ Len(q[n]) \in Nat
                 /\ Fifo!Sums(q)[n] = Fifo!Sums(q)[n - 1] + HeaderSize + Len(q[n])
<1>1. Len(q) \in Nat /\ 0 \in 0..Len(q) /\ Len(q) \in 0..Len(q)
  OBVIOUS
<1>2. Fifo!Sums(q)[0] = 0
  BY <1>1, Fifo!SumsAt
<1>3. \A n \in 0..Len(q) : /\ Fifo!Sums(q)[n] \in Nat
                           /\ Fifo!Sums(q)[n] <= Fifo!Bytes(q)
  <2> TAKE n \in 0..Len(q)
  <2>1. /\ Fifo!Bytes(Fifo!Prefix(q, n)) = Fifo!Sums(q)[n]
        /\ Fifo!Bytes(Fifo!Prefix(q, n)) \in Nat
        /\ Fifo!Bytes(Fifo!Prefix(q, n)) <= Fifo!Bytes(q)
    BY MessagesSized, Fifo!PrefixBytes
  <2> QED BY <2>1
<1>4. ASSUME NEW n \in 1..Len(q)
      PROVE  /\ q[n] \in Message /\ Len(q[n]) \in Nat
             /\ Fifo!Sums(q)[n] = Fifo!Sums(q)[n - 1] + HeaderSize + Len(q[n])
  <2>1. q[n] \in Message /\ n \in 0..Len(q) /\ n # 0
    OBVIOUS
  <2>2. Fifo!Sums(q)[n] =
           IF n = 0 THEN 0 ELSE Fifo!Sums(q)[n - 1] + HeaderSize + MsgSize(q[n])
    BY <2>1, Fifo!SumsAt
  <2> QED BY <2>1, <2>2, MessageTyped DEF MsgSize
<1>5. Fifo!Bytes(q) \in Nat
  BY MessagesSized, Fifo!BytesTyped
<1> QED BY <1>1, <1>2, <1>3, <1>4, <1>5

(* parse_messages finds the messages that were written. *)
LEMMA Parsed ==
    ASSUME NEW q \in Seq(Message), NEW bytes \in Seq(Byte), StartsWith(bytes, q),
           NEW n \in 0..Len(q)
    PROVE  /\ parse_messages(n, bytes).messages = Fifo!Prefix(q, n)
           /\ parse_messages(n, bytes).total_bytes = Fifo!Sums(q)[n]
<1>1. /\ n \in Nat /\ n <= Len(q) /\ Len(q) \in Nat /\ Len(bytes) \in Nat
      /\ HeaderSize \in Nat /\ Fifo!Bytes(q) <= Len(bytes)
  BY HeaderAssumption DEF StartsWith
<1>2. ASSUME NEW k \in 1..n
      PROVE  /\ k \in 1..Len(q) /\ k - 1 \in 0..Len(q) /\ k \in 0..Len(q)
             /\ Fifo!Sums(q)[k - 1] \in Nat
             /\ Fifo!Sums(q)[k] = Fifo!Sums(q)[k - 1] + HeaderSize + Len(q[k])
             /\ SizeAt(bytes, Fifo!Sums(q)[k - 1]) = Len(q[k])
             /\ SubSeq(bytes, Fifo!Sums(q)[k - 1] + HeaderSize + 1, Fifo!Sums(q)[k]) = q[k]
  <2>1. k \in 1..Len(q) /\ k - 1 \in 0..Len(q) /\ k \in 0..Len(q)
    BY <1>1
  <2>2. /\ Fifo!Sums(q)[k - 1] \in Nat /\ Fifo!Sums(q)[k] <= Fifo!Bytes(q)
        /\ q[k] \in Message /\ Len(q[k]) \in Nat /\ Fifo!Bytes(q) \in Nat
        /\ Fifo!Sums(q)[k] = Fifo!Sums(q)[k - 1] + HeaderSize + Len(q[k])
    BY <2>1, SumsStep
  <2>3. FrameAt(bytes, Fifo!Sums(q)[k - 1], q[k])
    BY <2>1 DEF StartsWith
  <2>4. Fifo!Sums(q)[k - 1] + HeaderSize + Len(q[k]) <= Len(bytes)
    BY <1>1, <2>2
  <2>5. /\ SizeAt(bytes, Fifo!Sums(q)[k - 1]) = Len(q[k])
        /\ SubSeq(bytes, Fifo!Sums(q)[k - 1] + HeaderSize + 1,
                         Fifo!Sums(q)[k - 1] + HeaderSize + Len(q[k])) = q[k]
    BY <2>2, <2>3, <2>4, FrameRead
  <2> QED BY <2>1, <2>2, <2>5
<1> DEFINE offset == Offsets(n, bytes)
<1>3. \A k \in 0..n : offset[k] = IF k = 0 THEN 0
                                  ELSE offset[k - 1] + HeaderSize + SizeAt(bytes, offset[k - 1])
  BY <1>1, OffsetsDef
<1> HIDE DEF offset
<1>4. \A k \in 0..n : offset[k] = Fifo!Sums(q)[k]
  <2> DEFINE S == { k \in Nat : k <= n => offset[k] = Fifo!Sums(q)[k] }
  <2>1. 0 \in S /\ S \in SUBSET Nat
    <3>1. offset[0] = 0
      BY <1>1, <1>3
    <3>2. Fifo!Sums(q)[0] = 0
      BY SumsStep
    <3> QED BY <3>1, <3>2
  <2>2. ASSUME NEW k \in S, k < n PROVE k + 1 \in S
    <3>1. /\ k \in Nat /\ k + 1 \in 1..n /\ k + 1 \in 0..n /\ k + 1 # 0
          /\ (k + 1) - 1 = k /\ k <= n
      BY <1>1, <2>2
    <3>2. offset[k] = Fifo!Sums(q)[k]
      BY <3>1, <2>2
    <3>3. offset[k + 1] = offset[k] + HeaderSize + SizeAt(bytes, offset[k])
      BY <1>3, <3>1
    <3>4. /\ Fifo!Sums(q)[k + 1] = Fifo!Sums(q)[k] + HeaderSize + Len(q[k + 1])
          /\ SizeAt(bytes, Fifo!Sums(q)[k]) = Len(q[k + 1])
      BY <1>2, <3>1
    <3>5. k + 1 \in Nat
      BY <3>1
    <3> QED BY <3>2, <3>3, <3>4, <3>5
  <2> HIDE DEF S
  <2>3. \A k \in 0..n : k \in S
    BY <1>1, <2>1, <2>2, Fifo!Induction
  <2> QED BY <1>1, <2>3 DEF S
<1>5. parse_messages(n, bytes).total_bytes = Fifo!Sums(q)[n]
  BY <1>1, <1>4 DEF parse_messages, offset
<1>6. parse_messages(n, bytes).messages =
         [k \in 1..n |-> SubSeq(bytes, offset[k - 1] + HeaderSize + 1, offset[k])]
  BY DEF parse_messages, offset
<1>7. \A k \in 1..n : SubSeq(bytes, offset[k - 1] + HeaderSize + 1, offset[k]) = q[k]
  <2> TAKE k \in 1..n
  <2>1. offset[k - 1] = Fifo!Sums(q)[k - 1] /\ offset[k] = Fifo!Sums(q)[k]
    BY <1>1, <1>4
  <2> QED BY <1>2, <2>1
<1>8. parse_messages(n, bytes).messages = [k \in 1..n |-> q[k]]
  BY <1>6, <1>7
<1>9. Fifo!Prefix(q, n) = [k \in 1..n |-> q[k]]
  BY <1>1 DEF Fifo!Prefix
<1> QED BY <1>5, <1>8, <1>9
-----------------------------------------------------------------------------
(* What the circular buffer does for its callers, as CircularBufferProofs  *)
(* shows it: the cursors stay right, a write appends, a read takes from    *)
(* the front.                                                              *)
RingOK == Ring!TypeOK /\ Ring!TailBehindContents

LEMMA RingAssumptions ==
    /\ RP!CapacityAssumption /\ RP!BlankAssumption /\ RP!BlockAssumption
<1>1. Message \cup { SizeBytes(n) : n \in Sizes } \subseteq Seq(Byte)
  BY MessageTyped, SizeBytesTyped
<1>2. Blank \in Byte
  BY DEF Byte
<1> QED BY <1>1, <1>2, CapacityAssumption
        DEF RP!CapacityAssumption, RP!BlankAssumption, RP!BlockAssumption

(* Both instances of the circular buffer speak of the same one. *)
LEMMA SameRing ==
    /\ RP!Inv <=> RingOK
    /\ RP!Contents = Ring!Contents
BY DEF RP!Inv, RP!TypeOK, RP!TailBehindContents, RP!Index, RP!Cell, RP!Contents,
       RingOK, Ring!TypeOK, Ring!TailBehindContents, Ring!Index, Ring!Cell, Ring!Contents

LEMMA SameRingNext ==
    /\ RP!Inv' <=> RingOK'
    /\ RP!Contents' = Ring!Contents'
BY DEF RP!Inv, RP!TypeOK, RP!TailBehindContents, RP!Index, RP!Cell, RP!Contents,
       RingOK, Ring!TypeOK, Ring!TailBehindContents, Ring!Index, Ring!Cell, Ring!Contents

LEMMA ContentsTyped ==
    ASSUME RingOK
    PROVE  /\ Ring!Contents \in Seq(Byte) /\ Len(Ring!Contents) = size
           /\ size \in 0..max_size_bytes /\ size \in Nat
<1>1. RP!Contents \in Seq(Byte) /\ Len(RP!Contents) = size
  BY SameRing, RingAssumptions, RP!ContentsType
<1>2. size \in 0..max_size_bytes /\ max_size_bytes \in Nat
  BY CapacityAssumption DEF RingOK, Ring!TypeOK
<1> QED BY <1>1, <1>2, SameRing

LEMMA RingWrites ==
    ASSUME RingOK, NEW block \in Message \cup { SizeBytes(n) : n \in Sizes },
           size + Len(block) <= max_size_bytes, Ring!circular_buffer_write(block)
    PROVE  /\ RingOK' /\ Ring!Next
           /\ Ring!Contents' = Ring!Contents \o block
           /\ size' = size + Len(block)
<1>1. Ring!Write(block)
  BY DEF Ring!Write
<1>2. RP!Write(block)
  BY <1>1 DEF RP!Write, RP!circular_buffer_write, RP!CopyIn, RP!Index,
              Ring!Write, Ring!circular_buffer_write, Ring!CopyIn, Ring!Index
<1>3. RP!Inv
  BY SameRing
<1>4. RP!Inv'
  <2>1. RP!Next
    BY <1>2 DEF RP!Next
  <2> QED BY <1>3, <2>1, RingAssumptions, RP!NextInv
<1>5. RP!Fifo!Write(block)
  BY <1>2, <1>3, <1>4, RingAssumptions, RP!WriteRefines
<1>6. Ring!Contents' = Ring!Contents \o block
  BY <1>5, SameRing, SameRingNext DEF RP!Fifo!Write
<1>7. Ring!Next
  BY <1>1 DEF Ring!Next
<1>8. size' = size + Len(block)
  BY DEF Ring!circular_buffer_write
<1> QED BY <1>4, <1>6, <1>7, <1>8, SameRingNext

LEMMA RingReads ==
    ASSUME RingOK, NEW n \in 0..size, NEW pop_message \in BOOLEAN,
           Ring!circular_buffer_read(n, pop_message)
    PROVE  /\ RingOK' /\ Ring!Next
           /\ data' = SubSeq(Ring!Contents, 1, n)
           /\ Ring!Contents' = IF pop_message THEN SubSeq(Ring!Contents, n + 1, size)
                                              ELSE Ring!Contents
           /\ size' = IF pop_message THEN size - n ELSE size
<1>0. n \in 0..max_size_bytes /\ n <= size /\ Len(Ring!Contents) = size
  BY ContentsTyped, CapacityAssumption
<1>1. Ring!Read(n, pop_message)
  BY <1>0 DEF Ring!Read
<1>2. RP!Read(n, pop_message)
  BY <1>1 DEF RP!Read, RP!circular_buffer_read, RP!Segment, RP!CopyOut, RP!NewHead,
              Ring!Read, Ring!circular_buffer_read, Ring!Segment, Ring!CopyOut, Ring!NewHead
<1>3. RP!Inv
  BY SameRing
<1>4. RP!Inv'
  <2>1. RP!Next
    BY <1>0, <1>2 DEF RP!Next
  <2> QED BY <1>3, <2>1, RingAssumptions, RP!NextInv
<1>5. RP!Fifo!Read(n, pop_message)
  BY <1>0, <1>2, <1>3, RingAssumptions, RP!ReadRefines
<1>6. /\ data' = SubSeq(Ring!Contents, 1, n)
      /\ Ring!Contents' = IF pop_message THEN SubSeq(Ring!Contents, n + 1, size)
                                         ELSE Ring!Contents
  BY <1>0, <1>5, SameRing, SameRingNext DEF RP!Fifo!Read
<1>7. Ring!Next
  BY <1>0, <1>1 DEF Ring!Next
<1>8. size' = IF pop_message THEN size - n ELSE size
  BY DEF Ring!circular_buffer_read
<1> QED BY <1>4, <1>6, <1>7, <1>8, SameRingNext
-----------------------------------------------------------------------------
(* What becomes of the frames when bytes are added behind or taken from    *)
(* the front.                                                              *)
LEMMA StartsEmpty ==
    ASSUME NEW bytes \in Seq(Byte)
    PROVE  StartsWith(bytes, <<>>) /\ Fifo!Bytes(<<>>) = 0
<1>1. <<>> \in Seq(Message) /\ Len(<<>>) = 0 /\ 0 \in 0..0
  OBVIOUS
<1>2. Fifo!Bytes(<<>>) = 0
  BY <1>1, SumsStep DEF Fifo!Bytes
<1> QED BY <1>1, <1>2 DEF StartsWith

LEMMA StartsKept ==
    ASSUME NEW q \in Seq(Message), NEW bytes \in Seq(Byte), StartsWith(bytes, q),
           NEW more \in Seq(Byte)
    PROVE  StartsWith(bytes \o more, q)
<1>1. /\ Len(bytes \o more) = Len(bytes) + Len(more) /\ Len(bytes) \in Nat
      /\ Len(more) \in Nat
      /\ \A k \in 1..Len(bytes) : (bytes \o more)[k] = bytes[k]
  BY ConcatProperties
<1>2. Fifo!Bytes(q) <= Len(bytes) /\ Fifo!Bytes(q) \in Nat
  BY SumsStep DEF StartsWith
<1>3. ASSUME NEW n \in 1..Len(q)
      PROVE  FrameAt(bytes \o more, Fifo!Sums(q)[n - 1], q[n])
  <2>1. n \in 0..Len(q) /\ n - 1 \in 0..Len(q)
    BY SumsStep
  <2>2. /\ Fifo!Sums(q)[n - 1] \in Nat /\ Fifo!Sums(q)[n] <= Fifo!Bytes(q)
        /\ Len(q[n]) \in Nat /\ HeaderSize \in Nat
        /\ Fifo!Sums(q)[n] = Fifo!Sums(q)[n - 1] + HeaderSize + Len(q[n])
    BY <2>1, SumsStep, HeaderAssumption
  <2> DEFINE at == Fifo!Sums(q)[n - 1]
             d  == HeaderSize + Len(q[n])
  <2>3. FrameAt(bytes, at, q[n])
    BY DEF StartsWith
  <2>4. at \in Nat /\ d \in Nat /\ at + d <= Len(bytes)
    <3> DEFINE l   == Len(q[n])
               end == Fifo!Sums(q)[n]
               b   == Fifo!Bytes(q)
               N   == Len(bytes)
    <3>1. /\ at \in Nat /\ l \in Nat /\ HeaderSize \in Nat /\ N \in Nat /\ b \in Nat
          /\ end = at + HeaderSize + l /\ end <= b /\ b <= N /\ d = HeaderSize + l
      BY <1>1, <1>2, <2>2
    <3> HIDE DEF at, d, l, end, b, N
    <3>2. d \in Nat /\ at + d <= N
      BY <3>1
    <3> QED BY <3>1, <3>2 DEF N
  <2>5. d = HeaderSize + Len(q[n])
    OBVIOUS
  <2> HIDE DEF at, d
  <2>6. ASSUME NEW k \in 1..d PROVE (bytes \o more)[at + k] = Frame(q[n])[k]
    <3>1. at + k \in 1..Len(bytes)
      BY <1>1, <2>4
    <3>2. bytes[at + k] = Frame(q[n])[k]
      BY <2>3, <2>5 DEF FrameAt
    <3> QED BY <1>1, <3>1, <3>2
  <2>7. FrameAt(bytes \o more, at, q[n])
    BY <2>5, <2>6 DEF FrameAt
  <2> QED BY <2>7 DEF at
<1>4. Fifo!Bytes(q) <= Len(bytes \o more)
  BY <1>1, <1>2
<1> QED BY <1>3, <1>4 DEF StartsWith

(* One message more is another frame behind the others. *)
LEMMA BytesOfAppend ==
    ASSUME NEW q \in Seq(Message), NEW m \in Message
    PROVE  /\ Append(q, m) \in Seq(Message) /\ Len(Append(q, m)) = Len(q) + 1
           /\ Append(q, m)[Len(q) + 1] = m
           /\ \A n \in 1..Len(q) : Append(q, m)[n] = q[n]
           /\ \A n \in 0..Len(q) : Fifo!Sums(Append(q, m))[n] = Fifo!Sums(q)[n]
           /\ Fifo!Bytes(Append(q, m)) = Fifo!Bytes(q) + HeaderSize + Len(m)
<1> DEFINE r == Append(q, m)
<1>1. /\ r \in Seq(Message) /\ Len(r) = Len(q) + 1 /\ Len(q) \in Nat
      /\ r[Len(q) + 1] = m /\ \A n \in 1..Len(q) : r[n] = q[n]
  BY AppendProperties
<1> HIDE DEF r
<1>2. \A n \in 0..Len(q) : Fifo!Sums(r)[n] = Fifo!Sums(q)[n]
  <2>1. \A n \in 1..Len(q) : r[0 + n] = q[n]
    BY <1>1
  <2>2. 0 \in Nat /\ Len(q) <= Len(q) /\ 0 + Len(q) <= Len(r)
    BY <1>1
  <2>3. \A n \in 0..Len(q) : Fifo!Sums(r)[0 + n] = Fifo!Sums(r)[0] + Fifo!Sums(q)[n]
    BY <1>1, <2>1, <2>2, MessagesSized, Fifo!SumsShift
  <2>4. Fifo!Sums(r)[0] = 0 /\ \A n \in 0..Len(q) : Fifo!Sums(q)[n] \in Nat /\ 0 + n = n
    BY <1>1, SumsStep
  <2> QED BY <2>3, <2>4
<1>3. Fifo!Bytes(r) = Fifo!Bytes(q) + HeaderSize + Len(m)
  <2> DEFINE l == Len(q) + 1
  <2>1. l \in 1..Len(r) /\ l - 1 = Len(q) /\ l = Len(r) /\ r[l] = m
    BY <1>1
  <2> HIDE DEF l
  <2>2. Fifo!Sums(r)[l] = Fifo!Sums(r)[l - 1] + HeaderSize + Len(r[l])
    BY <1>1, <2>1, SumsStep
  <2> QED BY <1>1, <1>2, <2>1, <2>2 DEF Fifo!Bytes
<1> QED BY <1>1, <1>2, <1>3 DEF r

LEMMA StartsAppend ==
    ASSUME NEW q \in Seq(Message), NEW m \in Message,
           NEW bytes \in Seq(Byte), StartsWith(bytes, q),
           Fifo!Bytes(q) + HeaderSize + Len(m) <= Len(bytes),
           FrameAt(bytes, Fifo!Bytes(q), m)
    PROVE  StartsWith(bytes, Append(q, m))
<1> DEFINE r == Append(q, m)
<1>1. /\ Len(r) = Len(q) + 1 /\ Len(q) \in Nat
      /\ r[Len(q) + 1] = m /\ \A n \in 1..Len(q) : r[n] = q[n]
      /\ \A n \in 0..Len(q) : Fifo!Sums(r)[n] = Fifo!Sums(q)[n]
      /\ Fifo!Bytes(r) = Fifo!Bytes(q) + HeaderSize + Len(m)
  BY BytesOfAppend
<1> HIDE DEF r
<1>2. ASSUME NEW n \in 1..Len(r)
      PROVE  FrameAt(bytes, Fifo!Sums(r)[n - 1], r[n])
  <2>1. CASE n \in 1..Len(q)
    <3>1. n - 1 \in 0..Len(q)
      BY <1>1, <2>1
    <3> QED BY <1>1, <2>1, <3>1 DEF StartsWith
  <2>2. CASE n = Len(q) + 1
    <3>1. n - 1 = Len(q) /\ Len(q) \in 0..Len(q)
      BY <1>1, <2>2
    <3> QED BY <1>1, <2>2, <3>1 DEF Fifo!Bytes
  <2> QED BY <1>1, <2>1, <2>2
<1> QED BY <1>1, <1>2 DEF StartsWith, r

(* The bytes behind the first frame are the frames of the other messages.  *)
Others(q) == SubSeq(q, 2, Len(q))

LEMMA BytesOfOthers ==
    ASSUME NEW q \in Seq(Message), q # <<>>
    PROVE  /\ Others(q) \in Seq(Message) /\ Len(Others(q)) = Len(q) - 1
           /\ Len(q) \in Nat \ {0} /\ q[1] \in Message
           /\ \A n \in 1..Len(q) - 1 : Others(q)[n] = q[1 + n]
           /\ \A n \in 0..Len(q) - 1 :
                 Fifo!Sums(q)[1 + n] = HeaderSize + Len(q[1]) + Fifo!Sums(Others(q))[n]
           /\ Fifo!Bytes(q) = HeaderSize + Len(q[1]) + Fifo!Bytes(Others(q))
<1> DEFINE r == SubSeq(q, 2, Len(q))
<1>1. Len(q) \in Nat \ {0} /\ q[1] \in Message
  BY EmptySeq
<1>2. /\ r \in Seq(Message) /\ Len(r) = Len(q) - 1
      /\ \A n \in 1..Len(q) - 1 : r[n] = q[1 + n]
  <2>1. \A n \in 2..Len(q) : q[n] \in Message
    BY <1>1
  <2>2. /\ r \in Seq(Message) /\ Len(r) = IF 2 <= Len(q) THEN Len(q) - 2 + 1 ELSE 0
        /\ \A n \in 1..Len(q) - 2 + 1 : r[n] = q[2 + n - 1]
    BY <1>1, <2>1, SubSeqProperties
  <2> DEFINE l == Len(q)
  <2>5. l \in Nat \ {0} => l - 2 + 1 = l - 1 /\ (~(2 <= l) => l - 1 = 0)
    <3> HIDE DEF l
    <3> QED OBVIOUS
  <2>3. Len(q) - 2 + 1 = Len(q) - 1 /\ (~(2 <= Len(q)) => Len(q) - 1 = 0)
    BY <1>1, <2>5
  <2>4. \A n \in 1..Len(q) - 1 : 2 + n - 1 = 1 + n
    OBVIOUS
  <2> HIDE DEF r
  <2> QED BY <2>2, <2>3, <2>4
<1> HIDE DEF r
<1>3. Fifo!Sums(q)[1] = HeaderSize + Len(q[1])
  <2>1. 1 \in 1..Len(q) /\ 1 - 1 = 0
    BY <1>1
  <2>2. Fifo!Sums(q)[1] = Fifo!Sums(q)[1 - 1] + HeaderSize + Len(q[1])
    BY <2>1, SumsStep
  <2>3. Fifo!Sums(q)[0] = 0 /\ HeaderSize \in Nat /\ Len(q[1]) \in Nat
    BY <1>1, SumsStep, MessageTyped, HeaderAssumption
  <2> QED BY <2>1, <2>2, <2>3
<1>4. \A n \in 0..Len(q) - 1 :
         Fifo!Sums(q)[1 + n] = HeaderSize + Len(q[1]) + Fifo!Sums(r)[n]
  <2>1. /\ 1 \in Nat /\ Len(q) - 1 \in Nat /\ Len(q) - 1 <= Len(r)
        /\ 1 + (Len(q) - 1) <= Len(q)
    BY <1>1, <1>2
  <2>2. \A n \in 0..Len(q) - 1 : Fifo!Sums(q)[1 + n] = Fifo!Sums(q)[1] + Fifo!Sums(r)[n]
    BY <1>2, <2>1, MessagesSized, Fifo!SumsShift
  <2> QED BY <1>3, <2>2
<1>5. Fifo!Bytes(q) = HeaderSize + Len(q[1]) + Fifo!Bytes(r)
  <2>1. Len(q) - 1 \in 0..Len(q) - 1 /\ 1 + (Len(q) - 1) = Len(q)
    BY <1>1
  <2> QED BY <1>2, <1>4, <2>1 DEF Fifo!Bytes
<1> QED BY <1>1, <1>2, <1>4, <1>5 DEF r, Others

LEMMA StartsOthers ==
    ASSUME NEW q \in Seq(Message), q # <<>>,
           NEW bytes \in Seq(Byte), StartsWith(bytes, q)
    PROVE  /\ HeaderSize + Len(q[1]) <= Len(bytes)
           /\ FrameAt(bytes, 0, q[1])
           /\ SubSeq(bytes, HeaderSize + Len(q[1]) + 1, Len(bytes)) \in Seq(Byte)
           /\ Len(SubSeq(bytes, HeaderSize + Len(q[1]) + 1, Len(bytes)))
                 = Len(bytes) - (HeaderSize + Len(q[1]))
           /\ StartsWith(SubSeq(bytes, HeaderSize + Len(q[1]) + 1, Len(bytes)), Others(q))
<1> DEFINE r == Others(q)
           d == HeaderSize + Len(q[1])
           rest == SubSeq(bytes, d + 1, Len(bytes))
<1>1. /\ r \in Seq(Message) /\ Len(r) = Len(q) - 1 /\ Len(q) \in Nat \ {0}
      /\ q[1] \in Message /\ \A n \in 1..Len(q) - 1 : r[n] = q[1 + n]
      /\ \A n \in 0..Len(q) - 1 : Fifo!Sums(q)[1 + n] = d + Fifo!Sums(r)[n]
      /\ Fifo!Bytes(q) = d + Fifo!Bytes(r)
  BY BytesOfOthers
<1>2. d \in Nat /\ Len(bytes) \in Nat /\ Fifo!Bytes(q) <= Len(bytes)
  BY <1>1, MessageTyped, HeaderAssumption DEF StartsWith
<1> HIDE DEF r
<1>3. Fifo!Bytes(r) \in Nat
  BY <1>1, SumsStep
<1>4. FrameAt(bytes, 0, q[1])
  <2>1. 1 \in 1..Len(q) /\ 1 - 1 = 0 /\ Fifo!Sums(q)[0] = 0
    BY <1>1, SumsStep
  <2>2. FrameAt(bytes, Fifo!Sums(q)[1 - 1], q[1])
    BY <2>1 DEF StartsWith
  <2> QED BY <2>1, <2>2
<1> HIDE DEF d
<1>5. /\ rest \in Seq(Byte) /\ Len(rest) = Len(bytes) - d
      /\ \A k \in 1..Len(bytes) - d : rest[k] = bytes[d + k]
  <2>1. \A k \in d + 1..Len(bytes) : bytes[k] \in Byte
    BY <1>2
  <2>2. /\ rest \in Seq(Byte)
        /\ Len(rest) = IF d + 1 <= Len(bytes) THEN Len(bytes) - (d + 1) + 1 ELSE 0
        /\ \A k \in 1..Len(bytes) - (d + 1) + 1 : rest[k] = bytes[d + 1 + k - 1]
    <3>1. d + 1 \in Int /\ Len(bytes) \in Int
      BY <1>2
    <3> QED BY <2>1, <3>1, SubSeqProperties
  <2>3. /\ Len(bytes) - (d + 1) + 1 = Len(bytes) - d
        /\ (~(d + 1 <= Len(bytes)) => Len(bytes) - d = 0)
        /\ \A k \in 1..Len(bytes) - d : d + 1 + k - 1 = d + k
    BY <1>1, <1>2, <1>3
  <2> HIDE DEF rest
  <2> QED BY <2>2, <2>3
<1> HIDE DEF rest
<1>6. ASSUME NEW n \in 1..Len(r)
      PROVE  FrameAt(rest, Fifo!Sums(r)[n - 1], r[n])
  <2>1. /\ n \in 1..Len(q) - 1 /\ 1 + n \in 1..Len(q) /\ n - 1 \in 0..Len(q) - 1
        /\ (1 + n) - 1 = 1 + (n - 1) /\ n \in 0..Len(r) /\ n - 1 \in 0..Len(r)
    BY <1>1
  <2>2. FrameAt(bytes, Fifo!Sums(q)[(1 + n) - 1], q[1 + n])
    BY <2>1 DEF StartsWith
  <2>3. Fifo!Sums(q)[(1 + n) - 1] = d + Fifo!Sums(r)[n - 1]
    BY <1>1, <2>1
  <2>4. r[n] = q[1 + n]
    BY <1>1, <2>1
  <2>5. /\ Fifo!Sums(r)[n - 1] \in Nat /\ Fifo!Sums(r)[n] <= Fifo!Bytes(r)
        /\ Len(r[n]) \in Nat /\ HeaderSize \in Nat
        /\ Fifo!Sums(r)[n] = Fifo!Sums(r)[n - 1] + HeaderSize + Len(r[n])
    BY <1>1, <2>1, SumsStep, HeaderAssumption
  <2>6. ASSUME NEW k \in 1..HeaderSize + Len(r[n])
        PROVE  rest[Fifo!Sums(r)[n - 1] + k] = Frame(r[n])[k]
    <3> DEFINE s == Fifo!Sums(r)[n - 1]
               e == HeaderSize + Len(r[n])
               j == s + k
    <3>1. d + Fifo!Bytes(r) <= Len(bytes)
      BY <1>1, <1>2
    <3>2. s \in Nat /\ e \in Nat /\ k \in 1..e /\ s + e <= Fifo!Bytes(r)
      BY <2>5
    <3>3. s \in Nat /\ e \in Nat /\ k \in 1..e /\ d + s + e <= Len(bytes)
      <4> HIDE DEF s, e
      <4> QED BY <1>2, <1>3, <3>1, <3>2
    <3>4. j \in 1..Len(bytes) - d /\ d + s + k = d + j
      <4> HIDE DEF s, e
      <4> QED BY <1>2, <3>3
    <3>5. bytes[d + Fifo!Sums(r)[n - 1] + k] = Frame(r[n])[k]
      BY <2>2, <2>3, <2>4 DEF FrameAt
    <3> HIDE DEF j
    <3>6. rest[j] = Frame(r[n])[k]
      BY <1>5, <3>4, <3>5
    <3> QED BY <3>6 DEF j
  <2> QED BY <2>6 DEF FrameAt
<1>7. Fifo!Bytes(r) <= Len(rest) /\ d <= Len(bytes)
  BY <1>1, <1>2, <1>3, <1>5
<1>8. StartsWith(rest, r)
  BY <1>6, <1>7 DEF StartsWith
<1> QED BY <1>4, <1>5, <1>7, <1>8 DEF r, d, rest
-----------------------------------------------------------------------------
(* The inductive invariant.  The messages the call under way has taken and *)
(* those the buffer holds, as parse_messages reads them.                   *)
Taken == parse_messages(Popped, msg_buffer).messages
Left  == parse_messages(FramesQueued, Ring!Contents).messages

InPut == pc \in {"put", "write_message", "count"}
InGet == pc \in {"get", "pop", "uncount", "drained", "too_small"}

Types == /\ num_elem \in Nat /\ i \in Nat /\ messages_read \in Nat
         /\ msgs \in Seq(Message) /\ i <= Len(msgs)
         /\ msg_size \in Sizes \cup {0} /\ msg_buffer \in Seq(Byte)
         /\ InPut \/ InGet \/ pc \in {"unlocked", "put_locked", "get_locked"}

(* Both are whole messages, that lie in memory one behind the other and    *)
(* take what the counters say and no more than there is.                   *)
Framed == /\ Taken \in Seq(Message) /\ Len(Taken) = Popped
          /\ StartsWith(msg_buffer, Taken) /\ Len(msg_buffer) = Fifo!Bytes(Taken)
          /\ bytes_read = Len(msg_buffer)
          /\ Left \in Seq(Message) /\ Len(Left) = FramesQueued
          /\ StartsWith(Ring!Contents, Left)
          /\ size = Fifo!Bytes(Left) + Uncounted
          /\ Popped + FramesQueued <= maxsize
          /\ Fifo!Bytes(Taken) + Fifo!Bytes(Left) <= max_size_bytes

(* A put has added the first i messages of its batch, there is room for    *)
(* the others, and the frame that is not counted yet is that of the next.  *)
BatchAdded ==
    InPut => /\ i <= Len(Left)
             /\ \A k \in 1..i : Left[Len(Left) - i + k] = msgs[k]
             /\ Len(Left) - i + Len(msgs) <= maxsize
             /\ Fifo!Bytes(Left) - Fifo!Sums(msgs)[i] + Fifo!Bytes(msgs) <= max_size_bytes
             /\ pc # "put" => i < Len(msgs)
             /\ pc = "write_message" =>
                   \A k \in 1..HeaderSize : Ring!Contents[Fifo!Bytes(Left) + k]
                                             = SizeBytes(Len(msgs[i + 1]))[k]
             /\ pc = "count" => FrameAt(Ring!Contents, Fifo!Bytes(Left), msgs[i + 1])

(* A get was right to take each of the messages it has taken, and knows    *)
(* the size of the next one when it has looked.                            *)
MessagesTaken ==
    InGet => /\ \A k \in 0..Popped - 1 : Fifo!TakesMore(request, Taken \o Left, k)
             /\ pc \in {"get", "pop", "too_small"} => Left # <<>>
             /\ pc \in {"pop", "too_small"} =>
                   /\ msg_size = Len(Left[1]) /\ ReadMore
                   /\ messages_size = bytes_read + HeaderSize + msg_size
                   /\ TooSmall(messages_size) <=> pc = "too_small"
             /\ pc \in {"get", "uncount", "drained"} => messages_size = bytes_read
             /\ pc = "drained" => Left = <<>> /\ messages_read > 0

(* The local variables of the calls that are not under way, and what the   *)
(* one that is was asked for.                                              *)
CallKnown ==
    /\ InPut \/ pc = "put_locked" => msgs \in Batch /\ result = Fifo!Putting(msgs)
    /\ ~(InPut \/ pc = "put_locked") => msgs = <<>>
    /\ ~InPut => i = 0
    /\ InGet \/ pc = "get_locked" => request \in Request /\ result = Fifo!Getting(request)
    /\ ~(InGet \/ pc = "get_locked") => request = NoRequest
    /\ ~InGet => /\ messages_read = 0 /\ messages_size = 0 /\ msg_size = 0
                 /\ msg_buffer = <<>>

IInv == /\ Types /\ RingOK /\ NoOverrun
        /\ Framed /\ BatchAdded /\ MessagesTaken /\ CallKnown
-----------------------------------------------------------------------------
(* What ContentsTyped says of the bytes queued, of those after a step.     *)
ContentsAreBytes == Ring!Contents \in Seq(Byte) /\ Len(Ring!Contents) = size

LEMMA ContentsTypedNext ==
    RingOK' => Ring!Contents' \in Seq(Byte) /\ Len(Ring!Contents') = size'
<1>1. RingOK => ContentsAreBytes
  BY ContentsTyped DEF ContentsAreBytes
<1>2. RingOK' => ContentsAreBytes'
  BY <1>1, PTL
<1> QED BY <1>2 DEF ContentsAreBytes

(* Messages that lie in memory are those that are read. *)
LEMMA Reparsed ==
    ASSUME NEW q \in Seq(Message), NEW bytes \in Seq(Byte), StartsWith(bytes, q)
    PROVE  parse_messages(Len(q), bytes).messages = q
<1>1. Len(q) \in Nat /\ Len(q) \in 0..Len(q)
  OBVIOUS
<1>2. Fifo!Prefix(q, Len(q)) = q
  BY <1>1 DEF Fifo!Prefix
<1> QED BY <1>1, <1>2, Parsed

LEMMA ReparsedNext ==
    ASSUME RingOK', msg_buffer' \in Seq(Byte),
           NEW taken \in Seq(Message), Len(taken) = Popped', StartsWith(msg_buffer', taken),
           NEW left \in Seq(Message), Len(left) = FramesQueued',
           StartsWith(Ring!Contents', left)
    PROVE  Taken' = taken /\ Left' = left
<1>1. Taken' = parse_messages(Popped', msg_buffer').messages
  BY DEF Taken
<1>2. Left' = parse_messages(FramesQueued', Ring!Contents').messages
  BY DEF Left
<1> QED BY <1>1, <1>2, Reparsed, ContentsTypedNext

(* A step that moves no frame leaves them all where they are. *)
LEMMA StillFramed ==
    ASSUME Framed, Ring!Contents' = Ring!Contents, size' = size,
           Popped' = Popped, FramesQueued' = FramesQueued, msg_buffer' = msg_buffer,
           bytes_read' = bytes_read, Uncounted' = Uncounted
    PROVE  Taken' = Taken /\ Left' = Left /\ Framed'
<1>1. Taken' = Taken
  BY DEF Taken
<1>2. Left' = Left
  BY DEF Left
<1> HIDE DEF Taken, Left
<1> QED BY <1>1, <1>2 DEF Framed

(* A step that leaves the circular buffer alone. *)
LEMMA SameBuffer ==
    ASSUME RingOK, UNCHANGED ring
    PROVE  RingOK' /\ Ring!Contents' = Ring!Contents
BY DEF ring, RingOK, Ring!TypeOK, Ring!TailBehindContents, Ring!Index, Ring!Cell, Ring!Contents

LEMMA InitInv ==
    ASSUME Init
    PROVE  IInv
<1>1. RingOK /\ Ring!Contents = <<>>
  <2>1. RP!Init
    BY DEF Init, Ring!Init, RP!Init, Ring!Index, RP!Index
  <2>2. RingOK
    BY <2>1, SameRing, RingAssumptions, RP!InitInv
  <2>3. size = 0
    BY DEF Init, Ring!Init
  <2>4. Ring!Contents \in Seq(Byte) /\ Len(Ring!Contents) = 0
    BY <2>2, <2>3, ContentsTyped
  <2> QED BY <2>2, <2>4, EmptySeq
<1>2. <<>> \in Seq(Message) /\ <<>> \in Seq(Byte) /\ Len(<<>>) = 0
  BY EmptySeq
<1>3. Popped = 0 /\ FramesQueued = 0 /\ Uncounted = 0 /\ size = 0 /\ msg_buffer = <<>>
  BY DEF Init, Popped, FramesQueued, Uncounted, Ring!Init
<1>4. StartsWith(<<>>, <<>>) /\ Fifo!Bytes(<<>>) = 0
  BY <1>2, StartsEmpty
<1>5. Taken = <<>> /\ Left = <<>>
  BY <1>1, <1>2, <1>3, <1>4, Reparsed DEF Taken, Left
<1>6. Framed
  <2> HIDE DEF Taken, Left
  <2> QED BY <1>1, <1>2, <1>3, <1>4, <1>5, CapacityAssumption DEF Framed, Init
<1>7. Types
  BY <1>2 DEF Init, Types, InPut, InGet
<1>8. BatchAdded /\ MessagesTaken /\ CallKnown
  BY DEF Init, BatchAdded, MessagesTaken, CallKnown, InPut, InGet
<1>9. NoOverrun
  BY <1>2 DEF Init, NoOverrun, NoRequest
<1> QED BY <1>1, <1>6, <1>7, <1>8, <1>9 DEF IInv
-----------------------------------------------------------------------------
(* What Framed says of the numbers. *)
LEMMA Counted ==
    ASSUME IInv
    PROVE  /\ Left \in Seq(Message) /\ Taken \in Seq(Message)
           /\ Len(Left) = FramesQueued /\ Len(Left) \in Nat
           /\ Len(Taken) = Popped /\ Len(Taken) \in Nat
           /\ Fifo!Bytes(Left) \in Nat /\ Fifo!Bytes(Taken) \in Nat
           /\ bytes_read = Fifo!Bytes(Taken)
           /\ size = Fifo!Bytes(Left) + Uncounted
           /\ Uncounted = 0 => size = Fifo!Bytes(Left)
           /\ Uncounted = 0 /\ Left # <<>> => size > 0
           /\ size > 0 /\ Uncounted = 0 => Left # <<>>
<1>1. /\ Left \in Seq(Message) /\ Taken \in Seq(Message)
      /\ Len(Left) = FramesQueued /\ Len(Taken) = Popped
      /\ bytes_read = Fifo!Bytes(Taken) /\ size = Fifo!Bytes(Left) + Uncounted
  BY DEF IInv, Framed
<1> HIDE DEF Left, Taken
<1>2. /\ Len(Left) \in Nat /\ Len(Taken) \in Nat
      /\ Fifo!Bytes(Left) \in Nat /\ Fifo!Bytes(Taken) \in Nat
  BY <1>1, SumsStep
<1>3. Uncounted = 0 => size = Fifo!Bytes(Left)
  BY <1>1, <1>2
<1>4. Left # <<>> => Fifo!Bytes(Left) > 0
  <2>1. Left # <<>> => /\ Fifo!Bytes(Left) = HeaderSize + Len(Left[1]) + Fifo!Bytes(Others(Left))
                       /\ Len(Left[1]) \in Nat /\ Fifo!Bytes(Others(Left)) \in Nat
    BY <1>1, BytesOfOthers, MessageTyped, SumsStep
  <2> QED BY <2>1, HeaderAssumption
<1>5. Fifo!Bytes(<<>>) = 0
  BY EmptySeq, StartsEmpty
<1> QED BY <1>1, <1>2, <1>3, <1>4, <1>5

(* One lemma per step.  First the steps that move no frame: a call begins, *)
(* or finds out that it cannot go on, or returns after a put.              *)
LEMMA LockPutInv ==
    ASSUME IInv, NEW batch \in Batch, LockPut(batch)
    PROVE  IInv' /\ UNCHANGED <<Taken, Left>>
<1> USE DEF LockPut, StartPut, get, InPut, InGet
<1>1. RingOK' /\ Ring!Contents' = Ring!Contents
  BY SameBuffer DEF IInv
<1>2. /\ size' = size /\ Popped' = Popped /\ FramesQueued' = FramesQueued
      /\ msg_buffer' = msg_buffer /\ bytes_read' = bytes_read /\ Uncounted' = Uncounted
  BY DEF Popped, FramesQueued, Uncounted, ring
<1>3. Taken' = Taken /\ Left' = Left /\ Framed'
  BY <1>1, <1>2, StillFramed DEF IInv
<1>4. Types'
  BY BatchAssumption DEF IInv, Types, CallKnown
<1>5. NoOverrun'
  BY DEF IInv, NoOverrun
<1>6. BatchAdded' /\ MessagesTaken'
  BY DEF BatchAdded, MessagesTaken
<1>7. CallKnown'
  BY DEF IInv, CallKnown
<1> QED BY <1>1, <1>3, <1>4, <1>5, <1>6, <1>7 DEF IInv

LEMMA BeginPutInv ==
    ASSUME IInv, BeginPut
    PROVE  IInv' /\ UNCHANGED <<Taken, Left>>
<1> USE DEF BeginPut, put, get, InPut, InGet
<1>1. RingOK' /\ Ring!Contents' = Ring!Contents
  BY SameBuffer DEF IInv
<1>2. /\ size' = size /\ Popped' = Popped /\ FramesQueued' = FramesQueued
      /\ msg_buffer' = msg_buffer /\ bytes_read' = bytes_read /\ Uncounted' = Uncounted
  BY DEF Popped, FramesQueued, Uncounted, ring
<1>3. Taken' = Taken /\ Left' = Left /\ Framed'
  BY <1>1, <1>2, StillFramed DEF IInv
<1>4. Types' /\ NoOverrun'
  BY DEF IInv, Types, NoOverrun
<1>5. BatchAdded'
  <2>1. i' = 0 /\ msgs' = msgs /\ Fifo!Sums(msgs)[0] = 0 /\ Fifo!Bytes(msgs) \in Nat
    BY SumsStep DEF IInv, CallKnown, Types
  <2>2. /\ Left \in Seq(Message) /\ Len(Left) = num_elem /\ size = Fifo!Bytes(Left)
        /\ Fifo!Bytes(Left) \in Nat /\ Len(Left) \in Nat
    <3>1. Uncounted = 0 /\ FramesQueued = num_elem
      BY DEF IInv, Types, Uncounted, FramesQueued
    <3> QED BY <3>1, Counted
  <2>3. /\ size + Fifo!Bytes(msgs) <= max_size_bytes
        /\ num_elem + Len(msgs) <= maxsize
    BY DEF can_fit, total_size
  <2> HIDE DEF Left
  <2> QED BY <1>3, <2>1, <2>2, <2>3 DEF BatchAdded
<1>6. MessagesTaken' /\ CallKnown'
  BY DEF IInv, MessagesTaken, CallKnown
<1> QED BY <1>1, <1>3, <1>4, <1>5, <1>6 DEF IInv

LEMMA PutFullInv ==
    ASSUME IInv, PutFull
    PROVE  IInv' /\ UNCHANGED <<Taken, Left>>
<1> USE DEF PutFull, get, InPut, InGet
<1>1. RingOK' /\ Ring!Contents' = Ring!Contents
  BY SameBuffer DEF IInv
<1>2. /\ size' = size /\ Popped' = Popped /\ FramesQueued' = FramesQueued
      /\ msg_buffer' = msg_buffer /\ bytes_read' = bytes_read /\ Uncounted' = Uncounted
  BY DEF Popped, FramesQueued, Uncounted, ring
<1>3. Taken' = Taken /\ Left' = Left /\ Framed'
  BY <1>1, <1>2, StillFramed DEF IInv
<1>4. Types'
  BY EmptySeq DEF IInv, Types, CallKnown
<1>5. NoOverrun'
  BY DEF IInv, NoOverrun
<1>6. BatchAdded' /\ MessagesTaken' /\ CallKnown'
  BY DEF IInv, BatchAdded, MessagesTaken, CallKnown
<1> QED BY <1>1, <1>3, <1>4, <1>5, <1>6 DEF IInv

LEMMA EndPutInv ==
    ASSUME IInv, EndPut
    PROVE  IInv' /\ UNCHANGED <<Taken, Left>>
<1> USE DEF EndPut, get, InPut, InGet
<1>1. RingOK' /\ Ring!Contents' = Ring!Contents
  BY SameBuffer DEF IInv
<1>2. /\ size' = size /\ Popped' = Popped /\ FramesQueued' = FramesQueued
      /\ msg_buffer' = msg_buffer /\ bytes_read' = bytes_read /\ Uncounted' = Uncounted
  BY DEF Popped, FramesQueued, Uncounted, ring
<1>3. Taken' = Taken /\ Left' = Left /\ Framed'
  BY <1>1, <1>2, StillFramed DEF IInv
<1>4. Types'
  BY EmptySeq DEF IInv, Types
<1>5. NoOverrun'
  BY DEF IInv, NoOverrun
<1>6. BatchAdded' /\ MessagesTaken' /\ CallKnown'
  BY DEF IInv, BatchAdded, MessagesTaken, CallKnown
<1> QED BY <1>1, <1>3, <1>4, <1>5, <1>6 DEF IInv

LEMMA LockGetInv ==
    ASSUME IInv, NEW limits \in Request, LockGet(limits)
    PROVE  IInv' /\ UNCHANGED <<Taken, Left>>
<1> USE DEF LockGet, StartGet, put, InPut, InGet
<1>1. RingOK' /\ Ring!Contents' = Ring!Contents
  BY SameBuffer DEF IInv
<1>2. /\ size' = size /\ Popped' = Popped /\ FramesQueued' = FramesQueued
      /\ msg_buffer' = msg_buffer /\ bytes_read' = bytes_read /\ Uncounted' = Uncounted
  BY DEF Popped, FramesQueued, Uncounted, ring
<1>3. Taken' = Taken /\ Left' = Left /\ Framed'
  BY <1>1, <1>2, StillFramed DEF IInv
<1>4. Types'
  BY DEF IInv, Types
<1>5. NoOverrun'
  <2>1. bytes_read = 0
    BY EmptySeq DEF IInv, Framed, CallKnown
  <2>2. limits.msg_buffer_size \in Nat
    BY RequestAssumption
  <2> QED BY <2>1, <2>2 DEF IInv, NoOverrun
<1>6. BatchAdded' /\ MessagesTaken' /\ CallKnown'
  BY DEF IInv, BatchAdded, MessagesTaken, CallKnown
<1> QED BY <1>1, <1>3, <1>4, <1>5, <1>6 DEF IInv

LEMMA BeginGetInv ==
    ASSUME IInv, BeginGet
    PROVE  IInv' /\ UNCHANGED <<Taken, Left>>
<1> USE DEF BeginGet, put, get, InPut, InGet
<1>1. RingOK' /\ Ring!Contents' = Ring!Contents
  BY SameBuffer DEF IInv
<1>2. /\ size' = size /\ Popped' = Popped /\ FramesQueued' = FramesQueued
      /\ msg_buffer' = msg_buffer /\ bytes_read' = bytes_read /\ Uncounted' = Uncounted
  BY DEF Popped, FramesQueued, Uncounted, ring
<1>3. Taken' = Taken /\ Left' = Left /\ Framed'
  BY <1>1, <1>2, StillFramed DEF IInv
<1>4. Types' /\ NoOverrun'
  BY DEF IInv, Types, NoOverrun
<1>5. MessagesTaken'
  <2>1. Popped' = 0 /\ messages_size' = 0 /\ bytes_read' = 0
    BY EmptySeq DEF IInv, CallKnown, Framed, Popped
  <2>2. Left # <<>>
    <3>1. Uncounted = 0 /\ size > 0
      BY DEF Uncounted
    <3> QED BY <3>1, Counted
  <2> HIDE DEF Left, Taken
  <2> QED BY <1>3, <2>1, <2>2 DEF MessagesTaken
<1>6. BatchAdded' /\ CallKnown'
  BY DEF IInv, BatchAdded, CallKnown
<1> QED BY <1>1, <1>3, <1>4, <1>5, <1>6 DEF IInv

LEMMA GetEmptyInv ==
    ASSUME IInv, GetEmpty
    PROVE  IInv' /\ UNCHANGED <<Taken, Left>>
<1> USE DEF GetEmpty, put, InPut, InGet
<1>1. RingOK' /\ Ring!Contents' = Ring!Contents
  BY SameBuffer DEF IInv
<1>2. /\ size' = size /\ Popped' = Popped /\ FramesQueued' = FramesQueued
      /\ msg_buffer' = msg_buffer /\ bytes_read' = bytes_read /\ Uncounted' = Uncounted
  BY DEF Popped, FramesQueued, Uncounted, ring
<1>3. Taken' = Taken /\ Left' = Left /\ Framed'
  BY <1>1, <1>2, StillFramed DEF IInv
<1>4. Types'
  BY DEF IInv, Types
<1>5. NoOverrun'
  BY EmptySeq DEF IInv, NoOverrun, NoRequest, CallKnown
<1>6. BatchAdded' /\ MessagesTaken' /\ CallKnown'
  BY DEF IInv, BatchAdded, MessagesTaken, CallKnown
<1> QED BY <1>1, <1>3, <1>4, <1>5, <1>6 DEF IInv
-----------------------------------------------------------------------------
(* The steps of a put that add a frame.  There is room for each message of *)
(* the batch that is not added yet.                                        *)
LEMMA RoomForNext ==
    ASSUME IInv, InPut, i < Len(msgs)
    PROVE  /\ i \in Nat /\ i + 1 \in 1..Len(msgs) /\ msgs[i + 1] \in Message
           /\ Len(msgs[i + 1]) \in Nat /\ Len(msgs[i + 1]) \in Sizes
           /\ Fifo!Bytes(Left) + HeaderSize + Len(msgs[i + 1]) <= max_size_bytes
           /\ Len(Left) + 1 <= maxsize
           /\ Fifo!Sums(msgs)[i] \in Nat /\ Fifo!Bytes(msgs) \in Nat
           /\ Fifo!Sums(msgs)[i + 1] = Fifo!Sums(msgs)[i] + HeaderSize + Len(msgs[i + 1])
<1>1. /\ msgs \in Seq(Message) /\ i \in Nat /\ Len(msgs) \in Nat
      /\ i + 1 \in 1..Len(msgs) /\ (i + 1) - 1 = i
      /\ i \in 0..Len(msgs) /\ i + 1 \in 0..Len(msgs)
  BY DEF IInv, Types
<1> DEFINE next == i + 1
<1>2. /\ msgs[next] \in Message /\ Len(msgs[next]) \in Nat
      /\ Fifo!Sums(msgs)[next] = Fifo!Sums(msgs)[next - 1] + HeaderSize + Len(msgs[next])
      /\ Fifo!Sums(msgs)[next] <= Fifo!Bytes(msgs)
      /\ Fifo!Sums(msgs)[i] \in Nat /\ Fifo!Bytes(msgs) \in Nat
  BY <1>1, SumsStep
<1>3. Len(msgs[next]) \in Sizes
  BY <1>2, MessageTyped
<1>4. /\ Len(Left) - i + Len(msgs) <= maxsize
      /\ Fifo!Bytes(Left) - Fifo!Sums(msgs)[i] + Fifo!Bytes(msgs) <= max_size_bytes
      /\ Len(Left) \in Nat /\ Fifo!Bytes(Left) \in Nat
  BY Counted DEF IInv, BatchAdded
<1> HIDE DEF Left
<1>5. Len(Left) + 1 <= maxsize
  BY <1>1, <1>4, CapacityAssumption
<1>6. Fifo!Sums(msgs)[next] = Fifo!Sums(msgs)[i] + HeaderSize + Len(msgs[next])
  BY <1>1, <1>2
<1>7. Fifo!Bytes(Left) + HeaderSize + Len(msgs[next]) <= max_size_bytes
  <2> DEFINE s == Fifo!Sums(msgs)[i]
             b == Fifo!Bytes(Left)
             t == Fifo!Bytes(msgs)
             l == Len(msgs[next])
  <2>1. /\ s \in Nat /\ b \in Nat /\ t \in Nat /\ l \in Nat
        /\ s + HeaderSize + l <= t /\ b - s + t <= max_size_bytes
    BY <1>2, <1>4, <1>6
  <2> HIDE DEF s, b, t, l
  <2>2. b + HeaderSize + l <= max_size_bytes
    BY <2>1, CapacityAssumption, HeaderAssumption
  <2> QED BY <2>2 DEF b, l
<1> QED BY <1>1, <1>2, <1>3, <1>5, <1>6, <1>7

LEMMA WriteSizeInv ==
    ASSUME IInv, WriteSize
    PROVE  IInv' /\ UNCHANGED <<Taken, Left>> /\ Ring!Next
<1> USE DEF WriteSize, put, get, InPut, InGet
<1> DEFINE m == msgs[i + 1]
           block == SizeBytes(Len(m))
<1>1. /\ i \in Nat /\ m \in Message /\ Len(m) \in Nat /\ Len(m) \in Sizes
      /\ Fifo!Bytes(Left) + HeaderSize + Len(m) <= max_size_bytes
  BY RoomForNext
<1>2. /\ block \in Seq(Byte) /\ Len(block) = HeaderSize
      /\ block \in Message \cup { SizeBytes(n) : n \in Sizes }
  BY <1>1, SizeBytesTyped
<1>3. /\ Left \in Seq(Message) /\ Fifo!Bytes(Left) \in Nat /\ size = Fifo!Bytes(Left)
      /\ Taken \in Seq(Message) /\ Len(Taken) = Popped /\ Len(Left) = FramesQueued
  BY Counted DEF Uncounted
<1>4. Ring!Contents \in Seq(Byte) /\ Len(Ring!Contents) = size
  BY ContentsTyped DEF IInv
<1> HIDE DEF Left, Taken
<1>5. size + Len(block) <= max_size_bytes /\ Ring!circular_buffer_write(block)
  BY <1>1, <1>2, <1>3, CapacityAssumption, HeaderAssumption DEF MsgSize
<1> HIDE DEF block
<1>6. /\ RingOK' /\ Ring!Next
      /\ Ring!Contents' = Ring!Contents \o block /\ size' = size + HeaderSize
  BY <1>2, <1>5, RingWrites DEF IInv
<1>7. /\ Popped' = Popped /\ FramesQueued' = FramesQueued
      /\ msg_buffer' = msg_buffer /\ bytes_read' = bytes_read
      /\ Uncounted' = HeaderSize
  BY DEF Popped, FramesQueued, Uncounted
<1>8. StartsWith(Ring!Contents', Left)
  BY <1>2, <1>3, <1>4, <1>6, StartsKept DEF IInv, Framed
<1>9. Taken' = Taken /\ Left' = Left
  BY <1>3, <1>6, <1>7, <1>8, ReparsedNext DEF IInv, Types, Framed
<1>10. Framed'
  BY <1>3, <1>6, <1>7, <1>8, <1>9 DEF IInv, Framed
<1>11. Types' /\ NoOverrun'
  BY DEF IInv, Types, NoOverrun
<1>12. BatchAdded'
  <2>1. \A k \in 1..HeaderSize : Ring!Contents'[Fifo!Bytes(Left) + k] = block[k]
    <3> TAKE k \in 1..HeaderSize
    <3> DEFINE j == Fifo!Bytes(Left) + k
    <3>1. /\ j \in 1..Len(Ring!Contents) + Len(block) /\ ~(j <= Len(Ring!Contents))
          /\ j - Len(Ring!Contents) = k
      BY <1>2, <1>3, <1>4, HeaderAssumption
    <3> HIDE DEF j
    <3>2. (Ring!Contents \o block)[j] = block[k]
      BY <1>2, <1>4, <3>1, ConcatProperties
    <3> QED BY <1>6, <3>2 DEF j
  <2>2. pc' = "write_message" /\ i' = i /\ msgs' = msgs /\ i < Len(msgs)
    OBVIOUS
  <2> QED BY <1>9, <2>1, <2>2 DEF IInv, BatchAdded, block
<1>13. MessagesTaken' /\ CallKnown'
  BY DEF IInv, MessagesTaken, CallKnown
<1> QED BY <1>6, <1>9, <1>10, <1>11, <1>12, <1>13 DEF IInv

LEMMA WriteMessageInv ==
    ASSUME IInv, WriteMessage
    PROVE  IInv' /\ UNCHANGED <<Taken, Left>> /\ Ring!Next
<1> USE DEF WriteMessage, put, get, InPut, InGet
<1> DEFINE m == msgs[i + 1]
<1>1. /\ i \in Nat /\ m \in Message /\ Len(m) \in Nat /\ m \in Seq(Byte) /\ i < Len(msgs)
      /\ Fifo!Bytes(Left) + HeaderSize + Len(m) <= max_size_bytes
  <2>1. i < Len(msgs)
    BY DEF IInv, BatchAdded
  <2> QED BY <2>1, RoomForNext, MessageTyped
<1>2. /\ Left \in Seq(Message) /\ Fifo!Bytes(Left) \in Nat
      /\ size = Fifo!Bytes(Left) + HeaderSize
      /\ Taken \in Seq(Message) /\ Len(Taken) = Popped /\ Len(Left) = FramesQueued
  BY Counted DEF Uncounted
<1>3. Ring!Contents \in Seq(Byte) /\ Len(Ring!Contents) = size
  BY ContentsTyped DEF IInv
<1> HIDE DEF Left, Taken
<1>4. size + Len(m) <= max_size_bytes /\ Ring!circular_buffer_write(m)
  BY <1>1, <1>2, CapacityAssumption, HeaderAssumption
<1>5. /\ RingOK' /\ Ring!Next
      /\ Ring!Contents' = Ring!Contents \o m /\ size' = size + Len(m)
  BY <1>1, <1>4, RingWrites DEF IInv
<1>6. /\ Popped' = Popped /\ FramesQueued' = FramesQueued
      /\ msg_buffer' = msg_buffer /\ bytes_read' = bytes_read
      /\ Uncounted' = HeaderSize + Len(m)
  BY DEF Popped, FramesQueued, Uncounted, MsgSize
<1>7. StartsWith(Ring!Contents', Left)
  BY <1>1, <1>2, <1>3, <1>5, StartsKept DEF IInv, Framed
<1>8. Taken' = Taken /\ Left' = Left
  BY <1>2, <1>5, <1>6, <1>7, ReparsedNext DEF IInv, Types, Framed
<1>9. Framed'
  <2>1. size' = Fifo!Bytes(Left) + (HeaderSize + Len(m))
    BY <1>1, <1>2, <1>5, HeaderAssumption
  <2> QED BY <1>2, <1>6, <1>7, <1>8, <2>1 DEF IInv, Framed
<1>10. Types' /\ NoOverrun'
  BY DEF IInv, Types, NoOverrun
<1>11. BatchAdded'
  <2>1. FrameAt(Ring!Contents', Fifo!Bytes(Left), m)
    <3> DEFINE b == Fifo!Bytes(Left)
    <3>1. \A k \in 1..HeaderSize : Ring!Contents[b + k] = SizeBytes(Len(m))[k]
      BY DEF IInv, BatchAdded
    <3>2. ASSUME NEW k \in 1..HeaderSize + Len(m)
          PROVE  Ring!Contents'[b + k] = Frame(m)[k]
      <4> DEFINE j == b + k
      <4> b \in Nat /\ HeaderSize \in Nat /\ Len(m) \in Nat
        BY <1>1, <1>2, HeaderAssumption
      <4>1. CASE k <= HeaderSize
        <5>1. k \in 1..HeaderSize /\ j \in 1..Len(Ring!Contents) + Len(m)
              /\ j <= Len(Ring!Contents)
          <6> HIDE DEF b, m
          <6> QED BY <1>2, <1>3, <4>1 DEF b
        <5>2. Ring!Contents[j] = SizeBytes(Len(m))[k]
          BY <3>1, <5>1
        <5> HIDE DEF j
        <5>3. Ring!Contents'[j] = Ring!Contents[j]
          BY <1>1, <1>3, <1>5, <5>1, ConcatProperties
        <5> QED BY <1>1, <5>1, <5>2, <5>3, FrameTyped DEF j
      <4>2. CASE ~(k <= HeaderSize)
        <5> DEFINE l == k - HeaderSize
        <5>1. /\ l \in 1..Len(m) /\ HeaderSize + l = k
              /\ j \in 1..Len(Ring!Contents) + Len(m)
              /\ ~(j <= Len(Ring!Contents)) /\ j - Len(Ring!Contents) = l
          <6> HIDE DEF b, m
          <6> QED BY <1>2, <1>3, <4>2 DEF b
        <5> HIDE DEF j, l
        <5>2. Ring!Contents'[j] = m[l]
          BY <1>1, <1>3, <1>5, <5>1, ConcatProperties
        <5>3. Frame(m)[HeaderSize + l] = m[l]
          BY <1>1, <5>1, FrameTyped
        <5> QED BY <5>1, <5>2, <5>3 DEF j
      <4> QED BY <4>1, <4>2
    <3> QED BY <3>2 DEF FrameAt
  <2>2. pc' = "count" /\ i' = i /\ msgs' = msgs /\ i < Len(msgs)
    BY <1>1
  <2> QED BY <1>8, <2>1, <2>2 DEF IInv, BatchAdded
<1>12. MessagesTaken' /\ CallKnown'
  BY DEF IInv, MessagesTaken, CallKnown
<1> QED BY <1>5, <1>8, <1>9, <1>10, <1>11, <1>12 DEF IInv

LEMMA CountMessageInv ==
    ASSUME IInv, CountMessage
    PROVE  /\ IInv' /\ Taken' = Taken
           /\ msgs[i + 1] \in Message /\ Left' = Append(Left, msgs[i + 1])
<1> USE DEF CountMessage, get, InPut, InGet
<1> DEFINE m == msgs[i + 1]
<1>0. num_elem \in Nat /\ Len(msgs) \in Nat
  BY DEF IInv, Types
<1>1. /\ i \in Nat /\ i + 1 \in 1..Len(msgs) /\ m \in Message /\ Len(m) \in Nat
      /\ Fifo!Bytes(Left) + HeaderSize + Len(m) <= max_size_bytes
      /\ Len(Left) + 1 <= maxsize /\ i < Len(msgs)
      /\ Fifo!Sums(msgs)[i] \in Nat /\ Fifo!Bytes(msgs) \in Nat
      /\ Fifo!Sums(msgs)[i + 1] = Fifo!Sums(msgs)[i] + HeaderSize + Len(m)
  <2>1. i < Len(msgs)
    BY DEF IInv, BatchAdded
  <2> QED BY <2>1, RoomForNext
<1>2. /\ Left \in Seq(Message) /\ Fifo!Bytes(Left) \in Nat /\ Len(Left) \in Nat
      /\ size = Fifo!Bytes(Left) + (HeaderSize + Len(m))
      /\ Taken \in Seq(Message) /\ Len(Taken) = Popped /\ Len(Left) = num_elem
  <2>1. Uncounted = HeaderSize + Len(m) /\ FramesQueued = num_elem
    BY <1>0 DEF Uncounted, MsgSize, FramesQueued
  <2> HIDE DEF Left, Taken
  <2> QED BY <2>1, Counted
<1>3. Ring!Contents \in Seq(Byte) /\ Len(Ring!Contents) = size
  BY ContentsTyped DEF IInv
<1>4. RingOK' /\ Ring!Contents' = Ring!Contents /\ size' = size
  BY SameBuffer DEF IInv, ring
<1>5. /\ Popped' = Popped /\ FramesQueued' = num_elem + 1
      /\ msg_buffer' = msg_buffer /\ bytes_read' = bytes_read
      /\ Uncounted' = 0 /\ Popped = 0
  BY <1>0 DEF IInv, CallKnown, Popped, FramesQueued, Uncounted
<1> DEFINE left == Append(Left, m)
<1> HIDE DEF Left, Taken
<1>6. /\ left \in Seq(Message) /\ Len(left) = Len(Left) + 1
      /\ left[Len(Left) + 1] = m /\ \A n \in 1..Len(Left) : left[n] = Left[n]
      /\ Fifo!Bytes(left) = Fifo!Bytes(Left) + HeaderSize + Len(m)
  BY <1>1, <1>2, BytesOfAppend
<1>7. StartsWith(Ring!Contents, left)
  <2>1. Fifo!Bytes(Left) + HeaderSize + Len(m) <= Len(Ring!Contents)
    <3> DEFINE b == Fifo!Bytes(Left)
               l == Len(m)
               s == Len(Ring!Contents)
    <3>1. b \in Nat /\ l \in Nat /\ HeaderSize \in Nat /\ s = b + (HeaderSize + l)
      BY <1>1, <1>2, <1>3, HeaderNat
    <3> HIDE DEF b, l, s
    <3>2. b + HeaderSize + l <= s
      BY <3>1
    <3> QED BY <3>2 DEF b, l, s
  <2>2. StartsWith(Ring!Contents, Left) /\ FrameAt(Ring!Contents, Fifo!Bytes(Left), m)
    BY DEF IInv, Framed, BatchAdded
  <2> QED BY <1>1, <1>2, <1>3, <2>1, <2>2, StartsAppend
<1> HIDE DEF left
<1>8. Taken' = Taken /\ Left' = left
  BY <1>2, <1>4, <1>5, <1>6, <1>7, ReparsedNext DEF IInv, Types, Framed
<1>9. Framed'
  <2>1. Fifo!Bytes(Taken) = 0
    BY <1>2, <1>5, EmptySeq, StartsEmpty
  <2> DEFINE b == Fifo!Bytes(Left)
             l == Len(m)
             c == Fifo!Bytes(left)
             t == Fifo!Bytes(Taken)
  <2>2. /\ b \in Nat /\ l \in Nat /\ HeaderSize \in Nat /\ t = 0
        /\ c = b + HeaderSize + l /\ c <= max_size_bytes /\ size' = b + (HeaderSize + l)
    BY <1>1, <1>2, <1>4, <1>6, <2>1, HeaderNat
  <2>3. Popped = 0 /\ num_elem \in Nat /\ num_elem + 1 <= maxsize
    BY <1>0, <1>1, <1>2, <1>5
  <2> HIDE DEF b, l, c, t
  <2>4. Popped + (num_elem + 1) <= maxsize
    BY <2>3
  <2>5. size' = c + 0 /\ t + c <= max_size_bytes
    BY <2>2
  <2>6. size' = Fifo!Bytes(left) + 0 /\ Fifo!Bytes(Taken) + Fifo!Bytes(left) <= max_size_bytes
    BY <2>5 DEF c, t
  <2> QED BY <1>2, <1>4, <1>5, <1>6, <1>7, <1>8, <2>4, <2>6 DEF IInv, Framed
<1>10. Types' /\ NoOverrun'
  BY <1>1 DEF IInv, Types, NoOverrun
<1>11. BatchAdded'
  <2>1. /\ i <= Len(Left) /\ Len(Left) - i + Len(msgs) <= maxsize
        /\ Fifo!Bytes(Left) - Fifo!Sums(msgs)[i] + Fifo!Bytes(msgs) <= max_size_bytes
        /\ \A k \in 1..i : Left[Len(Left) - i + k] = msgs[k]
    BY DEF IInv, BatchAdded
  <2>2. /\ i + 1 <= Len(left) /\ Len(left) - (i + 1) + Len(msgs) <= maxsize
        /\ Len(left) - (i + 1) = Len(Left) - i
    BY <1>0, <1>1, <1>2, <1>6, <2>1
  <2>3. ASSUME NEW k \in 1..i + 1 PROVE left[Len(left) - (i + 1) + k] = msgs[k]
    <3> DEFINE j == Len(Left) - i + k
    <3>1. CASE k = i + 1
      <4>1. j = Len(Left) + 1
        BY <1>1, <1>2, <3>1
      <4> HIDE DEF j
      <4> QED BY <1>6, <2>2, <3>1, <4>1 DEF j
    <3>2. CASE k \in 1..i
      <4>1. j \in 1..Len(Left)
        <5> DEFINE l == Len(Left)
        <5>1. l \in Nat /\ i \in Nat /\ i <= l
          BY <1>1, <1>2, <2>1
        <5> HIDE DEF l
        <5>2. l - i + k \in 1..l
          BY <3>2, <5>1
        <5> QED BY <5>2 DEF l
      <4>2. Left[j] = msgs[k]
        BY <2>1, <3>2
      <4> HIDE DEF j
      <4> QED BY <1>6, <2>2, <4>1, <4>2 DEF j
    <3> QED BY <1>1, <3>1, <3>2
  <2>4. Fifo!Bytes(left) - Fifo!Sums(msgs)[i + 1] + Fifo!Bytes(msgs) <= max_size_bytes
    <3> DEFINE s == Fifo!Sums(msgs)[i]
               b == Fifo!Bytes(Left)
               t == Fifo!Bytes(msgs)
               l == Len(m)
    <3>1. /\ s \in Nat /\ b \in Nat /\ t \in Nat /\ l \in Nat
          /\ b - s + t <= max_size_bytes
          /\ Fifo!Bytes(left) = b + HeaderSize + l
          /\ Fifo!Sums(msgs)[i + 1] = s + HeaderSize + l
      BY <1>1, <1>2, <1>6, <2>1
    <3> HIDE DEF s, b, t, l
    <3>2. (b + HeaderSize + l) - (s + HeaderSize + l) + t <= max_size_bytes
      BY <3>1, CapacityAssumption, HeaderAssumption
    <3> QED BY <3>1, <3>2 DEF t
  <2>5. pc' = "put" /\ i' = i + 1 /\ msgs' = msgs
    OBVIOUS
  <2> QED BY <1>8, <2>2, <2>3, <2>4, <2>5 DEF BatchAdded
<1>12. MessagesTaken' /\ CallKnown'
  BY DEF IInv, MessagesTaken, CallKnown
<1> QED BY <1>1, <1>4, <1>8, <1>9, <1>10, <1>11, <1>12 DEF IInv, left
-----------------------------------------------------------------------------
(* The steps of a get.  What it takes from one end it adds at the other.   *)
LEMMA MoveOne ==
    ASSUME NEW q \in Seq(Message), NEW r \in Seq(Message), r # <<>>
    PROVE  Append(q, r[1]) \o Others(r) = q \o r
<1> DEFINE a == Append(q, r[1])
           b == Others(r)
<1>1. /\ b \in Seq(Message) /\ Len(b) = Len(r) - 1 /\ Len(r) \in Nat \ {0}
      /\ r[1] \in Message /\ \A n \in 1..Len(r) - 1 : b[n] = r[1 + n]
  BY BytesOfOthers
<1>2. /\ a \in Seq(Message) /\ Len(a) = Len(q) + 1 /\ a[Len(q) + 1] = r[1]
      /\ \A n \in 1..Len(q) : a[n] = q[n]
      /\ Len(q) \in Nat
  BY <1>1, BytesOfAppend
<1> HIDE DEF a, b
<1>3. /\ a \o b \in Seq(Message) /\ Len(a \o b) = Len(a) + Len(b)
      /\ \A n \in 1..Len(a) + Len(b) :
            (a \o b)[n] = IF n <= Len(a) THEN a[n] ELSE b[n - Len(a)]
  BY <1>1, <1>2, ConcatProperties
<1>4. /\ q \o r \in Seq(Message) /\ Len(q \o r) = Len(q) + Len(r)
      /\ \A n \in 1..Len(q) + Len(r) :
            (q \o r)[n] = IF n <= Len(q) THEN q[n] ELSE r[n - Len(q)]
  BY ConcatProperties
<1>5. Len(a) + Len(b) = Len(q) + Len(r)
  BY <1>1, <1>2
<1>6. ASSUME NEW n \in 1..Len(q) + Len(r) PROVE (a \o b)[n] = (q \o r)[n]
  <2>1. CASE n <= Len(q)
    <3>1. n \in 1..Len(q) /\ n <= Len(a)
      BY <1>1, <1>2, <2>1
    <3> QED BY <1>2, <1>3, <1>4, <1>5, <2>1, <3>1
  <2>2. CASE n = Len(q) + 1
    <3>1. n <= Len(a) /\ ~(n <= Len(q)) /\ n - Len(q) = 1
      BY <1>2, <2>2
    <3>2. (a \o b)[n] = r[1]
      BY <1>2, <1>3, <1>5, <2>2, <3>1
    <3>3. (q \o r)[n] = r[n - Len(q)]
      BY <1>4, <3>1
    <3> QED BY <3>1, <3>2, <3>3
  <2>3. CASE n > Len(q) + 1
    <3> DEFINE l == n - Len(a)
    <3>1. /\ ~(n <= Len(a)) /\ ~(n <= Len(q)) /\ l \in 1..Len(r) - 1
          /\ 1 + l = n - Len(q)
      BY <1>1, <1>2, <2>3
    <3>2. (a \o b)[n] = b[l]
      BY <1>3, <1>5, <3>1
    <3>3. (q \o r)[n] = r[n - Len(q)]
      BY <1>4, <3>1
    <3> HIDE DEF l
    <3>4. b[l] = r[1 + l]
      BY <1>1, <3>1
    <3> QED BY <3>1, <3>2, <3>3, <3>4
  <2> QED BY <1>1, <1>2, <2>1, <2>2, <2>3
<1>7. a \o b = q \o r
  <2>1. Len(a \o b) = Len(q \o r)
    BY <1>3, <1>4, <1>5
  <2>2. \A n \in 1..Len(a \o b) : (a \o b)[n] = (q \o r)[n]
    BY <1>3, <1>5, <1>6
  <2> QED BY <1>3, <1>4, <2>1, <2>2, SeqEqual
<1> QED BY <1>7 DEF a, b

LEMMA PrefixOfConcat ==
    ASSUME NEW q \in Seq(Message), NEW r \in Seq(Message)
    PROVE  Fifo!Prefix(q \o r, Len(q)) = q
<1>1. /\ q \o r \in Seq(Message) /\ Len(q \o r) = Len(q) + Len(r)
      /\ \A n \in 1..Len(q) + Len(r) :
            (q \o r)[n] = IF n <= Len(q) THEN q[n] ELSE r[n - Len(q)]
  BY ConcatProperties
<1>2. Len(q) \in Nat /\ Len(r) \in Nat
  OBVIOUS
<1> DEFINE whole == q \o r
<1> HIDE DEF whole
<1>3. SubSeq(whole, 1, Len(q)) = [n \in 1..Len(q) |-> whole[n]]
  BY <1>2
<1>4. \A n \in 1..Len(q) : whole[n] = q[n]
  BY <1>1, <1>2 DEF whole
<1>5. q = [n \in 1..Len(q) |-> q[n]]
  OBVIOUS
<1> QED BY <1>3, <1>4, <1>5 DEF Fifo!Prefix, whole

(* The front of the bytes is the first frame. *)
LEMMA FrontIsFrame ==
    ASSUME NEW m \in Message, NEW bytes \in Seq(Byte), FrameAt(bytes, 0, m),
           HeaderSize + Len(m) <= Len(bytes)
    PROVE  /\ SubSeq(bytes, 1, HeaderSize) = SizeBytes(Len(m))
           /\ SubSeq(bytes, 1, HeaderSize + Len(m)) \in Seq(Byte)
           /\ Len(SubSeq(bytes, 1, HeaderSize + Len(m))) = HeaderSize + Len(m)
           /\ \A k \in 1..HeaderSize + Len(m) :
                 SubSeq(bytes, 1, HeaderSize + Len(m))[k] = Frame(m)[k]
<1>1. HeaderSize \in Nat /\ Len(m) \in Nat /\ Len(bytes) \in Nat
  BY MessageTyped, HeaderAssumption
<1>2. SubSeq(bytes, 1, HeaderSize) = SizeBytes(Len(m))
  <2>1. 0 + 1 = 1 /\ 0 + HeaderSize = HeaderSize /\ 0 \in Nat
        /\ 0 + HeaderSize + Len(m) <= Len(bytes)
    BY <1>1
  <2>2. SubSeq(bytes, 0 + 1, 0 + HeaderSize) = SizeBytes(Len(m))
    BY <2>1, FrameRead
  <2> QED BY <2>1, <2>2
<1> DEFINE n == HeaderSize + Len(m)
<1>3. n \in Nat /\ n <= Len(bytes)
  BY <1>1
<1>4. \A k \in 1..n : bytes[k] = Frame(m)[k]
  <2>1. \A k \in 1..n : 0 + k = k
    OBVIOUS
  <2> QED BY <2>1 DEF FrameAt
<1> HIDE DEF n
<1>5. \A k \in 1..n : bytes[k] \in Byte
  BY <1>3
<1>6. /\ SubSeq(bytes, 1, n) \in Seq(Byte)
      /\ Len(SubSeq(bytes, 1, n)) = IF 1 <= n THEN n - 1 + 1 ELSE 0
      /\ \A k \in 1..n - 1 + 1 : SubSeq(bytes, 1, n)[k] = bytes[1 + k - 1]
  BY <1>3, <1>5, SubSeqProperties
<1>7. n - 1 + 1 = n /\ (~(1 <= n) => n = 0) /\ \A k \in 1..n : 1 + k - 1 = k
  BY <1>3
<1>8. /\ Len(SubSeq(bytes, 1, n)) = n
      /\ \A k \in 1..n : SubSeq(bytes, 1, n)[k] = Frame(m)[k]
  BY <1>4, <1>6, <1>7
<1> QED BY <1>2, <1>6, <1>8 DEF n

LEMMA PeekSizeInv ==
    ASSUME IInv, PeekSize
    PROVE  IInv' /\ UNCHANGED <<Taken, Left>> /\ Ring!Next
<1> USE DEF PeekSize, put, InPut, InGet
<1> DEFINE m == Left[1]
<1>1. /\ Left \in Seq(Message) /\ Left # <<>> /\ StartsWith(Ring!Contents, Left)
      /\ m \in Message /\ Len(m) \in Nat /\ Len(m) \in Sizes
      /\ messages_size = bytes_read /\ bytes_read \in Nat
  <2>1. Left \in Seq(Message) /\ bytes_read = Fifo!Bytes(Taken) /\ Fifo!Bytes(Taken) \in Nat
    BY Counted
  <2>2. Left # <<>> /\ StartsWith(Ring!Contents, Left) /\ messages_size = bytes_read
    BY DEF IInv, MessagesTaken, Framed
  <2> HIDE DEF Left
  <2> QED BY <2>1, <2>2, BytesOfOthers, MessageTyped
<1>2. Ring!Contents \in Seq(Byte) /\ Len(Ring!Contents) = size /\ size \in Nat
  BY ContentsTyped DEF IInv
<1>3. HeaderSize + Len(m) <= size /\ FrameAt(Ring!Contents, 0, m)
  BY <1>1, <1>2, StartsOthers
<1>4. HeaderSize \in 0..size
  BY <1>1, <1>2, <1>3, HeaderAssumption
<1>5. /\ RingOK' /\ Ring!Next /\ data' = SubSeq(Ring!Contents, 1, HeaderSize)
      /\ Ring!Contents' = Ring!Contents /\ size' = size
  BY <1>4, RingReads DEF IInv
<1>6. data' = SizeBytes(Len(m))
  BY <1>1, <1>2, <1>3, <1>5, FrontIsFrame
<1>7. msg_size' = Len(m) /\ messages_size' = bytes_read + HeaderSize + msg_size'
  BY <1>1, <1>6, SizeRead
<1>8. /\ Popped' = Popped /\ FramesQueued' = FramesQueued
      /\ msg_buffer' = msg_buffer /\ bytes_read' = bytes_read /\ Uncounted' = Uncounted
  BY DEF Popped, FramesQueued, Uncounted
<1>9. Taken' = Taken /\ Left' = Left /\ Framed'
  BY <1>5, <1>8, StillFramed DEF IInv
<1> HIDE DEF Taken, Left
<1>10. Types' /\ NoOverrun'
  BY <1>1, <1>7 DEF IInv, Types, NoOverrun
<1>11. MessagesTaken'
  <2>1. \A k \in 0..Popped - 1 : Fifo!TakesMore(request, Taken \o Left, k)
    BY DEF IInv, MessagesTaken
  <2>2. request' = request /\ ReadMore' /\ pc' \in {"pop", "too_small"}
    BY DEF ReadMore
  <2>3. TooSmall(messages_size)' <=> pc' = "too_small"
    BY DEF TooSmall
  <2> QED BY <1>1, <1>7, <1>8, <1>9, <2>1, <2>2, <2>3 DEF MessagesTaken
<1>12. BatchAdded' /\ CallKnown'
  BY DEF IInv, BatchAdded, CallKnown
<1> QED BY <1>5, <1>9, <1>10, <1>11, <1>12 DEF IInv

LEMMA PopMessageInv ==
    ASSUME IInv, PopMessage
    PROVE  /\ IInv' /\ Ring!Next /\ Left # <<>>
           /\ Taken' = Append(Taken, Left[1]) /\ Left' = Others(Left)
<1> USE DEF PopMessage, put, InPut, InGet
<1> DEFINE m == Left[1]
           n == HeaderSize + Len(m)
           taken == Append(Taken, m)
           left  == Others(Left)
<1>1. /\ Left \in Seq(Message) /\ Taken \in Seq(Message)
      /\ Fifo!Bytes(Left) \in Nat /\ Fifo!Bytes(Taken) \in Nat
      /\ Len(Left) = num_elem /\ Len(Left) \in Nat
      /\ Len(Taken) = messages_read /\ Len(Taken) \in Nat
      /\ bytes_read = Fifo!Bytes(Taken) /\ size = Fifo!Bytes(Left)
      /\ Popped = messages_read /\ FramesQueued = num_elem
  <2>1. FramesQueued = num_elem /\ Popped = messages_read /\ Uncounted = 0
    BY DEF IInv, Types, FramesQueued, Popped, Uncounted
  <2> HIDE DEF Left, Taken
  <2> QED BY <2>1, Counted
<1>2. /\ Left # <<>> /\ StartsWith(Ring!Contents, Left) /\ msg_size = Len(m) /\ ReadMore
      /\ StartsWith(msg_buffer, Taken) /\ Len(msg_buffer) = Fifo!Bytes(Taken)
      /\ messages_size = bytes_read + HeaderSize + Len(m) /\ ~TooSmall(messages_size)
      /\ \A k \in 0..Popped - 1 : Fifo!TakesMore(request, Taken \o Left, k)
      /\ Popped + FramesQueued <= maxsize
      /\ Fifo!Bytes(Taken) + Fifo!Bytes(Left) <= max_size_bytes
      /\ msg_buffer \in Seq(Byte) /\ request \in Request
  BY DEF IInv, Types, MessagesTaken, Framed, CallKnown
<1> HIDE DEF Left, Taken
<1>3. /\ left \in Seq(Message) /\ Len(left) = Len(Left) - 1
      /\ Len(Left) \in Nat \ {0} /\ m \in Message /\ Len(m) \in Nat /\ n \in Nat
      /\ Fifo!Bytes(Left) = n + Fifo!Bytes(left) /\ Fifo!Bytes(left) \in Nat
  <2>1. /\ left \in Seq(Message) /\ Len(left) = Len(Left) - 1
        /\ Len(Left) \in Nat \ {0} /\ m \in Message
        /\ Fifo!Bytes(Left) = n + Fifo!Bytes(left)
    BY <1>1, <1>2, BytesOfOthers
  <2>2. Fifo!Bytes(left) \in Nat
    BY <2>1, SumsStep
  <2>3. Len(m) \in Nat /\ n \in Nat
    BY <2>1, MessageTyped, HeaderAssumption
  <2> QED BY <2>1, <2>2, <2>3
<1>4. /\ taken \in Seq(Message) /\ Len(taken) = Len(Taken) + 1
      /\ Fifo!Bytes(taken) = Fifo!Bytes(Taken) + HeaderSize + Len(m)
  BY <1>1, <1>3, BytesOfAppend
<1>5. Ring!Contents \in Seq(Byte) /\ Len(Ring!Contents) = size /\ size \in Nat
  BY ContentsTyped DEF IInv
<1>6. /\ n <= size /\ FrameAt(Ring!Contents, 0, m)
      /\ StartsWith(SubSeq(Ring!Contents, n + 1, size), left)
      /\ SubSeq(Ring!Contents, n + 1, size) \in Seq(Byte)
  BY <1>1, <1>2, <1>5, StartsOthers
<1>7. /\ RingOK' /\ Ring!Next /\ data' = SubSeq(Ring!Contents, 1, n)
      /\ Ring!Contents' = SubSeq(Ring!Contents, n + 1, size) /\ size' = size - n
  <2>1. n \in 0..size /\ n = HeaderSize + msg_size
    BY <1>2, <1>3, <1>5, <1>6
  <2>2. Ring!circular_buffer_read(n, TRUE)
    BY <2>1
  <2> HIDE DEF n
  <2> QED BY <2>1, <2>2, RingReads DEF IInv
<1>8. /\ data' \in Seq(Byte) /\ Len(data') = n
      /\ \A k \in 1..n : data'[k] = Frame(m)[k]
  BY <1>3, <1>5, <1>6, <1>7, FrontIsFrame
<1>9. msg_buffer' = msg_buffer \o data' /\ bytes_read' = bytes_read + (HeaderSize + Len(m))
  BY <1>2
<1>10. /\ msg_buffer' \in Seq(Byte) /\ Len(msg_buffer') = Fifo!Bytes(Taken) + n
       /\ \A k \in 1..Fifo!Bytes(Taken) + n : msg_buffer'[k] =
             IF k <= Fifo!Bytes(Taken) THEN msg_buffer[k] ELSE data'[k - Fifo!Bytes(Taken)]
  <2>1. /\ msg_buffer \o data' \in Seq(Byte)
        /\ Len(msg_buffer \o data') = Len(msg_buffer) + Len(data')
        /\ \A k \in 1..Len(msg_buffer) + Len(data') : (msg_buffer \o data')[k] =
              IF k <= Len(msg_buffer) THEN msg_buffer[k] ELSE data'[k - Len(msg_buffer)]
    <3>1. msg_buffer \in Seq(Byte) /\ data' \in Seq(Byte)
      BY <1>2, <1>8
    <3> QED BY <3>1, ConcatProperties, Zenon
  <2>2. Len(msg_buffer) = Fifo!Bytes(Taken) /\ Len(data') = n
    BY <1>2, <1>8
  <2> HIDE DEF n
  <2> QED BY <1>9, <2>1, <2>2
<1>11. /\ Fifo!Bytes(Taken) + HeaderSize + Len(m) <= Len(msg_buffer')
       /\ Len(msg_buffer') = Fifo!Bytes(taken) /\ bytes_read' = Len(msg_buffer')
       /\ messages_size = bytes_read' /\ size' = Fifo!Bytes(left) + 0
       /\ Fifo!Bytes(taken) + Fifo!Bytes(left) <= max_size_bytes
  <2> DEFINE l  == Len(m)
             tb == Fifo!Bytes(Taken)
             ta == Fifo!Bytes(taken)
             lb == Fifo!Bytes(Left)
             la == Fifo!Bytes(left)
             bl == Len(msg_buffer')
             f  == n
  <2>1. /\ l \in Nat /\ HeaderSize \in Nat /\ tb \in Nat /\ la \in Nat
        /\ f = HeaderSize + l /\ ta = tb + HeaderSize + l /\ bl = tb + f
    BY <1>1, <1>3, <1>4, <1>10, HeaderNat
  <2>2. /\ bytes_read = tb /\ messages_size = bytes_read + HeaderSize + l
        /\ bytes_read' = bytes_read + (HeaderSize + l)
    BY <1>1, <1>2, <1>9
  <2>3. lb = f + la /\ tb + lb <= max_size_bytes /\ size' = size - f /\ size = lb
    BY <1>1, <1>2, <1>3, <1>7
  <2> HIDE DEF n, taken, left, l, tb, ta, lb, la, bl, f
  <2>4. tb + HeaderSize + l <= bl /\ bl = ta
    BY <2>1
  <2>5. bytes_read' = bl /\ messages_size = bytes_read'
    BY <2>1, <2>2
  <2>6. size' = la + 0 /\ ta + la <= max_size_bytes
    BY <2>1, <2>3, CapacityAssumption
  <2> QED BY <2>4, <2>5, <2>6 DEF l, tb, ta, la, bl
<1>12. StartsWith(msg_buffer', taken)
  <2>1. StartsWith(msg_buffer', Taken)
    BY <1>1, <1>2, <1>8, <1>9, StartsKept
  <2>2. ASSUME NEW k \in 1..n PROVE msg_buffer'[Fifo!Bytes(Taken) + k] = Frame(m)[k]
    <3> DEFINE b == Fifo!Bytes(Taken)
               j == b + k
    <3>1. j \in 1..b + n /\ ~(j <= b) /\ j - b = k
      <4>1. b \in Nat /\ n \in Nat
        BY <1>1, <1>3
      <4> HIDE DEF b, n
      <4> QED BY <4>1
    <3> HIDE DEF j
    <3>2. msg_buffer'[j] = data'[k]
      BY <1>10, <3>1
    <3> QED BY <1>8, <3>2 DEF j
  <2>3. FrameAt(msg_buffer', Fifo!Bytes(Taken), m)
    BY <2>2 DEF FrameAt
  <2> QED BY <1>1, <1>3, <1>10, <1>11, <2>1, <2>3, StartsAppend
<1>13. Popped' = Len(taken) /\ FramesQueued' = Len(left) /\ Uncounted' = 0
  BY <1>1, <1>3, <1>4 DEF Popped, FramesQueued, Uncounted
<1> HIDE DEF taken, left
<1>14. Taken' = taken /\ Left' = left
  BY <1>3, <1>4, <1>6, <1>7, <1>10, <1>12, <1>13, ReparsedNext
<1>15. Framed'
  <2>1. Len(taken) + Len(left) <= maxsize
    BY <1>1, <1>2, <1>3, <1>4
  <2> QED BY <1>3, <1>4, <1>6, <1>7, <1>11, <1>12, <1>13, <1>14, <2>1 DEF Framed
<1>16. messages_size' = bytes_read' /\ bytes_read' = Fifo!Bytes(taken)
       /\ bytes_read' = Len(msg_buffer')
  <2>1. messages_size' = messages_size
    OBVIOUS
  <2> QED BY <1>11, <2>1
<1>17. Fifo!Bytes(taken) <= request.msg_buffer_size
  <2>1. request.msg_buffer_size \in Nat /\ Fifo!Bytes(taken) = messages_size
    BY <1>2, <1>16, RequestAssumption
  <2>2. Fifo!Bytes(taken) \in Nat
    BY <1>4, SumsStep
  <2> QED BY <1>2, <2>1, <2>2 DEF TooSmall
<1>18. Types' /\ NoOverrun'
  BY <1>10, <1>16, <1>17 DEF IInv, Types, NoOverrun
<1>19. MessagesTaken'
  <2>1. taken \o left = Taken \o Left
    BY <1>1, <1>2, MoveOne DEF taken, left
  <2> DEFINE q == Taken \o Left
  <2>2. Fifo!Prefix(q, Len(Taken)) = Taken
    BY <1>1, PrefixOfConcat
  <2>3. Fifo!Prefix(q, Len(Taken) + 1) = taken
    BY <1>3, <1>4, <2>1, PrefixOfConcat
  <2>4. Len(q) = Len(Taken) + Len(Left)
    BY <1>1, ConcatProperties
  <2> HIDE DEF q
  <2>5. Fifo!TakesMore(request, q, Len(Taken))
    <3>1. /\ Len(Taken) < Len(q)
          /\ Len(Taken) < request.max_messages_to_get
          /\ Fifo!Bytes(Taken) < request.max_bytes_to_get
      BY <1>1, <1>2, <1>3, <2>4 DEF ReadMore
    <3> QED BY <1>17, <2>2, <2>3, <3>1 DEF Fifo!TakesMore, Fifo!WantsMore
  <2>6. ASSUME NEW k \in 0..Len(taken) - 1 PROVE Fifo!TakesMore(request, q, k)
    <3>1. CASE k = Len(Taken)
      BY <2>5, <3>1
    <3>2. CASE k \in 0..Popped - 1
      BY <1>2, <3>2 DEF q
    <3> QED BY <1>1, <1>4, <3>1, <3>2
  <2>7. Popped' = Len(taken) /\ request' = request /\ pc' = "uncount"
    BY <1>13
  <2>8. (Taken \o Left)' = q
    BY <1>14, <2>1 DEF q
  <2>9. \A k \in 0..Popped' - 1 : Fifo!TakesMore(request', (Taken \o Left)', k)
    BY <2>6, <2>7, <2>8
  <2> QED BY <1>16, <2>7, <2>9 DEF MessagesTaken
<1>20. BatchAdded' /\ CallKnown'
  BY DEF IInv, BatchAdded, CallKnown
<1> QED BY <1>2, <1>7, <1>14, <1>15, <1>18, <1>19, <1>20 DEF IInv, taken, left

LEMMA UncountMessageInv ==
    ASSUME IInv, UncountMessage
    PROVE  IInv' /\ UNCHANGED <<Taken, Left>>
<1> USE DEF UncountMessage, put, InPut, InGet
<1>0. num_elem \in Nat /\ messages_read \in Nat
  BY DEF IInv, Types
<1>1. RingOK' /\ Ring!Contents' = Ring!Contents
  BY SameBuffer DEF IInv
<1>2. /\ size' = size /\ Popped' = Popped /\ FramesQueued' = FramesQueued
      /\ msg_buffer' = msg_buffer /\ bytes_read' = bytes_read
      /\ Uncounted' = Uncounted /\ Uncounted = 0 /\ FramesQueued = num_elem - 1
  BY <1>0 DEF Popped, FramesQueued, Uncounted, ring
<1>3. Taken' = Taken /\ Left' = Left /\ Framed'
  BY <1>1, <1>2, StillFramed DEF IInv
<1>4. Types'
  <2>1. num_elem - 1 \in Nat
    BY <1>2, Counted
  <2> QED BY <1>0, <2>1 DEF IInv, Types
<1>5. NoOverrun'
  BY DEF IInv, NoOverrun
<1>6. MessagesTaken'
  <2>1. /\ \A k \in 0..Popped - 1 : Fifo!TakesMore(request, Taken \o Left, k)
        /\ messages_size = bytes_read
    BY DEF IInv, MessagesTaken
  <2>2. Left # <<>> <=> ~(size <= 0)
    <3>1. size \in Nat
      BY ContentsTyped DEF IInv
    <3> HIDE DEF Left
    <3> QED BY <1>2, <3>1, Counted
  <2>3. messages_read' > 0 /\ request' = request /\ messages_size' = messages_size
    BY <1>0
  <2> HIDE DEF Left, Taken
  <2> QED BY <1>2, <1>3, <2>1, <2>2, <2>3 DEF MessagesTaken
<1>7. BatchAdded' /\ CallKnown'
  BY DEF IInv, BatchAdded, CallKnown
<1> QED BY <1>1, <1>3, <1>4, <1>5, <1>6, <1>7 DEF IInv

LEMMA EndGetInv ==
    ASSUME IInv, EndGet
    PROVE  IInv' /\ Taken' = <<>> /\ Left' = Left
<1> USE DEF EndGet, LoopEnded, put, InPut, InGet
<1>1. RingOK' /\ Ring!Contents' = Ring!Contents /\ size' = size
  BY SameBuffer DEF IInv, ring
<1>2. /\ Left \in Seq(Message) /\ Len(Left) = num_elem /\ Len(Left) \in Nat
      /\ size = Fifo!Bytes(Left) /\ Fifo!Bytes(Left) \in Nat /\ Fifo!Bytes(Taken) \in Nat
      /\ Len(Taken) \in Nat /\ Len(Taken) = Popped /\ FramesQueued = num_elem
  <2>1. FramesQueued = num_elem /\ Uncounted = 0
    BY DEF IInv, Types, FramesQueued, Uncounted
  <2> HIDE DEF Left, Taken
  <2> QED BY <2>1, Counted
<1>3. <<>> \in Seq(Message) /\ <<>> \in Seq(Byte) /\ Len(<<>>) = 0
  BY EmptySeq
<1>4. StartsWith(<<>>, <<>>) /\ Fifo!Bytes(<<>>) = 0
  BY <1>3, StartsEmpty
<1>5. /\ Popped' = 0 /\ FramesQueued' = num_elem /\ Uncounted' = 0
      /\ msg_buffer' = <<>> /\ bytes_read' = 0 /\ num_elem' = num_elem
  BY DEF IInv, Types, Popped, FramesQueued, Uncounted
<1>6. StartsWith(Ring!Contents, Left) /\ Popped + FramesQueued <= maxsize
      /\ Fifo!Bytes(Taken) + Fifo!Bytes(Left) <= max_size_bytes
  BY DEF IInv, Framed
<1> HIDE DEF Left, Taken
<1>7. Taken' = <<>> /\ Left' = Left
  BY <1>1, <1>2, <1>3, <1>4, <1>5, <1>6, ReparsedNext
<1>8. Framed'
  <2>1. 0 + num_elem <= maxsize /\ 0 + Fifo!Bytes(Left) <= max_size_bytes
        /\ size = Fifo!Bytes(Left) + 0
    BY <1>2, <1>6, CapacityAssumption
  <2> QED BY <1>1, <1>2, <1>3, <1>4, <1>5, <1>6, <1>7, <2>1 DEF Framed
<1>9. Types'
  BY <1>3 DEF IInv, Types
<1>10. NoOverrun'
  BY <1>3 DEF NoOverrun, NoRequest
<1>11. BatchAdded' /\ MessagesTaken' /\ CallKnown'
  BY DEF IInv, BatchAdded, MessagesTaken, CallKnown
<1> QED BY <1>1, <1>7, <1>8, <1>9, <1>10, <1>11 DEF IInv
-----------------------------------------------------------------------------
(* Every step is one of these, so the invariant holds throughout, and what *)
(* the step does to the circular buffer is one of its own steps.           *)
LEMMA NextInv ==
    ASSUME IInv, [Next]_vars
    PROVE  IInv' /\ [Ring!Next]_(Ring!vars)
<1>1. ASSUME NEW batch \in Batch, LockPut(batch)
      PROVE  IInv' /\ [Ring!Next]_(Ring!vars)
  BY <1>1, LockPutInv DEF LockPut, StartPut, ring, Ring!vars
<1>2. CASE BeginPut
  BY <1>2, BeginPutInv DEF BeginPut, ring, Ring!vars
<1>3. CASE PutFull
  BY <1>3, PutFullInv DEF PutFull, ring, Ring!vars
<1>4. CASE WriteSize
  BY <1>4, WriteSizeInv
<1>5. CASE WriteMessage
  BY <1>5, WriteMessageInv
<1>6. CASE CountMessage
  BY <1>6, CountMessageInv DEF CountMessage, ring, Ring!vars
<1>7. CASE EndPut
  BY <1>7, EndPutInv DEF EndPut, ring, Ring!vars
<1>8. ASSUME NEW limits \in Request, LockGet(limits)
      PROVE  IInv' /\ [Ring!Next]_(Ring!vars)
  BY <1>8, LockGetInv DEF LockGet, StartGet, ring, Ring!vars
<1>9. CASE BeginGet
  BY <1>9, BeginGetInv DEF BeginGet, ring, Ring!vars
<1>10. CASE GetEmpty
  BY <1>10, GetEmptyInv DEF GetEmpty, ring, Ring!vars
<1>11. CASE PeekSize
  BY <1>11, PeekSizeInv
<1>12. CASE PopMessage
  BY <1>12, PopMessageInv
<1>13. CASE UncountMessage
  BY <1>13, UncountMessageInv DEF UncountMessage, ring, Ring!vars
<1>14. CASE EndGet
  BY <1>14, EndGetInv DEF EndGet, ring, Ring!vars
<1>15. CASE UNCHANGED vars
  <2>1. /\ UNCHANGED <<ring, num_elem, pc, msgs, i, request, msg_size, msg_buffer,
                       messages_read, bytes_read, messages_size, result>>
    BY <1>15 DEF vars, put, get
  <2>2. RingOK' /\ Ring!Contents' = Ring!Contents
    BY <2>1, SameBuffer DEF IInv
  <2>3. /\ size' = size /\ Popped' = Popped /\ FramesQueued' = FramesQueued
        /\ Uncounted' = Uncounted
    BY <2>1 DEF ring, Popped, FramesQueued, Uncounted
  <2>4. Taken' = Taken /\ Left' = Left /\ Framed'
    BY <2>1, <2>2, <2>3, StillFramed DEF IInv
  <2> HIDE DEF Taken, Left
  <2>5. Types' /\ NoOverrun' /\ CallKnown'
    BY <2>1 DEF IInv, Types, NoOverrun, CallKnown, InPut, InGet
  <2>6. BatchAdded'
    BY <2>1, <2>2, <2>4 DEF IInv, BatchAdded, InPut
  <2>7. MessagesTaken'
    BY <2>1, <2>3, <2>4 DEF IInv, MessagesTaken, InGet, ReadMore, TooSmall
  <2>8. UNCHANGED Ring!vars
    BY <2>1 DEF ring, Ring!vars
  <2> QED BY <2>2, <2>4, <2>5, <2>6, <2>7, <2>8 DEF IInv
<1> QED BY <1>1, <1>2, <1>3, <1>4, <1>5, <1>6, <1>7, <1>8, <1>9, <1>10, <1>11,
           <1>12, <1>13, <1>14, <1>15 DEF Next

LEMMA Invariance == Spec => []IInv
<1>1. Init => IInv
  BY InitInv
<1>2. IInv /\ [Next]_vars => IInv'
  BY NextInv
<1> QED BY <1>1, <1>2, PTL DEF Spec

(* queue_put and queue_get never write where there is no room nor read     *)
(* what is not there, though the circular buffer checks neither: whatever  *)
(* they do to it is a step its own specification allows.                   *)
THEOREM MeetsRingCorrect == Spec => MeetsRing
<1>1. Init => Ring!Init
  BY DEF Init
<1>2. IInv /\ [Next]_vars => [Ring!Next]_(Ring!vars)
  BY NextInv
<1> QED BY <1>1, <1>2, Invariance, PTL DEF Spec, MeetsRing, Ring!Spec

(* What the invariant says of the types. *)
LEMMA TypesHold ==
    ASSUME IInv
    PROVE  TypeOK
<1> USE DEF InPut, InGet
<1>1. /\ Len(Taken) = Popped /\ Len(Left) = FramesQueued
      /\ Len(Taken) \in Nat /\ Len(Left) \in Nat
      /\ Fifo!Bytes(Left) \in Nat /\ Fifo!Bytes(Taken) \in Nat
      /\ bytes_read = Fifo!Bytes(Taken) /\ Left \in Seq(Message)
  BY Counted
<1>2. /\ Popped + FramesQueued <= maxsize
      /\ Fifo!Bytes(Taken) + Fifo!Bytes(Left) <= max_size_bytes
  BY DEF IInv, Framed
<1>3. Types /\ CallKnown
  BY DEF IInv
<1> HIDE DEF Taken, Left
<1>4. num_elem \in 0..maxsize /\ messages_read \in 0..maxsize
  BY <1>1, <1>2, <1>3, CapacityAssumption DEF Types, Popped, FramesQueued
<1>5. bytes_read \in 0..max_size_bytes
  BY <1>1, <1>2, CapacityAssumption
<1>6. messages_size \in 0..max_size_bytes
  <2>1. CASE pc \in {"pop", "too_small"}
    <3>1. /\ Left # <<>> /\ msg_size = Len(Left[1])
          /\ messages_size = bytes_read + HeaderSize + msg_size
      BY <2>1 DEF IInv, MessagesTaken
    <3>2. /\ Fifo!Bytes(Left) = HeaderSize + Len(Left[1]) + Fifo!Bytes(Others(Left))
          /\ Others(Left) \in Seq(Message) /\ Left[1] \in Message
      BY <1>1, <3>1, BytesOfOthers
    <3>3. Fifo!Bytes(Others(Left)) \in Nat /\ Len(Left[1]) \in Nat
      BY <3>2, SumsStep, MessageTyped
    <3> DEFINE t == Fifo!Bytes(Taken)
               o == Fifo!Bytes(Others(Left))
               l == Len(Left[1])
    <3>4. /\ t \in Nat /\ o \in Nat /\ l \in Nat
          /\ t + (HeaderSize + l + o) <= max_size_bytes /\ messages_size = t + HeaderSize + l
      BY <1>1, <1>2, <3>1, <3>2, <3>3
    <3> HIDE DEF t, o, l
    <3> QED BY <3>4, CapacityAssumption, HeaderAssumption
  <2>2. CASE pc \in {"get", "uncount", "drained"}
    <3>1. messages_size = bytes_read
      BY <2>2 DEF IInv, MessagesTaken
    <3> QED BY <1>5, <3>1
  <2>3. CASE ~InGet
    BY <1>3, <2>3, CapacityAssumption DEF CallKnown
  <2> QED BY <2>1, <2>2, <2>3
<1>7. /\ pc \in {"unlocked", "put_locked", "put", "write_message", "count",
                 "get_locked", "get", "pop", "uncount", "drained", "too_small"}
      /\ i \in 0..Len(msgs) /\ msg_size \in Sizes \cup {0} /\ msg_buffer \in Seq(Byte)
  BY <1>3 DEF Types
<1>8. msgs \in Batch \cup {<<>>} /\ request \in Request \cup {NoRequest}
  BY <1>3 DEF CallKnown
<1>9. Ring!TypeOK
  BY DEF IInv, RingOK
<1> QED BY <1>4, <1>5, <1>6, <1>7, <1>8, <1>9 DEF TypeOK

(* After every single store num_elem and size are within the capacities,   *)
(* the counters of a get are, and every byte in memory and in the caller's *)
(* buffer is one that was written there.                                   *)
THEOREM TypeCorrect == Spec => []TypeOK
<1>1. IInv => TypeOK
  BY TypesHold
<1> QED BY <1>1, Invariance, PTL

(* What the invariant says of the frames. *)
LEMMA FramesHold ==
    ASSUME IInv
    PROVE  WholeFrames
<1>1. /\ Left \in Seq(Message) /\ Len(Left) = FramesQueued /\ Len(Left) \in Nat
      /\ size = Fifo!Bytes(Left) + Uncounted
  BY Counted
<1>2. StartsWith(Ring!Contents, Left) /\ Ring!Contents \in Seq(Byte)
  BY ContentsTyped DEF IInv, Framed
<1> HIDE DEF Left
<1>3. parse_messages(FramesQueued, Ring!Contents).total_bytes = Fifo!Sums(Left)[FramesQueued]
  <2>1. FramesQueued \in 0..Len(Left)
    BY <1>1
  <2> QED BY <1>1, <1>2, <2>1, Parsed
<1> QED BY <1>1, <1>3 DEF WholeFrames, Fifo!Bytes

(* Whatever wrapped, the bytes queued are whole frames, as many as         *)
(* num_elem says.                                                          *)
THEOREM WholeFramesCorrect == Spec => []WholeFrames
<1>1. IInv => WholeFrames
  BY FramesHold
<1> QED BY <1>1, Invariance, PTL

(* No get writes past the end of its caller's buffer. *)
THEOREM NoOverrunCorrect == Spec => []NoOverrun
<1>1. IInv => NoOverrun
  BY DEF IInv
<1> QED BY <1>1, Invariance, PTL

(* What it says when a get is done. *)
LEMMA ReadAsWritten ==
    ASSUME IInv, LoopEnded
    PROVE  /\ \/ messages_read > 0
              \/ pc = "too_small"
              \/ request.max_messages_to_get = 0 \/ request.max_bytes_to_get = 0
           /\ parse_messages(messages_read, msg_buffer).total_bytes = bytes_read
<1> USE DEF LoopEnded, InGet
<1>1. /\ Len(Taken) = Popped /\ Len(Taken) \in Nat /\ Taken \in Seq(Message)
      /\ bytes_read = Fifo!Bytes(Taken)
  BY Counted
<1>2. /\ messages_read \in Nat /\ Popped = messages_read /\ msg_buffer \in Seq(Byte)
      /\ StartsWith(msg_buffer, Taken) /\ request \in Request
  BY DEF IInv, Types, Popped, Framed, CallKnown
<1> HIDE DEF Taken
<1>3. parse_messages(messages_read, msg_buffer).total_bytes = bytes_read
  <2>1. messages_read \in 0..Len(Taken) /\ messages_read = Len(Taken)
    BY <1>1, <1>2
  <2>2. parse_messages(messages_read, msg_buffer).total_bytes
           = Fifo!Sums(Taken)[messages_read]
    BY <1>1, <1>2, <2>1, Parsed
  <2> QED BY <1>1, <2>1, <2>2 DEF Fifo!Bytes
<1>4. CASE pc = "drained"
  BY <1>3, <1>4 DEF IInv, MessagesTaken
<1>5. CASE pc = "get" /\ ~ReadMore
  <2>1. request.max_messages_to_get \in Nat /\ request.max_bytes_to_get \in Nat
    BY <1>2, RequestAssumption
  <2>2. messages_read = 0 => bytes_read = 0
    BY <1>1, <1>2, EmptySeq, StartsEmpty
  <2> QED BY <1>2, <1>3, <1>5, <2>1, <2>2 DEF ReadMore
<1> QED BY <1>3, <1>4, <1>5

(* The errors that faster_fifo.pyx guards against do not occur: no get     *)
(* that may take a message ends without one, and parse_messages ends where *)
(* the bytes do.                                                           *)
THEOREM NeverMisreadCorrect == Spec => []NeverMisread
<1>1. IInv => NeverMisread
  BY ReadAsWritten DEF NeverMisread
<1> QED BY <1>1, Invariance, PTL
-----------------------------------------------------------------------------
(* The refinement.  What the callers see of the queue: all that a get has  *)
(* taken and left, and of what a put adds nothing yet.                     *)
Visible == Taken \o Fifo!Prefix(Left, Len(Left) - i)

LEMMA VisibleRead == IInv => VisibleQueue = Visible
<1> SUFFICES ASSUME IInv PROVE VisibleQueue = Visible
  OBVIOUS
<1>1. /\ Left \in Seq(Message) /\ Len(Left) = FramesQueued /\ Len(Left) \in Nat
  BY Counted
<1>2. /\ StartsWith(Ring!Contents, Left) /\ Ring!Contents \in Seq(Byte)
      /\ i \in Nat /\ i <= Len(Left)
  <2>1. i = 0 \/ InPut
    BY DEF IInv, CallKnown
  <2>2. InPut => i <= Len(Left)
    BY DEF IInv, BatchAdded
  <2> HIDE DEF Left
  <2> QED BY <1>1, <2>1, <2>2, ContentsTyped DEF IInv, Framed, Types
<1>3. VisibleQueue = Taken \o parse_messages(FramesQueued - i, Ring!Contents).messages
  BY DEF VisibleQueue, Taken
<1> HIDE DEF Taken, Left
<1>4. FramesQueued - i \in 0..Len(Left) /\ FramesQueued - i = Len(Left) - i
  BY <1>1, <1>2
<1>5. parse_messages(FramesQueued - i, Ring!Contents).messages
         = Fifo!Prefix(Left, Len(Left) - i)
  BY <1>1, <1>2, <1>4, Parsed
<1> QED BY <1>3, <1>5 DEF Visible

LEMMA VisibleReadNext == IInv' => VisibleQueue' = Visible'
<1> DEFINE Agree == VisibleQueue = Visible
<1>1. IInv => Agree
  BY VisibleRead
<1> HIDE DEF Agree
<1>2. IInv' => Agree'
  BY <1>1, PTL
<1> QED BY <1>2 DEF Agree

(* When no put is under way that is everything. *)
LEMMA VisibleAll ==
    ASSUME NEW taken \in Seq(Message), NEW left \in Seq(Message)
    PROVE  taken \o Fifo!Prefix(left, Len(left) - 0) = taken \o left
<1>1. Len(left) \in Nat /\ Len(left) - 0 = Len(left)
  OBVIOUS
<1>2. Fifo!Prefix(left, Len(left)) = left
  BY <1>1 DEF Fifo!Prefix
<1> QED BY <1>1, <1>2

LEMMA NothingTakenYet ==
    ASSUME IInv, ~InGet
    PROVE  Taken = <<>>
<1>1. pc # "uncount" /\ messages_read = 0
  BY DEF IInv, CallKnown, InGet
<1>2. Popped = 0
  BY <1>1 DEF Popped
<1>3. Taken \in Seq(Message) /\ Len(Taken) = 0
  BY <1>2, Counted
<1> HIDE DEF Taken
<1> QED BY <1>3, EmptySeq

(* A step that takes and adds no message, whatever it writes, is none of   *)
(* the queue's.                                                            *)
LEMMA SameVisible ==
    ASSUME IInv, IInv', Taken' = Taken, Left' = Left, i' = i
    PROVE  VisibleQueue' = VisibleQueue
<1>1. Visible' = Visible
  <2> HIDE DEF Taken, Left
  <2> QED BY DEF Visible
<1> HIDE DEF VisibleQueue, Visible
<1> QED BY <1>1, VisibleRead, VisibleReadNext

(* A message that is written and counted does not show before the whole    *)
(* batch does.                                                             *)
LEMMA CountRefines ==
    ASSUME IInv, IInv', CountMessage
    PROVE  UNCHANGED <<VisibleQueue, result>>
<1> DEFINE m == msgs[i + 1]
<1>1. /\ Taken' = Taken /\ Left' = Append(Left, m) /\ m \in Message
      /\ i' = i + 1 /\ result' = result
  BY CountMessageInv DEF CountMessage
<1>2. Left \in Seq(Message) /\ Len(Left) \in Nat
  BY Counted
<1>3. i \in Nat /\ i <= Len(Left)
  BY DEF IInv, Types, BatchAdded, CountMessage, InPut
<1> HIDE DEF Left, Taken, m
<1> DEFINE l == Len(Left)
           left == Append(Left, m)
<1>4. /\ left \in Seq(Message) /\ Len(left) = l + 1
      /\ \A n \in 1..l : left[n] = Left[n]
  BY <1>1, <1>2, BytesOfAppend
<1>5. l \in Nat /\ Len(left) - (i + 1) = l - i /\ l - i \in 0..l /\ l - i \in 0..Len(left)
  <2>1. l \in Nat /\ Len(left) = l + 1 /\ i <= l
    BY <1>2, <1>3, <1>4
  <2> HIDE DEF l, left
  <2> QED BY <1>3, <2>1
<1> HIDE DEF l, left
<1>6. Fifo!Prefix(left, l - i) = Fifo!Prefix(Left, l - i)
  <2> DEFINE d == l - i
  <2> HIDE DEF d
  <2>1. d \in Nat /\ d <= l
    BY <1>5 DEF d
  <2>2. SubSeq(left, 1, d) = [n \in 1..d |-> left[n]]
    BY <1>4, <2>1
  <2>3. SubSeq(Left, 1, d) = [n \in 1..d |-> Left[n]]
    BY <1>2, <2>1
  <2>4. \A n \in 1..d : left[n] = Left[n]
    BY <1>4, <1>5, <2>1
  <2> QED BY <2>2, <2>3, <2>4 DEF Fifo!Prefix, d
<1>7. Visible' = Taken' \o Fifo!Prefix(Left', Len(Left') - i')
  BY DEF Visible
<1>8. Visible' = Visible
  BY <1>1, <1>5, <1>6, <1>7 DEF Visible, l, left
<1> HIDE DEF VisibleQueue, Visible
<1> QED BY <1>1, <1>8, VisibleRead, VisibleReadNext

(* The end of a put shows the whole batch behind what was there, and there *)
(* was room for it.                                                        *)
LEMMA EndPutRefines ==
    ASSUME IInv, IInv', EndPut
    PROVE  /\ Fifo!Put(msgs) /\ msgs \in Batch
           /\ VisibleQueue' = Left /\ Len(Left) = num_elem /\ Fifo!Bytes(Left) = size
<1> USE DEF InPut, InGet
<1> DEFINE L == Len(Left)
           q == Fifo!Prefix(Left, L - i)
<1>1. Left \in Seq(Message) /\ L \in Nat /\ Fifo!Bytes(Left) \in Nat
      /\ size = Fifo!Bytes(Left) /\ L = num_elem
  <2>1. Uncounted = 0 /\ FramesQueued = num_elem
    BY DEF IInv, Types, EndPut, Uncounted, FramesQueued
  <2> HIDE DEF Left
  <2> QED BY <2>1, Counted
<1>2. /\ i \in Nat /\ i = Len(msgs) /\ msgs \in Seq(Message) /\ i <= L
      /\ \A k \in 1..i : Left[L - i + k] = msgs[k]
      /\ msgs \in Batch /\ result = Fifo!Putting(msgs)
      /\ result' = Fifo!PutReply("Q_SUCCESS") /\ i' = 0
  BY DEF IInv, Types, BatchAdded, CallKnown, EndPut
<1>3. Taken' = Taken /\ Left' = Left /\ Taken = <<>>
  BY EndPutInv, NothingTakenYet DEF EndPut
<1>4. num_elem <= maxsize /\ size <= max_size_bytes
  <2>1. Popped + FramesQueued <= maxsize /\ Popped = 0 /\ FramesQueued = num_elem
    BY DEF IInv, Types, Framed, CallKnown, EndPut, Popped, FramesQueued
  <2>2. num_elem \in Nat
    BY DEF IInv, Types
  <2> QED BY <2>1, <2>2, ContentsTyped DEF IInv
<1> HIDE DEF Left, Taken
<1>5. VisibleQueue = <<>> \o q
  BY <1>3, VisibleRead DEF Visible
<1>6. VisibleQueue' = <<>> \o Left
  <2>1. Visible' = Taken' \o Fifo!Prefix(Left', Len(Left') - i')
    BY DEF Visible
  <2>2. <<>> \in Seq(Message)
    BY EmptySeq
  <2>3. <<>> \o Fifo!Prefix(Left, Len(Left) - 0) = <<>> \o Left
    BY <1>1, <2>2, VisibleAll
  <2> HIDE DEF VisibleQueue, Visible
  <2> QED BY <1>2, <1>3, <2>1, <2>3, VisibleReadNext
<1> HIDE DEF L
<1>7. /\ q \in Seq(Message) /\ Len(q) = L - i
      /\ \A n \in 1..L - i : q[n] = Left[n]
  <2> DEFINE d == L - i
  <2>1. d \in Nat /\ d <= L
    BY <1>1, <1>2
  <2> HIDE DEF d
  <2>2. \A n \in 1..d : Left[n] \in Message
    BY <1>1, <2>1 DEF L
  <2>3. /\ SubSeq(Left, 1, d) \in Seq(Message)
        /\ Len(SubSeq(Left, 1, d)) = IF 1 <= d THEN d - 1 + 1 ELSE 0
        /\ \A n \in 1..d - 1 + 1 : SubSeq(Left, 1, d)[n] = Left[1 + n - 1]
    BY <2>1, <2>2, SubSeqProperties
  <2>4. d - 1 + 1 = d /\ (~(1 <= d) => d = 0) /\ \A n \in 1..d : 1 + n - 1 = n
    BY <2>1
  <2>5. /\ SubSeq(Left, 1, d) \in Seq(Message) /\ Len(SubSeq(Left, 1, d)) = d
        /\ \A n \in 1..d : SubSeq(Left, 1, d)[n] = Left[n]
    BY <2>3, <2>4
  <2> QED BY <2>5 DEF Fifo!Prefix, d
<1> HIDE DEF q
<1>8. q \o msgs = Left
  <2>1. /\ q \o msgs \in Seq(Message) /\ Len(q \o msgs) = Len(q) + Len(msgs)
        /\ \A n \in 1..Len(q) + Len(msgs) : (q \o msgs)[n] =
              IF n <= Len(q) THEN q[n] ELSE msgs[n - Len(q)]
    BY <1>2, <1>7, ConcatProperties
  <2>2. Len(q) + Len(msgs) = L
    BY <1>1, <1>2, <1>7
  <2>3. ASSUME NEW n \in 1..L PROVE (q \o msgs)[n] = Left[n]
    <3>1. CASE n <= Len(q)
      <4>1. n \in 1..L - i
        BY <1>1, <1>2, <1>7, <3>1
      <4> QED BY <1>7, <2>1, <2>2, <3>1, <4>1
    <3>2. CASE ~(n <= Len(q))
      <4> DEFINE k == n - Len(q)
      <4>1. k \in 1..i /\ L - i + k = n
        BY <1>1, <1>2, <1>7, <3>2
      <4> HIDE DEF k
      <4>2. Left[L - i + k] = msgs[k]
        BY <1>2, <4>1
      <4> QED BY <2>1, <2>2, <3>2, <4>1, <4>2 DEF k
    <3> QED BY <3>1, <3>2
  <2> QED BY <1>1, <2>1, <2>2, <2>3, SeqEqual DEF L
<1>9. VisibleQueue = q /\ VisibleQueue' = Left
  <2>1. <<>> \o q = q /\ <<>> \o Left = Left
    BY <1>1, <1>7, ConcatEmptySeq
  <2> HIDE DEF VisibleQueue
  <2> QED BY <1>5, <1>6, <2>1
<1>10. Fifo!Fits(q, msgs)
  <2>1. Fifo!Bytes(Left) = Fifo!Bytes(q) + Fifo!Bytes(msgs)
    BY <1>2, <1>7, <1>8, MessagesSized, Fifo!BytesOfConcat
  <2>2. Len(q) + Len(msgs) = L
    BY <1>1, <1>2, <1>7
  <2> QED BY <1>1, <1>4, <2>1, <2>2 DEF Fifo!Fits, Fifo!can_fit
<1> HIDE DEF VisibleQueue
<1>11. Fifo!Put(msgs)
  BY <1>2, <1>8, <1>9, <1>10 DEF Fifo!Put
<1>12. Len(Left) = num_elem /\ Fifo!Bytes(Left) = size
  BY <1>1 DEF L
<1> HIDE DEF Left, q
<1> QED BY <1>2, <1>9, <1>11, <1>12

(* The end of a get: it has taken exactly the messages it may.             *)
LEMMA EndGetRefines ==
    ASSUME IInv, IInv', EndGet
    PROVE  /\ Fifo!Get(request) /\ request \in Request
           /\ Fifo!Count(request, VisibleQueue) = messages_read
           /\ VisibleQueue' = Left /\ (size > 0 <=> Left # <<>>)
<1> USE DEF InPut, InGet
<1> DEFINE q == Taken \o Left
           n == messages_read
<1>1. /\ Left \in Seq(Message) /\ Taken \in Seq(Message) /\ Len(Left) \in Nat
      /\ Len(Taken) = n /\ n \in Nat /\ bytes_read = Fifo!Bytes(Taken)
      /\ Popped = n
  <2>1. Popped = messages_read /\ messages_read \in Nat
    BY DEF IInv, Types, EndGet, LoopEnded, Popped
  <2> HIDE DEF Left, Taken
  <2> QED BY <2>1, Counted
<1>2. /\ InGet /\ i = 0 /\ i' = 0 /\ request \in Request
      /\ result = Fifo!Getting(request)
      /\ \A k \in 0..n - 1 : Fifo!TakesMore(request, q, k)
      /\ StartsWith(msg_buffer, Taken) /\ msg_buffer \in Seq(Byte)
  BY <1>1 DEF IInv, Types, Framed, CallKnown, MessagesTaken, EndGet, LoopEnded
<1>3. Taken' = <<>> /\ Left' = Left
  BY EndGetInv
<1>4. /\ pc = "drained" => Left = <<>> /\ n > 0 /\ messages_size = bytes_read
      /\ pc = "get" => Left # <<>> /\ ~ReadMore /\ messages_size = bytes_read
      /\ pc = "too_small" => /\ Left # <<>> /\ ReadMore /\ TooSmall(messages_size)
                             /\ messages_size = bytes_read + HeaderSize + Len(Left[1])
      /\ pc \in {"drained", "get", "too_small"}
  BY DEF IInv, MessagesTaken, EndGet, LoopEnded
<1> HIDE DEF Left, Taken
<1>5. VisibleQueue = q
  <2>1. Visible = q
    BY <1>1, <1>2, VisibleAll DEF Visible
  <2> HIDE DEF VisibleQueue, Visible
  <2> QED BY <2>1, VisibleRead
<1>6. VisibleQueue' = Left
  <2>1. Visible' = Taken' \o Fifo!Prefix(Left', Len(Left') - i')
    BY DEF Visible
  <2>2. <<>> \in Seq(Message) /\ <<>> \o Left = Left
    BY <1>1, EmptySeq, ConcatEmptySeq
  <2>3. <<>> \o Fifo!Prefix(Left, Len(Left) - 0) = <<>> \o Left
    BY <1>1, <2>2, VisibleAll
  <2> HIDE DEF VisibleQueue, Visible
  <2> QED BY <1>2, <1>3, <2>1, <2>2, <2>3, VisibleReadNext
<1>7. /\ q \in Seq(Message) /\ Len(q) = n + Len(Left) /\ Fifo!Prefix(q, n) = Taken
      /\ n \in 0..Len(q)
  <2>1. q \in Seq(Message) /\ Len(q) = Len(Taken) + Len(Left)
    BY <1>1, ConcatProperties
  <2>2. Fifo!Prefix(q, Len(Taken)) = Taken
    BY <1>1, PrefixOfConcat
  <2> HIDE DEF q
  <2> QED BY <1>1, <2>1, <2>2
<1>8. Left # <<>> => /\ Fifo!Bytes(Fifo!Prefix(q, n + 1)) = bytes_read + HeaderSize + Len(Left[1])
                     /\ n < Len(q)
  <2> SUFFICES ASSUME Left # <<>>
               PROVE  /\ Fifo!Bytes(Fifo!Prefix(q, n + 1))
                            = bytes_read + HeaderSize + Len(Left[1])
                      /\ n < Len(q)
    OBVIOUS
  <2> DEFINE m == Left[1]
             taken == Append(Taken, m)
             left == Others(Left)
  <2>1. left \in Seq(Message) /\ m \in Message /\ Len(Left) \in Nat \ {0}
    BY <1>1, BytesOfOthers
  <2>2. /\ taken \in Seq(Message) /\ Len(taken) = n + 1
        /\ Fifo!Bytes(taken) = bytes_read + HeaderSize + Len(m)
    BY <1>1, <2>1, BytesOfAppend
  <2>3. taken \o left = q
    BY <1>1, MoveOne
  <2>4. Fifo!Prefix(taken \o left, Len(taken)) = taken
    <3> HIDE DEF taken, left
    <3> QED BY <2>1, <2>2, PrefixOfConcat
  <2>5. n < Len(q)
    BY <1>1, <1>7, <2>1
  <2> HIDE DEF taken, left, q
  <2> QED BY <2>2, <2>3, <2>4, <2>5
<1>9. Left = <<>> => Len(q) = n
  BY <1>1, <1>7, EmptySeq
<1>19. q = VisibleQueue
  BY <1>5
<1> HIDE DEF q
<1>10. ReadMore <=> /\ n < request.max_messages_to_get
                    /\ Fifo!Bytes(Fifo!Prefix(q, n)) < request.max_bytes_to_get
  BY <1>1, <1>7 DEF ReadMore
<1>11. Fifo!WantsMore(request, q, n) <=> pc = "too_small"
  <2>1. pc = "drained" => ~(n < Len(q))
    BY <1>1, <1>4, <1>9
  <2>2. pc \in {"get", "too_small"} => n < Len(q)
    BY <1>4, <1>8
  <2> QED BY <1>4, <1>10, <2>1, <2>2 DEF Fifo!WantsMore
<1>12. ~Fifo!TakesMore(request, q, n)
  <2>1. CASE pc = "too_small"
    <3>1. Fifo!Bytes(Fifo!Prefix(q, n + 1)) = messages_size
      BY <1>4, <1>8, <2>1
    <3>2. ~(messages_size <= request.msg_buffer_size)
      <4>1. request.msg_buffer_size \in Nat
        BY <1>2, RequestAssumption
      <4>2. messages_size \in Nat
        <5>1. Left[1] \in Message /\ bytes_read \in Nat
          BY <1>1, <1>4, <2>1, BytesOfOthers, SumsStep
        <5>2. Len(Left[1]) \in Nat
          BY <5>1, MessageTyped
        <5> DEFINE l == Len(Left[1])
        <5>3. messages_size = bytes_read + HeaderSize + l
          BY <1>4, <2>1
        <5>4. l \in Nat
          BY <5>2
        <5> HIDE DEF l
        <5> QED BY <5>1, <5>3, <5>4, HeaderAssumption
      <4> QED BY <1>4, <2>1, <4>1, <4>2 DEF TooSmall
    <3> QED BY <3>1, <3>2 DEF Fifo!TakesMore
  <2>2. CASE pc # "too_small"
    BY <1>11, <2>2 DEF Fifo!TakesMore
  <2> QED BY <2>1, <2>2
<1>13. Fifo!Count(request, q) = n
  <2>1. \A k \in 0..n - 1 : Fifo!TakesMore(request, q, k)
    BY <1>2 DEF q
  <2> HIDE DEF n
  <2> QED BY <1>7, <1>12, <2>1, Fifo!CountIs
<1>14. Fifo!Rest(request, q) = Left
  <2>1. SubSeq(q, n + 1, Len(q)) = Left
    <3> DEFINE r == SubSeq(q, n + 1, Len(q))
    <3>1. \A k \in n + 1..Len(q) : q[k] \in Message
      BY <1>1, <1>7
    <3>2. /\ r \in Seq(Message)
          /\ Len(r) = IF n + 1 <= Len(q) THEN Len(q) - (n + 1) + 1 ELSE 0
          /\ \A k \in 1..Len(q) - (n + 1) + 1 : r[k] = q[n + 1 + k - 1]
      <4>1. n + 1 \in Int /\ Len(q) \in Int
        BY <1>1, <1>7
      <4> QED BY <3>1, <4>1, SubSeqProperties
    <3>3. Len(q) - (n + 1) + 1 = Len(Left) /\ (~(n + 1 <= Len(q)) => Len(Left) = 0)
      BY <1>1, <1>7
    <3> HIDE DEF r
    <3>4. ASSUME NEW k \in 1..Len(Left) PROVE r[k] = Left[k]
      <4>1. r[k] = q[n + 1 + k - 1]
        BY <3>2, <3>3
      <4> DEFINE j == n + 1 + k - 1
      <4>2. j \in 1..Len(Taken) + Len(Left) /\ ~(j <= Len(Taken)) /\ j - Len(Taken) = k
        BY <1>1
      <4> HIDE DEF j
      <4>3. q[j] = Left[k]
        BY <1>1, <4>2, ConcatProperties DEF q
      <4> QED BY <4>1, <4>3 DEF j
    <3> QED BY <1>1, <3>2, <3>3, <3>4, SeqEqual DEF r
  <2> QED BY <1>13, <2>1 DEF Fifo!Rest
<1>15. parse_messages(messages_read, msg_buffer).messages = Taken
  BY <1>1, <1>2, Reparsed
<1>16. result' = Fifo!Reply(request, q)
  <2>1. messages_size = Fifo!Bytes(Fifo!Prefix(q, IF pc = "too_small" THEN n + 1 ELSE n))
    BY <1>1, <1>4, <1>7, <1>8
  <2>2. result' = [op            |-> "get",
                   status        |-> IF pc = "too_small" THEN "Q_MSG_BUFFER_TOO_SMALL"
                                                         ELSE "Q_SUCCESS",
                   messages      |-> Taken,
                   messages_size |-> messages_size]
    BY <1>15 DEF EndGet
  <2> QED BY <1>7, <1>11, <1>13, <2>1, <2>2 DEF Fifo!Reply
<1>17. q # <<>>
  <2>1. Len(q) > 0
    BY <1>1, <1>4, <1>7, <1>8
  <2> QED BY <2>1, EmptySeq
<1> HIDE DEF VisibleQueue
<1>18. Fifo!Get(request)
  BY <1>2, <1>6, <1>19, <1>14, <1>16, <1>17 DEF Fifo!Get
<1>20. size > 0 <=> Left # <<>>
  <2>1. Uncounted = 0
    BY DEF EndGet, LoopEnded, Uncounted
  <2> QED BY <2>1, Counted
<1> QED BY <1>2, <1>6, <1>13, <1>18, <1>19, <1>20

(* The queue is as whoever is about to call finds it: what the buffer      *)
(* holds.                                                                  *)
LEMMA VisibleIdle ==
    ASSUME IInv, ~InPut, ~InGet
    PROVE  /\ VisibleQueue = Left /\ Left \in Seq(Message)
           /\ Len(Left) = num_elem /\ size = Fifo!Bytes(Left)
           /\ size > 0 <=> Left # <<>>
           /\ Fifo!Bytes(Left) \in Nat /\ num_elem \in Nat
<1> USE DEF InPut, InGet
<1>1. Uncounted = 0 /\ FramesQueued = num_elem /\ i = 0 /\ num_elem \in Nat
  BY DEF IInv, Types, CallKnown, Uncounted, FramesQueued
<1>2. Taken = <<>>
  BY NothingTakenYet
<1> HIDE DEF Left, Taken
<1>3. /\ Left \in Seq(Message) /\ Len(Left) = num_elem /\ size = Fifo!Bytes(Left)
      /\ size > 0 <=> Left # <<>>
      /\ Fifo!Bytes(Left) \in Nat
  BY <1>1, Counted
<1>4. Visible = Left
  <2>1. <<>> \in Seq(Message) /\ <<>> \o Left = Left
    BY <1>3, EmptySeq, ConcatEmptySeq
  <2>2. <<>> \o Fifo!Prefix(Left, Len(Left) - 0) = <<>> \o Left
    BY <1>3, <2>1, VisibleAll
  <2> QED BY <1>1, <1>2, <2>1, <2>2 DEF Visible
<1> HIDE DEF VisibleQueue, Visible
<1> QED BY <1>1, <1>3, <1>4, VisibleRead

(* A put that does not fit finds the queue too full for its batch, and one *)
(* that gets nothing finds it empty.                                       *)
LEMMA PutFullRefines ==
    ASSUME IInv, IInv', PutFull
    PROVE  Fifo!PutFull(msgs) /\ msgs \in Batch
<1>1. /\ VisibleQueue = Left /\ Left \in Seq(Message)
      /\ Len(Left) = num_elem /\ size = Fifo!Bytes(Left)
  BY VisibleIdle DEF PutFull, InPut, InGet
<1>2. /\ Taken' = Taken /\ Left' = Left /\ i' = i
      /\ msgs \in Batch /\ result = Fifo!Putting(msgs)
      /\ result' = Fifo!PutReply("Q_FULL")
  BY PutFullInv DEF PutFull, IInv, CallKnown
<1> HIDE DEF Left, Taken, VisibleQueue
<1>3. VisibleQueue' = VisibleQueue
  BY <1>2, SameVisible
<1>4. ~Fifo!Fits(VisibleQueue, msgs)
  BY <1>1 DEF PutFull, can_fit, total_size, Fifo!Fits, Fifo!can_fit
<1>5. Fifo!PutFull(msgs)
  BY <1>2, <1>3, <1>4 DEF Fifo!PutFull
<1> QED BY <1>2, <1>5

LEMMA GetEmptyRefines ==
    ASSUME IInv, IInv', GetEmpty
    PROVE  Fifo!GetEmpty(request) /\ request \in Request
<1>1. VisibleQueue = Left /\ (size > 0 <=> Left # <<>>) /\ size \in Nat
  BY VisibleIdle, ContentsTyped DEF GetEmpty, InPut, InGet, IInv
<1>2. /\ Taken' = Taken /\ Left' = Left /\ i' = i
      /\ request \in Request /\ result = Fifo!Getting(request)
      /\ result' = Fifo!EmptyReply
  BY GetEmptyInv DEF GetEmpty, put, IInv, CallKnown
<1> HIDE DEF Left, Taken, VisibleQueue
<1>3. VisibleQueue' = VisibleQueue
  BY <1>2, SameVisible
<1>4. VisibleQueue = <<>>
  BY <1>1 DEF GetEmpty
<1>5. Fifo!GetEmpty(request)
  BY <1>2, <1>3, <1>4 DEF Fifo!GetEmpty
<1> QED BY <1>2, <1>5

(* A message that is taken out of memory is still in the queue.            *)
LEMMA PopRefines ==
    ASSUME IInv, IInv', PopMessage
    PROVE  UNCHANGED <<VisibleQueue, result>>
<1>1. /\ Taken' = Append(Taken, Left[1]) /\ Left' = Others(Left)
      /\ i' = i /\ i = 0 /\ result' = result /\ Left # <<>>
  BY PopMessageInv DEF PopMessage, put, IInv, CallKnown, InPut, MessagesTaken, InGet
<1>2. Left \in Seq(Message) /\ Taken \in Seq(Message)
  BY Counted
<1> HIDE DEF Left, Taken
<1>3. Left[1] \in Message /\ Others(Left) \in Seq(Message)
  BY <1>1, <1>2, BytesOfOthers
<1>4. Append(Taken, Left[1]) \in Seq(Message)
  BY <1>2, <1>3, BytesOfAppend
<1>5. Visible = Taken \o Left
  BY <1>1, <1>2, VisibleAll DEF Visible
<1>6. Visible' = Append(Taken, Left[1]) \o Others(Left)
  <2>1. Visible' = Taken' \o Fifo!Prefix(Left', Len(Left') - i')
    BY DEF Visible
  <2> QED BY <1>1, <1>3, <1>4, <2>1, VisibleAll
<1>7. Visible' = Visible
  BY <1>1, <1>2, <1>5, <1>6, MoveOne
<1> HIDE DEF VisibleQueue, Visible
<1> QED BY <1>1, <1>7, VisibleRead, VisibleReadNext

(* Nor do the other steps of a call before its last one show.              *)
LEMMA LooksHidden ==
    ASSUME IInv, IInv',
           BeginPut \/ BeginGet \/ WriteSize \/ WriteMessage \/ PeekSize \/ UncountMessage
    PROVE  UNCHANGED <<VisibleQueue, result>>
<1>1. Taken' = Taken /\ Left' = Left
  BY BeginPutInv, BeginGetInv, WriteSizeInv, WriteMessageInv, PeekSizeInv, UncountMessageInv
<1>2. i' = i /\ result' = result
  BY DEF BeginPut, BeginGet, WriteSize, WriteMessage, PeekSize, UncountMessage, put
<1> HIDE DEF Taken, Left, VisibleQueue
<1> QED BY <1>1, <1>2, SameVisible

(* Every step is one of the queue's or shows its callers nothing.          *)
LEMMA StepRefines ==
    ASSUME IInv, IInv', [Next]_vars
    PROVE  [Fifo!Next]_(Fifo!vars)
<1> USE DEF Fifo!vars
<1>1. ASSUME NEW batch \in Batch, LockPut(batch) PROVE Fifo!Next
  <2>1. Taken' = Taken /\ Left' = Left /\ i' = i /\ result' = Fifo!Putting(batch)
    BY <1>1, LockPutInv DEF LockPut, StartPut
  <2>2. VisibleQueue' = VisibleQueue
    <3> HIDE DEF Taken, Left, VisibleQueue
    <3> QED BY <2>1, SameVisible
  <2> QED BY <2>1, <2>2 DEF Fifo!BeginPut, Fifo!Next
<1>2. ASSUME NEW limits \in Request, LockGet(limits) PROVE Fifo!Next
  <2>1. Taken' = Taken /\ Left' = Left /\ i' = i /\ result' = Fifo!Getting(limits)
    BY <1>2, LockGetInv DEF LockGet, StartGet, put
  <2>2. VisibleQueue' = VisibleQueue
    <3> HIDE DEF Taken, Left, VisibleQueue
    <3> QED BY <2>1, SameVisible
  <2> QED BY <2>1, <2>2 DEF Fifo!BeginGet, Fifo!Next
<1>3. CASE BeginPut \/ BeginGet \/ WriteSize \/ WriteMessage \/ PeekSize \/ UncountMessage
  BY <1>3, LooksHidden
<1>4. CASE UNCHANGED vars
  <2>1. Ring!Contents' = Ring!Contents
    BY <1>4, SameBuffer DEF IInv, vars
  <2>2. /\ Popped' = Popped /\ FramesQueued' = FramesQueued
        /\ msg_buffer' = msg_buffer /\ i' = i /\ result' = result
    BY <1>4 DEF vars, put, get, Popped, FramesQueued
  <2>3. VisibleQueue' = VisibleQueue
    BY <2>1, <2>2 DEF VisibleQueue
  <2> QED BY <2>2, <2>3
<1> HIDE DEF VisibleQueue
<1>5. CASE CountMessage
  BY <1>5, CountRefines
<1>6. CASE PopMessage
  BY <1>6, PopRefines
<1>7. CASE PutFull \/ GetEmpty \/ EndPut \/ EndGet
  BY <1>7, PutFullRefines, GetEmptyRefines, EndPutRefines, EndGetRefines DEF Fifo!Next
<1> QED BY <1>1, <1>2, <1>3, <1>4, <1>5, <1>6, <1>7 DEF Next

(* The byte-level critical sections of queue_put and queue_get implement   *)
(* the first-in first-out queue of messages: however many stores a call    *)
(* takes, its batch appears as a whole or not at all, and a get returns,   *)
(* intact and in order, exactly the messages its limits allow.             *)
THEOREM ImplementsFifoQueue == Spec => IsFifoQueue
<1>1. Init => Fifo!Init
  <2> SUFFICES ASSUME Init PROVE Fifo!Init
    OBVIOUS
  <2>1. VisibleQueue = Left /\ Left \in Seq(Message) /\ Len(Left) = 0
    BY InitInv, VisibleIdle DEF Init, InPut, InGet
  <2> HIDE DEF VisibleQueue, Left
  <2>2. VisibleQueue = <<>>
    BY <2>1, EmptySeq
  <2> QED BY <2>2 DEF Init, Fifo!Init
<1>2. IInv /\ IInv' /\ [Next]_vars => [Fifo!Next]_(Fifo!vars)
  BY StepRefines
<1> QED BY <1>1, <1>2, Invariance, PTL DEF Spec, IsFifoQueue, Fifo!Spec
-----------------------------------------------------------------------------
(* The observers.  Those who only look change nothing of the queue.        *)
LEMMA ObserversOnlyLook == ObservedSpec => Spec
<1>1. ObservedInit => Init
  BY DEF ObservedInit
<1>2. [ObservedNext]_ovars => [Next]_vars
  BY DEF ObservedNext, ReadSize, ReadNumElem, ovars
<1> QED BY <1>1, <1>2, PTL DEF ObservedSpec, Spec

(* The sums of the bytes only grow along a queue. *)
LEMMA SumsGrow ==
    ASSUME NEW q \in Seq(Message), NEW n \in 0..Len(q), NEW m \in 0..Len(q), n <= m
    PROVE  Fifo!Sums(q)[n] <= Fifo!Sums(q)[m]
<1> DEFINE r == SubSeq(q, n + 1, Len(q))
           N == Len(q) - n
<1>1. /\ n \in Nat /\ m \in Nat /\ Len(q) \in Nat /\ n + 1 \in Int /\ Len(q) \in Int
      /\ N \in Nat /\ N + n = Len(q)
  OBVIOUS
<1>2. \A k \in n + 1..Len(q) : q[k] \in Message
  BY <1>1
<1>3. /\ r \in Seq(Message)
      /\ Len(r) = IF n + 1 <= Len(q) THEN Len(q) - (n + 1) + 1 ELSE 0
      /\ \A k \in 1..Len(q) - (n + 1) + 1 : r[k] = q[n + 1 + k - 1]
  BY <1>1, <1>2, SubSeqProperties
<1> HIDE DEF r
<1>4. Len(r) = N /\ \A k \in 1..N : q[n + k] = r[k]
  <2>1. Len(q) - (n + 1) + 1 = N /\ (~(n + 1 <= Len(q)) => N = 0)
    <3> DEFINE l == Len(q)
    <3>1. l \in Nat /\ n \in 0..l
      BY <1>1
    <3> HIDE DEF l
    <3>2. l - (n + 1) + 1 = l - n /\ (~(n + 1 <= l) => l - n = 0)
      BY <3>1
    <3> QED BY <3>2 DEF l
  <2>2. \A k \in 1..N : n + 1 + k - 1 = n + k
    BY <1>1
  <2> HIDE DEF N
  <2> QED BY <1>3, <2>1, <2>2
<1> DEFINE d == m - n
<1>5. d \in 0..N /\ n + d = m
  BY <1>1
<1> HIDE DEF N, d
<1>6. Fifo!Sums(q)[n + d] = Fifo!Sums(q)[n] + Fifo!Sums(r)[d]
  <2>1. N <= Len(r) /\ n + N <= Len(q)
    BY <1>1, <1>4
  <2>2. r \in Seq(Message) /\ n \in Nat /\ N \in Nat /\ \A k \in 1..N : q[n + k] = r[k]
    BY <1>1, <1>3, <1>4
  <2>3. \A k \in 0..N : Fifo!Sums(q)[n + k] = Fifo!Sums(q)[n] + Fifo!Sums(r)[k]
    BY <2>1, <2>2, MessagesSized, Fifo!SumsShift, Zenon
  <2> QED BY <1>5, <2>3
<1>7. Fifo!Sums(q)[n] \in Nat /\ Fifo!Sums(r)[d] \in Nat
  <2>1. d \in 0..Len(r)
    BY <1>4, <1>5
  <2> QED BY <1>3, <2>1, SumsStep
<1> QED BY <1>5, <1>6, <1>7

(* While a put is under way num_elem counts what it has added of its batch *)
(* and size what it has written of it.                                     *)
LEMMA HonestInPut ==
    ASSUME IInv, InPut
    PROVE  /\ Len(VisibleQueue) <= num_elem
           /\ num_elem <= Len(QueueAfter)
           /\ Fifo!Bytes(VisibleQueue) <= size
           /\ size <= Fifo!Bytes(QueueAfter)
<1> DEFINE q == Fifo!Prefix(Left, Len(Left) - i)
           L == Len(Left)
           b == Fifo!Bytes(msgs)
<1>1. QueueAfter = VisibleQueue \o msgs
  BY DEF QueueAfter, InPut
<1>2. /\ Left \in Seq(Message) /\ L \in Nat /\ Fifo!Bytes(Left) \in Nat
      /\ size = Fifo!Bytes(Left) + Uncounted /\ L = num_elem
  <2>1. FramesQueued = num_elem
    BY DEF IInv, Types, InPut, FramesQueued
  <2> HIDE DEF Left
  <2> QED BY <2>1, Counted
<1>3. /\ i \in Nat /\ i <= Len(msgs) /\ msgs \in Seq(Message) /\ i <= L
      /\ pc # "put" => i < Len(msgs)
      /\ \A k \in 1..i : Left[L - i + k] = msgs[k]
  BY DEF IInv, Types, BatchAdded
<1>4. Taken = <<>>
  BY NothingTakenYet DEF InPut, InGet
<1> HIDE DEF Left, Taken
<1>5. L - i \in 0..L /\ L - i \in Nat /\ (L - i) + i = L
  BY <1>2, <1>3
<1>6. q \in Seq(Message) /\ Len(q) = L - i
  <2> DEFINE d == L - i
  <2>1. d \in Nat /\ d <= L
    BY <1>5
  <2> HIDE DEF d
  <2>2. \A n \in 1..d : Left[n] \in Message
    BY <1>2, <2>1
  <2>3. /\ SubSeq(Left, 1, d) \in Seq(Message)
        /\ Len(SubSeq(Left, 1, d)) = IF 1 <= d THEN d - 1 + 1 ELSE 0
    BY <2>1, <2>2, SubSeqProperties
  <2>4. d - 1 + 1 = d /\ (~(1 <= d) => d = 0)
    BY <2>1
  <2> QED BY <2>3, <2>4 DEF Fifo!Prefix, d
<1>7. VisibleQueue = q
  <2>1. <<>> \o q = q
    BY <1>6, ConcatEmptySeq
  <2>2. Visible = q
    BY <1>4, <2>1 DEF Visible
  <2> HIDE DEF VisibleQueue, Visible
  <2> QED BY <2>2, VisibleRead
<1>8. Fifo!Bytes(q) = Fifo!Sums(Left)[L - i]
  BY <1>2, <1>5, MessagesSized, Fifo!PrefixBytes
<1>9. Fifo!Bytes(Left) = Fifo!Bytes(q) + Fifo!Sums(msgs)[i]
  <2> DEFINE d == L - i
  <2>1. d \in Nat /\ i <= Len(msgs) /\ d + i <= Len(Left) /\ i \in 0..i /\ d + i = L
    BY <1>3, <1>5
  <2>2. \A k \in 1..i : Left[d + k] = msgs[k]
    BY <1>3
  <2> HIDE DEF d
  <2>3. \A n \in 0..i : Fifo!Sums(Left)[d + n] = Fifo!Sums(Left)[d] + Fifo!Sums(msgs)[n]
    BY <1>2, <1>3, <2>1, <2>2, MessagesSized, Fifo!SumsShift
  <2>4. Fifo!Sums(Left)[L] = Fifo!Sums(Left)[d] + Fifo!Sums(msgs)[i]
    BY <2>1, <2>3
  <2> QED BY <1>8, <2>4 DEF d, Fifo!Bytes
<1>10. /\ Uncounted \in Nat /\ Fifo!Sums(msgs)[i] \in Nat /\ b \in Nat
       /\ Fifo!Sums(msgs)[i] + Uncounted <= b
  <2>1. i \in 0..Len(msgs)
    BY <1>3
  <2>2. Fifo!Sums(msgs)[i] \in Nat /\ Fifo!Sums(msgs)[i] <= b /\ b \in Nat
    BY <1>3, <2>1, SumsStep
  <2>3. CASE pc = "put"
    BY <2>2, <2>3 DEF Uncounted
  <2>4. CASE pc # "put"
    <3> DEFINE j == i + 1
    <3>1. j \in 1..Len(msgs) /\ j \in 0..Len(msgs) /\ j - 1 = i
      BY <1>3, <2>4
    <3> HIDE DEF j
    <3>2. /\ Fifo!Sums(msgs)[j] = Fifo!Sums(msgs)[i] + HeaderSize + Len(msgs[j])
          /\ Len(msgs[j]) \in Nat /\ Fifo!Sums(msgs)[j] <= b
      BY <1>3, <3>1, SumsStep
    <3> DEFINE l == Len(msgs[j])
    <3>3. Uncounted = HeaderSize \/ Uncounted = HeaderSize + l
      BY <2>4 DEF InPut, Uncounted, MsgSize, j
    <3>4. l \in Nat /\ Fifo!Sums(msgs)[i] + HeaderSize + l <= b
      BY <3>2
    <3> HIDE DEF l
    <3> QED BY <2>2, <3>3, <3>4, HeaderAssumption
  <2> QED BY <2>3, <2>4
<1> HIDE DEF q, b, L, VisibleQueue
<1>11. Len(q \o msgs) = Len(q) + Len(msgs) /\ Len(msgs) \in Nat
  <2>1. Len(msgs) \in Nat
    BY <1>3
  <2> QED BY <1>3, <1>6, <2>1, ConcatProperties
<1>12. Fifo!Bytes(q \o msgs) = Fifo!Bytes(q) + b /\ Fifo!Bytes(q) \in Nat
  BY <1>3, <1>6, MessagesSized, Fifo!BytesOfConcat, SumsStep DEF b
<1>13. Len(q) <= num_elem /\ num_elem <= Len(q \o msgs)
  BY <1>2, <1>3, <1>6, <1>11
<1>14. Fifo!Bytes(q) <= size /\ size <= Fifo!Bytes(q \o msgs)
  BY <1>2, <1>9, <1>10, <1>12
<1> QED BY <1>1, <1>7, <1>13, <1>14

(* While a get is under way num_elem still counts the message it is about  *)
(* to, and size the bytes it has not taken: never more than it found, nor  *)
(* less than it leaves, for it may take whatever it has taken.             *)
LEMMA HonestInGet ==
    ASSUME IInv, InGet
    PROVE  /\ Len(QueueAfter) <= num_elem
           /\ num_elem <= Len(VisibleQueue)
           /\ Fifo!Bytes(QueueAfter) <= size
           /\ size <= Fifo!Bytes(VisibleQueue)
<1> DEFINE q == Taken \o Left
           t == Len(Taken)
           c == Fifo!Count(request, q)
<1>1. QueueAfter = Fifo!Rest(request, VisibleQueue)
  BY DEF QueueAfter, InGet
<1>2. /\ Left \in Seq(Message) /\ Taken \in Seq(Message) /\ Len(Left) \in Nat
      /\ t \in Nat /\ Fifo!Bytes(Left) \in Nat /\ Fifo!Bytes(Taken) \in Nat
      /\ size = Fifo!Bytes(Left)
      /\ num_elem = Len(Left) \/ (num_elem = Len(Left) + 1 /\ t > 0)
  <2>1. Uncounted = 0
    BY DEF InGet, Uncounted
  <2>2. /\ num_elem \in Nat /\ messages_read \in Nat
        /\ FramesQueued = num_elem - (IF pc = "uncount" THEN 1 ELSE 0)
        /\ Popped = messages_read + (IF pc = "uncount" THEN 1 ELSE 0)
    BY DEF IInv, Types, FramesQueued, Popped
  <2> HIDE DEF Left, Taken
  <2>3. Len(Left) = FramesQueued /\ t = Popped
    BY Counted
  <2>4. num_elem = Len(Left) \/ (num_elem = Len(Left) + 1 /\ t > 0)
    BY <2>2, <2>3
  <2> HIDE DEF t
  <2> QED BY <2>1, <2>4, Counted DEF t
<1>3. i = 0 /\ t = Popped /\ \A k \in 0..Popped - 1 : Fifo!TakesMore(request, q, k)
  <2>1. i = 0
    BY DEF IInv, CallKnown, InPut, InGet
  <2>2. \A k \in 0..Popped - 1 : Fifo!TakesMore(request, q, k)
    BY DEF IInv, MessagesTaken
  <2> QED BY <2>1, <2>2, Counted
<1> HIDE DEF Left, Taken
<1>4. VisibleQueue = q
  <2>1. Visible = q
    BY <1>2, <1>3, VisibleAll DEF Visible
  <2> HIDE DEF VisibleQueue, Visible
  <2> QED BY <2>1, VisibleRead
<1>5. /\ q \in Seq(Message) /\ Len(q) = t + Len(Left) /\ Fifo!Prefix(q, t) = Taken
      /\ Fifo!Bytes(q) = Fifo!Bytes(Taken) + Fifo!Bytes(Left)
      /\ t \in 0..Len(q)
  <2>1. q \in Seq(Message) /\ Len(q) = t + Len(Left)
    BY <1>2, ConcatProperties
  <2>2. Fifo!Prefix(q, t) = Taken
    BY <1>2, PrefixOfConcat
  <2>3. Fifo!Bytes(q) = Fifo!Bytes(Taken) + Fifo!Bytes(Left)
    BY <1>2, MessagesSized, Fifo!BytesOfConcat
  <2> HIDE DEF q, t
  <2> QED BY <1>2, <2>1, <2>2, <2>3
<1> HIDE DEF q, t
<1>6. c \in 0..Len(q) /\ ~Fifo!TakesMore(request, q, c)
  BY <1>5, Fifo!CountInRange
<1> HIDE DEF c
<1>7. t <= c
  <2>1. c < t => c \in 0..t - 1
    BY <1>2, <1>6
  <2>2. c \in Nat /\ t \in Nat
    BY <1>2, <1>5, <1>6
  <2> QED BY <1>3, <1>6, <2>1, <2>2
<1>8. /\ Fifo!Rest(request, q) = SubSeq(q, c + 1, Len(q))
      /\ Len(Fifo!Rest(request, q)) = Len(q) - c
  <2>1. c \in Nat /\ c <= Len(q) /\ Len(q) \in Nat /\ c + 1 \in Int /\ Len(q) \in Int
    BY <1>5, <1>6
  <2>2. \A k \in c + 1..Len(q) : q[k] \in Message
    BY <1>5, <2>1
  <2>3. Len(SubSeq(q, c + 1, Len(q))) = IF c + 1 <= Len(q) THEN Len(q) - (c + 1) + 1 ELSE 0
    BY <2>1, <2>2, SubSeqProperties
  <2>4. Len(SubSeq(q, c + 1, Len(q))) = Len(q) - c
    BY <2>1, <2>3
  <2> QED BY <2>4 DEF Fifo!Rest, c
<1>9. /\ Fifo!Bytes(q) = Fifo!Sums(q)[c] + Fifo!Bytes(Fifo!Rest(request, q))
      /\ Fifo!Sums(q)[c] \in Nat /\ Fifo!Bytes(Fifo!Rest(request, q)) \in Nat
  <2>1. Fifo!Bytes(q) = Fifo!Sums(q)[c] + Fifo!Bytes(Fifo!Rest(request, q))
    BY <1>5, MessagesSized, Fifo!BytesOfRest DEF c
  <2>2. Fifo!Rest(request, q) \in Seq(Message)
    BY <1>5, Fifo!RestIsSuffix
  <2> QED BY <1>5, <1>6, <2>1, <2>2, SumsStep
<1>10. Fifo!Bytes(Taken) = Fifo!Sums(q)[t] /\ Fifo!Sums(q)[t] <= Fifo!Sums(q)[c]
  <2>1. Fifo!Bytes(Fifo!Prefix(q, t)) = Fifo!Sums(q)[t]
    BY <1>5, MessagesSized, Fifo!PrefixBytes
  <2> QED BY <1>5, <1>6, <1>7, <2>1, SumsGrow
<1> DEFINE rest == Fifo!Rest(request, q)
<1>11. Fifo!Bytes(rest) <= size /\ size <= Fifo!Bytes(q)
  <2> DEFINE b == Fifo!Bytes(rest)
             s == Fifo!Sums(q)[c]
             bt == Fifo!Bytes(Taken)
  <2>1. /\ b \in Nat /\ s \in Nat /\ bt \in Nat /\ size \in Nat
        /\ s + b = bt + size /\ bt <= s /\ Fifo!Bytes(q) = bt + size
    BY <1>2, <1>5, <1>9, <1>10
  <2> HIDE DEF b, s, bt, rest
  <2>2. b <= size /\ size <= Fifo!Bytes(q)
    BY <2>1
  <2> QED BY <2>2 DEF b
<1>12. Len(rest) <= num_elem /\ num_elem <= Len(q)
  <2> DEFINE r == Len(rest)
             l == Len(Left)
             n == Len(q)
  <2>1. /\ r = n - c /\ n = t + l /\ l \in Nat /\ t \in Nat /\ c \in 0..n /\ t <= c
        /\ num_elem = l \/ (num_elem = l + 1 /\ t > 0)
    BY <1>2, <1>5, <1>6, <1>7, <1>8
  <2> HIDE DEF r, l, n, rest
  <2>2. r <= num_elem /\ num_elem <= n
    BY <2>1
  <2> QED BY <2>2 DEF r, n
<1> HIDE DEF rest, VisibleQueue
<1> QED BY <1>1, <1>4, <1>11, <1>12 DEF rest

(* qsize(), data_size() and empty(), which take no lock, never show a      *)
(* number outside of those before and after the call that is under way.    *)
THEOREM SizesHonestCorrect == ObservedSpec => []SizesHonest
<1>1. ASSUME IInv PROVE SizesHonest
  <2> DEFINE before == VisibleQueue
             after  == QueueAfter
  <2>1. CASE InPut
    <3>1. /\ Len(before) <= num_elem /\ num_elem <= Len(after)
          /\ Fifo!Bytes(before) <= size /\ size <= Fifo!Bytes(after)
      BY <1>1, <2>1, HonestInPut
    <3> HIDE DEF before, after
    <3>2. /\ Bounds(get_queue_size, Len(before), Len(after))
          /\ Bounds(get_data_size, Fifo!Bytes(before), Fifo!Bytes(after))
      BY <3>1 DEF Bounds, get_queue_size, get_data_size
    <3> QED BY <3>2 DEF SizesHonest, before, after
  <2>2. CASE InGet
    <3>1. /\ Len(after) <= num_elem /\ num_elem <= Len(before)
          /\ Fifo!Bytes(after) <= size /\ size <= Fifo!Bytes(before)
      BY <1>1, <2>2, HonestInGet
    <3> HIDE DEF before, after
    <3>2. /\ Bounds(get_queue_size, Len(before), Len(after))
          /\ Bounds(get_data_size, Fifo!Bytes(before), Fifo!Bytes(after))
      BY <3>1 DEF Bounds, get_queue_size, get_data_size
    <3> QED BY <3>2 DEF SizesHonest, before, after
  <2>3. CASE ~InPut /\ ~InGet
    <3>1. /\ Len(before) = num_elem /\ size = Fifo!Bytes(before) /\ num_elem \in Nat
          /\ size \in Nat
      BY <1>1, <2>3, VisibleIdle
    <3>2. after = before
      BY <2>3 DEF QueueAfter, InPut, InGet
    <3> HIDE DEF before, after
    <3>3. /\ Bounds(get_queue_size, Len(before), Len(after))
          /\ Bounds(get_data_size, Fifo!Bytes(before), Fifo!Bytes(after))
      BY <3>1, <3>2 DEF Bounds, get_queue_size, get_data_size
    <3> QED BY <3>3 DEF SizesHonest, before, after
  <2> QED BY <2>1, <2>2, <2>3
<1> QED BY <1>1, ObserversOnlyLook, Invariance, PTL

(* full() between its two reads.  What it has seen of size is remembered;  *)
(* and as long as there was room at no instant since, the last place is    *)
(* taken and bytes are free: no put can begin, and where a get gives the   *)
(* place back there is room.                                               *)
NoPlaceLeft == num_elem = maxsize /\ size + min_message_size <= max_size_bytes

FullRemembered ==
    between => /\ FullNow \in truths
               /\ cond_size \/ TRUE \in truths
               /\ cond_size => FALSE \in truths \/ NoPlaceLeft

LEMMA OnlyGetsMove ==
    ASSUME IInv, NoPlaceLeft, Next
    PROVE  /\ size' \in Nat /\ size' <= size
           /\ num_elem' = num_elem \/ num_elem' = num_elem - 1
<1>1. size \in Nat /\ HeaderSize \in Nat /\ maxsize \in Nat /\ num_elem = maxsize
  BY ContentsTyped, HeaderAssumption, CapacityAssumption DEF IInv, NoPlaceLeft
<1>2. ASSUME InPut PROVE pc = "put" /\ i = Len(msgs)
  <2>1. FramesQueued = num_elem
    BY <1>2 DEF InPut, FramesQueued, IInv, Types
  <2>2. /\ Len(Left) - i + Len(msgs) <= maxsize /\ i <= Len(msgs) /\ i \in Nat
        /\ Len(msgs) \in Nat
        /\ pc # "put" => i < Len(msgs)
    BY <1>2 DEF IInv, BatchAdded, Types
  <2>3. Len(Left) = maxsize
    <3> HIDE DEF Left
    <3> QED BY <1>1, <2>1, Counted
  <2> DEFINE l == Len(Left)
             m == Len(msgs)
  <2>4. /\ l = maxsize /\ l - i + m <= maxsize /\ i <= m /\ m \in Nat /\ i \in Nat
        /\ pc # "put" => i < m
    BY <2>2, <2>3
  <2> HIDE DEF l, m
  <2>5. ~(i < m)
    BY <1>1, <2>4
  <2>6. pc = "put" /\ i = m
    BY <2>4, <2>5
  <2> QED BY <2>6 DEF m
<1>3. CASE PopMessage
  <2>1. msg_size \in Nat
    BY <1>3, MessageTyped DEF IInv, Types, Sizes, MsgSize
  <2>2. size' = size - (HeaderSize + msg_size) /\ num_elem' = num_elem
    BY <1>3 DEF PopMessage, Ring!circular_buffer_read
  <2>3. size' \in Nat
    BY <1>3, PopMessageInv, ContentsTypedNext DEF IInv
  <2>4. size' <= size
    BY <1>1, <2>1, <2>2
  <2> QED BY <2>2, <2>3, <2>4
<1>4. CASE PeekSize
  BY <1>1, <1>4 DEF PeekSize, Ring!circular_buffer_read
<1>5. CASE UncountMessage
  BY <1>1, <1>5 DEF UncountMessage, ring
<1>6. CASE WriteSize \/ WriteMessage \/ CountMessage
  <2>1. InPut /\ ~(pc = "put" /\ i = Len(msgs))
    <3>1. InPut /\ (pc = "put" => i < Len(msgs)) /\ i \in Nat /\ Len(msgs) \in Nat
      BY <1>6 DEF WriteSize, WriteMessage, CountMessage, InPut, IInv, Types
    <3> QED BY <3>1
  <2> QED BY <1>2, <2>1
<1>7. CASE UNCHANGED <<ring, num_elem>>
  BY <1>1, <1>7 DEF ring
<1> QED BY <1>3, <1>4, <1>5, <1>6, <1>7
        DEF Next, LockPut, StartPut, BeginPut, PutFull, EndPut, LockGet, StartGet, BeginGet,
            GetEmpty, EndGet

LEMMA FullRememberedNext ==
    ASSUME IInv, FullRemembered, [ObservedNext]_ovars
    PROVE  FullRemembered'
<1>1. CASE ReadSize
  <2>1. /\ cond_size' = (size + min_message_size <= max_size_bytes)
        /\ truths' = {FullNow} /\ UNCHANGED <<size, num_elem>>
    BY <1>1 DEF ReadSize, can_fit_operands, vars, ring
  <2>2. FullNow' = FullNow /\ NoPlaceLeft' = NoPlaceLeft
    BY <2>1 DEF FullNow, can_fit, NoPlaceLeft
  <2>3. num_elem \in Nat /\ maxsize \in Nat /\ num_elem <= maxsize
    BY TypesHold, CapacityAssumption DEF TypeOK
  <2>4. FullNow <=> ~(size + min_message_size <= max_size_bytes /\ num_elem + 1 <= maxsize)
    BY DEF FullNow, can_fit
  <2>5. cond_size' => ~FullNow \/ NoPlaceLeft
    <3> DEFINE fits == size + min_message_size <= max_size_bytes
    <3>1. num_elem + 1 <= maxsize \/ num_elem = maxsize
      BY <2>3
    <3>2. cond_size' = fits /\ (FullNow <=> ~(fits /\ num_elem + 1 <= maxsize))
      BY <2>1, <2>4
    <3>3. NoPlaceLeft <=> num_elem = maxsize /\ fits
      BY DEF NoPlaceLeft
    <3> HIDE DEF fits
    <3> QED BY <3>1, <3>2, <3>3
  <2>6. ~cond_size' => FullNow
    BY <2>1, <2>4
  <2>7. FullNow \in BOOLEAN
    BY DEF FullNow
  <2> HIDE DEF FullNow, NoPlaceLeft
  <2> QED BY <2>1, <2>2, <2>5, <2>6, <2>7 DEF FullRemembered
<1>2. CASE ReadNumElem
  BY <1>2 DEF ReadNumElem, FullRemembered
<1>3. CASE Next /\ truths' = (IF between THEN truths \cup {FullNow'} ELSE {})
                /\ UNCHANGED <<between, cond_size>>
  <2> SUFFICES ASSUME between
               PROVE  /\ FullNow' \in truths'
                      /\ cond_size \/ TRUE \in truths'
                      /\ cond_size => FALSE \in truths' \/ NoPlaceLeft'
    BY <1>3 DEF FullRemembered
  <2>1. truths' = truths \cup {FullNow'}
    BY <1>3
  <2>2. /\ cond_size \/ TRUE \in truths
        /\ cond_size => FALSE \in truths \/ NoPlaceLeft
    BY DEF FullRemembered
  <2>3. NoPlaceLeft => NoPlaceLeft' \/ ~FullNow'
    <3> SUFFICES ASSUME NoPlaceLeft, ~NoPlaceLeft'
                 PROVE  ~FullNow'
      OBVIOUS
    <3>1. /\ size' \in Nat /\ size' <= size /\ size \in Nat
          /\ num_elem' = num_elem \/ num_elem' = num_elem - 1
      BY <1>3, OnlyGetsMove, ContentsTyped DEF IInv
    <3>2. /\ num_elem = maxsize /\ size + min_message_size <= max_size_bytes
          /\ maxsize \in Nat /\ max_size_bytes \in Nat /\ min_message_size \in Nat
      BY CapacityAssumption, HeaderAssumption DEF NoPlaceLeft, min_message_size
    <3> HIDE DEF min_message_size, FullNow, NoPlaceLeft
    <3>3. size' + min_message_size <= max_size_bytes
      <4> DEFINE s == size'
                 m == min_message_size
      <4>1. /\ s \in Nat /\ s <= size /\ size \in Nat /\ m \in Nat
            /\ max_size_bytes \in Nat /\ size + m <= max_size_bytes
        BY <3>1, <3>2
      <4> HIDE DEF s, m
      <4>2. s + m <= max_size_bytes
        BY <4>1
      <4> QED BY <4>2 DEF s, m
    <3>4. ~(num_elem' = maxsize)
      BY <3>3 DEF NoPlaceLeft, min_message_size
    <3>5. num_elem' + 1 <= maxsize
      BY <3>1, <3>2, <3>4
    <3> QED BY <3>3, <3>5 DEF FullNow, can_fit, min_message_size
  <2>4. FullNow' \in BOOLEAN
    BY DEF FullNow
  <2> HIDE DEF FullNow, NoPlaceLeft
  <2> QED BY <2>1, <2>2, <2>3, <2>4
<1>4. CASE UNCHANGED ovars
  BY <1>4 DEF ovars, full, vars, ring, FullRemembered, NoPlaceLeft, FullNow, can_fit
<1> QED BY <1>1, <1>2, <1>3, <1>4 DEF ObservedNext

(* full(), which reads size and num_elem at two different moments, never   *)
(* answers what was so at no instant between them.                         *)
THEOREM FullHonestCorrect == ObservedSpec => FullHonest
<1>1. ObservedInit => FullRemembered
  BY DEF ObservedInit, FullRemembered
<1>2. IInv /\ FullRemembered /\ [ObservedNext]_ovars => FullRemembered'
  BY FullRememberedNext
<1>3. IInv /\ FullRemembered => [ReadNumElem => is_queue_full \in truths]_ovars
  <2> SUFFICES ASSUME IInv, FullRemembered, between
               PROVE  is_queue_full \in truths
    BY DEF ReadNumElem
  <2>1. /\ FullNow \in truths
        /\ cond_size \/ TRUE \in truths
        /\ cond_size => FALSE \in truths \/ NoPlaceLeft
    BY DEF FullRemembered
  <2>2. FullNow <=> ~(size + min_message_size <= max_size_bytes /\ num_elem + 1 <= maxsize)
    BY DEF FullNow, can_fit
  <2>3. is_queue_full <=> ~(cond_size /\ num_elem + 1 <= maxsize)
    BY DEF is_queue_full, can_fit_operands
  <2>4. NoPlaceLeft => ~(num_elem + 1 <= maxsize)
    <3>1. maxsize \in Nat
      BY CapacityAssumption
    <3> QED BY <3>1 DEF NoPlaceLeft
  <2>5. FullNow \in BOOLEAN /\ is_queue_full \in BOOLEAN
    BY DEF FullNow, is_queue_full
  <2>6. CASE is_queue_full
    <3>1. TRUE \in truths
      <4>1. CASE ~cond_size
        BY <2>1, <4>1
      <4>2. CASE ~(num_elem + 1 <= maxsize)
        <5>1. FullNow = TRUE
          BY <2>2, <2>5, <4>2
        <5> QED BY <2>1, <5>1
      <4> QED BY <2>3, <2>6, <4>1, <4>2
    <3> HIDE DEF is_queue_full
    <3>2. is_queue_full = TRUE
      BY <2>5, <2>6
    <3> QED BY <3>1, <3>2
  <2>7. CASE ~is_queue_full
    <3>1. FALSE \in truths
      BY <2>1, <2>3, <2>4, <2>7
    <3> HIDE DEF is_queue_full
    <3>2. is_queue_full = FALSE
      BY <2>5, <2>7
    <3> QED BY <3>1, <3>2
  <2> QED BY <2>6, <2>7
<1> QED BY <1>1, <1>2, <1>3, ObserversOnlyLook, Invariance, PTL DEF ObservedSpec, FullHonest
-----------------------------------------------------------------------------
(* The sections of several calls under the mutex (LockedRing).  A call     *)
(* that goes to wait leaves all messages where they are.                   *)
LEMMA WithdrawInv ==
    ASSUME IInv, Withdraw, pc \in {"put_locked", "get_locked"}
    PROVE  IInv' /\ UNCHANGED <<VisibleQueue, result>>
<1> USE DEF Withdraw, InPut, InGet
<1>1. RingOK' /\ Ring!Contents' = Ring!Contents
  BY SameBuffer DEF IInv
<1>2. /\ size' = size /\ Popped' = Popped /\ FramesQueued' = FramesQueued
      /\ msg_buffer' = msg_buffer /\ bytes_read' = bytes_read /\ Uncounted' = Uncounted
  BY DEF Popped, FramesQueued, Uncounted, ring
<1>3. Taken' = Taken /\ Left' = Left /\ Framed'
  BY <1>1, <1>2, StillFramed DEF IInv
<1>4. Types'
  BY EmptySeq DEF IInv, Types, CallKnown
<1>5. NoOverrun'
  BY EmptySeq DEF IInv, NoOverrun, NoRequest, CallKnown
<1>6. BatchAdded' /\ MessagesTaken' /\ CallKnown'
  BY DEF IInv, BatchAdded, MessagesTaken, CallKnown
<1>7. IInv'
  BY <1>1, <1>3, <1>4, <1>5, <1>6 DEF IInv
<1> HIDE DEF VisibleQueue, Taken, Left
<1> QED BY <1>3, <1>7, SameVisible

(* What the threads are at: the types, the batch or the limits of each     *)
(* call inside the queue, and that the local variables are those of the    *)
(* thread that computes.                                                   *)
Places == {"out", "locking", "asleep", "awake"} \cup Inside

ThreadsTyped == /\ where \in [Thread -> Places]
                /\ call \in [Thread -> Batch \cup Request \cup {NoCall}]
                /\ may_wait \in [Thread -> BOOLEAN]
                /\ mutex \in Thread \cup {Nobody}
                /\ not_empty_n_waiters \in Int /\ not_full_n_waiters \in Int

CallsOfTheirKind ==
    /\ \A p \in Producer : where[p] \notin {"out", "leaving"} => call[p] \in Batch
    /\ \A c \in Consumer : where[c] \notin {"out", "leaving"} => call[c] \in Request

LocalsOfHolder ==
    \A t \in Thread : where[t] = "locked" =>
        IF t \in Producer THEN (InPut \/ pc = "put_locked") /\ msgs = call[t]
                          ELSE (InGet \/ pc = "get_locked") /\ request = call[t]

LInv == IInv /\ ThreadsTyped /\ OneInside /\ CallsOfTheirKind /\ LocalsOfHolder

LEMMA LockedInitInv == LockedInit => LInv
<1> SUFFICES ASSUME LockedInit PROVE LInv
  OBVIOUS
<1>1. IInv
  BY InitInv DEF LockedInit
<1>2. ThreadsTyped
  BY DEF LockedInit, ThreadsTyped, Places, Inside
<1>3. OneInside
  BY ThreadAssumption DEF LockedInit, Init, OneInside, Inside
<1>4. CallsOfTheirKind /\ LocalsOfHolder
  BY DEF LockedInit, CallsOfTheirKind, LocalsOfHolder, Thread
<1> QED BY <1>1, <1>2, <1>3, <1>4 DEF LInv

-----------------------------------------------------------------------------
(* A step moves one thread, and wakes at most one other.                   *)
Moves(t, next) ==
    /\ where' \in [Thread -> Places] /\ where'[t] = next
    /\ \A u \in Thread \ {t} : \/ where'[u] = where[u]
                               \/ where[u] = "asleep" /\ where'[u] = "awake"

LEMMA GoMoves ==
    ASSUME ThreadsTyped, NEW t \in Thread, NEW next \in Places, Go(t, next)
    PROVE  Moves(t, next)
BY DEF ThreadsTyped, Go, Moves

LEMMA SignalMoves ==
    ASSUME ThreadsTyped, NEW t \in Thread, NEW next \in Places, where[t] # "asleep",
           NEW threads \in SUBSET Thread, SignalAndGo(threads, t, next)
    PROVE  Moves(t, next)
<1>1. CASE Go(t, next)
  BY <1>1, GoMoves
<1>2. ASSUME NEW w \in Asleep(threads),
             where' = [where EXCEPT ![t] = next, ![w] = "awake"]
      PROVE  Moves(t, next)
  <2>1. w \in Thread /\ where[w] = "asleep" /\ w # t /\ "awake" \in Places
    BY <1>2 DEF Asleep, Places
  <2> QED BY <1>2, <2>1 DEF ThreadsTyped, Moves
<1> QED BY <1>1, <1>2 DEF SignalAndGo

(* A thread is inside if and only if it has the mutex, whether a step      *)
(* takes it in, keeps it there, lets it out or leaves it outside.          *)
Entering(t, next) == where[t] \in Inside \/ next \notin Inside \/ mutex = Nobody

MutexFollows(t, next) ==
    mutex' = IF next \in Inside THEN t ELSE IF where[t] \in Inside THEN Nobody ELSE mutex

LocalsFollow(t, next) ==
    pc' # "unlocked" <=> IF where[t] \in Inside \/ next \in Inside
                         THEN next = "locked" ELSE pc # "unlocked"

LEMMA InsideKept ==
    ASSUME ThreadsTyped, OneInside, NEW t \in Thread, NEW next \in Places,
           Moves(t, next), Entering(t, next), MutexFollows(t, next), LocalsFollow(t, next)
    PROVE  OneInside' /\ mutex' \in Thread \cup {Nobody}
<1>1. \A u \in Thread \ {t} : where'[u] \in Inside <=> where[u] \in Inside
  BY DEF Moves, Inside
<1>2. \A u \in Thread \ {t} : where'[u] = "locked" <=> where[u] = "locked"
  BY DEF Moves
<1>3. \A u \in Thread : where'[u] \in Inside <=> mutex' = u
  <2>1. where'[t] \in Inside <=> mutex' = t
    BY ThreadAssumption DEF Moves, MutexFollows, Entering, OneInside
  <2>2. ASSUME NEW u \in Thread \ {t} PROVE where'[u] \in Inside <=> mutex' = u
    BY <1>1, ThreadAssumption DEF MutexFollows, Entering, OneInside
  <2> QED BY <2>1, <2>2
<1>4. pc' # "unlocked" <=> \E u \in Thread : where'[u] = "locked"
  <2>1. CASE where[t] \in Inside \/ next \in Inside
    <3>1. \A u \in Thread \ {t} : where[u] # "locked"
      BY <2>1, ThreadAssumption DEF OneInside, Entering, Inside
    <3> QED BY <1>2, <2>1, <3>1 DEF LocalsFollow, Moves
  <2>2. CASE ~(where[t] \in Inside \/ next \in Inside)
    <3>1. where[t] # "locked" /\ where'[t] # "locked"
      BY <2>2 DEF Moves, Inside
    <3> QED BY <1>2, <2>2, <3>1 DEF LocalsFollow, OneInside
  <2> QED BY <2>1, <2>2
<1> QED BY <1>3, <1>4 DEF OneInside, MutexFollows, ThreadsTyped

(* What a step of t must do to keep the invariant of the threads.          *)
KindKept(t, next) ==
    /\ call' \in [Thread -> Batch \cup Request \cup {NoCall}]
    /\ \A u \in Thread \ {t} : call'[u] = call[u]
    /\ next \in {"out", "leaving"}
       \/ call'[t] \in (IF t \in Producer THEN Batch ELSE Request)

LocalsKept(t, next) ==
    /\ next = "locked" =>
          IF t \in Producer THEN (InPut \/ pc = "put_locked")' /\ msgs' = call'[t]
                            ELSE (InGet \/ pc = "get_locked")' /\ request' = call'[t]
    /\ where[t] \notin Inside /\ next \notin Inside => UNCHANGED <<pc, msgs, request>>

LEMMA ThreadsKept ==
    ASSUME LInv, IInv', NEW t \in Thread, NEW next \in Places, Moves(t, next),
           Entering(t, next), MutexFollows(t, next), LocalsFollow(t, next),
           KindKept(t, next), LocalsKept(t, next),
           may_wait' \in [Thread -> BOOLEAN],
           not_empty_n_waiters' \in Int, not_full_n_waiters' \in Int
    PROVE  LInv'
<1>1. OneInside' /\ mutex' \in Thread \cup {Nobody}
  BY InsideKept DEF LInv
<1>2. ThreadsTyped'
  BY <1>1 DEF ThreadsTyped, Moves, KindKept
<1>3. CallsOfTheirKind'
  <2>1. ASSUME NEW u \in Thread \ {t}
        PROVE  call'[u] = call[u] /\ (where'[u] \in {"out", "leaving"} <=> where[u] \in {"out", "leaving"})
    BY DEF KindKept, Moves
  <2>2. where'[t] = next
    BY DEF Moves
  <2>3. ASSUME NEW p \in Producer, where'[p] \notin {"out", "leaving"} PROVE call'[p] \in Batch
    BY <2>1, <2>2, <2>3 DEF KindKept, LInv, CallsOfTheirKind, Thread
  <2>4. ASSUME NEW c \in Consumer, where'[c] \notin {"out", "leaving"} PROVE call'[c] \in Request
    <3>1. c \notin Producer
      BY ThreadAssumption
    <3> QED BY <2>1, <2>2, <2>4, <3>1 DEF KindKept, LInv, CallsOfTheirKind, Thread
  <2> QED BY <2>3, <2>4 DEF CallsOfTheirKind
<1>4. LocalsOfHolder'
  <2>1. where'[t] = "locked" =>
           IF t \in Producer THEN (InPut \/ pc = "put_locked")' /\ msgs' = call'[t]
                             ELSE (InGet \/ pc = "get_locked")' /\ request' = call'[t]
    BY DEF LocalsKept, Moves
  <2>2. ASSUME NEW u \in Thread \ {t}, where'[u] = "locked"
        PROVE  /\ where[u] = "locked" /\ call'[u] = call[u]
               /\ UNCHANGED <<pc, msgs, request>>
    <3>1. where[u] = "locked" /\ mutex = u /\ call'[u] = call[u]
      BY <2>2 DEF Moves, KindKept, LInv, OneInside, Inside
    <3>2. where[t] \notin Inside /\ next \notin Inside
      BY <3>1, ThreadAssumption DEF LInv, OneInside, Entering
    <3> QED BY <3>1, <3>2 DEF LocalsKept
  <2>3. ASSUME NEW u \in Thread \ {t}, where'[u] = "locked"
        PROVE  IF u \in Producer THEN (InPut \/ pc = "put_locked")' /\ msgs' = call'[u]
                                 ELSE (InGet \/ pc = "get_locked")' /\ request' = call'[u]
    BY <2>2, <2>3 DEF LInv, LocalsOfHolder, InPut, InGet
  <2> QED BY <2>1, <2>3 DEF LocalsOfHolder
<1> QED BY <1>1, <1>2, <1>3, <1>4 DEF LInv


(* A thread that starts finds the local variables free, so that its start  *)
(* is one MessageRing allows.                                              *)
LEMMA StartInv ==
    ASSUME LInv, NEW t \in Thread, where[t] \in {"locking", "woken"},
           where[t] = "locking" => mutex = Nobody, Start(t)
    PROVE  /\ IInv' /\ VisibleQueue' = VisibleQueue
           /\ IF t \in Producer
              THEN /\ pc' = "put_locked" /\ msgs' = call[t] /\ result' = Fifo!Putting(call[t])
                   /\ call[t] \in Batch
              ELSE /\ pc' = "get_locked" /\ request' = call[t] /\ result' = Fifo!Getting(call[t])
                   /\ call[t] \in Request /\ t \in Consumer
<1>1. pc = "unlocked"
  <2>1. \A u \in Thread : where[u] = "locked" => mutex = u
    BY DEF LInv, OneInside, Inside
  <2>2. where[t] = "woken" => mutex = t
    BY DEF LInv, OneInside, Inside
  <2> QED BY <2>1, <2>2, ThreadAssumption DEF LInv, OneInside
<1>2. CASE t \in Producer
  <2>1. call[t] \in Batch /\ LockPut(call[t])
    BY <1>1, <1>2 DEF LInv, CallsOfTheirKind, Start, LockPut
  <2>2. IInv' /\ Taken' = Taken /\ Left' = Left /\ i' = i
    BY <2>1, LockPutInv DEF LInv, LockPut, StartPut
  <2>3. VisibleQueue' = VisibleQueue
    <3> HIDE DEF VisibleQueue, Taken, Left
    <3> QED BY <2>2, SameVisible DEF LInv
  <2> QED BY <1>2, <2>1, <2>2, <2>3 DEF LockPut, StartPut
<1>3. CASE t \notin Producer
  <2>1. t \in Consumer /\ call[t] \in Request /\ LockGet(call[t])
    BY <1>1, <1>3 DEF LInv, CallsOfTheirKind, Start, LockGet, Thread
  <2>2. IInv' /\ Taken' = Taken /\ Left' = Left /\ i' = i
    BY <2>1, LockGetInv DEF LInv, LockGet, StartGet, put
  <2>3. VisibleQueue' = VisibleQueue
    <3> HIDE DEF VisibleQueue, Taken, Left
    <3> QED BY <2>2, SameVisible DEF LInv
  <2> QED BY <1>3, <2>1, <2>2, <2>3 DEF LockGet, StartGet
<1> QED BY <1>2, <1>3

(* Who is inside, and computes. *)
LEMMA HolderKnown ==
    ASSUME LInv, NEW t \in Thread, where[t] = "locked"
    PROVE  /\ mutex = t /\ pc # "unlocked"
           /\ \A u \in Thread \ {t} : where[u] \notin Inside
           /\ IF t \in Producer
              THEN (InPut \/ pc = "put_locked") /\ msgs = call[t] /\ call[t] \in Batch
              ELSE /\ (InGet \/ pc = "get_locked") /\ request = call[t]
                   /\ call[t] \in Request /\ t \in Consumer
<1>1. mutex = t /\ pc # "unlocked" /\ \A u \in Thread \ {t} : where[u] \notin Inside
  BY DEF LInv, OneInside, Inside
<1>2. t \in Producer => call[t] \in Batch
  BY DEF LInv, CallsOfTheirKind
<1>3. t \notin Producer => call[t] \in Request /\ t \in Consumer
  BY DEF LInv, CallsOfTheirKind, Thread
<1> QED BY <1>1, <1>2, <1>3 DEF LInv, LocalsOfHolder

(* Steps outside of the queue's stores leave the section alone. *)
LEMMA SectionAlone ==
    ASSUME IInv, UNCHANGED vars
    PROVE  IInv' /\ VisibleQueue' = VisibleQueue /\ UNCHANGED <<pc, msgs, request, result>>
<1>1. IInv' /\ UNCHANGED <<pc, msgs, request, result>>
  BY NextInv DEF vars, put, get
<1>2. Ring!Contents' = Ring!Contents
  BY SameBuffer DEF IInv, vars
<1>3. /\ Popped' = Popped /\ FramesQueued' = FramesQueued
      /\ msg_buffer' = msg_buffer /\ i' = i
  BY DEF vars, put, get, Popped, FramesQueued
<1>4. VisibleQueue' = VisibleQueue
  BY <1>2, <1>3 DEF VisibleQueue
<1> QED BY <1>1, <1>4

(* Steps of a thread that leave call and timeout alone, but for those that *)
(* call, return or time out.                                               *)
LEMMA SameCall ==
    ASSUME LInv, NEW t \in Thread, NEW next \in Places,
           where[t] \notin {"out", "leaving"}, UNCHANGED <<call, may_wait>>
    PROVE  KindKept(t, next) /\ may_wait' \in [Thread -> BOOLEAN]
<1>1. call[t] \in (IF t \in Producer THEN Batch ELSE Request)
  BY DEF LInv, CallsOfTheirKind, Thread
<1> QED BY <1>1 DEF LInv, ThreadsTyped, KindKept

-----------------------------------------------------------------------------
(* One lemma per step, again.  First those outside of the section.         *)
LEMMA CallKeeps ==
    ASSUME LInv, NEW t \in Thread, NEW parameters, NEW block \in BOOLEAN,
           parameters \in (IF t \in Producer THEN Batch ELSE Request),
           Call(t, parameters, block)
    PROVE  LInv'
<1>1. "locking" \in Places /\ where[t] \notin Inside /\ "locking" \notin Inside
  BY DEF Places, Inside, Call
<1>2. Moves(t, "locking") /\ IInv' /\ UNCHANGED <<pc, msgs, request, mutex>>
  BY <1>1, GoMoves, SectionAlone DEF LInv, Call
<1>3. KindKept(t, "locking")
  BY DEF LInv, ThreadsTyped, Call, KindKept
<1>4. may_wait' \in [Thread -> BOOLEAN] /\ not_empty_n_waiters' \in Int /\ not_full_n_waiters' \in Int
  BY DEF LInv, ThreadsTyped, Call, counts
<1>5. /\ Entering(t, "locking") /\ MutexFollows(t, "locking")
      /\ LocalsFollow(t, "locking") /\ LocalsKept(t, "locking")
  BY <1>1, <1>2 DEF Entering, MutexFollows, LocalsFollow, LocalsKept
<1> QED BY <1>1, <1>2, <1>3, <1>4, <1>5, ThreadsKept

LEMMA LockKeeps ==
    ASSUME LInv, NEW t \in Thread, Lock(t)
    PROVE  LInv'
<1>1. "locked" \in Places /\ "locked" \in Inside /\ where[t] = "locking"
  BY DEF Places, Inside, Lock
<1>2. Moves(t, "locked") /\ mutex = Nobody /\ mutex' = t
  BY <1>1, GoMoves DEF LInv, Lock, Acquire
<1>3. /\ IInv'
      /\ IF t \in Producer THEN pc' = "put_locked" /\ msgs' = call[t]
                           ELSE pc' = "get_locked" /\ request' = call[t]
  BY <1>1, <1>2, StartInv DEF Lock
<1>4. KindKept(t, "locked") /\ may_wait' \in [Thread -> BOOLEAN]
  BY <1>1, SameCall DEF Lock
<1>5. not_empty_n_waiters' \in Int /\ not_full_n_waiters' \in Int /\ call' = call
  BY DEF LInv, ThreadsTyped, Lock, counts
<1>6. /\ Entering(t, "locked") /\ MutexFollows(t, "locked")
      /\ LocalsFollow(t, "locked") /\ LocalsKept(t, "locked")
  BY <1>1, <1>2, <1>3, <1>5 DEF Entering, MutexFollows, LocalsFollow, LocalsKept
<1> QED BY <1>1, <1>2, <1>3, <1>4, <1>5, <1>6, ThreadsKept

LEMMA UnlockKeeps ==
    ASSUME LInv, NEW t \in Thread, Unlock(t)
    PROVE  LInv'
<1>1. /\ "out" \in Places /\ "out" \notin Inside
      /\ where[t] = "leaving" /\ where[t] \in Inside
  BY DEF Places, Inside, Unlock
<1>2. Moves(t, "out") /\ IInv' /\ UNCHANGED <<pc, msgs, request>> /\ mutex' = Nobody
  BY <1>1, GoMoves, SectionAlone DEF LInv, Unlock
<1>3. pc = "unlocked"
  BY <1>1 DEF LInv, OneInside, Inside
<1>4. KindKept(t, "out") /\ may_wait' \in [Thread -> BOOLEAN]
  BY DEF LInv, ThreadsTyped, Unlock, KindKept
<1>5. not_empty_n_waiters' \in Int /\ not_full_n_waiters' \in Int
  BY DEF LInv, ThreadsTyped, Unlock, counts
<1>6. /\ Entering(t, "out") /\ MutexFollows(t, "out")
      /\ LocalsFollow(t, "out") /\ LocalsKept(t, "out")
  BY <1>1, <1>2, <1>3 DEF Entering, MutexFollows, LocalsFollow, LocalsKept
<1> QED BY <1>1, <1>2, <1>4, <1>5, <1>6, ThreadsKept

LEMMA CountKeeps ==
    ASSUME LInv, NEW t \in Thread, CountWaiter(t)
    PROVE  LInv'
<1>1. /\ "counted" \in Places /\ "counted" \in Inside
      /\ where[t] = "to_wait" /\ where[t] \in Inside
  BY DEF Places, Inside, CountWaiter
<1>2. Moves(t, "counted") /\ IInv' /\ UNCHANGED <<pc, msgs, request>> /\ mutex' = mutex
  BY <1>1, GoMoves, SectionAlone DEF LInv, CountWaiter
<1>3. pc = "unlocked" /\ mutex = t
  BY <1>1 DEF LInv, OneInside, Inside
<1>4. KindKept(t, "counted") /\ may_wait' \in [Thread -> BOOLEAN]
  BY <1>1, SameCall DEF CountWaiter
<1>5. not_empty_n_waiters' \in Int /\ not_full_n_waiters' \in Int
  BY DEF LInv, ThreadsTyped, CountWaiter, AddWaiter
<1>6. /\ Entering(t, "counted") /\ MutexFollows(t, "counted")
      /\ LocalsFollow(t, "counted") /\ LocalsKept(t, "counted")
  BY <1>1, <1>2, <1>3 DEF Entering, MutexFollows, LocalsFollow, LocalsKept
<1> QED BY <1>1, <1>2, <1>4, <1>5, <1>6, ThreadsKept

LEMMA SleepKeeps ==
    ASSUME LInv, NEW t \in Thread, Sleep(t)
    PROVE  LInv'
<1>1. /\ "asleep" \in Places /\ "asleep" \notin Inside
      /\ where[t] = "counted" /\ where[t] \in Inside
  BY DEF Places, Inside, Sleep
<1>2. Moves(t, "asleep") /\ IInv' /\ UNCHANGED <<pc, msgs, request>> /\ mutex' = Nobody
  BY <1>1, GoMoves, SectionAlone DEF LInv, Sleep
<1>3. pc = "unlocked"
  BY <1>1 DEF LInv, OneInside, Inside
<1>4. KindKept(t, "asleep") /\ may_wait' \in [Thread -> BOOLEAN]
  BY <1>1, SameCall DEF Sleep
<1>5. not_empty_n_waiters' \in Int /\ not_full_n_waiters' \in Int
  BY DEF LInv, ThreadsTyped, Sleep, counts
<1>6. /\ Entering(t, "asleep") /\ MutexFollows(t, "asleep")
      /\ LocalsFollow(t, "asleep") /\ LocalsKept(t, "asleep")
  BY <1>1, <1>2, <1>3 DEF Entering, MutexFollows, LocalsFollow, LocalsKept
<1> QED BY <1>1, <1>2, <1>4, <1>5, <1>6, ThreadsKept

LEMMA WakeKeeps ==
    ASSUME LInv, NEW t \in Thread, WakeSpuriously(t)
    PROVE  LInv'
<1>1. /\ "awake" \in Places /\ "awake" \notin Inside
      /\ where[t] = "asleep" /\ where[t] \notin Inside
  BY DEF Places, Inside, WakeSpuriously
<1>2. Moves(t, "awake") /\ IInv' /\ UNCHANGED <<pc, msgs, request>> /\ mutex' = mutex
  BY <1>1, GoMoves, SectionAlone DEF LInv, WakeSpuriously
<1>3. KindKept(t, "awake") /\ may_wait' \in [Thread -> BOOLEAN]
  BY <1>1, SameCall DEF WakeSpuriously
<1>4. not_empty_n_waiters' \in Int /\ not_full_n_waiters' \in Int
  BY DEF LInv, ThreadsTyped, WakeSpuriously, counts
<1>5. /\ Entering(t, "awake") /\ MutexFollows(t, "awake")
      /\ LocalsFollow(t, "awake") /\ LocalsKept(t, "awake")
  BY <1>1, <1>2 DEF Entering, MutexFollows, LocalsFollow, LocalsKept
<1> QED BY <1>1, <1>2, <1>3, <1>4, <1>5, ThreadsKept

LEMMA RelockKeeps ==
    ASSUME LInv, NEW t \in Thread, Relock(t)
    PROVE  LInv'
<1>1. /\ "woken" \in Places /\ "woken" \in Inside
      /\ where[t] = "awake" /\ where[t] \notin Inside
  BY DEF Places, Inside, Relock
<1>2. /\ Moves(t, "woken") /\ IInv' /\ UNCHANGED <<pc, msgs, request>>
      /\ mutex = Nobody /\ mutex' = t
  BY <1>1, GoMoves, SectionAlone DEF LInv, Relock, Acquire
<1>3. pc = "unlocked"
  BY <1>2, ThreadAssumption DEF LInv, OneInside, Inside
<1>4. KindKept(t, "woken") /\ may_wait' \in [Thread -> BOOLEAN]
  BY <1>1, SameCall DEF Relock
<1>5. not_empty_n_waiters' \in Int /\ not_full_n_waiters' \in Int
  BY DEF LInv, ThreadsTyped, Relock, counts
<1>6. /\ Entering(t, "woken") /\ MutexFollows(t, "woken")
      /\ LocalsFollow(t, "woken") /\ LocalsKept(t, "woken")
  BY <1>1, <1>2, <1>3 DEF Entering, MutexFollows, LocalsFollow, LocalsKept
<1> QED BY <1>1, <1>2, <1>4, <1>5, <1>6, ThreadsKept

LEMMA ExpireKeeps ==
    ASSUME LInv, NEW t \in Thread, Expire(t)
    PROVE  LInv'
<1> DEFINE next == IF where[t] = "asleep" THEN "awake" ELSE where[t]
<1>1. /\ next \in Places /\ where[t] \in {"asleep", "awake", "woken"}
      /\ next \in Inside <=> where[t] \in Inside
      /\ next # "locked" /\ where[t] # "locked" /\ next \notin {"out", "leaving"}
  BY DEF Places, Inside, Expire
<1>2. Moves(t, next) /\ IInv' /\ UNCHANGED <<pc, msgs, request>> /\ mutex' = mutex
  <2>1. Go(t, next)
    BY DEF LInv, ThreadsTyped, Expire, Go
  <2> HIDE DEF next
  <2> QED BY <1>1, <2>1, GoMoves, SectionAlone DEF LInv, Expire
<1>3. where[t] \in Inside => pc = "unlocked" /\ mutex = t
  BY <1>1 DEF LInv, OneInside, Inside
<1> HIDE DEF next
<1>4. KindKept(t, next)
  <2>1. call[t] \in (IF t \in Producer THEN Batch ELSE Request)
    BY <1>1 DEF LInv, CallsOfTheirKind, Thread
  <2> QED BY <2>1 DEF LInv, ThreadsTyped, Expire, KindKept
<1>5. may_wait' \in [Thread -> BOOLEAN] /\ not_empty_n_waiters' \in Int /\ not_full_n_waiters' \in Int
  BY DEF LInv, ThreadsTyped, Expire, counts
<1>6. /\ Entering(t, next) /\ MutexFollows(t, next)
      /\ LocalsFollow(t, next) /\ LocalsKept(t, next)
  BY <1>1, <1>2, <1>3 DEF Entering, MutexFollows, LocalsFollow, LocalsKept
<1> QED BY <1>1, <1>2, <1>4, <1>5, <1>6, ThreadsKept

LEMMA UncountKeeps ==
    ASSUME LInv, NEW t \in Thread, UncountWaiter(t)
    PROVE  LInv'
<1>1. /\ "locked" \in Places /\ "locked" \in Inside
      /\ where[t] = "woken" /\ where[t] \in Inside
  BY DEF Places, Inside, UncountWaiter
<1>2. Moves(t, "locked") /\ mutex = t /\ mutex' = t /\ call' = call
  BY <1>1, GoMoves DEF LInv, OneInside, UncountWaiter
<1>3. /\ IInv'
      /\ IF t \in Producer THEN pc' = "put_locked" /\ msgs' = call[t]
                           ELSE pc' = "get_locked" /\ request' = call[t]
  BY <1>1, StartInv DEF UncountWaiter
<1>4. KindKept(t, "locked") /\ may_wait' \in [Thread -> BOOLEAN]
  BY <1>1, SameCall DEF UncountWaiter
<1>5. not_empty_n_waiters' \in Int /\ not_full_n_waiters' \in Int
  BY DEF LInv, ThreadsTyped, UncountWaiter, AddWaiter
<1>6. /\ Entering(t, "locked") /\ MutexFollows(t, "locked")
      /\ LocalsFollow(t, "locked") /\ LocalsKept(t, "locked")
  BY <1>1, <1>2, <1>3 DEF Entering, MutexFollows, LocalsFollow, LocalsKept
<1> QED BY <1>1, <1>2, <1>3, <1>4, <1>5, <1>6, ThreadsKept


(* Those of the section.                                                   *)
LEMMA StoreKeeps ==
    ASSUME LInv, NEW t \in Thread, Store(t)
    PROVE  LInv' /\ [Next]_vars
<1>1. "locked" \in Places /\ "locked" \in Inside /\ where[t] = "locked"
  BY DEF Places, Inside, Store
<1>2. Moves(t, "locked") /\ mutex = t /\ mutex' = t /\ UNCHANGED <<call, may_wait, counts>>
  BY <1>1 DEF LInv, ThreadsTyped, OneInside, Store, Moves
<1>3. Next
  BY DEF Store, Next
<1>4. IInv'
  BY <1>3, NextInv DEF LInv
<1>5. IF t \in Producer
      THEN (InPut \/ pc = "put_locked")' /\ msgs' = call'[t]
      ELSE (InGet \/ pc = "get_locked")' /\ request' = call'[t]
  <2>1. CASE t \in Producer
    <3>1. msgs = call[t]
      BY <1>1, <2>1, HolderKnown
    <3>2. InPut' /\ msgs' = msgs
      BY <2>1 DEF Store, BeginPut, WriteSize, WriteMessage, CountMessage, put, InPut
    <3> QED BY <1>2, <2>1, <3>1, <3>2
  <2>2. CASE t \notin Producer
    <3>1. request = call[t]
      BY <1>1, <2>2, HolderKnown
    <3>2. InGet' /\ request' = request
      BY <2>2 DEF Store, BeginGet, PeekSize, PopMessage, UncountMessage, get, InGet
    <3> QED BY <1>2, <2>2, <3>1, <3>2
  <2> QED BY <2>1, <2>2
<1>6. pc' # "unlocked"
  BY <1>5 DEF InPut, InGet
<1>7. KindKept(t, "locked") /\ may_wait' \in [Thread -> BOOLEAN]
  BY <1>1, <1>2, SameCall
<1>8. not_empty_n_waiters' \in Int /\ not_full_n_waiters' \in Int
  BY <1>2 DEF LInv, ThreadsTyped, counts
<1>9. /\ Entering(t, "locked") /\ MutexFollows(t, "locked")
      /\ LocalsFollow(t, "locked") /\ LocalsKept(t, "locked")
  BY <1>1, <1>2, <1>5, <1>6 DEF Entering, MutexFollows, LocalsFollow, LocalsKept
<1> QED BY <1>1, <1>2, <1>3, <1>4, <1>7, <1>8, <1>9, ThreadsKept

(* A call that is done, or goes to wait, gives the local variables back.   *)
LEMMA LeavesSection ==
    ASSUME LInv, NEW t \in Thread, where[t] = "locked", NEW next \in Inside \ {"locked"},
           Moves(t, next), IInv', pc' = "unlocked", KindKept(t, next),
           may_wait' \in [Thread -> BOOLEAN], UNCHANGED <<mutex, counts>>
    PROVE  LInv'
<1>1. next \in Places /\ where[t] \in Inside /\ mutex = t
  BY HolderKnown DEF Places, Inside
<1>2. not_empty_n_waiters' \in Int /\ not_full_n_waiters' \in Int
  BY DEF LInv, ThreadsTyped, counts
<1>3. /\ Entering(t, next) /\ MutexFollows(t, next)
      /\ LocalsFollow(t, next) /\ LocalsKept(t, next)
  BY <1>1 DEF Entering, MutexFollows, LocalsFollow, LocalsKept
<1> QED BY <1>1, <1>2, <1>3, ThreadsKept

LEMMA ReturnKeeps ==
    ASSUME LInv, NEW t \in Thread, Return(t), Moves(t, "leaving"), Next, pc' = "unlocked"
    PROVE  LInv'
<1>1. "leaving" \in Inside \ {"locked"} /\ where[t] = "locked"
  BY DEF Inside, Return
<1>2. KindKept(t, "leaving") /\ may_wait' \in [Thread -> BOOLEAN]
  BY DEF LInv, ThreadsTyped, Return, KindKept
<1>3. IInv' /\ UNCHANGED <<mutex, counts>>
  BY NextInv DEF LInv, Return
<1> QED BY <1>1, <1>2, <1>3, LeavesSection

LEMMA GiveUpKeeps ==
    ASSUME LInv, NEW t \in Thread, GiveUp(t)
    PROVE  LInv'
<1>1. "leaving" \in Places /\ Go(t, "leaving") /\ Return(t)
  BY DEF Places, Inside, GiveUp
<1>2. Moves(t, "leaving")
  BY <1>1, GoMoves DEF LInv
<1>3. Next /\ pc' = "unlocked"
  BY DEF GiveUp, PutFull, GetEmpty, Next
<1> QED BY <1>1, <1>2, <1>3, ReturnKeeps

LEMMA FinishPutKeeps ==
    ASSUME LInv, NEW p \in Producer, FinishPut(p)
    PROVE  LInv'
<1>1. "leaving" \in Places /\ p \in Thread /\ Return(p) /\ where[p] # "asleep"
  BY DEF Places, Inside, Thread, FinishPut, Return
<1>2. Go(p, "leaving") \/ \E threads \in SUBSET Thread : SignalAndGo(threads, p, "leaving")
  BY DEF FinishPut, Thread
<1>3. Moves(p, "leaving")
  BY <1>1, <1>2, GoMoves, SignalMoves DEF LInv
<1>4. Next /\ pc' = "unlocked"
  BY DEF FinishPut, EndPut, Next
<1> QED BY <1>1, <1>3, <1>4, ReturnKeeps

LEMMA FinishGetKeeps ==
    ASSUME LInv, NEW c \in Consumer, FinishGet(c)
    PROVE  LInv'
<1>1. "leaving" \in Places /\ c \in Thread /\ Return(c) /\ where[c] # "asleep"
  BY DEF Places, Inside, Thread, FinishGet, Return
<1>2. Go(c, "leaving") \/ \E threads \in SUBSET Thread : SignalAndGo(threads, c, "leaving")
  BY DEF FinishGet, Thread
<1>3. Moves(c, "leaving")
  BY <1>1, <1>2, GoMoves, SignalMoves DEF LInv
<1>4. Next /\ pc' = "unlocked"
  BY DEF FinishGet, EndGet, Next
<1> QED BY <1>1, <1>3, <1>4, ReturnKeeps

LEMMA BeginWaitKeeps ==
    ASSUME LInv, NEW t \in Thread, BeginWait(t), pc \in {"put_locked", "get_locked"},
           Go(t, "to_wait") \/ \E threads \in SUBSET Thread : SignalAndGo(threads, t, "to_wait")
    PROVE  LInv' /\ UNCHANGED <<VisibleQueue, result>>
<1>1. /\ "to_wait" \in Places /\ "to_wait" \in Inside \ {"locked"}
      /\ where[t] = "locked" /\ Withdraw
  BY DEF Places, Inside, BeginWait
<1>2. Moves(t, "to_wait")
  BY <1>1, GoMoves, SignalMoves DEF LInv
<1>3. IInv' /\ UNCHANGED <<VisibleQueue, result>>
  BY <1>1, WithdrawInv DEF LInv
<1>4. pc' = "unlocked" /\ UNCHANGED <<mutex, call, may_wait, counts>>
  BY DEF BeginWait, Withdraw
<1>5. KindKept(t, "to_wait") /\ may_wait' \in [Thread -> BOOLEAN]
  BY <1>1, <1>4, SameCall
<1> HIDE DEF VisibleQueue
<1> QED BY <1>1, <1>2, <1>3, <1>4, <1>5, LeavesSection

LEMMA WaitKeeps ==
    ASSUME LInv, NEW t \in Thread, PutWait(t) \/ GetWait(t)
    PROVE  LInv' /\ UNCHANGED <<VisibleQueue, result>>
<1>1. /\ BeginWait(t) /\ pc \in {"put_locked", "get_locked"}
      /\ Go(t, "to_wait") \/ \E threads \in SUBSET Thread : SignalAndGo(threads, t, "to_wait")
  BY DEF PutWait, GetWait, Thread
<1> QED BY <1>1, BeginWaitKeeps

LEMMA StutterKeeps ==
    ASSUME LInv, UNCHANGED lockedvars
    PROVE  LInv' /\ VisibleQueue' = VisibleQueue /\ UNCHANGED result
<1>1. UNCHANGED <<vars, mutex, call, may_wait, where, not_empty_n_waiters, not_full_n_waiters>>
  BY DEF lockedvars, counts
<1>2. IInv' /\ VisibleQueue' = VisibleQueue /\ UNCHANGED <<pc, msgs, request, result>>
  BY <1>1, SectionAlone DEF LInv
<1>3. ThreadsTyped' /\ OneInside' /\ CallsOfTheirKind'
  BY <1>1, <1>2 DEF LInv, ThreadsTyped, OneInside, CallsOfTheirKind
<1>4. LocalsOfHolder'
  BY <1>1, <1>2 DEF LInv, LocalsOfHolder, InPut, InGet
<1> QED BY <1>2, <1>3, <1>4 DEF LInv

LEMMA LockedNextKeeps == LInv /\ [LockedNext]_lockedvars => LInv'
<1> SUFFICES ASSUME LInv, [LockedNext]_lockedvars PROVE LInv'
  OBVIOUS
<1>1. ASSUME NEW p \in Producer, FinishPut(p) \/ PutWait(p) PROVE LInv'
  BY <1>1, FinishPutKeeps, WaitKeeps DEF Thread
<1>2. ASSUME NEW c \in Consumer, FinishGet(c) \/ GetWait(c) PROVE LInv'
  BY <1>2, FinishGetKeeps, WaitKeeps DEF Thread
<1>3. ASSUME NEW p \in Producer, NEW batch \in Batch, NEW block \in BOOLEAN, Call(p, batch, block)
      PROVE  LInv'
  BY <1>3, CallKeeps DEF Thread
<1>4. ASSUME NEW c \in Consumer, NEW limits \in Request, NEW block \in BOOLEAN, Call(c, limits, block)
      PROVE  LInv'
  <2>1. c \notin Producer
    BY ThreadAssumption
  <2> QED BY <1>4, <2>1, CallKeeps DEF Thread
<1>5. ASSUME NEW t \in Thread,
             \/ Lock(t) \/ Store(t) \/ GiveUp(t) \/ Unlock(t)
             \/ CountWaiter(t) \/ Sleep(t) \/ WakeSpuriously(t) \/ Relock(t)
             \/ Expire(t) \/ UncountWaiter(t)
      PROVE  LInv'
  BY <1>5, LockKeeps, StoreKeeps, GiveUpKeeps, UnlockKeeps, CountKeeps, SleepKeeps, WakeKeeps,
     RelockKeeps, ExpireKeeps, UncountKeeps
<1>6. CASE UNCHANGED lockedvars
  BY <1>6, StutterKeeps
<1> QED BY <1>1, <1>2, <1>3, <1>4, <1>5, <1>6 DEF LockedNext

LEMMA LockedInvariance == LockedSpec => []LInv
BY LockedInitInv, LockedNextKeeps, PTL DEF LockedSpec

(* One thread at a time is between the first line of queue_put or          *)
(* queue_get and its return, but for the wait, whatever the threads do;    *)
(* and the local variables are free for whoever enters.                    *)
THEOREM OneInsideCorrect == LockedSpec => []OneInside
<1>1. LInv => OneInside
  BY DEF LInv
<1> QED BY <1>1, LockedInvariance, PTL

(* However the sections of the threads follow each other, what lies in     *)
(* memory after any store are whole frames, and no call leaves its         *)
(* caller's buffer or misreads a message.                                  *)
THEOREM LockedSectionsCorrect ==
    LockedSpec => [](TypeOK /\ WholeFrames /\ NoOverrun /\ NeverMisread)
<1>1. LInv => TypeOK /\ WholeFrames /\ NoOverrun /\ NeverMisread
  BY TypesHold, FramesHold, ReadAsWritten DEF LInv, IInv, NeverMisread
<1> QED BY <1>1, LockedInvariance, PTL

-----------------------------------------------------------------------------
(* The refinement of QueueSync.  Its queue is that of the sections.        *)
LEMMA SameBytes ==
    ASSUME NEW q
    PROVE  Sync!Fifo!Bytes(q) = Fifo!Bytes(q)
BY DEF Sync!Fifo!Bytes, Sync!Fifo!Sums, Fifo!Bytes, Fifo!Sums

LEMMA SameFits ==
    ASSUME NEW q, NEW batch, NEW n1, NEW n2
    PROVE  /\ Sync!Fifo!Fits(q, batch) <=> Fifo!Fits(q, batch)
           /\ Sync!Fifo!can_fit(q, n1, n2) <=> Fifo!can_fit(q, n1, n2)
BY SameBytes DEF Sync!Fifo!Fits, Sync!Fifo!can_fit, Fifo!Fits, Fifo!can_fit

LEMMA SameTakes ==
    ASSUME NEW q, NEW limits, NEW n
    PROVE  /\ Sync!Fifo!Prefix(q, n) = Fifo!Prefix(q, n)
           /\ Sync!Fifo!WantsMore(limits, q, n) <=> Fifo!WantsMore(limits, q, n)
           /\ Sync!Fifo!TakesMore(limits, q, n) <=> Fifo!TakesMore(limits, q, n)
BY SameBytes DEF Sync!Fifo!Prefix, Fifo!Prefix, Sync!Fifo!WantsMore, Fifo!WantsMore,
                 Sync!Fifo!TakesMore, Fifo!TakesMore

LEMMA SameCount ==
    ASSUME NEW q, NEW limits
    PROVE  Sync!Fifo!Count(limits, q) = Fifo!Count(limits, q)
BY SameTakes, Zenon DEF Sync!Fifo!Count, Fifo!Count

LEMMA SameReply ==
    ASSUME NEW q, NEW limits
    PROVE  /\ Sync!Fifo!Reply(limits, q) = Fifo!Reply(limits, q)
           /\ Sync!Fifo!Rest(limits, q) = Fifo!Rest(limits, q)
BY SameTakes, SameBytes, SameCount DEF Sync!Fifo!Reply, Fifo!Reply, Sync!Fifo!Rest, Fifo!Rest


(* Places as QueueSync sees them. *)
LEMMA PlaceGo ==
    ASSUME ThreadsTyped, NEW t \in Thread, NEW next \in Places, Go(t, next)
    PROVE  Sync!Go(t, Shown(next))
<1>1. Place' = [u \in Thread |-> Shown(where'[u])]
  BY DEF Place, Shown
<1>2. \A u \in Thread : where'[u] = IF u = t THEN next ELSE where[u]
  BY DEF ThreadsTyped, Go
<1> HIDE DEF Shown
<1> QED BY <1>1, <1>2 DEF Place, Sync!Go

LEMMA PlaceSame ==
    ASSUME ThreadsTyped, NEW t \in Thread, NEW next \in Places, Go(t, next),
           Shown(next) = Shown(where[t])
    PROVE  Place' = Place
<1>1. Place' = [Place EXCEPT ![t] = Shown(next)]
  BY PlaceGo DEF Sync!Go
<1> HIDE DEF Shown
<1> QED BY <1>1 DEF Place

(* While a thread computes nobody else is on his way into or out of the    *)
(* wait, so that those asleep for QueueSync are those asleep.              *)
LEMMA OthersAsleep ==
    ASSUME LInv, NEW t \in Thread, where[t] = "locked", NEW threads \in SUBSET Thread
    PROVE  Sync!Asleep(threads) = Asleep(threads)
<1>1. ASSUME NEW u \in threads PROVE Place[u] = "asleep" <=> where[u] = "asleep"
  <2>1. CASE u = t
    BY <2>1 DEF Place, Shown
  <2>2. CASE u # t
    <3>1. where[u] \notin Inside
      BY <2>2, HolderKnown
    <3> QED BY <3>1 DEF Place, Shown, Inside
  <2> QED BY <2>1, <2>2
<1> QED BY <1>1 DEF Sync!Asleep, Asleep

LEMMA PlaceSignal ==
    ASSUME LInv, NEW t \in Thread, where[t] = "locked", NEW threads \in SUBSET Thread,
           NEW next \in Places, SignalAndGo(threads, t, next)
    PROVE  Sync!SignalAndGo(threads, t, Shown(next))
<1>1. Sync!Asleep(threads) = Asleep(threads)
  BY OthersAsleep
<1>2. CASE Asleep(threads) = {} /\ Go(t, next)
  <2>1. Place' = [Place EXCEPT ![t] = Shown(next)]
    BY <1>2, PlaceGo DEF LInv, Sync!Go
  <2> QED BY <1>1, <1>2, <2>1 DEF Sync!SignalAndGo
<1>3. ASSUME NEW w \in Asleep(threads), where' = [where EXCEPT ![t] = next, ![w] = "awake"]
      PROVE  Sync!SignalAndGo(threads, t, Shown(next))
  <2>1. Place' = [u \in Thread |-> Shown(where'[u])]
    BY DEF Place, Shown
  <2>2. /\ w \in Thread /\ w # t
        /\ \A u \in Thread : where'[u] = IF u = w THEN "awake" ELSE IF u = t THEN next ELSE where[u]
    BY <1>3 DEF LInv, ThreadsTyped, Asleep
  <2>3. Shown("awake") = "awake"
    BY DEF Shown
  <2> HIDE DEF Shown
  <2>4. Place' = [Place EXCEPT ![t] = Shown(next), ![w] = "awake"]
    BY <2>1, <2>2, <2>3 DEF Place
  <2> QED BY <1>1, <1>3, <2>4 DEF Sync!SignalAndGo
<1> QED BY <1>2, <1>3 DEF SignalAndGo

(* The mutex as QueueSync sees it is held by the thread that computes.     *)
HolderShown == /\ \A t \in Thread : where[t] = "locked" => Holder = t
               /\ (\A t \in Thread : where[t] # "locked") => Holder = Nobody

LEMMA HolderHolds == LInv => HolderShown
BY DEF LInv, OneInside, Inside, HolderShown, Holder

LEMMA HolderHoldsNext == LInv' => HolderShown'
BY HolderHolds, PTL

LEMMA HolderSame ==
    ASSUME LInv, LInv', NEW t \in Thread, NEW next, Moves(t, next),
           where[t] # "locked", next # "locked"
    PROVE  Holder' = Holder
<1>1. \A u \in Thread : where'[u] = "locked" <=> where[u] = "locked"
  BY DEF Moves
<1> HIDE DEF Holder
<1> QED BY <1>1, HolderHolds, HolderHoldsNext DEF HolderShown

LEMMA HolderGone ==
    ASSUME LInv, LInv', NEW t \in Thread, NEW next, Moves(t, next),
           where[t] = "locked", next # "locked"
    PROVE  Holder = t /\ Holder' = Nobody
<1>1. \A u \in Thread : where'[u] # "locked"
  BY HolderKnown DEF Moves, Inside
<1> HIDE DEF Holder
<1> QED BY <1>1, HolderHolds, HolderHoldsNext DEF HolderShown

LEMMA HolderCame ==
    ASSUME LInv, LInv', NEW t \in Thread, Moves(t, "locked"), where[t] # "locked",
           mutex \in {t, Nobody}
    PROVE  Holder = Nobody /\ Holder' = t
<1>1. \A u \in Thread : where[u] # "locked"
  BY ThreadAssumption DEF LInv, OneInside, Inside
<1>2. where'[t] = "locked"
  BY DEF Moves
<1> HIDE DEF Holder
<1> QED BY <1>1, <1>2, HolderHolds, HolderHoldsNext DEF HolderShown

(* Waiters to be counted. *)
LEMMA ToCountSame ==
    ASSUME NEW t \in Thread, NEW next, Moves(t, next), where[t] # "to_wait", next # "to_wait",
           NEW threads \in SUBSET Thread
    PROVE  ToCount(threads)' = ToCount(threads)
<1>1. \A u \in threads : where'[u] = "to_wait" <=> where[u] = "to_wait"
  BY DEF Moves
<1> QED BY <1>1 DEF ToCount

LEMMA NoneToCount ==
    ASSUME LInv, NEW t \in Thread, where[t] \in Inside \ {"to_wait"},
           NEW threads \in SUBSET Thread
    PROVE  ToCount(threads) = 0
<1>1. \A u \in threads : where[u] # "to_wait"
  BY DEF LInv, OneInside, Inside
<1> QED BY <1>1 DEF ToCount

(* The waiter counts as QueueSync sees them. *)
CountsShown == <<not_empty_n_waiters + ToCount(Consumer), not_full_n_waiters + ToCount(Producer)>>

LEMMA CountsSame ==
    ASSUME NEW t \in Thread, NEW next, Moves(t, next), where[t] # "to_wait", next # "to_wait",
           UNCHANGED counts
    PROVE  CountsShown' = CountsShown
<1>1. /\ ToCount(Consumer)' = ToCount(Consumer) /\ ToCount(Producer)' = ToCount(Producer)
      /\ UNCHANGED <<not_empty_n_waiters, not_full_n_waiters>>
  BY ToCountSame DEF Thread, counts
<1> QED BY <1>1 DEF CountsShown

LEMMA CountsTaken ==
    ASSUME LInv, NEW t \in Thread, where[t] \in Inside \ {"to_wait"}
    PROVE  CountsShown = counts
<1>1. ToCount(Consumer) = 0 /\ ToCount(Producer) = 0
  BY NoneToCount DEF Thread
<1>2. not_empty_n_waiters \in Int /\ not_full_n_waiters \in Int
  BY DEF LInv, ThreadsTyped
<1> QED BY <1>1, <1>2 DEF CountsShown, counts

SomeoneTaken == LInv /\ \E t \in Thread : where[t] \in Inside \ {"to_wait"}

LEMMA CountsTakenNow == SomeoneTaken => CountsShown = counts
BY CountsTaken DEF SomeoneTaken

LEMMA CountsTakenNext == SomeoneTaken' => (CountsShown = counts)'
BY CountsTakenNow, PTL

(* The one on its way into the wait is counted as if it were asleep.        *)
WithWaiter(t) == IF t \in Consumer
                 THEN <<not_empty_n_waiters + 1, not_full_n_waiters>>
                 ELSE <<not_empty_n_waiters, not_full_n_waiters + 1>>

WaiterCounted == \A t \in Thread : where[t] = "to_wait" => CountsShown = WithWaiter(t)

LEMMA WaiterIsCounted == LInv => WaiterCounted
<1> SUFFICES ASSUME LInv, NEW t \in Thread, where[t] = "to_wait"
             PROVE  CountsShown = WithWaiter(t)
  BY DEF WaiterCounted
<1>1. \A u \in Thread \ {t} : where[u] # "to_wait"
  BY DEF LInv, OneInside, Inside
<1>2. not_empty_n_waiters \in Int /\ not_full_n_waiters \in Int
  BY DEF LInv, ThreadsTyped
<1>3. CASE t \in Consumer
  <2>1. \A u \in Producer : where[u] # "to_wait"
    BY <1>1, <1>3, ThreadAssumption DEF Thread
  <2>2. ToCount(Consumer) = 1 /\ ToCount(Producer) = 0
    BY <1>3, <2>1 DEF ToCount
  <2> QED BY <1>2, <1>3, <2>2 DEF CountsShown, WithWaiter
<1>4. CASE t \notin Consumer
  <2>1. \A u \in Consumer : where[u] # "to_wait"
    BY <1>1, <1>4 DEF Thread
  <2>2. ToCount(Consumer) = 0 /\ ToCount(Producer) = 1
    BY <1>4, <2>1 DEF ToCount, Thread
  <2> QED BY <1>2, <1>4, <2>2 DEF CountsShown, WithWaiter
<1> QED BY <1>3, <1>4

LEMMA WaiterIsCountedNext == LInv' => WaiterCounted'
BY WaiterIsCounted, PTL

(* Steps QueueSync does not see: nothing of its state changes.             *)
LEMMA NothingShown ==
    ASSUME UNCHANGED <<VisibleQueue, result, Holder, Place, call, may_wait, CountsShown>>
    PROVE  UNCHANGED Sync!vars
<1> HIDE DEF VisibleQueue, Holder, Place
<1> QED BY DEF CountsShown, Sync!vars

LEMMA HiddenStep ==
    ASSUME LInv, LInv', NEW t \in Thread, NEW next \in Places \ {"locked"},
           where[t] # "locked", Go(t, next), Shown(next) = Shown(where[t]),
           UNCHANGED <<vars, call, may_wait, CountsShown>>
    PROVE  UNCHANGED Sync!vars
<1>1. UNCHANGED <<VisibleQueue, result>>
  BY SectionAlone DEF LInv
<1>2. Moves(t, next)
  BY GoMoves DEF LInv
<1>3. Holder' = Holder /\ Place' = Place
  BY <1>2, HolderSame, PlaceSame DEF LInv
<1> QED BY <1>1, <1>3, NothingShown

LEMMA UnlockHidden ==
    ASSUME LInv, LInv', NEW t \in Thread, Unlock(t)
    PROVE  UNCHANGED Sync!vars
<1>1. /\ "out" \in Places \ {"locked"} /\ where[t] = "leaving" /\ Go(t, "out")
      /\ Shown("out") = Shown(where[t])
  BY DEF Places, Unlock, Shown
<1>2. UNCHANGED CountsShown
  BY <1>1, GoMoves, CountsSame DEF LInv, Unlock
<1> QED BY <1>1, <1>2, HiddenStep DEF Unlock

(* QueueSync counted the waiter when it decided to wait.                   *)
LEMMA CountHidden ==
    ASSUME LInv, LInv', NEW t \in Thread, CountWaiter(t)
    PROVE  UNCHANGED Sync!vars
<1>1. /\ "counted" \in Places \ {"locked"} /\ where[t] = "to_wait" /\ Go(t, "counted")
      /\ Shown("counted") = Shown(where[t]) /\ "counted" \in Inside /\ "to_wait" \in Inside
  BY DEF Places, Inside, CountWaiter, Shown
<1>2. UNCHANGED CountsShown
  <2>1. where'[t] = "counted"
    BY <1>1 DEF LInv, ThreadsTyped, Go
  <2>2. CountsShown' = counts'
    <3>1. SomeoneTaken'
      BY <1>1, <2>1 DEF SomeoneTaken
    <3> QED BY <3>1, CountsTakenNext
  <2>3. CountsShown = WithWaiter(t)
    BY <1>1, WaiterIsCounted DEF WaiterCounted
  <2> QED BY <2>2, <2>3 DEF WithWaiter, counts, CountWaiter, AddWaiter
<1> QED BY <1>1, <1>2, HiddenStep DEF CountWaiter

LEMMA SleepHidden ==
    ASSUME LInv, LInv', NEW t \in Thread, Sleep(t)
    PROVE  UNCHANGED Sync!vars
<1>1. /\ "asleep" \in Places \ {"locked"} /\ where[t] = "counted" /\ Go(t, "asleep")
      /\ Shown("asleep") = Shown(where[t])
  BY DEF Places, Sleep, Shown
<1>2. UNCHANGED CountsShown
  BY <1>1, GoMoves, CountsSame DEF LInv, Sleep
<1> QED BY <1>1, <1>2, HiddenStep DEF Sleep

LEMMA RelockHidden ==
    ASSUME LInv, LInv', NEW t \in Thread, Relock(t)
    PROVE  UNCHANGED Sync!vars
<1>1. /\ "woken" \in Places \ {"locked"} /\ where[t] = "awake" /\ Go(t, "woken")
      /\ Shown("woken") = Shown(where[t])
  BY DEF Places, Inside, Relock, Shown
<1>2. UNCHANGED CountsShown
  BY <1>1, GoMoves, CountsSame DEF LInv, Relock
<1> QED BY <1>1, <1>2, HiddenStep DEF Relock

(* Nor does it see any store before a section's last.                      *)
LEMMA StoreHidden ==
    ASSUME LInv, LInv', NEW t \in Thread, Store(t)
    PROVE  UNCHANGED Sync!vars
<1>1. UNCHANGED <<VisibleQueue, result>>
  BY LooksHidden, CountRefines, PopRefines DEF LInv, Store
<1>2. where' = where /\ UNCHANGED <<mutex, call, may_wait, counts>>
  BY DEF Store
<1>3. UNCHANGED <<Holder, Place, CountsShown>>
  BY <1>2 DEF Holder, Place, Shown, CountsShown, ToCount, counts
<1> QED BY <1>1, <1>2, <1>3, NothingShown

LEMMA StutterHidden ==
    ASSUME LInv, UNCHANGED lockedvars
    PROVE  UNCHANGED Sync!vars
<1>1. UNCHANGED <<VisibleQueue, result>>
  BY StutterKeeps
<1>2. where' = where /\ UNCHANGED <<mutex, call, may_wait, counts>>
  BY DEF lockedvars
<1>3. UNCHANGED <<Holder, Place, CountsShown>>
  BY <1>2 DEF Holder, Place, Shown, CountsShown, ToCount, counts
<1> QED BY <1>1, <1>2, <1>3, NothingShown

-----------------------------------------------------------------------------
(* Steps it sees, outside of the stores.                                   *)
LEMMA CallShown ==
    ASSUME LInv, LInv', NEW t \in Thread, NEW parameters, NEW block, Call(t, parameters, block)
    PROVE  Sync!Call(t, parameters, block)
<1>1. /\ "locking" \in Places /\ where[t] = "out" /\ Go(t, "locking")
      /\ Shown(where[t]) = "out" /\ Shown("locking") = "locking"
  BY DEF Places, Call, Shown
<1>2. Sync!Go(t, "locking") /\ Place[t] = "out"
  BY <1>1, PlaceGo DEF LInv, Place
<1>3. Moves(t, "locking")
  BY <1>1, GoMoves DEF LInv
<1>4. Holder' = Holder /\ CountsShown' = CountsShown
  BY <1>1, <1>3, HolderSame, CountsSame DEF Call
<1>5. UNCHANGED <<VisibleQueue, result>>
  BY SectionAlone DEF LInv, Call
<1> HIDE DEF VisibleQueue, Holder, Place
<1> QED BY <1>2, <1>4, <1>5 DEF Sync!Call, Sync!counts, Call, CountsShown

(* The call begins when it has the mutex. *)
LEMMA LockShown ==
    ASSUME LInv, LInv', NEW t \in Thread, Lock(t)
    PROVE  Sync!Lock(t)
<1>1. /\ "locked" \in Places /\ where[t] = "locking" /\ Go(t, "locked") /\ mutex = Nobody
      /\ Shown(where[t]) = "locking" /\ Shown("locked") = "locked"
  BY DEF Places, Inside, Lock, Acquire, Shown
<1>2. Sync!Go(t, "locked") /\ Place[t] = "locking"
  BY <1>1, PlaceGo DEF LInv, Place
<1>3. Moves(t, "locked")
  BY <1>1, GoMoves DEF LInv
<1>4. Holder = Nobody /\ Holder' = t /\ CountsShown' = CountsShown
  BY <1>1, <1>3, HolderCame, CountsSame DEF Lock
<1>5. VisibleQueue' = VisibleQueue /\ result' = Sync!Begun(t)
  <2>1. /\ VisibleQueue' = VisibleQueue
        /\ result' = IF t \in Producer THEN Fifo!Putting(call[t]) ELSE Fifo!Getting(call[t])
    BY <1>1, StartInv DEF Lock
  <2> QED BY <2>1 DEF Sync!Begun, Sync!Fifo!Putting, Fifo!Putting, Sync!Fifo!Getting, Fifo!Getting
<1> HIDE DEF VisibleQueue, Holder, Place
<1> QED BY <1>2, <1>4, <1>5 DEF Sync!Lock, Sync!counts, Lock, CountsShown

LEMMA WakeShown ==
    ASSUME LInv, LInv', NEW t \in Thread, WakeSpuriously(t)
    PROVE  Sync!WakeSpuriously(t)
<1>1. /\ "awake" \in Places /\ where[t] = "asleep" /\ Go(t, "awake")
      /\ Shown(where[t]) = "asleep" /\ Shown("awake") = "awake"
  BY DEF Places, WakeSpuriously, Shown
<1>2. Sync!Go(t, "awake") /\ Place[t] = "asleep"
  BY <1>1, PlaceGo DEF LInv, Place
<1>3. Moves(t, "awake")
  BY <1>1, GoMoves DEF LInv
<1>4. Holder' = Holder /\ CountsShown' = CountsShown
  BY <1>1, <1>3, HolderSame, CountsSame DEF WakeSpuriously
<1>5. UNCHANGED <<VisibleQueue, result>>
  BY SectionAlone DEF LInv, WakeSpuriously
<1> HIDE DEF VisibleQueue, Holder, Place
<1> QED BY <1>2, <1>4, <1>5 DEF Sync!WakeSpuriously, Sync!counts, WakeSpuriously, CountsShown

LEMMA ExpireShown ==
    ASSUME LInv, LInv', NEW t \in Thread, Expire(t)
    PROVE  Sync!Expire(t)
<1> DEFINE next == IF where[t] = "asleep" THEN "awake" ELSE where[t]
<1>1. /\ where[t] \in {"asleep", "awake", "woken"} /\ Go(t, next)
      /\ next \in Places /\ next \notin {"locked", "to_wait"}
      /\ Shown(where[t]) \in {"asleep", "awake"} /\ Shown(next) = "awake"
  BY DEF Places, Inside, Expire, Shown, LInv, ThreadsTyped, Go
<1> HIDE DEF next
<1>2. Sync!Go(t, "awake") /\ Place[t] \in {"asleep", "awake"}
  BY <1>1, PlaceGo DEF LInv, Place
<1>3. Moves(t, next)
  BY <1>1, GoMoves DEF LInv
<1>4. Holder' = Holder /\ CountsShown' = CountsShown
  BY <1>1, <1>3, HolderSame, CountsSame DEF Expire
<1>5. UNCHANGED <<VisibleQueue, result>>
  BY SectionAlone DEF LInv, Expire
<1> HIDE DEF VisibleQueue, Holder, Place
<1> QED BY <1>2, <1>4, <1>5 DEF Sync!Expire, Sync!counts, Expire, CountsShown

(* The wait is over once the waiter is uncounted and its call begins anew. *)
LEMMA UncountShown ==
    ASSUME LInv, LInv', NEW t \in Thread, UncountWaiter(t)
    PROVE  Sync!Relock(t)
<1>1. /\ "locked" \in Places /\ where[t] = "woken" /\ Go(t, "locked") /\ mutex = t
      /\ Shown(where[t]) = "awake" /\ Shown("locked") = "locked"
      /\ where[t] \in Inside \ {"to_wait"}
  BY DEF Places, Inside, UncountWaiter, Shown, LInv, OneInside
<1>2. Sync!Go(t, "locked") /\ Place[t] = "awake"
  BY <1>1, PlaceGo DEF LInv, Place
<1>3. Moves(t, "locked")
  BY <1>1, GoMoves DEF LInv
<1>4. Holder = Nobody /\ Holder' = t
  BY <1>1, <1>3, HolderCame
<1>5. VisibleQueue' = VisibleQueue /\ result' = Sync!Begun(t)
  <2>1. /\ VisibleQueue' = VisibleQueue
        /\ result' = IF t \in Producer THEN Fifo!Putting(call[t]) ELSE Fifo!Getting(call[t])
    BY <1>1, StartInv DEF UncountWaiter
  <2> QED BY <2>1 DEF Sync!Begun, Sync!Fifo!Putting, Fifo!Putting, Sync!Fifo!Getting, Fifo!Getting
<1>6. Sync!Uncount(t)
  <2>1. ToCount(Consumer) = 0 /\ ToCount(Producer) = 0
    BY <1>1, NoneToCount DEF Thread
  <2>2. ToCount(Consumer)' = 0 /\ ToCount(Producer)' = 0
    BY <1>1, <1>3, <2>1, ToCountSame DEF Thread
  <2>3. not_empty_n_waiters \in Int /\ not_full_n_waiters \in Int
    BY DEF LInv, ThreadsTyped
  <2> QED BY <2>1, <2>2, <2>3 DEF Sync!Uncount, UncountWaiter, AddWaiter
<1>7. UNCHANGED <<call, may_wait>>
  BY DEF UncountWaiter
<1> HIDE DEF VisibleQueue, Holder, Place
<1> QED BY <1>2, <1>4, <1>5, <1>6, <1>7 DEF Sync!Relock, Sync!MutexFree

-----------------------------------------------------------------------------
(* The last step of a section is the whole of it. *)
LEMMA ReturnShown ==
    ASSUME LInv, LInv', NEW t \in Thread, Return(t), Moves(t, "leaving")
    PROVE  /\ Place[t] = "locked" /\ Sync!Return(t, result')
           /\ UNCHANGED CountsShown /\ CountsShown = counts
<1>1. /\ where[t] = "locked" /\ where[t] \in Inside \ {"to_wait"}
      /\ Shown(where[t]) = "locked"
  BY DEF Return, Inside, Shown
<1>2. Place[t] = "locked" /\ Holder' = Nobody
  BY <1>1, HolderGone DEF Place
<1>3. CountsShown' = CountsShown /\ CountsShown = counts
  BY <1>1, CountsSame, CountsTaken DEF Return
<1> HIDE DEF Holder, Place
<1> QED BY <1>2, <1>3 DEF Sync!Return, Sync!Unlock, Return

LEMMA GiveUpShown ==
    ASSUME LInv, LInv', NEW t \in Thread, GiveUp(t)
    PROVE  IF t \in Producer THEN Sync!PutFull(t) ELSE t \in Consumer /\ Sync!GetEmpty(t)
<1>1. /\ "leaving" \in Places /\ Go(t, "leaving") /\ Return(t) /\ ~may_wait[t]
      /\ Shown("leaving") = "out" /\ where[t] = "locked"
  BY DEF Places, Inside, GiveUp, Return, Shown
<1>2. Sync!Go(t, "out") /\ Moves(t, "leaving")
  BY <1>1, PlaceGo, GoMoves DEF LInv
<1>3. Place[t] = "locked" /\ Sync!Return(t, result') /\ UNCHANGED CountsShown
  BY <1>1, <1>2, ReturnShown
<1> HIDE DEF VisibleQueue, Place
<1>4. CASE t \in Producer
  <2>1. Fifo!PutFull(msgs) /\ msgs = call[t]
    BY <1>1, <1>4, PutFullRefines, HolderKnown DEF GiveUp, LInv
  <2>2. /\ ~Sync!Fifo!Fits(VisibleQueue, call[t]) /\ UNCHANGED VisibleQueue
        /\ result' = Sync!Fifo!PutReply("Q_FULL")
    BY <2>1, SameFits DEF Fifo!PutFull, Fifo!PutReply, Sync!Fifo!PutReply
  <2> QED BY <1>1, <1>2, <1>3, <1>4, <2>2 DEF Sync!PutFull, Sync!counts, CountsShown
<1>5. CASE t \notin Producer
  <2>1. Fifo!GetEmpty(request) /\ t \in Consumer
    BY <1>1, <1>5, GetEmptyRefines, HolderKnown DEF GiveUp, LInv
  <2>2. /\ VisibleQueue = <<>> /\ UNCHANGED VisibleQueue
        /\ result' = Sync!Fifo!EmptyReply
    BY <2>1 DEF Fifo!GetEmpty, Fifo!EmptyReply, Sync!Fifo!EmptyReply
  <2> QED BY <1>1, <1>2, <1>3, <1>5, <2>1, <2>2 DEF Sync!GetEmpty, Sync!counts, CountsShown
<1> QED BY <1>4, <1>5

LEMMA SignalsShown ==
    ASSUME LInv, NEW t \in Thread, where[t] = "locked", NEW next \in Places
    PROVE  /\ \A threads \in SUBSET Thread : SignalAndGo(threads, t, next) =>
                  Sync!SignalAndGo(threads, t, Shown(next)) /\ Moves(t, next)
           /\ Go(t, next) => Sync!Go(t, Shown(next)) /\ Moves(t, next)
<1>1. ASSUME NEW threads \in SUBSET Thread, SignalAndGo(threads, t, next)
      PROVE  Sync!SignalAndGo(threads, t, Shown(next)) /\ Moves(t, next)
  BY <1>1, PlaceSignal, SignalMoves DEF LInv
<1>2. ASSUME Go(t, next)
      PROVE  Sync!Go(t, Shown(next)) /\ Moves(t, next)
  BY <1>2, PlaceGo, GoMoves DEF LInv
<1> QED BY <1>1, <1>2

(* Who is woken: the counts and the room are those QueueSync sees.         *)
LEMMA FinishPutShown ==
    ASSUME LInv, LInv', NEW p \in Producer, FinishPut(p)
    PROVE  Sync!PutWrite(p)
<1>1. /\ p \in Thread /\ "leaving" \in Places /\ where[p] = "locked" /\ Shown("leaving") = "out"
      /\ EndPut /\ Return(p) /\ Consumer \in SUBSET Thread /\ Producer \in SUBSET Thread
  BY DEF Thread, Places, Inside, FinishPut, Return, Shown
<1>2. /\ Fifo!Put(msgs) /\ msgs = call[p]
      /\ VisibleQueue' = Left /\ Len(Left) = num_elem /\ Fifo!Bytes(Left) = size
  BY <1>1, EndPutRefines, HolderKnown DEF LInv
<1> DEFINE wakes == not_full_n_waiters # 0 /\ can_fit(MIN_MSG_SIZE, 1)
<1>3. IF not_empty_n_waiters > 0
      THEN SignalAndGo(Consumer, p, "leaving")
      ELSE IF wakes THEN SignalAndGo(Producer, p, "leaving") ELSE Go(p, "leaving")
  BY DEF FinishPut
<1>4. can_fit(MIN_MSG_SIZE, 1) <=> Sync!Fifo!can_fit(VisibleQueue', Sync!MIN_MSG_SIZE, 1)
  <2> HIDE DEF Left, VisibleQueue
  <2>1. Fifo!can_fit(Left, MIN_MSG_SIZE, 1) <=> can_fit(MIN_MSG_SIZE, 1)
    BY <1>2 DEF Fifo!can_fit, can_fit
  <2>2. Sync!Fifo!can_fit(Left, Sync!MIN_MSG_SIZE, 1) <=> Fifo!can_fit(Left, MIN_MSG_SIZE, 1)
    BY SameFits DEF Sync!MIN_MSG_SIZE, MIN_MSG_SIZE
  <2> QED BY <1>2, <2>1, <2>2
<1>5. /\ IF not_empty_n_waiters > 0
         THEN Sync!SignalAndGo(Consumer, p, "out")
         ELSE IF wakes THEN Sync!SignalAndGo(Producer, p, "out") ELSE Sync!Go(p, "out")
      /\ Moves(p, "leaving")
  <2> HIDE DEF wakes
  <2> QED BY <1>1, <1>3, SignalsShown
<1>6. /\ Place[p] = "locked" /\ Sync!Return(p, result')
      /\ UNCHANGED CountsShown /\ CountsShown = counts
  BY <1>1, <1>5, ReturnShown
<1>7. /\ Sync!Fifo!Fits(VisibleQueue, call[p]) /\ VisibleQueue' = VisibleQueue \o call[p]
      /\ result' = Sync!Fifo!PutReply("Q_SUCCESS")
  <2> HIDE DEF VisibleQueue
  <2> QED BY <1>2, SameFits DEF Fifo!Put, Fifo!PutReply, Sync!Fifo!PutReply
<1>8. Sync!WakeAfterPut(p)
  <2> HIDE DEF VisibleQueue
  <2>1. /\ not_empty_n_waiters + ToCount(Consumer) = not_empty_n_waiters
        /\ not_full_n_waiters + ToCount(Producer) = not_full_n_waiters
    BY <1>6 DEF CountsShown, counts
  <2> QED BY <1>4, <1>5, <2>1 DEF Sync!WakeAfterPut
<1> HIDE DEF VisibleQueue, Place
<1> QED BY <1>6, <1>7, <1>8 DEF Sync!PutWrite, Sync!counts, CountsShown

LEMMA FinishGetShown ==
    ASSUME LInv, LInv', NEW c \in Consumer, FinishGet(c)
    PROVE  Sync!GetRead(c)
<1>1. /\ c \in Thread /\ "leaving" \in Places /\ where[c] = "locked" /\ Shown("leaving") = "out"
      /\ EndGet /\ Return(c) /\ Consumer \in SUBSET Thread /\ Producer \in SUBSET Thread
      /\ c \notin Producer
  BY ThreadAssumption DEF Thread, Places, Inside, FinishGet, Return, Shown
<1>2. /\ Fifo!Get(request) /\ request = call[c]
      /\ Fifo!Count(request, VisibleQueue) = messages_read
      /\ VisibleQueue' = Left /\ (size > 0 <=> Left # <<>>)
  BY <1>1, EndGetRefines, HolderKnown DEF LInv
<1>3. IF messages_read > 0 /\ not_full_n_waiters > 0
      THEN SignalAndGo(Producer, c, "leaving")
      ELSE IF size > 0 /\ not_empty_n_waiters > 0
      THEN SignalAndGo(Consumer, c, "leaving")
      ELSE Go(c, "leaving")
  BY DEF FinishGet
<1>4. /\ IF messages_read > 0 /\ not_full_n_waiters > 0
         THEN Sync!SignalAndGo(Producer, c, "out")
         ELSE IF size > 0 /\ not_empty_n_waiters > 0
         THEN Sync!SignalAndGo(Consumer, c, "out")
         ELSE Sync!Go(c, "out")
      /\ Moves(c, "leaving")
  BY <1>1, <1>3, SignalsShown
<1>5. /\ Place[c] = "locked" /\ Sync!Return(c, result')
      /\ UNCHANGED CountsShown /\ CountsShown = counts
  BY <1>1, <1>4, ReturnShown
<1> HIDE DEF VisibleQueue, Left, Place
<1>6. /\ VisibleQueue # <<>> /\ VisibleQueue' = Sync!Fifo!Rest(call[c], VisibleQueue)
      /\ result' = Sync!Fifo!Reply(call[c], VisibleQueue)
  BY <1>2, SameReply DEF Fifo!Get
<1>7. Sync!WakeAfterGet(c)
  <2>1. /\ not_empty_n_waiters + ToCount(Consumer) = not_empty_n_waiters
        /\ not_full_n_waiters + ToCount(Producer) = not_full_n_waiters
    BY <1>5 DEF CountsShown, counts
  <2>2. Sync!Fifo!Count(call[c], VisibleQueue) = messages_read
    BY <1>2, SameCount
  <2>3. VisibleQueue' # <<>> <=> size > 0
    BY <1>2
  <2> QED BY <1>4, <2>1, <2>2, <2>3 DEF Sync!WakeAfterGet
<1> QED BY <1>5, <1>6, <1>7 DEF Sync!GetRead, Sync!counts, CountsShown

(* The decision to wait is the step; the rest of the way to sleep is not.  *)
LEMMA BeginWaitShown ==
    ASSUME LInv, LInv', NEW t \in Thread, BeginWait(t), Moves(t, "to_wait")
    PROVE  /\ Place[t] = "locked" /\ may_wait[t] /\ Sync!Unlock
           /\ CountsShown = counts /\ CountsShown' = WithWaiter(t)
           /\ UNCHANGED <<call, may_wait>>
<1>1. /\ where[t] = "locked" /\ where[t] \in Inside \ {"to_wait"} /\ Shown(where[t]) = "locked"
  BY DEF BeginWait, Inside, Shown
<1>2. Place[t] = "locked" /\ Holder' = Nobody
  BY <1>1, HolderGone DEF Place
<1>3. CountsShown = counts
  BY <1>1, CountsTaken
<1>4. CountsShown' = WithWaiter(t)'
  BY WaiterIsCountedNext DEF WaiterCounted, Moves
<1>5. WithWaiter(t)' = WithWaiter(t)
  BY DEF WithWaiter, BeginWait, counts
<1> HIDE DEF Holder, Place
<1> QED BY <1>2, <1>3, <1>4, <1>5 DEF BeginWait, Sync!Unlock

LEMMA PutWaitShown ==
    ASSUME LInv, LInv', NEW p \in Producer, PutWait(p)
    PROVE  Sync!PutWait(p)
<1>1. /\ p \in Thread /\ "to_wait" \in Places /\ where[p] = "locked" /\ Shown("to_wait") = "asleep"
      /\ BeginWait(p) /\ pc = "put_locked" /\ ~can_fit(total_size(msgs), Len(msgs))
      /\ Consumer \in SUBSET Thread /\ p \notin Consumer
  BY ThreadAssumption DEF Thread, Places, Inside, PutWait, BeginWait, Shown
<1>2. IF not_empty_n_waiters > 0
      THEN SignalAndGo(Consumer, p, "to_wait") ELSE Go(p, "to_wait")
  BY DEF PutWait
<1>3. /\ IF not_empty_n_waiters > 0
         THEN Sync!SignalAndGo(Consumer, p, "asleep") ELSE Sync!Go(p, "asleep")
      /\ Moves(p, "to_wait")
  BY <1>1, <1>2, SignalsShown
<1>4. /\ Place[p] = "locked" /\ may_wait[p] /\ Sync!Unlock
      /\ CountsShown = counts /\ CountsShown' = WithWaiter(p)
      /\ UNCHANGED <<call, may_wait>>
  BY <1>1, <1>3, BeginWaitShown
<1>5. UNCHANGED <<VisibleQueue, result>>
  BY <1>1, WaitKeeps
<1>6. ~Sync!Fifo!Fits(VisibleQueue, call[p])
  <2>1. /\ VisibleQueue = Left /\ Len(Left) = num_elem /\ size = Fifo!Bytes(Left)
        /\ msgs = call[p]
    BY <1>1, VisibleIdle, HolderKnown DEF LInv, InPut, InGet
  <2> HIDE DEF Left, VisibleQueue
  <2> QED BY <1>1, <2>1, SameFits DEF Fifo!Fits, Fifo!can_fit, can_fit, total_size
<1> HIDE DEF VisibleQueue, Place
<1>7. /\ not_empty_n_waiters + ToCount(Consumer) = not_empty_n_waiters
      /\ not_full_n_waiters + ToCount(Producer) = not_full_n_waiters
      /\ (not_empty_n_waiters + ToCount(Consumer))' = not_empty_n_waiters
      /\ (not_full_n_waiters + ToCount(Producer))' = not_full_n_waiters + 1
  BY <1>1, <1>4 DEF CountsShown, counts, WithWaiter
<1> QED BY <1>3, <1>4, <1>5, <1>6, <1>7 DEF Sync!PutWait

LEMMA GetWaitShown ==
    ASSUME LInv, LInv', NEW c \in Consumer, GetWait(c)
    PROVE  Sync!GetWait(c)
<1>1. /\ c \in Thread /\ "to_wait" \in Places /\ where[c] = "locked" /\ Shown("to_wait") = "asleep"
      /\ BeginWait(c) /\ pc = "get_locked" /\ size <= 0 /\ Go(c, "to_wait")
  BY DEF Thread, Places, Inside, GetWait, BeginWait, Shown
<1>2. Sync!Go(c, "asleep") /\ Moves(c, "to_wait")
  BY <1>1, PlaceGo, GoMoves DEF LInv
<1>3. /\ Place[c] = "locked" /\ may_wait[c] /\ Sync!Unlock
      /\ CountsShown = counts /\ CountsShown' = WithWaiter(c)
      /\ UNCHANGED <<call, may_wait>>
  BY <1>1, <1>2, BeginWaitShown
<1>4. UNCHANGED <<VisibleQueue, result>>
  BY <1>1, WaitKeeps
<1>5. VisibleQueue = <<>>
  <2>1. VisibleQueue = Left /\ (size > 0 <=> Left # <<>>) /\ size \in Nat
    BY <1>1, VisibleIdle, ContentsTyped DEF LInv, IInv, InPut, InGet
  <2> HIDE DEF Left, VisibleQueue
  <2> QED BY <1>1, <2>1
<1> HIDE DEF VisibleQueue, Place
<1>6. /\ not_empty_n_waiters + ToCount(Consumer) = not_empty_n_waiters
      /\ not_full_n_waiters + ToCount(Producer) = not_full_n_waiters
      /\ (not_empty_n_waiters + ToCount(Consumer))' = not_empty_n_waiters + 1
      /\ (not_full_n_waiters + ToCount(Producer))' = not_full_n_waiters
  BY <1>3 DEF CountsShown, counts, WithWaiter
<1> QED BY <1>2, <1>3, <1>4, <1>5, <1>6 DEF Sync!GetWait

-----------------------------------------------------------------------------
LEMMA LockedInitShown == LockedInit => Sync!Init
<1> SUFFICES ASSUME LockedInit PROVE Sync!Init
  OBVIOUS
<1>1. VisibleQueue = <<>> /\ result = Fifo!Idle
  <2>1. LInv /\ pc = "unlocked" /\ size = 0 /\ result = Fifo!Idle
    BY LockedInitInv DEF LockedInit, Init, Ring!Init
  <2>2. VisibleQueue = Left /\ (size > 0 <=> Left # <<>>)
    BY <2>1, VisibleIdle DEF LInv, InPut, InGet
  <2> HIDE DEF VisibleQueue, Left
  <2> QED BY <2>1, <2>2
<1>2. Holder = Nobody /\ Place = [t \in Thread |-> "out"]
  BY DEF LockedInit, Holder, Place, Shown
<1>3. ToCount(Consumer) = 0 /\ ToCount(Producer) = 0
  BY DEF LockedInit, ToCount, Thread
<1> HIDE DEF VisibleQueue, Holder, Place
<1> QED BY <1>1, <1>2, <1>3
        DEF LockedInit, Sync!Init, Sync!Fifo!Init, Sync!Fifo!Idle, Fifo!Idle, Sync!Thread, Thread

LEMMA LockedNextShown ==
    LInv /\ LInv' /\ [LockedNext]_lockedvars => [Sync!Next]_(Sync!vars)
<1> SUFFICES ASSUME LInv, LInv', [LockedNext]_lockedvars
             PROVE  Sync!Next \/ UNCHANGED Sync!vars
  OBVIOUS
<1>1. ASSUME NEW p \in Producer, FinishPut(p) \/ PutWait(p)
      PROVE  Sync!QueuePut(p)
  BY <1>1, FinishPutShown, PutWaitShown DEF Sync!QueuePut
<1>2. ASSUME NEW c \in Consumer, FinishGet(c) \/ GetWait(c)
      PROVE  Sync!QueueGet(c)
  BY <1>2, FinishGetShown, GetWaitShown DEF Sync!QueueGet
<1>3. ASSUME NEW p \in Producer, NEW batch \in Batch, NEW block \in BOOLEAN, Call(p, batch, block)
      PROVE  Sync!NewCall
  BY <1>3, CallShown DEF Sync!NewCall, Thread
<1>4. ASSUME NEW c \in Consumer, NEW limits \in Request, NEW block \in BOOLEAN, Call(c, limits, block)
      PROVE  Sync!NewCall
  BY <1>4, CallShown DEF Sync!NewCall, Thread
<1>5. ASSUME NEW t \in Thread, Lock(t) \/ UncountWaiter(t) \/ Expire(t) \/ WakeSpuriously(t)
      PROVE  Sync!Lock(t) \/ Sync!Relock(t) \/ Sync!Expire(t) \/ Sync!WakeSpuriously(t)
  BY <1>5, LockShown, UncountShown, ExpireShown, WakeShown
<1>6. ASSUME NEW t \in Thread, GiveUp(t)
      PROVE  \/ t \in Producer /\ Sync!QueuePut(t)
             \/ t \in Consumer /\ Sync!QueueGet(t)
  BY <1>6, GiveUpShown DEF Sync!QueuePut, Sync!QueueGet
<1>7. ASSUME NEW t \in Thread,
             Store(t) \/ Unlock(t) \/ CountWaiter(t) \/ Sleep(t) \/ Relock(t)
      PROVE  UNCHANGED Sync!vars
  BY <1>7, StoreHidden, UnlockHidden, CountHidden, SleepHidden, RelockHidden
<1>8. CASE UNCHANGED lockedvars
  BY <1>8, StutterHidden
<1> QED BY <1>1, <1>2, <1>3, <1>4, <1>5, <1>6, <1>7, <1>8
        DEF LockedNext, Sync!Next, Sync!Thread, Thread

(* Each section, all its stores under the mutex, is one step of QueueSync, *)
(* which returns, wakes or goes to wait as it does there, on the same      *)
(* queue and with the same counts.                                         *)
THEOREM ImplementsSync == LockedSpec => ImplementsQueueSync
BY LockedInitShown, LockedNextShown, LockedInvariance, PTL
   DEF LockedSpec, ImplementsQueueSync, Sync!Spec

-----------------------------------------------------------------------------
(* What is proved of QueueSync holds of the sections, store by store.      *)
SP == INSTANCE QueueSyncProofs
          WITH MsgSize <- MsgSize, queue <- VisibleQueue, mutex <- Holder, pc <- Place,
               not_empty_n_waiters <- not_empty_n_waiters + ToCount(Consumer),
               not_full_n_waiters  <- not_full_n_waiters + ToCount(Producer)

LEMMA SyncAssumptions ==
    /\ SP!ThreadAssumption /\ SP!BatchAssumption /\ SP!CapacityAssumption /\ SP!SizeAssumption
<1>1. SP!ThreadAssumption
  BY ThreadAssumption DEF SP!ThreadAssumption, SP!Thread, Thread, IsFiniteSet, SP!IsFiniteSet
<1>2. SP!BatchAssumption /\ SP!CapacityAssumption
  BY BatchAssumption, CapacityAssumption DEF SP!BatchAssumption, SP!CapacityAssumption
<1>3. SP!SizeAssumption
  BY MessageTyped, HeaderNat DEF SP!SizeAssumption, MsgSize
<1> QED BY <1>1, <1>2, <1>3

(* Both instances of QueueSync speak of the same threads. *)
LEMMA SameSync == Sync!Spec <=> SP!Spec
<1> HIDE DEF VisibleQueue, Holder, Place, ToCount
<1>1. Sync!Init <=> SP!Init
  BY DEF Sync!Init, SP!Init, Sync!Thread, SP!Thread, Sync!Fifo!Init, SP!Fifo!Init,
         Sync!Fifo!Idle, SP!Fifo!Idle
<1>2. [Sync!Next]_(Sync!vars) <=> [SP!Next]_(SP!vars)
  BY Zenon DEF
     Sync!Next, Sync!NewCall, Sync!QueuePut, Sync!QueueGet, Sync!Call, Sync!Lock, Sync!Relock,
     Sync!PutFull, Sync!PutWait, Sync!PutWrite, Sync!GetEmpty, Sync!GetWait, Sync!GetRead,
     Sync!Expire, Sync!WakeSpuriously, Sync!Return, Sync!Go, Sync!Unlock, Sync!Begun,
     Sync!WakeAfterPut, Sync!WakeAfterGet, Sync!SignalAndGo, Sync!Asleep, Sync!Uncount,
     Sync!MutexFree, Sync!MIN_MSG_SIZE, Sync!vars, Sync!counts, Sync!Thread,
     SP!Next, SP!NewCall, SP!QueuePut, SP!QueueGet, SP!Call, SP!Lock, SP!Relock,
     SP!PutFull, SP!PutWait, SP!PutWrite, SP!GetEmpty, SP!GetWait, SP!GetRead,
     SP!Expire, SP!WakeSpuriously, SP!Return, SP!Go, SP!Unlock, SP!Begun,
     SP!WakeAfterPut, SP!WakeAfterGet, SP!SignalAndGo, SP!Asleep, SP!Uncount,
     SP!MutexFree, SP!MIN_MSG_SIZE, SP!vars, SP!counts, SP!Thread,
     Sync!Fifo!Putting, SP!Fifo!Putting, Sync!Fifo!Getting, SP!Fifo!Getting,
     Sync!Fifo!PutReply, SP!Fifo!PutReply, Sync!Fifo!EmptyReply, SP!Fifo!EmptyReply,
     Sync!Fifo!Fits, SP!Fifo!Fits, Sync!Fifo!can_fit, SP!Fifo!can_fit, Sync!Fifo!Bytes, SP!Fifo!Bytes,
     Sync!Fifo!Sums, SP!Fifo!Sums, Sync!Fifo!Rest, SP!Fifo!Rest, Sync!Fifo!Reply, SP!Fifo!Reply,
     Sync!Fifo!Count, SP!Fifo!Count, Sync!Fifo!TakesMore, SP!Fifo!TakesMore,
     Sync!Fifo!WantsMore, SP!Fifo!WantsMore, Sync!Fifo!Prefix, SP!Fifo!Prefix
<1> QED BY <1>1, <1>2, PTL DEF Sync!Spec, SP!Spec

LEMMA SameFifo == SP!IsFifoQueue <=> IsFifoQueue
<1> HIDE DEF VisibleQueue
<1>1. SP!Fifo!Init <=> Fifo!Init
  BY DEF SP!Fifo!Init, Fifo!Init, SP!Fifo!Idle, Fifo!Idle
<1>2. [SP!Fifo!Next]_(SP!Fifo!vars) <=> [Fifo!Next]_(Fifo!vars)
  BY Zenon DEF
     SP!Fifo!Next, SP!Fifo!BeginPut, SP!Fifo!BeginGet, SP!Fifo!Put, SP!Fifo!PutFull,
     SP!Fifo!Get, SP!Fifo!GetEmpty, SP!Fifo!Putting, SP!Fifo!Getting, SP!Fifo!PutReply,
     SP!Fifo!EmptyReply, SP!Fifo!Fits, SP!Fifo!can_fit, SP!Fifo!Bytes, SP!Fifo!Sums,
     SP!Fifo!Rest, SP!Fifo!Reply, SP!Fifo!Count, SP!Fifo!TakesMore, SP!Fifo!WantsMore,
     SP!Fifo!Prefix, SP!Fifo!vars,
     Fifo!Next, Fifo!BeginPut, Fifo!BeginGet, Fifo!Put, Fifo!PutFull,
     Fifo!Get, Fifo!GetEmpty, Fifo!Putting, Fifo!Getting, Fifo!PutReply,
     Fifo!EmptyReply, Fifo!Fits, Fifo!can_fit, Fifo!Bytes, Fifo!Sums,
     Fifo!Rest, Fifo!Reply, Fifo!Count, Fifo!TakesMore, Fifo!WantsMore,
     Fifo!Prefix, Fifo!vars
<1> QED BY <1>1, <1>2, PTL DEF SP!IsFifoQueue, IsFifoQueue, SP!Fifo!Spec, Fifo!Spec

(* Any number of threads, their stores, waits, wakeups and timeouts taken  *)
(* together: the queue they see is first-in first-out, each batch goes in  *)
(* whole or not at all, each get takes what its limits allow, and each     *)
(* call does so at one instant.                                            *)
THEOREM LockedImplementsFifoQueue == LockedSpec => IsFifoQueue
BY ImplementsSync, SameSync, SameFifo, SyncAssumptions, SP!ImplementsFifoQueue, PTL
   DEF ImplementsQueueSync

(* A count and whoever has decided to wait and is not counted yet are      *)
(* together as many as wait, at every moment.                              *)
THEOREM LockedCountsExact == LockedSpec => []Sync!CountsExact
<1>1. SP!CountsExact <=> Sync!CountsExact
  BY DEF SP!CountsExact, Sync!CountsExact, SP!Waiting, Sync!Waiting,
         SP!Cardinality, Sync!Cardinality
<1> QED BY <1>1, ImplementsSync, SameSync, SyncAssumptions, SP!CountsCorrect, PTL
        DEF ImplementsQueueSync

(* And in the use of UniformQueue, whatever happens between the stores, no *)
(* consumer is left asleep beside messages, and no producer beside room.   *)
THEOREM LockedWakeups ==
    ASSUME SP!Uniform
    PROVE  LockedSpec => [](Sync!NoConsumerLeftAsleep /\ Sync!NoProducerLeftAsleep)
<1>1. /\ SP!NoConsumerLeftAsleep <=> Sync!NoConsumerLeftAsleep
      /\ SP!NoProducerLeftAsleep <=> Sync!NoProducerLeftAsleep
  <2> HIDE DEF VisibleQueue, Place
  <2> QED BY Zenon DEF
        SP!NoConsumerLeftAsleep, Sync!NoConsumerLeftAsleep, SP!NoProducerLeftAsleep,
        Sync!NoProducerLeftAsleep, SP!Quiescent, Sync!Quiescent, SP!Thread, Sync!Thread,
        SP!Fifo!Fits, Sync!Fifo!Fits, SP!Fifo!can_fit, Sync!Fifo!can_fit,
        SP!Fifo!Bytes, Sync!Fifo!Bytes, SP!Fifo!Sums, Sync!Fifo!Sums
<1> QED BY <1>1, ImplementsSync, SameSync, SyncAssumptions, SP!ConsumersServed,
           SP!ProducersServed, PTL DEF ImplementsQueueSync
=============================================================================
