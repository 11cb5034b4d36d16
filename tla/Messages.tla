------------------------------ MODULE Messages ------------------------------
(***************************************************************************)
(* What queue_put and queue_get compute of the messages: how many bytes    *)
(* they take, whether a batch fits, how many of them a get takes; and the  *)
(* lemmas about it that the proofs about the queue have in common.  The    *)
(* bytes are a recursive sum; that it adds up over a concatenation and     *)
(* splits at any point is shown by induction over sets of numbers.         *)
(***************************************************************************)
EXTENDS Integers, Sequences, SequenceTheorems, WellFoundedInduction, TLAPS

CONSTANTS Message,         (* the messages of the callers                  *)
          MsgSize(_),      (* how many bytes a message is serialized to    *)
          HeaderSize,      (* sizeof(size_t)                               *)
          max_size_bytes,  (* the capacity of the queue, in bytes          *)
          maxsize          (* and in messages                              *)

(* The bytes that the messages up to each one take, a size before each. *)
Sums(msgs) ==
    LET sum[n \in 0..Len(msgs)] ==
            IF n = 0 THEN 0 ELSE sum[n - 1] + HeaderSize + MsgSize(msgs[n])
    IN  sum

Bytes(msgs) == Sums(msgs)[Len(msgs)]

(* A mutant: the bytes are not looked at. *)
can_fit_by_number(q, data_size, additional_size) == Len(q) + additional_size <= maxsize

(* Is there room for `additional_size` messages of `data_size` bytes in all? *)
can_fit(q, data_size, additional_size) ==
    /\ Bytes(q) + data_size <= max_size_bytes
    /\ Len(q) + additional_size <= maxsize

Fits(q, batch) == can_fit(q, Bytes(batch), Len(batch))

Prefix(q, n) == SubSeq(q, 1, n)

(* May a get that has n messages take one more? *)
WantsMore(request, q, n) == /\ n < Len(q)
                            /\ n < request.max_messages_to_get
                            /\ Bytes(Prefix(q, n)) < request.max_bytes_to_get

TakesMore(request, q, n) == /\ WantsMore(request, q, n)
                            /\ Bytes(Prefix(q, n + 1)) <= request.msg_buffer_size

(* The number of messages a get takes: it never stops while it may take    *)
(* another and the buffer has room.                                        *)
Count(request, q) ==
    CHOOSE n \in 0..Len(q) : /\ ~TakesMore(request, q, n)
                             /\ \A k \in 0..n - 1 : TakesMore(request, q, k)

(* What the get returns: the messages, whether the buffer was too small    *)
(* for more, and the bytes that it read or would have needed.              *)
Reply(request, q) ==
    LET n        == Count(request, q)
        tooSmall == WantsMore(request, q, n)
    IN  [op            |-> "get",
         status        |-> IF tooSmall THEN "Q_MSG_BUFFER_TOO_SMALL" ELSE "Q_SUCCESS",
         messages      |-> Prefix(q, n),
         messages_size |-> Bytes(Prefix(q, IF tooSmall THEN n + 1 ELSE n))]

Rest(request, q) == SubSeq(q, Count(request, q) + 1, Len(q))
-----------------------------------------------------------------------------
(* Sizes are numbers; the lemmas say where they need it. *)
Sized == HeaderSize \in Nat /\ \A m \in Message : MsgSize(m) \in Nat

(* Induction over the numbers up to a bound, for a set of them. *)
LEMMA Induction ==
    ASSUME NEW S \in SUBSET Nat, 0 \in S, NEW N \in Nat,
           \A n \in S : n < N => n + 1 \in S
    PROVE  \A n \in 0..N : n \in S
<1> DEFINE T == { n \in 0..N : n \notin S }
<1> SUFFICES ASSUME T # {} PROVE FALSE
  OBVIOUS
<1>1. PICK n \in T : \A k \in T : ~(<<k, n>> \in OpToRel(<, Nat))
  <2>1. IsWellFoundedOn(OpToRel(<, Nat), Nat)
    BY NatLessThanWellFounded
  <2>2. T \subseteq Nat
    OBVIOUS
  <2> QED BY <2>1, <2>2, WFMin
<1>2. n \in Nat /\ n <= N /\ n \notin S
  OBVIOUS
<1>3. n # 0
  BY <1>2
<1>4. n - 1 \in Nat /\ n - 1 < N /\ n - 1 < n /\ (n - 1) + 1 = n
  BY <1>2, <1>3
<1>5. n - 1 \notin S
  BY <1>2, <1>4
<1>6. n - 1 \in T
  BY <1>4, <1>5
<1>7. <<n - 1, n>> \in OpToRel(<, Nat)
  BY <1>2, <1>4 DEF OpToRel
<1> QED BY <1>1, <1>6, <1>7

(* The sums are what their recursive definition says. *)
LEMMA SumsDef ==
    ASSUME NEW q \in Seq(Message)
    PROVE  Sums(q) = [n \in 0..Len(q) |->
              IF n = 0 THEN 0 ELSE Sums(q)[n - 1] + HeaderSize + MsgSize(q[n])]
<1> DEFINE Good(f, m) == f = [n \in 0..m |->
              IF n = 0 THEN 0 ELSE f[n - 1] + HeaderSize + MsgSize(q[n])]
           S == { m \in Nat : \E f : Good(f, m) }
<1>1. 0 \in S
  <2>1. Good([n \in 0..0 |-> 0], 0)
    OBVIOUS
  <2> QED BY <2>1
<1>2. ASSUME NEW m \in S PROVE m + 1 \in S
  <2>1. PICK f : Good(f, m)
    BY <1>2
  <2>2. m \in Nat /\ DOMAIN f = 0..m
    BY <2>1
  <2>a. \A n \in 0..m : f[n] = IF n = 0 THEN 0 ELSE f[n - 1] + HeaderSize + MsgSize(q[n])
    BY <2>1
  <2> DEFINE g == [n \in 0..m + 1 |->
                     IF n = m + 1 THEN f[m] + HeaderSize + MsgSize(q[m + 1]) ELSE f[n]]
  <2>3. ASSUME NEW n \in 0..m + 1
        PROVE  g[n] = IF n = 0 THEN 0 ELSE g[n - 1] + HeaderSize + MsgSize(q[n])
    <3> n \in Nat /\ n <= m + 1 /\ m \in Nat
      BY <2>2
    <3>1. CASE n = 0
      <4>1. 0 \in 0..m /\ n # m + 1
        BY <3>1
      <4> QED BY <3>1, <4>1, <2>a
    <3>2. CASE n = m + 1
      <4>1. n - 1 = m /\ n # 0 /\ m \in 0..m + 1 /\ m # m + 1
        BY <3>2
      <4> QED BY <3>2, <4>1
    <3>3. CASE n # 0 /\ n # m + 1
      <4>1. n \in 0..m /\ n - 1 \in 0..m + 1 /\ n - 1 # m + 1
        BY <3>3
      <4> QED BY <4>1, <2>a, <3>3
    <3> QED BY <3>1, <3>2, <3>3
  <2> HIDE DEF g
  <2>4. DOMAIN g = 0..m + 1
    BY DEF g
  <2>5. g = [n \in DOMAIN g |-> g[n]]
    BY DEF g
  <2>6. Good(g, m + 1)
    BY <2>3, <2>4, <2>5
  <2> QED BY <2>2, <2>6
<1>3. Len(q) \in S
  <2>1. S \in SUBSET Nat /\ Len(q) \in Nat
    OBVIOUS
  <2>2. \A n \in S : n < Len(q) => n + 1 \in S
    BY <1>2
  <2> HIDE DEF S
  <2>3. \A n \in 0..Len(q) : n \in S
    BY <1>1, <2>1, <2>2, Induction
  <2> QED BY <2>1, <2>3
<1>4. PICK f : Good(f, Len(q))
  BY <1>3
<1>5. Sums(q) = CHOOSE h : Good(h, Len(q))
  BY DEF Sums
<1> HIDE DEF Good
<1>6. Good(Sums(q), Len(q))
  BY <1>4, <1>5
<1> QED BY <1>6 DEF Good

(* One element of the sums. *)
LEMMA SumsAt ==
    ASSUME NEW q \in Seq(Message), NEW n \in 0..Len(q)
    PROVE  Sums(q)[n] =
              IF n = 0 THEN 0 ELSE Sums(q)[n - 1] + HeaderSize + MsgSize(q[n])
BY SumsDef

(* They are numbers. *)
LEMMA SumsTyped ==
    ASSUME Sized, NEW q \in Seq(Message)
    PROVE  \A n \in 0..Len(q) : Sums(q)[n] \in Nat
<1> DEFINE S == { n \in Nat : n <= Len(q) => Sums(q)[n] \in Nat }
<1>1. S \in SUBSET Nat /\ Len(q) \in Nat
  OBVIOUS
<1>2. 0 \in S
  BY <1>1, SumsAt
<1>3. ASSUME NEW n \in S, n < Len(q) PROVE n + 1 \in S
  <2>1. n \in Nat /\ n + 1 \in 1..Len(q) /\ (n + 1) - 1 = n /\ Sums(q)[n] \in Nat
    BY <1>1, <1>3
  <2>2. q[n + 1] \in Message
    BY <2>1
  <2>3. MsgSize(q[n + 1]) \in Nat /\ HeaderSize \in Nat
    BY <2>2 DEF Sized
  <2>4. Sums(q)[n + 1] = Sums(q)[n] + HeaderSize + MsgSize(q[n + 1])
    BY <1>1, <2>1, SumsAt
  <2> QED BY <2>1, <2>3, <2>4
<1> HIDE DEF S
<1>4. \A n \in 0..Len(q) : n \in S
  BY <1>1, <1>2, <1>3, Induction
<1> QED BY <1>1, <1>4 DEF S

(* Two sequences whose messages agree over a stretch agree on its bytes. *)
LEMMA SumsShift ==
    ASSUME Sized, NEW q \in Seq(Message), NEW r \in Seq(Message), NEW d \in Nat,
           NEW N \in Nat, N <= Len(r), d + N <= Len(q),
           \A n \in 1..N : q[d + n] = r[n]
    PROVE  \A n \in 0..N : Sums(q)[d + n] = Sums(q)[d] + Sums(r)[n]
<1> DEFINE S == { n \in Nat : n <= N =>
                     Sums(q)[d + n] = Sums(q)[d] + Sums(r)[n] }
<1>1. S \in SUBSET Nat /\ Len(q) \in Nat /\ Len(r) \in Nat
  OBVIOUS
<1>2. 0 \in S
  <2>1. Sums(r)[0] = 0
    BY <1>1, SumsAt
  <2>2. Sums(q)[d] \in Nat
    BY <1>1, SumsTyped
  <2> QED BY <2>1, <2>2
<1>3. ASSUME NEW n \in S, n < N PROVE n + 1 \in S
  <2>1. /\ n \in Nat /\ n + 1 \in 1..N /\ n + 1 \in 0..Len(r) /\ n \in 0..Len(r)
        /\ (n + 1) - 1 = n /\ n + 1 # 0
        /\ d + (n + 1) \in 1..Len(q) /\ d + (n + 1) \in 0..Len(q) /\ d \in 0..Len(q)
        /\ (d + (n + 1)) - 1 = d + n /\ d + (n + 1) # 0 /\ d + n \in 0..Len(q)
    BY <1>1, <1>3
  <2>2. Sums(q)[d + n] = Sums(q)[d] + Sums(r)[n]
    BY <2>1, <1>3
  <2>3. q[d + (n + 1)] = r[n + 1] /\ r[n + 1] \in Message
    BY <1>1, <2>1
  <2>4. MsgSize(r[n + 1]) \in Nat /\ HeaderSize \in Nat
    BY <2>3 DEF Sized
  <2>5. Sums(r)[n + 1] = Sums(r)[n] + HeaderSize + MsgSize(r[n + 1])
    BY <2>1, SumsAt
  <2>6. Sums(q)[d + (n + 1)] = Sums(q)[d + n] + HeaderSize + MsgSize(r[n + 1])
    BY <2>1, <2>3, SumsAt
  <2>7. Sums(q)[d] \in Nat /\ Sums(r)[n] \in Nat
    BY <2>1, SumsTyped
  <2>8. Sums(q)[d + (n + 1)] = Sums(q)[d] + Sums(r)[n + 1]
    <3> DEFINE a == Sums(q)[d]
               b == Sums(r)[n]
               s == MsgSize(r[n + 1])
               whole == Sums(q)[d + (n + 1)]
               rest  == Sums(r)[n + 1]
    <3>1. whole = (a + b) + HeaderSize + s /\ rest = b + HeaderSize + s
      BY <2>2, <2>5, <2>6, Zenon
    <3>2. a \in Nat /\ b \in Nat /\ s \in Nat /\ HeaderSize \in Nat
      BY <2>4, <2>7
    <3> HIDE DEF a, b, s, whole, rest
    <3>3. whole = a + rest
      BY <3>1, <3>2
    <3> QED BY <3>3 DEF a, whole, rest
  <2>9. n + 1 \in Nat
    BY <2>1
  <2> QED BY <2>8, <2>9
<1> HIDE DEF S
<1>4. \A n \in 0..N : n \in S
  BY <1>1, <1>2, <1>3, Induction
<1> QED BY <1>4 DEF S

(* So are the bytes of a sequence. *)
LEMMA BytesTyped ==
    ASSUME Sized, NEW q \in Seq(Message)
    PROVE  Bytes(q) \in Nat
BY SumsTyped DEF Bytes

(* The bytes of messages one after the other add up. *)
LEMMA BytesOfConcat ==
    ASSUME Sized, NEW q \in Seq(Message), NEW r \in Seq(Message)
    PROVE  Bytes(q \o r) = Bytes(q) + Bytes(r)
<1> DEFINE whole == q \o r
<1>1. /\ whole \in Seq(Message) /\ Len(whole) = Len(q) + Len(r)
      /\ Len(q) \in Nat /\ Len(r) \in Nat
      /\ \A n \in 1..Len(q) : whole[n] = q[n]
      /\ \A n \in 1..Len(r) : whole[Len(q) + n] = r[n]
  BY ConcatProperties
<1> HIDE DEF whole
<1>2. Sums(whole)[Len(q)] = Sums(q)[Len(q)]
  <2>1. \A n \in 1..Len(q) : whole[0 + n] = q[n]
    BY <1>1
  <2>2. 0 \in Nat /\ Len(q) <= Len(q) /\ 0 + Len(q) <= Len(whole) /\ Len(q) \in 0..Len(q)
    BY <1>1
  <2>4. \A n \in 0..Len(q) :
           Sums(whole)[0 + n] = Sums(whole)[0] + Sums(q)[n]
    BY <1>1, <2>1, <2>2, SumsShift
  <2>3. Sums(whole)[0] = 0 /\ Sums(q)[Len(q)] \in Nat
    BY <1>1, SumsAt, SumsTyped
  <2> QED BY <1>1, <2>2, <2>3, <2>4
<1>3. Sums(whole)[Len(q) + Len(r)] = Sums(whole)[Len(q)] + Sums(r)[Len(r)]
  <2>1. /\ Len(r) <= Len(r) /\ Len(q) + Len(r) <= Len(whole) /\ Len(r) \in 0..Len(r)
    BY <1>1
  <2>2. \A n \in 0..Len(r) :
           Sums(whole)[Len(q) + n] = Sums(whole)[Len(q)] + Sums(r)[n]
    BY <1>1, <2>1, SumsShift
  <2> QED BY <2>1, <2>2
<1> QED BY <1>1, <1>2, <1>3 DEF Bytes, whole

(* Cut anywhere, a queue has the bytes of its two parts. *)
LEMMA BytesSplit ==
    ASSUME Sized, NEW q \in Seq(Message), NEW n \in 0..Len(q)
    PROVE  /\ SubSeq(q, n + 1, Len(q)) \in Seq(Message)
           /\ Bytes(q) = Sums(q)[n] + Bytes(SubSeq(q, n + 1, Len(q)))
<1> DEFINE r == SubSeq(q, n + 1, Len(q))
<1>1. n \in Nat /\ n <= Len(q) /\ Len(q) \in Nat
  OBVIOUS
<1>2. \A i \in n + 1..Len(q) : q[i] \in Message
  BY <1>1
<1>3. /\ r \in Seq(Message)
      /\ Len(r) = IF n + 1 <= Len(q) THEN Len(q) - (n + 1) + 1 ELSE 0
      /\ \A i \in 1..Len(q) - (n + 1) + 1 : r[i] = q[n + 1 + i - 1]
  BY <1>1, <1>2, SubSeqProperties
<1> HIDE DEF r
<1>4. Len(r) = Len(q) - n
  BY <1>1, <1>3
<1>5. \A i \in 1..Len(r) : q[n + i] = r[i]
  <2> TAKE i \in 1..Len(r)
  <2>1. n + 1 + i - 1 = n + i /\ i \in 1..Len(q) - (n + 1) + 1
    BY <1>1, <1>4
  <2> QED BY <1>3, <2>1
<1>6. Sums(q)[n + Len(r)] = Sums(q)[n] + Sums(r)[Len(r)]
  <2>1. /\ Len(r) \in Nat /\ Len(r) <= Len(r) /\ n + Len(r) <= Len(q)
        /\ Len(r) \in 0..Len(r)
    BY <1>1, <1>3, <1>4
  <2>2. \A i \in 0..Len(r) : Sums(q)[n + i] = Sums(q)[n] + Sums(r)[i]
    BY <1>1, <1>3, <1>5, <2>1, SumsShift
  <2> QED BY <2>1, <2>2
<1>7. n + Len(r) = Len(q)
  BY <1>1, <1>4
<1> QED BY <1>3, <1>6, <1>7 DEF Bytes, r

(* The first messages of a queue have no more bytes than all of them. *)
LEMMA PrefixBytes ==
    ASSUME Sized, NEW q \in Seq(Message), NEW n \in 0..Len(q)
    PROVE  /\ Bytes(Prefix(q, n)) = Sums(q)[n]
           /\ Bytes(Prefix(q, n)) \in Nat
           /\ Bytes(Prefix(q, n)) <= Bytes(q)
<1> DEFINE r == SubSeq(q, 1, n)
<1>1. n \in Nat /\ n <= Len(q) /\ Len(q) \in Nat
  OBVIOUS
<1>2. \A k \in 1..n : q[k] \in Message
  BY <1>1
<1>3. /\ r \in Seq(Message)
      /\ Len(r) = IF 1 <= n THEN n - 1 + 1 ELSE 0
      /\ \A k \in 1..n - 1 + 1 : r[k] = q[1 + k - 1]
  BY <1>1, <1>2, SubSeqProperties
<1> HIDE DEF r
<1>4. Len(r) = n
  BY <1>1, <1>3
<1>5. \A k \in 1..n : q[0 + k] = r[k]
  <2> TAKE k \in 1..n
  <2>1. 1 + k - 1 = k /\ 0 + k = k /\ k \in 1..n - 1 + 1
    BY <1>1
  <2> QED BY <1>3, <2>1
<1>6. Sums(q)[0 + n] = Sums(q)[0] + Sums(r)[n]
  <2>1. 0 \in Nat /\ n <= Len(r) /\ 0 + n <= Len(q) /\ n \in 0..n
    BY <1>1, <1>4
  <2>2. \A k \in 0..n : Sums(q)[0 + k] = Sums(q)[0] + Sums(r)[k]
    BY <1>1, <1>3, <1>5, <2>1, SumsShift
  <2> QED BY <2>1, <2>2
<1>7. Bytes(r) = Sums(q)[n] /\ Bytes(r) \in Nat
  <2>1. Bytes(r) = Sums(r)[n] /\ Bytes(r) \in Nat
    BY <1>3, <1>4, BytesTyped DEF Bytes
  <2>2. 0 \in 0..Len(q)
    BY <1>1
  <2>3. Sums(q)[0] = 0
    BY <2>2, SumsAt
  <2>4. 0 + n = n
    BY <1>1
  <2> QED BY <1>6, <2>1, <2>3, <2>4
<1>8. Bytes(SubSeq(q, n + 1, Len(q))) \in Nat
  BY BytesSplit, BytesTyped
<1>9. Bytes(q) = Sums(q)[n] + Bytes(SubSeq(q, n + 1, Len(q)))
  BY BytesSplit
<1>10. Bytes(r) <= Bytes(q)
  BY <1>7, <1>8, <1>9
<1> QED BY <1>7, <1>10 DEF Prefix, r

(* The bytes of one message with its size in front. *)
LEMMA BytesOfOne ==
    ASSUME Sized, NEW q \in Seq(Message), Len(q) = 1
    PROVE  Bytes(q) = HeaderSize + MsgSize(q[1])
<1>1. 0 \in 0..Len(q) /\ 1 \in 0..Len(q) /\ 1 - 1 = 0 /\ q[1] \in Message
  OBVIOUS
<1>2. Sums(q)[0] = 0
  BY <1>1, SumsAt
<1>3. Sums(q)[1] = Sums(q)[0] + HeaderSize + MsgSize(q[1])
  <2>1. Sums(q)[1] =
           IF 1 = 0 THEN 0 ELSE Sums(q)[1 - 1] + HeaderSize + MsgSize(q[1])
    BY <1>1, SumsAt, Zenon
  <2> QED BY <1>1, <2>1
<1>4. MsgSize(q[1]) \in Nat /\ HeaderSize \in Nat
  BY <1>1 DEF Sized
<1> QED BY <1>2, <1>3, <1>4 DEF Bytes

(* The first message of a queue. *)
LEMMA FirstMessage ==
    ASSUME Sized, NEW q \in Seq(Message), q # <<>>
    PROVE  /\ Bytes(Prefix(q, 0)) = 0
           /\ Bytes(Prefix(q, 1)) = HeaderSize + MsgSize(q[1])
           /\ q[1] \in Message
<1>1. /\ 0 \in 0..Len(q) /\ 1 \in 0..Len(q) /\ 1 - 1 = 0 /\ Len(q) > 0 /\ q[1] \in Message
  BY EmptySeq
<1>2. /\ Bytes(Prefix(q, 0)) = Sums(q)[0]
      /\ Bytes(Prefix(q, 1)) = Sums(q)[1]
  BY <1>1, PrefixBytes
<1>3. Sums(q)[0] = 0
  BY <1>1, SumsAt
<1>4. Sums(q)[1] = Sums(q)[0] + HeaderSize + MsgSize(q[1])
  <2>1. Sums(q)[1] =
           IF 1 = 0 THEN 0 ELSE Sums(q)[1 - 1] + HeaderSize + MsgSize(q[1])
    BY <1>1, SumsAt, Zenon
  <2> QED BY <1>1, <2>1
<1>5. MsgSize(q[1]) \in Nat /\ HeaderSize \in Nat
  BY <1>1 DEF Sized
<1> QED BY <1>1, <1>2, <1>3, <1>4, <1>5

(* The number of messages a get takes is well defined: at the end of the   *)
(* queue it takes no more, so there is a first point where it does not.    *)
LEMMA CountInRange ==
    ASSUME NEW q \in Seq(Message), NEW limits
    PROVE  /\ Count(limits, q) \in 0..Len(q)
           /\ ~TakesMore(limits, q, Count(limits, q))
<1> DEFINE Stops == { n \in 0..Len(q) : ~TakesMore(limits, q, n) }
<1>1. Len(q) \in Nat /\ Len(q) \in Stops
  BY DEF TakesMore, WantsMore
<1>2. PICK n \in Stops : \A k \in Stops : ~(<<k, n>> \in OpToRel(<, Nat))
  <2>1. IsWellFoundedOn(OpToRel(<, Nat), Nat)
    BY NatLessThanWellFounded
  <2>2. Stops \subseteq Nat /\ Stops # {}
    BY <1>1
  <2> QED BY <2>1, <2>2, WFMin
<1>3. \A k \in 0..n - 1 : TakesMore(limits, q, k)
  <2> SUFFICES ASSUME NEW k \in 0..n - 1, ~TakesMore(limits, q, k)
               PROVE  FALSE
    OBVIOUS
  <2>1. k \in Stops /\ k \in Nat /\ n \in Nat /\ k < n
    BY <1>1
  <2> QED BY <1>2, <2>1 DEF OpToRel
<1>4. n \in 0..Len(q) /\ ~TakesMore(limits, q, n)
  BY <1>2
<1> QED BY <1>3, <1>4 DEF Count

(* There is but one such number. *)
LEMMA CountIs ==
    ASSUME NEW q \in Seq(Message), NEW limits, NEW n \in 0..Len(q),
           ~TakesMore(limits, q, n), \A k \in 0..n - 1 : TakesMore(limits, q, k)
    PROVE  Count(limits, q) = n
<1> DEFINE Stops(c) == /\ ~TakesMore(limits, q, c)
                       /\ \A k \in 0..c - 1 : TakesMore(limits, q, k)
<1>1. ASSUME NEW c \in 0..Len(q), Stops(c) PROVE c = n
  <2>1. c \in Nat /\ n \in Nat
    OBVIOUS
  <2>2. ~(c < n)
    <3>1. c < n => c \in 0..n - 1
      BY <2>1
    <3> QED BY <1>1, <3>1
  <2>3. ~(n < c)
    <3>1. n < c => n \in 0..c - 1
      BY <2>1
    <3> QED BY <1>1, <3>1
  <2> QED BY <2>1, <2>2, <2>3
<1>2. Stops(n)
  OBVIOUS
<1>3. Count(limits, q) = CHOOSE c \in 0..Len(q) : Stops(c)
  BY DEF Count
<1> HIDE DEF Stops
<1> QED BY <1>1, <1>2, <1>3

LEMMA RestIsSuffix ==
    ASSUME NEW q \in Seq(Message), NEW limits
    PROVE  /\ Rest(limits, q) \in Seq(Message)
           /\ Len(Rest(limits, q)) <= Len(q)
<1> DEFINE n == Count(limits, q)
<1>1. n \in 0..Len(q) /\ Len(q) \in Nat
  BY CountInRange
<1>2. \A i \in n + 1..Len(q) : q[i] \in Message
  BY <1>1
<1>3. n + 1 \in Int /\ Len(q) \in Int
  BY <1>1
<1> HIDE DEF n
<1>4. /\ SubSeq(q, n + 1, Len(q)) \in Seq(Message)
      /\ Len(SubSeq(q, n + 1, Len(q))) = IF n + 1 <= Len(q) THEN Len(q) - (n + 1) + 1 ELSE 0
  BY <1>2, <1>3, SubSeqProperties
<1>5. Len(SubSeq(q, n + 1, Len(q))) <= Len(q)
  BY <1>1, <1>4
<1> QED BY <1>4, <1>5 DEF Rest, n

(* The bytes of what a get finds are those of what it takes and of what it *)
(* leaves.                                                                 *)
LEMMA BytesOfRest ==
    ASSUME Sized, NEW q \in Seq(Message), NEW limits
    PROVE  Bytes(q) = Sums(q)[Count(limits, q)] + Bytes(Rest(limits, q))
BY CountInRange, BytesSplit DEF Rest

(* So it takes no more. *)
LEMMA RestTakesLess ==
    ASSUME Sized, NEW q \in Seq(Message), NEW limits
    PROVE  Bytes(Rest(limits, q)) <= Bytes(q)
<1>1. Sums(q)[Count(limits, q)] \in Nat
  BY CountInRange, SumsTyped
<1>2. Bytes(Rest(limits, q)) \in Nat
  BY RestIsSuffix, BytesTyped
<1> QED BY <1>1, <1>2, BytesOfRest

(* A get that is given no messages leaves the queue as it was.             *)
LEMMA NothingTaken ==
    ASSUME NEW q \in Seq(Message), NEW limits, Prefix(q, Count(limits, q)) = <<>>
    PROVE  Count(limits, q) = 0 /\ Rest(limits, q) = q
<1> DEFINE n == Count(limits, q)
<1>1. n \in Nat /\ n <= Len(q) /\ Len(q) \in Nat
  BY CountInRange
<1>2. Prefix(q, n) = <<>>
  OBVIOUS
<1> HIDE DEF n
<1>3. n = 0
  <2>1. \A k \in 1..n : q[k] \in Message
    BY <1>1
  <2>2. Len(SubSeq(q, 1, n)) = IF 1 <= n THEN n - 1 + 1 ELSE 0
    BY <1>1, <2>1, SubSeqProperties
  <2>3. Len(SubSeq(q, 1, n)) = 0
    <3>1. SubSeq(q, 1, n) = <<>>
      BY <1>2, Zenon DEF Prefix
    <3>2. Len(<<>>) = 0
      OBVIOUS
    <3> QED BY <3>1, <3>2, Zenon
  <2> QED BY <1>1, <2>2, <2>3
<1>4. SubSeq(q, n + 1, Len(q)) = q
  BY <1>1, <1>3
<1> QED BY <1>3, <1>4 DEF Rest, n

(* One that asks for a message, and whose buffer has room for the first,   *)
(* is given one.                                                           *)
LEMMA FirstTaken ==
    ASSUME Sized, NEW q \in Seq(Message), q # <<>>, NEW limits,
           0 < limits.max_messages_to_get, 0 < limits.max_bytes_to_get,
           HeaderSize + MsgSize(q[1]) <= limits.msg_buffer_size
    PROVE  Count(limits, q) \in 1..Len(q)
<1>1. TakesMore(limits, q, 0)
  <2>1. Len(q) > 0 /\ 0 + 1 = 1
    BY EmptySeq
  <2> QED BY <2>1, FirstMessage DEF TakesMore, WantsMore
<1>2. Count(limits, q) \in 0..Len(q) /\ ~TakesMore(limits, q, Count(limits, q))
  BY CountInRange
<1> QED BY <1>1, <1>2
=============================================================================
