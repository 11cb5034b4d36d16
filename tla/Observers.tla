----------------------------- MODULE Observers -----------------------------
(***************************************************************************)
(* qsize(), data_size(), empty() and full() of faster_fifo.pyx take no     *)
(* lock: they read num_elem and size between the stores of a put or a get  *)
(* that is under way.  full() reads both, one after the other: size first, *)
(* in the source and in what the compiler makes of it.  Whoever asks       *)
(* cannot tell whether the call under way is before or after the answer,   *)
(* but must not be told what was so at no time.                            *)
(***************************************************************************)
EXTENDS MessageRing

VARIABLES between,    (* full() has read size and not num_elem yet         *)
          cond_size,  (* and that is what it made of it                    *)
          truths      (* history: the answers that were right at some      *)
                      (* instant since                                     *)

full  == <<between, cond_size, truths>>
ovars == <<vars, full>>
-----------------------------------------------------------------------------
(* The queue when the call under way is done; it never waits from here on. *)
QueueAfter ==
    CASE pc \in {"put", "write_message", "count"} -> VisibleQueue \o msgs
      [] pc \in {"get", "pop", "uncount", "drained", "too_small"} ->
             Fifo!Rest(request, VisibleQueue)
      [] OTHER -> VisibleQueue

get_queue_size == num_elem

(* A mutant: what the callers put, without the sizes in front of it. *)
get_data_size_bare == size - HeaderSize * num_elem

get_data_size == size

min_message_size == HeaderSize + 1

(* Is there no room for the smallest message, both numbers taken at once? *)
FullNow == ~can_fit(min_message_size, 1)

(* A mutant: the messages are looked at before the bytes. *)
can_fit_operands_swapped == << num_elem + 1 <= maxsize,
                               size + min_message_size <= max_size_bytes >>

(* What can_fit computes, in this order. *)
can_fit_operands == << size + min_message_size <= max_size_bytes,
                       num_elem + 1 <= maxsize >>

ReadSize == /\ ~between /\ between' = TRUE
            /\ cond_size' = can_fit_operands[1]
            /\ truths' = {FullNow}
            /\ UNCHANGED vars

is_queue_full == ~(cond_size /\ can_fit_operands[2])

ReadNumElem == /\ between /\ between' = FALSE
               /\ cond_size' = FALSE /\ truths' = {}
               /\ UNCHANGED vars

ObservedInit == Init /\ between = FALSE /\ cond_size = FALSE /\ truths = {}

ObservedNext ==
    \/ ReadSize \/ ReadNumElem
    \/ /\ Next
       /\ truths' = IF between THEN truths \cup {FullNow'} ELSE {}
       /\ UNCHANGED <<between, cond_size>>

ObservedSpec == ObservedInit /\ [][ObservedNext]_ovars
-----------------------------------------------------------------------------
Bounds(n, a, b) == (a <= n /\ n <= b) \/ (b <= n /\ n <= a)

(* qsize() and data_size(), and with them empty(), never show a number     *)
(* that lies outside of those before and after the call under way, and the *)
(* right ones when there is none.                                          *)
SizesHonest ==
    /\ Bounds(get_queue_size, Len(VisibleQueue), Len(QueueAfter))
    /\ Bounds(get_data_size, Fifo!Bytes(VisibleQueue), Fifo!Bytes(QueueAfter))

(* full() never answers what was so at no instant between its two reads:   *)
(* a get that makes room in bytes while a put takes the last place cannot  *)
(* make it see both as full, or both as free.                              *)
FullHonest == [][ReadNumElem => is_queue_full \in truths]_ovars
=============================================================================
