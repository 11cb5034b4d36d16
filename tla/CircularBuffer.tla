--------------------------- MODULE CircularBuffer ---------------------------
(***************************************************************************)
(* The circular buffer of struct Queue (cpp_lib/faster_fifo.cpp): a block  *)
(* of shared memory, two cursors into it and a byte count.  Every call is  *)
(* made with the queue's mutex held, so each is one step.                  *)
(*                                                                         *)
(* circular_buffer_write and circular_buffer_read check nothing: "This     *)
(* function does not check if there is enough space".  They are therefore  *)
(* written without guards, and Next supplies the obligations the callers   *)
(* have (can_fit before a write, whole frames only in a read).             *)
(***************************************************************************)
EXTENDS Integers, Sequences

CONSTANTS Byte,           (* the values a byte of memory may have          *)
          Blank,          (* what the freshly allocated memory is filled with *)
          Block,          (* the blocks of bytes callers write             *)
          max_size_bytes  (* the size of the buffer, in bytes              *)

ASSUME CapacityAssumption == max_size_bytes \in Nat \ {0}
ASSUME BlankAssumption    == Blank \in Byte
ASSUME BlockAssumption    == Block \subseteq Seq(Byte)

VARIABLES buffer,  (* the shared memory                                    *)
          head,    (* where the oldest byte is                             *)
          tail,    (* where the next byte goes                             *)
          size,    (* how many bytes are queued                            *)
          data     (* what the last read copied out, for its caller        *)

vars == <<buffer, head, tail, size, data>>

Index == 0 .. max_size_bytes - 1

Init == /\ buffer = [at \in Index |-> Blank]
        /\ head = 0 /\ tail = 0 /\ size = 0
        /\ data = <<>>
-----------------------------------------------------------------------------
(* memcpy(buffer + to, block + from, n) *)
CopyIn(memory, to, block, from, n) ==
    [at \in Index |-> IF to <= at /\ at < to + n THEN block[from + (at - to) + 1]
                                                 ELSE memory[at]]

(* memcpy(data, buffer + from, n) into an empty data *)
CopyOut(memory, from, n) == [k \in 1..n |-> memory[from + k - 1]]

circular_buffer_write(block) ==
    /\ \/ /\ tail + Len(block) < max_size_bytes
          /\ buffer' = CopyIn(buffer, tail, block, 0, Len(block))
          /\ tail' = tail + Len(block)
       \/ /\ tail + Len(block) >= max_size_bytes
          /\ LET before_wrap == max_size_bytes - tail
                 after_wrap  == Len(block) - before_wrap
             IN  /\ buffer' = CopyIn(CopyIn(buffer, tail, block, 0, before_wrap),
                                     0, block, before_wrap, after_wrap)
                 /\ tail' = after_wrap
    /\ size' = size + Len(block)
    /\ UNCHANGED <<head, data>>

(* A mutant: the two pieces change places. *)
Segment_swapped(read_size) ==
    LET before_wrap == max_size_bytes - head
        after_wrap  == read_size - before_wrap
    IN  IF head + read_size < max_size_bytes
        THEN CopyOut(buffer, head, read_size)
        ELSE CopyOut(buffer, 0, after_wrap) \o CopyOut(buffer, head, before_wrap)

(* The read_size bytes at head, and the cursor behind them. *)
Segment(read_size) ==
    LET before_wrap == max_size_bytes - head
        after_wrap  == read_size - before_wrap
    IN  IF head + read_size < max_size_bytes
        THEN CopyOut(buffer, head, read_size)
        ELSE CopyOut(buffer, head, before_wrap) \o CopyOut(buffer, 0, after_wrap)

(* Mutants: the cursor may stop behind the last cell; a read that wraps    *)
(* starts over at the first cell.                                          *)
NewHead_past_end(read_size) ==
    IF head + read_size <= max_size_bytes
    THEN head + read_size
    ELSE read_size - (max_size_bytes - head)

NewHead_restart(read_size) ==
    IF head + read_size < max_size_bytes THEN head + read_size ELSE 0

NewHead(read_size) ==
    IF head + read_size < max_size_bytes
    THEN head + read_size
    ELSE read_size - (max_size_bytes - head)

circular_buffer_read(read_size, pop_message) ==
    /\ data' = Segment(read_size)
    /\ head' = IF pop_message THEN NewHead(read_size) ELSE head
    /\ size' = IF pop_message THEN size - read_size ELSE size
    /\ UNCHANGED <<buffer, tail>>
-----------------------------------------------------------------------------
(* The callers: queue_put writes only after can_fit, queue_get reads only  *)
(* bytes that are queued.                                                  *)
Write(block) == /\ size + Len(block) <= max_size_bytes
                /\ circular_buffer_write(block)

Read(n, pop_message) == /\ n <= size
                        /\ circular_buffer_read(n, pop_message)

Next == \/ \E block \in Block : Write(block)
        \/ \E n \in 0..max_size_bytes, pop_message \in BOOLEAN :
               Read(n, pop_message)

Spec == Init /\ [][Next]_vars
-----------------------------------------------------------------------------
(* The types, with the bounds the code asserts at run time (LOG_ASSERT):   *)
(* neither cursor ever points past the buffer, and the byte count stays    *)
(* between nothing and the capacity, so the size_t never wraps.            *)
TypeOK == /\ buffer \in [Index -> Byte]
          /\ head \in Index
          /\ tail \in Index
          /\ size \in 0..max_size_bytes
          /\ data \in Seq(Byte)

(* The memory cell that holds the k-th queued byte, counting from 0. *)
Cell(k) == IF head + k < max_size_bytes THEN head + k ELSE head + k - max_size_bytes

(* tail and (head, size) are maintained by different functions, and head = *)
(* tail means both "empty" and "full": whatever sequence of wrapping       *)
(* writes and reads came before, the next byte goes right behind the last  *)
(* queued one.                                                             *)
TailBehindContents == tail = Cell(size)

(* The queued bytes, read off the memory from head on. *)
Contents == [k \in 1..size |-> buffer[Cell(k - 1)]]

Fifo == INSTANCE ByteFifo WITH contents <- Contents

(* The buffer is a first-in first-out sequence of bytes: no write changes  *)
(* a byte that is still queued, a read returns exactly the oldest bytes,   *)
(* across every wrapping of the memory, and a peek removes nothing.        *)
IsByteFifo == Fifo!Spec
=============================================================================
