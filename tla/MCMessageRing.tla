--------------------------- MODULE MCMessageRing ---------------------------
(* Two messages of different length, one of them as short as the size in   *)
(* front of it, batches of none, one and two, and a capacity that is not a *)
(* multiple of any frame: sizes and messages are split by the end of the   *)
(* memory at every byte.                                                   *)
EXTENDS Observers

MCBlank   == <<"blank", 0, 0>>
MCMessage == { [k \in 1..n |-> <<"message", n, k>>] : n \in {1, 3} }

MCBatch == UNION { [1..n -> MCMessage] : n \in 0..2 }

(* A get of everything, of one message, with room for one short message    *)
(* only, with no room at all, with a limit on the bytes, and of nothing.   *)
Limits(buffer_size, messages, bytes) ==
    [msg_buffer_size      |-> buffer_size,
     max_messages_to_get  |-> messages,
     max_bytes_to_get     |-> bytes]

MCRequest == { Limits(max_size_bytes, 9, max_size_bytes),
               Limits(max_size_bytes, 1, max_size_bytes),
               Limits(3, 9, max_size_bytes),
               Limits(2, 9, max_size_bytes),
               Limits(max_size_bytes, 9, 4),
               Limits(max_size_bytes, 0, max_size_bytes) }
=============================================================================
