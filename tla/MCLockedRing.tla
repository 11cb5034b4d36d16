---------------------------- MODULE MCLockedRing ----------------------------
(* Messages of one and of two bytes, alone or two short ones, at a ring    *)
(* that a long one nearly fills and whose end splits them.                 *)
EXTENDS LockedRing, TLC

MCBlank   == <<"blank", 0, 0>>
Bytes(n)  == [k \in 1..n |-> <<"message", n, k>>]
MCMessage == { Bytes(1), Bytes(2) }
MCBatch   == { << Bytes(2) >>, << Bytes(1), Bytes(1) >> }

(* A get has room for one message of either kind, and for no two. *)
MCRequest == { [msg_buffer_size |-> 3, max_messages_to_get |-> 9, max_bytes_to_get |-> 9] }

MCSymmetry == Permutations(Producer) \cup Permutations(Consumer)
=============================================================================
