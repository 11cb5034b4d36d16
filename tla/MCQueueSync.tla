---------------------------- MODULE MCQueueSync ----------------------------
(* Message kinds by size: frames of 2 and of 4 bytes, a size of 1 in front *)
(* of each, so that the smallest frame has MIN_MSG_SIZE; room for two      *)
(* small messages or one big one.                                          *)
EXTENDS QueueSync, TLC

CONSTANTS small, big

MCMsgSize(m) == IF m = big THEN 3 ELSE 1

(* Uniform: one small message per call.  Mixed: an empty batch, batches of *)
(* one and of two small messages, and a big one.                           *)
MCUniform == { <<small>> }
MCTwoSizes == { <<small>>, <<small, small>> }
MCMixed   == { <<>>, <<small>>, <<small, small>>, <<big>> }

Limits(buffer_size, messages) ==
    [msg_buffer_size     |-> buffer_size,
     max_messages_to_get |-> messages,
     max_bytes_to_get    |-> max_size_bytes]

(* Everything there is, or one message. *)
MCAllOrOne == { Limits(max_size_bytes, 9), Limits(max_size_bytes, 1) }

(* With a buffer for one small message, and none for a big one. *)
MCTightBuffer == MCAllOrOne \cup { Limits(2, 9) }

MCOne == { Limits(max_size_bytes, 1) }

MCSymmetry == Permutations(Producer) \cup Permutations(Consumer)
=============================================================================
