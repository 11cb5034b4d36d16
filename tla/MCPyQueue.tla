----------------------------- MODULE MCPyQueue -----------------------------
(* Frames of two and of four bytes, and receive buffers that start with    *)
(* room for neither.                                                       *)
EXTENDS PyQueue, TLC

CONSTANTS small, big

MCMsgSize(m) == IF m = big THEN 3 ELSE 1

MCUniform  == { <<small>> }
MCTwoSizes == { <<small, big>>, <<big>> }

MCRequest == [msg_buffer_size     : 0..(3 * max_size_bytes) \div 2,
              max_messages_to_get : MaxMessages,
              max_bytes_to_get    : {max_size_bytes}]

MCSymmetry == Permutations(Producer) \cup Permutations(Consumer)
=============================================================================
