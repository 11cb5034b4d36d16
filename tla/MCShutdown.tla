----------------------------- MODULE MCShutdown -----------------------------
(* Two producers, three consumers, room for two messages: queues run full  *)
(* and empty between a consumer's Empty and its look at the flag.          *)
EXTENDS Shutdown

MCMsgSize(m) == 1

Limits(messages) == [msg_buffer_size     |-> max_size_bytes,
                     max_messages_to_get |-> messages,
                     max_bytes_to_get    |-> max_size_bytes]
MCRequest == { Limits(1), Limits(9) }
=============================================================================
