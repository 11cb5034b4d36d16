-------------------------- MODULE MCOneSidedQueue --------------------------
(* MCQueueSync, put to one use or another: any batches; pairs of messages  *)
(* that take the same room although the messages do not; small messages.   *)
EXTENDS OneSidedQueue, MCQueueSync

MCPairs   == { <<small, big>>, <<big, small>> }
MCAny     == MCMixed \cup MCPairs
MCChoices == { MCMixed, MCPairs, MCUniform }
=============================================================================
