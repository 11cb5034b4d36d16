---------------------------- MODULE MCQueueCrash ----------------------------
(* The instances of MCQueueSync, some of whose threads may be killed. *)
EXTENDS QueueCrash, MCQueueSync
=============================================================================
