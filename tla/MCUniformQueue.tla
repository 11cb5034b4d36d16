--------------------------- MODULE MCUniformQueue ---------------------------
(* The instances of MCQueueSync with messages of one size. *)
EXTENDS UniformQueue, MCQueueSync

ASSUME UniformAssumption == Uniform
=============================================================================
