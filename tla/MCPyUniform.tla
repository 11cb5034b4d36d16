---------------------------- MODULE MCPyUniform ----------------------------
(* The instances of MCPyQueue with messages of one size.                   *)
EXTENDS UniformQueue, MCPyQueue

ASSUME PyUniformAssumption == OneSize /\ 0 \notin MaxMessages
=============================================================================
