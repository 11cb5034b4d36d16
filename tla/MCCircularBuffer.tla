-------------------------- MODULE MCCircularBuffer --------------------------
(* A buffer of MCCapacity cells, so that most blocks wrap in one state or  *)
(* another, blocks of every length from empty to the whole capacity, and   *)
(* bytes that tell a block's first cell, its later cells and blank memory  *)
(* apart.                                                                  *)
EXTENDS CircularBuffer

MCByte  == {"blank", "first", "later"}
MCBlock == { [k \in 1..n |-> IF k = 1 THEN "first" ELSE "later"] : n \in 0..max_size_bytes }
=============================================================================
