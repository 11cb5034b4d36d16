------------------------------ MODULE ByteFifo ------------------------------
(***************************************************************************)
(* What the circular buffer of cpp_lib/faster_fifo.cpp promises to the     *)
(* code above it: a bounded first-in first-out sequence of bytes.  A write *)
(* appends a block of bytes, a read hands out the oldest bytes and removes *)
(* them or, when it only peeks, leaves them where they are.  Nothing here  *)
(* knows of a buffer that wraps around.                                    *)
(***************************************************************************)
EXTENDS Integers, Sequences

CONSTANTS Block,          (* the blocks of bytes a caller may write        *)
          max_size_bytes  (* the capacity, in bytes                        *)

VARIABLES contents,  (* the bytes written and not yet read, oldest first   *)
          data       (* the bytes the last read handed out                 *)

vars == <<contents, data>>

Init == contents = <<>> /\ data = <<>>

(* The caller writes only what fits. *)
Write(block) ==
    /\ Len(contents) + Len(block) <= max_size_bytes
    /\ contents' = contents \o block
    /\ UNCHANGED data

(* The caller reads only what is there. *)
Read(n, pop_message) ==
    /\ n <= Len(contents)
    /\ data' = SubSeq(contents, 1, n)
    /\ contents' = IF pop_message THEN SubSeq(contents, n + 1, Len(contents))
                                  ELSE contents

Next == \/ \E block \in Block : Write(block)
        \/ \E n \in 0..max_size_bytes, pop_message \in BOOLEAN :
               Read(n, pop_message)

Spec == Init /\ [][Next]_vars
=============================================================================
