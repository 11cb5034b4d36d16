--------------------------- MODULE OneSidedQueue ---------------------------
(***************************************************************************)
(* QueueSync with the threads kept to a use that does not change: which of *)
(* them ever wait, the others calling put_nowait and get_nowait, and what  *)
(* is put.  Where threads of one kind alone wait the signals suffice:      *)
(* consumers are served whatever is put, and producers if their batches    *)
(* take the same room.  KeptTo, UseInit and UseNext are assumptions about  *)
(* the programs around the queue, and translate none of its code.          *)
(***************************************************************************)
EXTENDS UniformQueue

CONSTANT Choices        (* the sets of batches that programs put           *)

ASSUME ChoicesAssumption == Choices \subseteq SUBSET Batch

VARIABLES patient,      (* who may call with `block`                       *)
          batches       (* what the producers put                          *)

usevars == <<vars, patient, batches>>

KeptTo == /\ \A t \in Thread \ patient : ~may_wait[t]
          /\ \A p \in Producer : pc[p] # "out" => call[p] \in batches

UseInit == Init /\ patient \in {Thread, Producer, Consumer} /\ batches \in Choices
UseNext == Next /\ UNCHANGED <<patient, batches>> /\ KeptTo'
UseSpec == UseInit /\ [][UseNext]_usevars
-----------------------------------------------------------------------------
(* With no producer in the wait each signal reaches a consumer, which      *)
(* passes it on when it leaves messages behind: no consumer is left asleep *)
(* beside messages, whatever their sizes and whatever gets leave.          *)
ConsumersServedAlone == patient = Consumer => NoConsumerLeftAsleep

(* As many bytes and messages in each, as many as the smallest at least.   *)
EqualBatches ==
    \A b1, b2 \in batches : /\ Fifo!Bytes(b1) = Fifo!Bytes(b2) /\ Len(b1) = Len(b2)
                            /\ Fifo!Bytes(b1) >= MIN_MSG_SIZE /\ Len(b1) >= 1

(* And with no consumer in it each reaches a producer, which passes it on  *)
(* when it leaves room; it can use it as well as any other, if all batches *)
(* take the same room, so that none is left asleep beside room for its own.*)
ProducersServedAlone == patient = Producer /\ EqualBatches => NoProducerLeftAsleep
=============================================================================
