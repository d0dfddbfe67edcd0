-------------------------- MODULE MCKafkaProducer --------------------------
(***************************************************************************)
(* Three publish calls on one producer: one to fail, one to reconnect      *)
(* lazily before the reconnect timer of the first fires, one to meet what  *)
(* they leave behind.                                                      *)
(***************************************************************************)
EXTENDS KafkaProducer

=============================================================================
