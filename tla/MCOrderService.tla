--------------------------- MODULE MCOrderService ---------------------------
(***************************************************************************)
(* Two calls at a time over two orders: one more order than a call needs,  *)
(* so that a saved, a cached and a missing one meet.                       *)
(***************************************************************************)
EXTENDS OrderService, TLC

OrderSymmetry == Permutations(Orders) \cup Permutations(Handlers)
=============================================================================
