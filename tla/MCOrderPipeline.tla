--------------------------- MODULE MCOrderPipeline ---------------------------
(***************************************************************************)
(* Two orders over three products, one of which is missing.  An order that *)
(* comes second, or comes again, is short of stock for its first item or   *)
(* for its last.                                                           *)
(***************************************************************************)
EXTENDS OrderPipeline, TLC

CONSTANTS o1, o2, p1, p2, p3

Line(p, n) == [productId |-> p, quantity |-> n]

TwoOrders ==
    (o1 :> <<Line(p1, 1), Line(p2, 2)>>) @@ (o2 :> <<Line(p3, 1), Line(p1, 2)>>)

SomeStocks == {(p1 :> 2) @@ (p2 :> 3) @@ (p3 :> Nil)}
=============================================================================
