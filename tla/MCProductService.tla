-------------------------- MODULE MCProductService --------------------------
(***************************************************************************)
(* Instances of ProductService for TLC.                                    *)
(***************************************************************************)
EXTENDS ProductService, TLC

CONSTANTS p1, h1, h2

Line(p, n) == [productId |-> p, quantity |-> n]

\* One product ordered within and beyond its stock.
OneProductOrders == {<<Line(p1, 1)>>, <<Line(p1, 2)>>}

HandlerSymmetry == Permutations(Handlers)
=============================================================================
