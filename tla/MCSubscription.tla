--------------------------- MODULE MCSubscription ---------------------------
(***************************************************************************)
(* An instance of Subscription for TLC: three messages, so that one may    *)
(* precede the subscription and one follow a bad one, and three faults, so *)
(* that an outage can meet each await and a crash follow it.               *)
(***************************************************************************)
EXTENDS Subscription
=============================================================================
