--------------------------- MODULE MCUserService ---------------------------
(***************************************************************************)
(* Instances of UserService for TLC: two users who have one e-mail address *)
(* one after the other.                                                    *)
(***************************************************************************)
EXTENDS UserService

CONSTANTS u1, u2, e1, sales, h1, h2

OneRole == {{sales}}

\* Deactivating a user.
Deactivations == {[roles |-> Nil, isActive |-> FALSE]}

OneAddress == [u \in Users |-> e1]
=============================================================================
