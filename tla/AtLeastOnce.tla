---------------------------- MODULE AtLeastOnce ----------------------------
(***************************************************************************)
(* What a consumer group is served of a topic: every event in its order,   *)
(* none skipped, one at a time; and whatever was handled after the last    *)
(* commit once more, when the consumer comes back from a crash or a lost   *)
(* session.                                                                *)
(***************************************************************************)
EXTENDS Naturals

VARIABLES length,     \* events in the topic
          position,   \* events the consumer is done with
          committed   \* events the group has committed

vars == <<length, position, committed>>

Init == length = 0 /\ position = 0 /\ committed = 0

Send == length' = length + 1 /\ UNCHANGED <<position, committed>>

Handle ==
    /\ position < length
    /\ position' = position + 1
    /\ UNCHANGED <<length, committed>>

Commit ==
    /\ committed < position
    /\ committed' = position
    /\ UNCHANGED <<length, position>>

Resume == position' = committed /\ UNCHANGED <<length, committed>>

Next == Send \/ Handle \/ Commit \/ Resume

Spec == Init /\ [][Next]_vars
=============================================================================
