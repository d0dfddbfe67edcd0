------------------------- MODULE BestEffortPublish -------------------------
(***************************************************************************)
(* What IMessagingService.publish promises its callers, and nothing more:  *)
(* a call always returns, whatever happens to the broker, and an event     *)
(* reaches the topic only after publish was called for it -- never, once   *)
(* or several times, before or after the call returned.                    *)
(***************************************************************************)
EXTENDS Naturals

CONSTANTS Events,     \* the events handed to publish, each in one call
          MaxCopies   \* bound on the copies of an event in the topic

VARIABLES status,     \* status[e]: "new", "called" or "returned"
          copies      \* copies[e]: how often the topic holds e

vars == <<status, copies>>

Init ==
    /\ status = [e \in Events |-> "new"]
    /\ copies = [e \in Events |-> 0]

Call(e) ==
    /\ status[e] = "new"
    /\ status' = [status EXCEPT ![e] = "called"]
    /\ UNCHANGED copies

Append(e) ==
    /\ status[e] # "new"
    /\ copies[e] < MaxCopies
    /\ copies' = [copies EXCEPT ![e] = @ + 1]
    /\ UNCHANGED status

Return(e) ==
    /\ status[e] = "called"
    /\ status' = [status EXCEPT ![e] = "returned"]
    /\ UNCHANGED copies

Next == \E e \in Events : Call(e) \/ Append(e) \/ Return(e)

\* A caller may never come; one that came gets its answer.
Spec == Init /\ [][Next]_vars /\ \A e \in Events : WF_vars(Return(e))
=============================================================================
