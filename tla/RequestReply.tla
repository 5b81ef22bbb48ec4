---------------------------- MODULE RequestReply ----------------------------
(***************************************************************************)
(* What the server promises to those who send it requests: a request is    *)
(* answered once, or its requester has left, and whoever has left is never *)
(* answered any more.                                                      *)
(***************************************************************************)
CONSTANT Requests

VARIABLE phase

Init == phase = [r \in Requests |-> "idle"]

Ask(r) ==
    /\ phase[r] = "idle"
    /\ phase' = [phase EXCEPT ![r] = "pending"]

Reply(r) ==
    /\ phase[r] = "pending"
    /\ phase' = [phase EXCEPT ![r] = "answered"]

(* A requester leaves: none of its pending requests will be answered.      *)
Leave(R) ==
    /\ \A r \in R : phase[r] = "pending"
    /\ phase' = [r \in Requests |-> IF r \in R THEN "abandoned" ELSE phase[r]]

Next ==
    \/ \E r \in Requests : Ask(r) \/ Reply(r)
    \/ \E R \in SUBSET Requests : Leave(R)

Spec == Init /\ [][Next]_phase
=============================================================================
