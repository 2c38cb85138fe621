-------------------------- MODULE RequestLifecycle --------------------------
(***************************************************************************)
(* What the request tracker promises about every request id: it is created *)
(* once, waits, is then either given up before acceptance or accepted by   *)
(* the memory system, completes exactly once if it was accepted, and never *)
(* comes back.  An accepted request can only leave by its completion: no   *)
(* failure, abandonment or reset may forget it.                            *)
(***************************************************************************)
CONSTANTS Ids

VARIABLES phase     \* [Ids -> {"fresh", "waiting", "accepted", "completed", "gone"}]

Allowed == {<<"fresh", "waiting">>, <<"waiting", "accepted">>, <<"waiting", "gone">>,
            <<"accepted", "completed">>, <<"completed", "gone">>}

Init == phase = [id \in Ids |-> "fresh"]

Next ==
  \/ \E id \in Ids, next \in {"waiting", "accepted", "completed"} :
       /\ <<phase[id], next>> \in Allowed
       /\ phase' = [phase EXCEPT ![id] = next]
  \/ \E leaving \in SUBSET {id \in Ids : phase[id] \in {"waiting", "completed"}} :
       phase' = [id \in Ids |-> IF id \in leaving THEN "gone" ELSE phase[id]]

Spec == Init /\ [][Next]_phase
=============================================================================
