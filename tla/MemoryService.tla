---------------------------- MODULE MemoryService ----------------------------
(***************************************************************************)
(* What a channel promises its client: a memory.  A request takes effect   *)
(* in the order it is submitted, and is answered once, later, in any       *)
(* order: a read with the value its address had when it was submitted.     *)
(***************************************************************************)
CONSTANTS Ids, Places, Values, Unwritten

VARIABLES memory,    \* the value of each place, in the order of submission
          owed,      \* the requests not yet answered: [id -> value to answer]
          answered   \* the answers of the latest step

Init == /\ memory = [p \in Places |-> Unwritten]
        /\ owed = [id \in {} |-> Unwritten]
        /\ answered = {}

Owing(id, v) == [i \in DOMAIN owed \cup {id} |-> IF i = id THEN v ELSE owed[i]]

Read(id, p) ==
  /\ id \notin DOMAIN owed
  /\ owed' = Owing(id, memory[p])
  /\ answered' = {}
  /\ UNCHANGED memory

Write(id, p, v) ==
  /\ id \notin DOMAIN owed
  /\ memory' = [memory EXCEPT ![p] = v]
  /\ owed' = Owing(id, v)
  /\ answered' = {}

Answer(S) ==
  /\ S \subseteq DOMAIN owed
  /\ answered' = {[id |-> id, value |-> owed[id]] : id \in S}
  /\ owed' = [i \in DOMAIN owed \ S |-> owed[i]]
  /\ UNCHANGED memory

Next == \/ \E id \in Ids, p \in Places : Read(id, p) \/ \E v \in Values : Write(id, p, v)
        \/ \E S \in SUBSET DOMAIN owed : Answer(S)

vars == <<memory, owed, answered>>
Spec == Init /\ [][Next]_vars
=============================================================================
