------------------------- MODULE TargetedExecution -------------------------
(***************************************************************************)
(* What a PIM rank promises to the engines that submit BG-targeted         *)
(* operations, whatever its modes, lifecycles and arbitration do: an       *)
(* accepted operation waits, is then either cancelled before its grant or  *)
(* granted, and a granted one always completes, in a later cycle than its  *)
(* grant, and is handed over once.  The rank grants at most one operation  *)
(* per cycle, a bank group executes one at a time, and no operation is     *)
(* outstanding while the rank-wide legacy mode owns the PIM blocks.        *)
(***************************************************************************)
EXTENDS Naturals, FiniteSets

CONSTANTS BankGroups, OperationIds

VARIABLES phase,    \* [bank group -> [operation id -> Phases]]
          owner     \* "legacy" while rank-wide execution owns the rank

Phases == {"idle", "waiting", "executing", "completed"}
vars == <<phase, owner>>

In(bg, ph) == {id \in OperationIds : phase[bg][id] = ph}

Init ==
  /\ phase = [bg \in BankGroups |-> [id \in OperationIds |-> "idle"]]
  /\ owner = "none"

Accept(bg, id) ==
  /\ owner # "legacy"
  /\ In(bg, "waiting") = {}
  /\ phase[bg][id] = "idle"
  /\ phase' = [phase EXCEPT ![bg][id] = "waiting"]
  /\ UNCHANGED owner

Cancel ==
  /\ \E lost \in SUBSET BankGroups :
       phase' = [bg \in BankGroups |-> [id \in OperationIds |->
                   IF bg \in lost /\ phase[bg][id] = "waiting" THEN "idle" ELSE phase[bg][id]]]
  /\ UNCHANGED owner

\* One cycle: everything executing completes, and then at most one waiting
\* operation starts, on a bank group that has nothing left to hand over.
Cycle ==
  LET finished == [bg \in BankGroups |-> [id \in OperationIds |->
                     IF phase[bg][id] = "executing" THEN "completed" ELSE phase[bg][id]]]
  IN  /\ \/ phase' = finished
         \/ \E bg \in BankGroups, id \in OperationIds :
              /\ owner # "legacy"
              /\ phase[bg][id] = "waiting"
              /\ \A other \in OperationIds : finished[bg][other] # "completed"
              /\ phase' = [finished EXCEPT ![bg][id] = "executing"]
      /\ UNCHANGED owner

HandOver(bg, id) ==
  /\ phase[bg][id] = "completed"
  /\ phase' = [phase EXCEPT ![bg][id] = "idle"]
  /\ UNCHANGED owner

AcquireLegacy ==
  /\ \A bg \in BankGroups, id \in OperationIds : phase[bg][id] = "idle"
  /\ owner' = "legacy"
  /\ UNCHANGED phase

ReleaseLegacy == owner' = "none" /\ UNCHANGED phase

Next ==
  \/ \E bg \in BankGroups, id \in OperationIds : Accept(bg, id) \/ HandOver(bg, id)
  \/ Cancel
  \/ Cycle
  \/ AcquireLegacy
  \/ ReleaseLegacy

Spec == Init /\ [][Next]_vars
=============================================================================
