------------------------- MODULE CSCRequestTracker -------------------------
(***************************************************************************)
(* CSCRequestTracker: the scoreboard a descriptor engine keeps for its     *)
(* memory requests.  Every operation is an operator on the tracker record; *)
(* those that may refuse return the new tracker and whether the call       *)
(* succeeded.  The machine at the end drives one tracker the way an engine *)
(* and the memory system do, with completions that are duplicated, stale   *)
(* or carry the wrong identity.                                            *)
(*                                                                         *)
(* A token keeps the fields the tracker tells apart: its id, its           *)
(* generation and a kind, which stands for everything else that complete   *)
(* compares with the entry: the request kind, the owner and the channel,   *)
(* fixed for a request when it is created.  A completion that differs in   *)
(* any of them is refused in the same way, so a wrong kind also stands for *)
(* a wrong channel.  Addresses, cycles, attempt counts and per-kind        *)
(* statistics are left out.                                                *)
(***************************************************************************)
EXTENDS Naturals, FiniteSets, Functions

CONSTANTS RequestIds,     \* ids the machine may allocate
          Kinds,          \* RequestKind values in use
          MaxGeneration,  \* bound: generations 1..MaxGeneration
          MaxInjections   \* bound: wrong completions presented

ASSUME TrackerAssumption ==
  /\ Kinds # {}
  /\ MaxGeneration \in Nat \ {0}
  /\ MaxInjections \in Nat

VARIABLES tracker,      \* the CSCRequestTracker fields
          allocated,    \* ids the client has used: it never reuses one
          network,      \* tokens the memory system accepted and owes a completion
          injections    \* how many wrong completions were presented

vars == <<tracker, allocated, network, injections>>

TrackerInit(generation) ==
  [entries |-> [token \in {} |-> "WAITING_TO_SUBMIT"],   \* entries_: token -> state
   history |-> [token \in {} |-> "RETIRED"],             \* history_
   generation |-> generation,
   failed |-> FALSE,                                     \* error_ is not empty
   created |-> 0, issued |-> 0, completed |-> 0, abandoned |-> 0]

Result(t, ok) == [tracker |-> t, ok |-> ok]
Fail(t) == Result([t EXCEPT !.failed = TRUE], FALSE)

Entries(t, state) == {token \in DOMAIN t.entries : t.entries[token] = state}
WaitingCount(t) == Cardinality(Entries(t, "WAITING_TO_SUBMIT"))
AcceptedCount(t) == Cardinality(Entries(t, "ACCEPTED"))
Empty(t) == DOMAIN t.entries = {}

Known(f, id) == \E token \in DOMAIN f : token.id = id
Bind(f, token, state) ==
  [x \in DOMAIN f \cup {token} |-> IF x = token THEN state ELSE f[x]]

Create(t, token) ==
  IF token.generation # t.generation \/ Known(t.entries, token.id) \/ Known(t.history, token.id)
  THEN Fail(t)
  ELSE Result([t EXCEPT !.entries = Bind(t.entries, token, "WAITING_TO_SUBMIT"),
                        !.created = @ + 1], TRUE)

RecordAccepted(t, token) ==
  IF token \in Entries(t, "WAITING_TO_SUBMIT")
  THEN Result([t EXCEPT !.entries[token] = "ACCEPTED", !.issued = @ + 1], TRUE)
  ELSE Result(t, FALSE)

\* A completion is looked up by id; its whole identity, and the channel it comes
\* from, must then match an accepted entry of the current generation.
Complete_TrustsId(t, token) ==
  LET own == {entry \in DOMAIN t.entries : entry.id = token.id}
  IN  IF own # {} /\ \A entry \in own : t.entries[entry] # "COMPLETED"
      THEN Result([t EXCEPT !.entries = [e \in DOMAIN t.entries |->
                                IF e \in own THEN "COMPLETED" ELSE t.entries[e]],
                            !.completed = @ + 1], TRUE)
      ELSE Fail(t)

Complete(t, token) ==
  IF token \in Entries(t, "ACCEPTED") /\ token.generation = t.generation
  THEN Result([t EXCEPT !.entries[token] = "COMPLETED", !.completed = @ + 1], TRUE)
  ELSE Fail(t)

Retire(t, token) ==
  IF token \in Entries(t, "COMPLETED")
  THEN Result([t EXCEPT !.entries = Restrict(t.entries, DOMAIN t.entries \ {token}),
                        !.history = Bind(t.history, token, "RETIRED")], TRUE)
  ELSE Result(t, FALSE)

AbandonWaiting(t) ==
  LET waiting == Entries(t, "WAITING_TO_SUBMIT")
  IN  [t EXCEPT !.entries = Restrict(t.entries, DOMAIN t.entries \ waiting),
                !.history = [token \in DOMAIN t.history \cup waiting |->
                               IF token \in waiting THEN "ABANDONED" ELSE t.history[token]],
                !.abandoned = @ + Cardinality(waiting)]

TerminalAccountingValid(t) ==
  t.created = t.issued + t.abandoned /\ t.issued = t.completed

\* reset throws while a request is accepted; generation 0 keeps the old one.
MayReset_Always(t) == TRUE
MayReset(t) == AcceptedCount(t) = 0
Reset(t, generation) == TrackerInit(IF generation = 0 THEN t.generation ELSE generation)

-----------------------------------------------------------------------------
(* One tracker between an engine and the memory system.                    *)

Tokens == [id : RequestIds, kind : Kinds, generation : 1 .. MaxGeneration]

Init ==
  /\ tracker = TrackerInit(1)
  /\ allocated = {}
  /\ network = {}
  /\ injections = 0

\* makeToken allocates a fresh id in the current generation.
DoCreate ==
  /\ \E token \in Tokens :
       /\ token.id \notin allocated
       /\ token.generation = tracker.generation
       /\ allocated' = allocated \cup {token.id}
       /\ tracker' = Create(tracker, token).tracker
  /\ UNCHANGED <<network, injections>>

\* The memory system takes a waiting request.
DoAccept ==
  /\ \E token \in Entries(tracker, "WAITING_TO_SUBMIT") :
       /\ tracker' = RecordAccepted(tracker, token).tracker
       /\ network' = network \cup {token}
  /\ UNCHANGED <<allocated, injections>>

\* Completions come back in any order.
DoComplete ==
  /\ \E token \in network :
       /\ tracker' = Complete(tracker, token).tracker
       /\ network' = network \ {token}
  /\ UNCHANGED <<allocated, injections>>

DoRetire ==
  /\ \E token \in Entries(tracker, "COMPLETED") : tracker' = Retire(tracker, token).tracker
  /\ UNCHANGED <<allocated, network, injections>>

DoAbandonWaiting == tracker' = AbandonWaiting(tracker) /\ UNCHANGED <<allocated, network, injections>>

DoReset ==
  /\ MayReset(tracker)
  /\ \E generation \in {0} \cup (tracker.generation + 1 .. MaxGeneration) :
       tracker' = Reset(tracker, generation)
  /\ UNCHANGED <<allocated, network, injections>>

\* A completion nobody owes: any identity, except those still in the network.
InjectCompletion ==
  /\ injections < MaxInjections
  /\ injections' = injections + 1
  /\ \E token \in Tokens \ network : tracker' = Complete(tracker, token).tracker
  /\ UNCHANGED <<allocated, network>>

\* An id registered a second time.
InjectDuplicate ==
  /\ injections < MaxInjections
  /\ injections' = injections + 1
  /\ \E token \in Tokens :
       /\ Known(tracker.entries, token.id) \/ Known(tracker.history, token.id)
       /\ tracker' = Create(tracker, token).tracker
  /\ UNCHANGED <<allocated, network>>

Next ==
  \/ DoCreate \/ DoAccept \/ DoComplete \/ DoRetire \/ DoAbandonWaiting \/ DoReset
  \/ InjectCompletion \/ InjectDuplicate

Spec == Init /\ [][Next]_vars

-----------------------------------------------------------------------------
(* Properties.                                                             *)

\* Every field keeps its type, and the two maps hold the states that belong there.
TypeOK ==
  /\ DOMAIN tracker.entries \subseteq Tokens
  /\ \A token \in DOMAIN tracker.entries :
       tracker.entries[token] \in {"WAITING_TO_SUBMIT", "ACCEPTED", "COMPLETED"}
  /\ DOMAIN tracker.history \subseteq Tokens
  /\ \A token \in DOMAIN tracker.history : tracker.history[token] \in {"RETIRED", "ABANDONED"}
  /\ tracker.generation \in 1 .. MaxGeneration
  /\ tracker.failed \in BOOLEAN
  /\ {tracker.created, tracker.issued, tracker.completed, tracker.abandoned} \subseteq Nat
  /\ allocated \subseteq RequestIds
  /\ network \subseteq Tokens
  /\ injections \in 0 .. MaxInjections

\* The statistics that terminalAccountingValid compares are right in every
\* state, wrong completions or not: each created request is issued, abandoned
\* or still waiting, and each issued one is completed or still accepted.  The
\* requests the tracker believes accepted are the ones the memory system owes,
\* and only a wrong completion or a duplicate id can make it report an error.
AccountingBalances ==
  /\ tracker.created = tracker.issued + tracker.abandoned + WaitingCount(tracker)
  /\ tracker.issued = tracker.completed + AcceptedCount(tracker)
  /\ Entries(tracker, "ACCEPTED") = network
  /\ tracker.failed => injections > 0

RequestPhase(id) ==
  LET own == {token \in DOMAIN tracker.entries : token.id = id}
      Is(state) == \E token \in own : tracker.entries[token] = state
  IN  CASE id \notin allocated     -> "fresh"
        [] Is("WAITING_TO_SUBMIT") -> "waiting"
        [] Is("ACCEPTED")          -> "accepted"
        [] Is("COMPLETED")         -> "completed"
        [] OTHER                   -> "gone"

Promise == INSTANCE RequestLifecycle WITH
  Ids <- RequestIds, phase <- [id \in RequestIds |-> RequestPhase(id)]

\* Every request follows RequestLifecycle: one completion, never after it was
\* retired or abandoned, and none forgotten while accepted, whatever
\* duplicates, stale completions, abandonments and resets come between.
ImplementsRequestLifecycle == Promise!Spec
=============================================================================
