-------------------------- MODULE PIMRankTargeted --------------------------
(***************************************************************************)
(* PIMRank: the BG-targeted half of a PIM rank and its exclusion with the  *)
(* legacy rank-wide mode.  Every bank group has a depth-one pending slot,  *)
(* one active operation and one completion waiting to be polled; the rank  *)
(* grants at most one pending operation per cycle, round robin, unless a   *)
(* DRAM command or data burst holds the bus.  Flush, reset, bank-group     *)
(* errors and rank-fatal errors change the lifecycles around it.           *)
(*                                                                         *)
(* One Service action is one call of serviceBGTargeted, which              *)
(* MemorySystem::update makes once per cycle, so an operation granted by   *)
(* one Service completes in the next.  Operand values, statistics and the  *)
(* functional multiplication are left out.  Operation ids are drawn from   *)
(* those not in use: the engines number theirs upwards.                    *)
(***************************************************************************)
EXTENDS Naturals, FiniteSets

CONSTANTS NumBGs,         \* kBGsPerRank (4 in the source)
          OperationIds,   \* operation_id values
          Masks,          \* PIMBlock masks in use, as sets of block indices 0..1
          MaxGeneration,  \* bound: generations 0..MaxGeneration
          MaxInjections,  \* bound: corrupted completions and busy masks presented
          HostCalls,      \* bound: which of "flush", "reset", "mode" the host may call
          None

ASSUME RankAssumption ==
  /\ NumBGs \in Nat \ {0}
  /\ Masks \subseteq (SUBSET (0 .. 1)) \ {{}}
  /\ MaxGeneration \in Nat
  /\ MaxInjections \in Nat
  /\ HostCalls \subseteq {"flush", "reset", "mode"}

VARIABLES rank,        \* the PIMRank fields
          injections   \* how many corruptions the environment has presented

vars == <<rank, injections>>

LocalBGs == 0 .. NumBGs - 1
Blocks == 0 .. 2 * NumBGs - 1
Generations == 0 .. MaxGeneration
Modes == {"IDLE", "LEGACY_RANK_WIDE", "CSC_BG_TARGETED", "DRAINING", "ERROR_DRAINING", "ERROR"}
Lifecycles == {"IDLE", "RUNNING", "DRAINING", "FLUSHED", "ERROR_DRAINING", "ERROR"}
Identities == [id : OperationIds, mask : Masks, generation : Generations]

\* None is an empty slot: no operation is.
ASSUME NoneAssumption == None \notin Identities

\* bg_to_pimblocks_ as the topology check fills it, and the blocks of a mask.
PhysicalBlocks(bg, mask) == {bg * 2 + bit : bit \in mask}

RankInit == [mode       |-> "IDLE",
             cursor     |-> 0,
             busy       |-> {},
             pending    |-> [bg \in LocalBGs |-> None],
             active     |-> [bg \in LocalBGs |-> None],
             completion |-> [bg \in LocalBGs |-> None],
             retired    |-> [bg \in LocalBGs |-> None],
             lifecycle  |-> [bg \in LocalBGs |-> "IDLE"],
             generation |-> [bg \in LocalBGs |-> 0]]

Outstanding(r, bg) == r.pending[bg] # None \/ r.active[bg] # None \/ r.completion[bg] # None
Owned(r) == UNION {PhysicalBlocks(bg, r.active[bg].mask) : bg \in {b \in LocalBGs : r.active[b] # None}}

-----------------------------------------------------------------------------
(* Submission.  A throw (stale generation) leaves the rank as it was, so   *)
(* the result is only the state after a call that returns.                 *)

Stale(r, bg, op) ==
  /\ op.generation # r.generation[bg]
  /\ \/ op.generation < r.generation[bg]
     \/ Outstanding(r, bg)

Admits(r, bg) ==
  /\ r.lifecycle[bg] \in {"IDLE", "RUNNING"}
  /\ r.pending[bg] = None
  /\ r.mode \in {"IDLE", "CSC_BG_TARGETED"}

Adopt(r, bg, op) == [r EXCEPT !.generation[bg] = op.generation]

SubmitBGTargetedOperation(r, bg, op) ==
  LET adopted == Adopt(r, bg, op)
  IN  IF Admits(r, bg)
      THEN [adopted EXCEPT !.mode = "CSC_BG_TARGETED",
                           !.pending[bg] = op,
                           !.lifecycle[bg] = "RUNNING"]
      ELSE adopted

-----------------------------------------------------------------------------
(* Mode exit, flush and reset.                                             *)

RequestTargetedModeExit(r) ==
  IF r.mode = "CSC_BG_TARGETED" THEN [r EXCEPT !.mode = "DRAINING"] ELSE r

FlushBG_KeepsPending(r, bg) ==
  IF r.lifecycle[bg] \in {"ERROR", "FLUSHED"} THEN r
  ELSE [r EXCEPT !.lifecycle[bg] =
                   IF r.active[bg] # None \/ r.completion[bg] # None THEN "DRAINING" ELSE "FLUSHED"]

FlushBG_DropsActive(r, bg) ==
  IF r.lifecycle[bg] \in {"ERROR", "FLUSHED"} THEN r
  ELSE [r EXCEPT !.pending[bg] = None, !.active[bg] = None,
                 !.lifecycle[bg] = IF r.completion[bg] # None THEN "DRAINING" ELSE "FLUSHED"]

FlushBG(r, bg) ==
  IF r.lifecycle[bg] \in {"ERROR", "FLUSHED"} THEN r
  ELSE [r EXCEPT !.pending[bg] = None,
                 !.lifecycle[bg] =
                   IF r.active[bg] # None \/ r.completion[bg] # None THEN "DRAINING" ELSE "FLUSHED"]

ResetBG_IgnoresCompletion(r, bg) ==
  IF r.pending[bg] # None \/ r.active[bg] # None THEN FlushBG(r, bg)
  ELSE [r EXCEPT !.generation[bg] = @ + 1, !.lifecycle[bg] = "IDLE"]

ResetBG(r, bg) ==
  IF Outstanding(r, bg) THEN FlushBG(r, bg)
  ELSE [r EXCEPT !.generation[bg] = @ + 1, !.lifecycle[bg] = "IDLE"]

-----------------------------------------------------------------------------
(* One cycle of serviceBGTargeted.                                         *)

\* Active operations complete and release their blocks.
CompleteActive(r) ==
  LET finished == {bg \in LocalBGs : r.active[bg] # None}
  IN  [r EXCEPT !.busy = @ \ UNION {PhysicalBlocks(bg, r.active[bg].mask) : bg \in finished},
                !.completion = [bg \in LocalBGs |->
                                  IF bg \in finished THEN r.active[bg] ELSE r.completion[bg]],
                !.active = [bg \in LocalBGs |-> None]]

\* Draining bank groups with nothing outstanding reach their final lifecycle.
SettleLifecycles(r) ==
  [r EXCEPT !.lifecycle = [bg \in LocalBGs |->
     IF Outstanding(r, bg) THEN r.lifecycle[bg]
     ELSE CASE r.lifecycle[bg] = "DRAINING" -> "FLUSHED"
            [] r.lifecycle[bg] = "ERROR_DRAINING" -> "ERROR"
            [] OTHER -> r.lifecycle[bg]]]

SettleMode(r) ==
  IF \E bg \in LocalBGs : Outstanding(r, bg) THEN r
  ELSE [r EXCEPT !.mode = IF r.mode = "ERROR_DRAINING" THEN "ERROR" ELSE "IDLE"]

Eligible(r, bg) ==
  /\ r.pending[bg] # None
  /\ r.active[bg] = None
  /\ r.completion[bg] = None
  /\ r.lifecycle[bg] = "RUNNING"
  /\ PhysicalBlocks(bg, r.pending[bg].mask) \cap r.busy = {}

Grant(r, bg) ==
  [r EXCEPT !.busy = @ \cup PhysicalBlocks(bg, r.pending[bg].mask),
            !.active[bg] = r.pending[bg],
            !.pending[bg] = None,
            !.cursor = (bg + 1) % NumBGs]

\* The scan starts at cursor.
Arbitrate_FixedPriority(r) ==
  LET open == {bg \in LocalBGs : Eligible(r, bg)}
  IN  IF open = {} THEN r
      ELSE Grant(r, CHOOSE bg \in open : \A other \in open : bg <= other)

Arbitrate(r) ==
  LET open == {offset \in LocalBGs : Eligible(r, (r.cursor + offset) % NumBGs)}
  IN  IF open = {} THEN r
      ELSE Grant(r, (r.cursor + (CHOOSE o \in open : \A other \in open : o <= other)) % NumBGs)

\* A draining rank only waits to become idle; otherwise at most one grant.
DrainOrArbitrate(settled, busBusy) ==
  CASE settled.mode \in {"DRAINING", "ERROR_DRAINING"} -> SettleMode(settled)
    [] settled.mode = "CSC_BG_TARGETED" /\ ~busBusy -> Arbitrate(settled)
    [] OTHER -> settled

\* next is the rank after the call (a binding per phase lets TLC evaluate it once).
ServiceBGTargeted(r, busBusy, next) ==
  \E completed \in {CompleteActive(r)} :
    \E settled \in {SettleLifecycles(completed)} : next = DrainOrArbitrate(settled, busBusy)

-----------------------------------------------------------------------------
(* Completions.                                                            *)

BeginBGError(r, bg) == [r EXCEPT !.pending[bg] = None, !.lifecycle[bg] = "ERROR_DRAINING"]

Retire(r, bg) == [r EXCEPT !.retired[bg] = r.completion[bg], !.completion[bg] = None]

\* DUPLICATE and UNKNOWN_OPERATION leave the rank as it was.
ValidateAndRetire(r, bg, candidate) ==
  IF \/ candidate = r.retired[bg]
     \/ r.completion[bg] = None
     \/ r.completion[bg].id # candidate.id
  THEN r
  ELSE IF r.completion[bg] = candidate THEN Retire(r, bg) ELSE BeginBGError(r, bg)

-----------------------------------------------------------------------------
(* Shared ownership and the legacy mode.                                   *)

BeginRankFatalError_KeepsMask(r) ==
  [r EXCEPT !.mode = "ERROR_DRAINING",
            !.pending = [bg \in LocalBGs |-> None],
            !.lifecycle = [bg \in LocalBGs |-> "ERROR_DRAINING"]]

BeginRankFatalError(r) ==
  [r EXCEPT !.mode = "ERROR_DRAINING",
            !.pending = [bg \in LocalBGs |-> None],
            !.lifecycle = [bg \in LocalBGs |-> "ERROR_DRAINING"],
            !.busy = Owned(r)]

DisjointOwners(r) ==
  \A a, b \in LocalBGs :
    a # b /\ r.active[a] # None /\ r.active[b] # None =>
      PhysicalBlocks(a, r.active[a].mask) \cap PhysicalBlocks(b, r.active[b].mask) = {}

ValidateSharedOwnership(r) ==
  IF DisjointOwners(r) /\ r.busy = Owned(r) THEN r ELSE BeginRankFatalError(r)

\* Entering throws unless the rank is idle; leaving drains.
LegacyEnter(r) == IF r.mode = "IDLE" THEN [r EXCEPT !.mode = "LEGACY_RANK_WIDE"] ELSE r
LegacyLeave(r) == IF r.mode = "LEGACY_RANK_WIDE" THEN [r EXCEPT !.mode = "DRAINING"] ELSE r

-----------------------------------------------------------------------------
(* The rank in its environment: engines that submit and poll, the host     *)
(* that flushes, resets and changes modes, and injected corruptions.       *)

InUse(r, bg) == {op.id : op \in {r.pending[bg], r.active[bg], r.completion[bg], r.retired[bg]} \ {None}}

Init == rank = RankInit /\ injections = 0

Submit(bg) ==
  /\ \E op \in Identities :
       /\ op.id \notin InUse(rank, bg)
       /\ ~Stale(rank, bg, op)
       /\ rank' = SubmitBGTargetedOperation(rank, bg, op)
  /\ UNCHANGED injections

Service(busBusy) == ServiceBGTargeted(rank, busBusy, rank') /\ UNCHANGED injections

Poll(bg) ==
  /\ rank.completion[bg] # None
  /\ rank' = ValidateAndRetire(rank, bg, rank.completion[bg])
  /\ UNCHANGED injections

Flush(bg) ==
  /\ "flush" \in HostCalls
  /\ rank' = FlushBG(rank, bg)
  /\ UNCHANGED injections

Reset(bg) ==
  /\ "reset" \in HostCalls
  /\ rank.generation[bg] < MaxGeneration
  /\ rank' = ResetBG(rank, bg)
  /\ UNCHANGED injections

ModeExit ==
  /\ "mode" \in HostCalls
  /\ rank' = RequestTargetedModeExit(rank)
  /\ UNCHANGED injections

ControlPIM ==
  /\ "mode" \in HostCalls
  /\ rank' \in {LegacyEnter(rank), LegacyLeave(rank)}
  /\ UNCHANGED injections

\* A completion that names the live operation with another mask, or one that
\* was already retired.
InjectCompletion(bg) ==
  /\ injections < MaxInjections
  /\ injections' = injections + 1
  /\ \E candidate \in Identities : rank' = ValidateAndRetire(rank, bg, candidate)

\* An orphan bit appears in the busy mask and the ownership validator runs.
InjectBusyBit ==
  /\ injections < MaxInjections
  /\ injections' = injections + 1
  /\ \E block \in Blocks : rank' = ValidateSharedOwnership([rank EXCEPT !.busy = @ \cup {block}])

Next ==
  \/ \E bg \in LocalBGs : Submit(bg) \/ Poll(bg) \/ Flush(bg) \/ Reset(bg) \/ InjectCompletion(bg)
  \/ \E busBusy \in BOOLEAN : Service(busBusy)
  \/ ModeExit
  \/ ControlPIM
  \/ InjectBusyBit

Spec == Init /\ [][Next]_vars

\* MemorySystem::update services every cycle and the bus is not held for
\* ever; an engine that waits for its completion polls every cycle.
Fairness == WF_vars(Service(FALSE)) /\ \A bg \in LocalBGs : WF_vars(Poll(bg))
FairSpec == Spec /\ Fairness

-----------------------------------------------------------------------------
(* Properties.                                                             *)

MaybeOperation == Identities \cup {None}

\* Every field keeps its type: busy mask, cursor and slots stay in range.
TypeOK ==
  /\ rank \in [mode : Modes, cursor : LocalBGs, busy : SUBSET Blocks,
               pending : [LocalBGs -> MaybeOperation], active : [LocalBGs -> MaybeOperation],
               completion : [LocalBGs -> MaybeOperation], retired : [LocalBGs -> MaybeOperation],
               lifecycle : [LocalBGs -> Lifecycles], generation : [LocalBGs -> Generations]]
  /\ injections \in 0 .. MaxInjections

\* The validator behind the rank-fatal path has nothing to find unless a
\* corruption is injected: the busy mask is at every moment exactly the blocks
\* of the active operations, through grants, completions, flushes, errors and
\* the rank-fatal drain, and no completion is ever about to be overwritten
\* (validateSharedOwnership, and the "duplicate unretired targeted completion"
\* throw of serviceBGTargeted).
OwnershipExact ==
  /\ rank.busy = Owned(rank)
  /\ \A bg \in LocalBGs : rank.active[bg] = None \/ rank.completion[bg] = None

\* Whatever is queued, running or unretired belongs to the generation of its
\* bank group, although resets and newer submissions move that generation
\* (submitBGTargetedOperation, resetBG).
OutstandingIsCurrent ==
  \A bg \in LocalBGs :
    \A op \in {rank.pending[bg], rank.active[bg], rank.completion[bg]} \ {None} :
      op.generation = rank.generation[bg]

\* The legacy mode, the idle mode and the final error mode have nothing
\* outstanding, and a waiting operation always belongs to a running bank group:
\* nothing can be left behind in a slot no lifecycle will ever serve.
NothingLeftBehind ==
  /\ rank.mode \in {"IDLE", "LEGACY_RANK_WIDE", "ERROR"} =>
       \A bg \in LocalBGs : ~Outstanding(rank, bg)
  /\ \A bg \in LocalBGs :
       /\ rank.pending[bg] # None => rank.lifecycle[bg] = "RUNNING"
       /\ rank.lifecycle[bg] \in {"FLUSHED", "ERROR"} => ~Outstanding(rank, bg)

\* The state of an operation as TargetedExecution sees it.
OperationPhase(r, bg, id) ==
  LET Holds(slot) == slot # None /\ slot.id = id
  IN  CASE Holds(r.active[bg])     -> "executing"
        [] Holds(r.completion[bg]) -> "completed"
        [] Holds(r.pending[bg])    -> "waiting"
        [] OTHER                   -> "idle"

OperationPhases(r) ==
  [bg \in LocalBGs |-> [id \in OperationIds |-> OperationPhase(r, bg, id)]]

Owner(r) == IF r.mode = "LEGACY_RANK_WIDE" THEN "legacy" ELSE "none"

Promise == INSTANCE TargetedExecution WITH
  BankGroups <- LocalBGs,
  phase <- OperationPhases(rank),
  owner <- Owner(rank)

\* The rank implements TargetedExecution: an accepted operation is cancelled
\* before its grant or completes in the cycle after it, once, however flushes,
\* resets and errors interleave; one grant per cycle; never beside legacy mode.
ImplementsTargetedExecution == Promise!Spec

\* Round robin starves nobody: a waiting operation is granted, or cancelled, or
\* the rank leaves the targeted mode, however often the others resubmit
\* (serviceBGTargeted's scan from next_bg_rr_).
WaitingIsServed ==
  \A bg \in LocalBGs :
    (rank.mode = "CSC_BG_TARGETED" /\ rank.pending[bg] # None)
      ~> (rank.mode # "CSC_BG_TARGETED" \/ rank.pending[bg] = None)

\* A bank group that drains after a flush or an error reaches FLUSHED or ERROR
\* (or is reset from there): the granted operation completes and is retired.
DrainSettles ==
  \A bg \in LocalBGs :
    rank.lifecycle[bg] \in {"DRAINING", "ERROR_DRAINING"}
      ~> rank.lifecycle[bg] \notin {"DRAINING", "ERROR_DRAINING"}

\* Nobody waits for ever: neither an operation for its grant nor a drain for its end.
Progress == WaitingIsServed /\ DrainSettles

\* "Rank mode exit drains all participating BGs" (M6 design, section 9) and
\* every exit passes DRAINING -> IDLE (section 4).  The code stops granting as
\* soon as the mode is DRAINING, so an operation still waiting keeps the rank
\* there until somebody flushes its bank group (requestTargetedModeExit).
ModeExitCompletes == rank.mode = "DRAINING" ~> rank.mode # "DRAINING"
=============================================================================
