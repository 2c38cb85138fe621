------------------------- MODULE CSCNativeExecution -------------------------
(***************************************************************************)
(* CSCNativeExecution: the descriptor engines of the bank groups of one    *)
(* rank, the rank that executes their multiplications (PIMRankTargeted)    *)
(* and the memory system that serves their reads.  One call of tick() is a *)
(* Cycle step - the memory returns at most one read of the channel, then   *)
(* serviceBGTargeted runs, the accumulators and the path make their steps  *)
(* and the barrier takes its minimum - followed by one Visit per engine in *)
(* order of their bank group, until the first failure, and by Finish, in   *)
(* which outputs are taken and the result is finalized.  Host calls come   *)
(* between two ticks, when turn is Idle.                                   *)
(*                                                                         *)
(* An exception that leaves tick() is exec.threw and stops the model.  The *)
(* memory system is the set of reads it owes, in any order, and a choice,  *)
(* per attempt, whether it has room.  policy.consumer says who takes the   *)
(* products: the host's sink (RAW, bga_config_.enabled is false), or an    *)
(* accumulator whose outputs go to the validation collector or through the *)
(* partial result path (WRITEBACK); a consumer outside is not modelled.    *)
(***************************************************************************)

EXTENDS CSCDescriptorEngine, CSCBGAIntegration

CONSTANTS Policies,      \* the policies to cover, and the bound which host calls are made in each
          Images,        \* bound: for each policy the images the host may launch, one set for
                         \* each launch in turn; with accumulators it launches once
          FlushedLaunches  \* bound: the launches, from the first, in which flush or flushBG is called

MaxLaunches == Max({Len(Images[p]) : p \in Policies})

\* The descriptors of every bank group.
ImageType == [LocalBGs -> Seq([rows : Seq(Seq(Nat)), valid : BOOLEAN, xStays : BOOLEAN])]
Consumers == {"RAW", "VALIDATION", "WRITEBACK"}

\* A descriptor that is well-formed has products; an accumulator refuses a chunk
\* longer than its FIFO as malformed, and the host configures none that short.
WellFormedFor(consumer, descriptor) ==
  descriptor.valid =>
    /\ descriptor.rows # <<>>
    /\ \A c \in DOMAIN descriptor.rows :
         /\ descriptor.rows[c] # <<>>
         /\ consumer # "RAW" => Len(descriptor.rows[c]) <= InputQueueDepth

ASSUME NativeAssumption ==
  /\ \A p \in Policies :
       /\ Images[p] \in Seq(SUBSET ImageType)
       /\ \A i \in DOMAIN Images[p] : \A image \in Images[p][i] : \A bg \in LocalBGs :
            \A k \in DOMAIN image[bg] : WellFormedFor(p.consumer, image[bg][k])
       /\ p.consumer # "RAW" => Len(Images[p]) = 1
  /\ Policies \subseteq [barrier : BOOLEAN, serialized : BOOLEAN, consumer : Consumers,
                         calls : SUBSET {"flush", "flushBG", "resetBG", "reset"}]
  /\ FlushedLaunches \in Nat

VARIABLES engines,   \* engines_: bg -> engine record
          rank,      \* the PIMRank of the channel, but for its accumulators
          accumulators, \* csc_bgas_ of the rank
          path,      \* partial_result_path_
          output,    \* what was taken from the accumulators
          exec,      \* the other CSCNativeExecution fields
          policy,    \* policy_, scheduling_policy_, bga_config_ and the host's calls
          turn,      \* the engine tick() visits next, Idle between two calls
          epochs     \* what barrier_epoch is the minimum of

bgaVars == <<accumulators, path, output>>
vars == <<engines, rank, exec, policy, turn, epochs, bgaVars>>
tickVars == <<policy, turn, epochs>>

Idle == NumBGs + 1

R == INSTANCE PIMRankTargeted WITH
  OperationIds <- 1 .. 8, Masks <- {{0}}, MaxGeneration <- MaxLaunches + 1,
  MaxInjections <- 0, HostCalls <- {}, None <- NoOp, injections <- 0

NoWork == [bg \in LocalBGs |-> <<>>]
NothingEmitted == [bg \in LocalBGs |-> <<>>]
AllRunning == [bg \in LocalBGs |-> "RUNNING"]

ExecInit ==
  [launched |-> FALSE, failed |-> FALSE, threw |-> FALSE,
   flushRequested |-> FALSE, flushCompleted |-> FALSE,
   generation |-> 0, status |-> AllRunning, outstanding |-> {},
   emitted |-> NothingEmitted, work |-> NoWork]

Owner(token) == token.id[2]

Enabled == policy.consumer # "RAW"        \* bga_config_.enabled
Writeback == policy.consumer = "WRITEBACK"

\* bgaComputeSubmitComplete, bgaDrainComplete
ComputeSubmitComplete(w) ==
  \A bg \in LocalBGs : w.engines[bg].submitDone /\ w.engines[bg].batch = NoBatch
DrainComplete(w) == \A bg \in LocalBGs : Drained(w.accumulators)[bg]

AcceptedPartials(w) == MapThenSumSet(LAMBDA bg : w.engines[bg].accepted, LocalBGs)
Nnz(work) ==
  MapThenSumSet(LAMBDA bg : Len(FlattenSeq(FlattenSeq([k \in DOMAIN work[bg] |-> work[bg][k].rows]))),
                LocalBGs)

\* What finalizeEndToEnd demands, and endToEndSpMVComplete again.
EndToEndConsistent(x, w) ==
  /\ ComputeSubmitComplete(w) /\ DrainComplete(w)
  /\ w.path.writebackDone /\ w.path.readbackDone /\ w.path.reductionDone
  /\ EndToEndConservationValid(AcceptedPartials(w), Nnz(x.work), w.path, w.output)

EndToEndSpMVComplete(x, w) ==
  x.launched /\ ~x.failed /\ w.output.valid = x.generation /\ EndToEndConsistent(x, w)

BGAExecutionComplete(x, w) ==
  /\ ~x.failed /\ ComputeSubmitComplete(w) /\ DrainComplete(w)
  /\ TakenContributions(w.output) = AcceptedPartials(w)

\* isTerminal, isDone and resultValid, of the execution fields and the rest given.
IsComplete(x, w) ==
  CASE Writeback -> EndToEndSpMVComplete(x, w)
    [] Enabled /\ ~Writeback -> BGAExecutionComplete(x, w)
    [] OTHER -> \A bg \in LocalBGs : Terminal(w.engines[bg])

IsTerminal(x, w) == x.launched /\ x.outstanding = {} /\ (x.failed \/ IsComplete(x, w))

IsDone(x, w) ==
  IF Enabled THEN IsComplete(x, w)
  ELSE IsTerminal(x, w) /\ ~x.failed /\ \A bg \in LocalBGs : w.engines[bg].state = "DONE"

World == [engines |-> engines, accumulators |-> accumulators, path |-> path, output |-> output]

ResultValid ==
  IF Enabled THEN Writeback /\ EndToEndSpMVComplete(exec, World)
  ELSE IsDone(exec, World) /\ \A bg \in LocalBGs : exec.status[bg] # "INCOMPLETE_FLUSHED"

-----------------------------------------------------------------------------
(* One engine, one cycle.  Every branch gives engines', rank', exec' and   *)
(* accumulators'.                                                          *)

\* The engine moves on; a failure is latched for the whole execution.
Put(bg, e) == engines' = [engines EXCEPT ![bg] = e]
Latched(x, e) == IF HasFailed(e) THEN [x EXCEPT !.failed = TRUE] ELSE x

Step(bg, e) == Put(bg, e) /\ exec' = Latched(exec, e) /\ UNCHANGED rank

Throw == exec' = [exec EXCEPT !.threw = TRUE] /\ UNCHANGED <<engines, rank>>

Requesting == {"LOAD_X", "FETCH_VALUE", "FETCH_ROW_INDEX", "WAIT_OPERANDS"}

\* submit: refused while another read is outstanding when requests are
\* serialized; otherwise the memory system decides.
MaySubmit(bg) ==
  /\ engines[bg].state \in Requesting
  /\ Attempted(engines[bg]) # {}
  /\ policy.serialized => exec.outstanding = {}

RequestOperand(bg, accepted) ==
  LET e == engines[bg]
  IN  /\ Put(bg, IF e.state = "WAIT_OPERANDS" THEN WaitOperands(e, accepted)
                 ELSE FetchOperand(e, accepted))
      /\ exec' = [exec EXCEPT !.outstanding = IF accepted THEN @ \cup AttemptedTokens(e) ELSE @]
      /\ UNCHANGED rank

\* submitTarget; a stale generation throws.
SubmitTarget(bg) ==
  \E e \in {BuildOperation(engines[bg])} :
    IF R!Stale(rank, bg, e.op) THEN Throw
    ELSE /\ Put(bg, IF R!Admits(rank, bg) THEN TargetSubmitted(e) ELSE e)
         /\ rank' = R!SubmitBGTargetedOperation(rank, bg, e.op)
         /\ UNCHANGED exec

\* targetStatus; an operation the rank does not know throws.
AskGrant(bg) ==
  LET e == engines[bg]
      Holds(slot) == slot # NoOp /\ slot.id = e.op.id
  IN  IF Holds(rank.pending[bg]) THEN Step(bg, e)
      ELSE IF Holds(rank.active[bg]) \/ Holds(rank.completion[bg]) THEN Step(bg, TargetGranted(e))
      ELSE Throw

\* pollTarget: the completion is retired even when it is somebody else's.
PollTarget(bg) ==
  LET e == engines[bg]
      completion == rank.completion[bg]
  IN  IF completion = NoOp \/ completion = rank.retired[bg] THEN Step(bg, e)
      ELSE /\ rank' = R!ValidateAndRetire(rank, bg, completion)
           /\ IF completion = e.op
              THEN Put(bg, TargetCompleted(e)) /\ UNCHANGED exec
              ELSE exec' = [exec EXCEPT !.failed = TRUE] /\ UNCHANGED engines

Emitted(x, bg) ==
  [x EXCEPT !.emitted[bg] = Append(@, <<engines[bg].pointer, engines[bg].chunk>>)]

Emit(bg) ==
  /\ Put(bg, EmitPartials(engines[bg]))
  /\ exec' = Emitted(exec, bg)
  /\ UNCHANGED rank

\* submitBGA: the batch the engine holds is offered to the accumulator.
SubmitBatch(bg) ==
  \E built \in {BuildBatch(engines[bg], NumRows)} :
    IF HasFailed(built) THEN Step(bg, built) /\ UNCHANGED accumulators
    ELSE LET answer == SubmitResult(accumulators[bg], built.batch)
             e == BatchAnswered(built, answer)
         IN  /\ accumulators' = [accumulators EXCEPT ![bg] = Submit(@, built.batch)]
             /\ Put(bg, e)
             /\ exec' = Latched(IF answer = "ACCEPTED" THEN Emitted(exec, bg) ELSE exec, e)
             /\ UNCHANGED rank

EndBankGroup(bg) ==
  LET ended == IF MayCompleteProducer(engines[bg]) THEN EndProducer(accumulators[bg])
                                                   ELSE accumulators[bg]
  IN  /\ accumulators' = [accumulators EXCEPT ![bg] = ended]
      /\ Step(bg, CompleteProducer(engines[bg], ended.draining))

\* The states whose work involves nobody else.
LocalStep(bg) ==
  LET e == engines[bg]
      g == exec.generation
  IN  CASE e.state = "FETCH_DESCRIPTOR" -> FetchDescriptor(e, bg, g)
        [] e.state = "ADVANCE_CHUNK"    -> AdvanceChunk(e, bg, g)
        [] e.state = "NEXT_DESCRIPTOR"  -> NextDescriptor(e)
        [] e.state = "FLUSHING"         -> Flushing(e)

TickEngine(bg, accepted) ==
  LET state == engines[bg].state
  IN  CASE state \in Requesting             -> RequestOperand(bg, accepted)
        [] state = "SIMD_MUL"               -> SubmitTarget(bg)
        [] state = "WAIT_TARGET_GRANT"      -> AskGrant(bg)
        [] state = "WAIT_TARGET_COMPLETION" -> PollTarget(bg)
        [] state = "EMIT_PARTIALS"          -> Emit(bg)
        [] OTHER -> \E e \in {LocalStep(bg)} : Step(bg, e)

\* What the engine may do to its accumulator.
TickEngineAndBGA(bg, accepted) ==
  IF Enabled /\ engines[bg].state = "EMIT_PARTIALS" THEN SubmitBatch(bg)
  ELSE IF engines[bg].state = "COMPLETE_PRODUCER" THEN EndBankGroup(bg)
  ELSE TickEngine(bg, accepted) /\ UNCHANGED accumulators

-----------------------------------------------------------------------------
(* One call of tick.                                                       *)

\* The engines the barrier takes its minimum over.
Participants_WithFinished(e) == {bg \in LocalBGs : e[bg].state # "ERROR"}

Participants(e) ==
  {bg \in LocalBGs : e[bg].busy /\ ~e[bg].flushRequested /\ ~HasFailed(e[bg])}

\* tokenComplete: at most one read comes back; a mismatch latches a failure.
\* Then the rank and its accumulators run their cycle, unless the execution failed
\* the path does, and every engine's turn is to come.
Cycle(done, busBusy) ==
  /\ turn = Idle /\ exec.launched /\ ~exec.threw /\ ~IsTerminal(exec, World)
  /\ Cardinality(done) <= 1
  /\ engines' = [bg \in LocalBGs |->
                   IF \E token \in done : Owner(token) = bg
                   THEN OnRequestComplete(engines[bg], CHOOSE token \in done : TRUE)
                   ELSE engines[bg]]
  /\ accumulators' = IF Enabled THEN StepAccumulators(accumulators) ELSE accumulators
  /\ \E failed \in {exec.failed \/ \E token \in done : ~Matches(engines[Owner(token)], token)} :
       /\ IF Writeback /\ ~failed THEN Path!Step(path, Drained(accumulators'), path')
                                   ELSE UNCHANGED path
       /\ exec' = [exec EXCEPT !.outstanding = @ \ done,
                               !.failed = failed \/ path'.error,
                               !.threw = StepThrew(accumulators')]
  /\ output' = [output EXCEPT !.reduced = path.reductionDone]
  /\ R!ServiceBGTargeted(rank, busBusy, rank')
  /\ epochs' = {engines'[bg].epoch : bg \in Participants(engines')}
  /\ turn' = 0
  /\ UNCHANGED policy

Held_Loose(bg) ==
  /\ policy.barrier
  /\ ~engines[bg].flushRequested
  /\ \E epoch \in epochs : engines[bg].epoch > epoch + 1

Held(bg) ==
  /\ policy.barrier
  /\ ~engines[bg].flushRequested
  /\ \E epoch \in epochs : engines[bg].epoch > epoch

\* One pass of the loop over the engines; the first failure ends it.
Visit(accepted) ==
  /\ turn < NumBGs /\ ~exec.threw
  /\ accepted => ~exec.failed /\ ~Held(turn) /\ MaySubmit(turn)
  /\ IF exec.failed \/ ~engines[turn].busy \/ Held(turn)
     THEN /\ exec' = Latched(exec, engines[turn])
          /\ UNCHANGED <<engines, rank, accumulators>>
     ELSE TickEngineAndBGA(turn, accepted)
  /\ turn' = IF exec.failed THEN NumBGs ELSE turn + 1
  /\ UNCHANGED <<policy, epochs, path, output>>

\* The end of flush and of tick: a requested flush completes with the work.
FinishFlush(x, w) ==
  IF x.flushRequested /\ IsDone(x, w) THEN [x EXCEPT !.flushCompleted = TRUE] ELSE x

\* The outputs the consumer takes in this cycle.
Served ==
  IF Enabled /\ ~exec.failed THEN Service(accumulators, path, output, Writeback)
  ELSE Serving(accumulators, path, output)

\* finalizeEndToEnd acts from the cycle after the one that completes the reduction.
Finalizes(x) ==
  Writeback /\ ~x.failed /\ path.reductionDone /\ output.reduced /\ output.valid # x.generation

Finish ==
  /\ turn = NumBGs /\ ~exec.threw
  /\ \E s \in {Served} :
     LET x == [exec EXCEPT !.failed = @ \/ s.failed \/ s.path.error, !.threw = s.threw]
         w == [engines |-> engines, accumulators |-> s.accumulators, path |-> s.path,
               output |-> s.output]
         mismatch == Finalizes(x) /\ ~EndToEndConsistent(x, w)
     IN  /\ accumulators' = s.accumulators
         /\ path' = s.path
         /\ output' = [s.output EXCEPT !.valid = IF Finalizes(x) /\ ~mismatch THEN x.generation ELSE @,
                                       !.reduced = FALSE]
         /\ exec' = FinishFlush([x EXCEPT !.failed = @ \/ mismatch], [w EXCEPT !.output = output'])
  /\ turn' = Idle
  /\ epochs' = {}
  /\ UNCHANGED <<engines, rank, policy>>

-----------------------------------------------------------------------------
(* Host calls, made between two calls of tick.                             *)

Init ==
  /\ engines = [bg \in LocalBGs |-> EngineInit]
  /\ rank = R!RankInit
  /\ accumulators = NewAccumulators(1)
  /\ path = Path!PathInit
  /\ output = OutputInit
  /\ exec = ExecInit
  /\ policy \in Policies
  /\ turn = Idle
  /\ epochs = {}

HostCall(call) == call \in policy.calls /\ turn = Idle /\ ~exec.threw

\* launch and reset do not look at the rank.  The host is taken to keep the
\* documented conditions: nothing is left in the rank, and a bank group that
\* was flushed, and so refuses every operation, was reset before a launch.
HostSeesIdleRank == \A bg \in LocalBGs : ~R!Outstanding(rank, bg)
HostResetFlushed == \A bg \in LocalBGs : rank.lifecycle[bg] \in {"IDLE", "RUNNING"}

\* launch throws while busy.  With accumulators it throws, too, when it is called
\* again, as their configuration is locked: the host launches once.
Launch ==
  /\ turn = Idle /\ ~exec.threw
  /\ ~exec.launched \/ IsTerminal(exec, World)
  /\ exec.generation < Len(Images[policy])
  /\ HostSeesIdleRank /\ HostResetFlushed
  /\ \E image \in Images[policy][exec.generation + 1] :
       /\ engines' = [bg \in LocalBGs |-> LaunchEngine(ResetEngine(engines[bg]), image[bg],
                                                      IF Enabled THEN exec.generation + 1 ELSE 0)]
       /\ exec' = [ExecInit EXCEPT !.launched = TRUE, !.generation = exec.generation + 1,
                                   !.work = image]
  /\ accumulators' = IF Enabled THEN NewAccumulators(exec.generation + 1) ELSE accumulators
  /\ path' = Path!PathInit
  /\ output' = [OutputInit EXCEPT !.valid = output.valid]
  /\ UNCHANGED <<rank, tickVars>>

\* flush: before any launch every engine passes FLUSHING at once.  With
\* accumulators the output ports are not set before the launch, and the next
\* tick() would call them: the host launches first.
FlushAll ==
  /\ HostCall("flush") /\ exec.generation <= FlushedLaunches
  /\ Enabled => exec.launched
  /\ engines' = [bg \in LocalBGs |->
                   IF exec.launched THEN Flush(engines[bg]) ELSE Flushing(Flush(engines[bg]))]
  /\ UNCHANGED <<rank, bgaVars, tickVars>>
  /\ exec' = FinishFlush([exec EXCEPT !.flushRequested = TRUE, !.launched = TRUE], World')

FlushBG_KeepsStatus(bg) ==
  /\ HostCall("flushBG") /\ exec.work # NoWork /\ exec.generation <= FlushedLaunches
  /\ rank' = R!FlushBG(rank, bg)
  /\ engines' = [engines EXCEPT ![bg] = FlushIncomplete(@)]
  /\ UNCHANGED <<exec, bgaVars, tickVars>>

\* flushBG, called on launched work.
FlushBG(bg) ==
  /\ HostCall("flushBG") /\ exec.work # NoWork /\ exec.generation <= FlushedLaunches
  /\ rank' = R!FlushBG(rank, bg)
  /\ engines' = [engines EXCEPT ![bg] = FlushIncomplete(@)]
  /\ exec' = [exec EXCEPT !.status[bg] = "INCOMPLETE_FLUSHED"]
  /\ UNCHANGED <<bgaVars, tickVars>>

\* resetBG: the rank first; if it is idle the engine follows, or throws.  The
\* documented order is after reset, for a bank group that was flushed.
ResetBG(bg) ==
  /\ HostCall("resetBG") \/ (HostCall("reset") /\ ~exec.launched /\ rank.lifecycle[bg] = "FLUSHED")
  /\ rank.generation[bg] <= MaxLaunches
  /\ rank' = R!ResetBG(rank, bg)
  /\ IF R!Outstanding(rank, bg) \/ ~MayResetEngine(engines[bg])
     THEN UNCHANGED <<engines, exec>>
     ELSE /\ engines' = [engines EXCEPT ![bg] = ResetEngine(@)]
          /\ exec' = [exec EXCEPT !.status[bg] = "RUNNING"]
  /\ UNCHANGED <<bgaVars, tickVars>>

\* reset throws while a read is outstanding; statuses, rank and accumulators survive.
Reset ==
  /\ HostCall("reset")
  /\ exec.outstanding = {}
  /\ HostSeesIdleRank
  /\ engines' = [bg \in LocalBGs |-> ResetEngine(engines[bg])]
  /\ exec' = [ExecInit EXCEPT !.generation = exec.generation, !.status = exec.status]
  /\ path' = Path!PathInit
  /\ output' = [OutputInit EXCEPT !.valid = output.valid]
  /\ UNCHANGED <<rank, accumulators, tickVars>>

OneRead == {{token} : token \in exec.outstanding}

Next ==
  \/ \E done \in {{}} \cup OneRead, busBusy \in BOOLEAN : Cycle(done, busBusy)
  \/ \E accepted \in BOOLEAN : Visit(accepted)
  \/ Finish
  \/ Launch
  \/ FlushAll
  \/ Reset
  \/ \E bg \in LocalBGs : FlushBG(bg) \/ ResetBG(bg)

Spec == Init /\ [][Next]_vars

\* The host calls tick until the execution is terminal.  Again and again the
\* buses are free in a cycle in which the memory controller returns a read, if
\* it owes one, and it does not refuse for ever the requests it is offered.
SmoothCycle ==
  IF exec.outstanding = {} THEN Cycle({}, FALSE) ELSE \E done \in OneRead : Cycle(done, FALSE)

Fairness ==
  /\ WF_vars(Cycle({}, TRUE) \/ Visit(FALSE) \/ Finish)
  /\ SF_vars(SmoothCycle)
  /\ SF_vars(Visit(TRUE))

FairSpec == Spec /\ Fairness

-----------------------------------------------------------------------------
(* Properties.                                                             *)

\* The chunks of a bank group's image in the order they are to be emitted.
Expected(image) ==
  FoldLeft(LAMBDA done, k : done \o [c \in DOMAIN image[k].rows |-> <<k, c - 1>>],
           <<>>, [k \in DOMAIN image |-> k])

\* The products of one row in a bank group's image, in order: the chunk's number and
\* the product's place in the chunk, and the products a record sums up.
RowProducts(image, row) ==
  LET chunks == FlattenSeq([k \in DOMAIN image |-> image[k].rows])
  IN  FlattenSeq([n \in DOMAIN chunks |->
                    SelectSeq([i \in DOMAIN chunks[n] |-> <<n, i>>], LAMBDA p : chunks[n][p[2]] = row)])

SummedProducts(records, row) ==
  LET sums == SelectSeq(records, LAMBDA value : value[1].row = row)
  IN  FlattenSeq([n \in DOMAIN sums |-> [i \in DOMAIN sums[n] |-> <<sums[n][i].sequence, sums[n][i].index>>]])

\* The records of a bank group in the order the host, or the collector, adds them.
AddedRecords(bg) ==
  IF ~Writeback THEN output.handed[bg]
  ELSE LET mine == SelectSeq(path.added, LAMBDA record : record.bg = bg)
       IN  [n \in DOMAIN mine |-> output.handed[bg][mine[n].seq]]

\* Every engine, flag and status keeps its type and reads belong to a bank group.
TypeOK ==
  /\ \A bg \in LocalBGs :
       LET e == engines[bg]
       IN  /\ e.state \in EngineStates
           /\ {e.busy, e.flushRequested, e.flushCompleted, e.incomplete} \subseteq BOOLEAN
           /\ e.pointer \in 1 .. Len(e.image) + 1
           /\ e.op # NoOp => e.op.id \in 1 .. e.opSequence
           /\ \A kind \in KindSet :
                e.slots[kind].phase \in {"empty", "created", "accepted", "ready"}
  /\ {exec.launched, exec.failed, exec.threw, exec.flushRequested, exec.flushCompleted} \subseteq BOOLEAN
  /\ exec.generation \in 0 .. Len(Images[policy])
  /\ exec.status \in [LocalBGs -> {"RUNNING", "INCOMPLETE_FLUSHED"}]
  /\ \A token \in exec.outstanding : Owner(token) \in LocalBGs
  /\ turn \in 0 .. Idle
  /\ output.cursor \in LocalBGs /\ output.valid \in 0 .. exec.generation

\* Three views of the work in flight agree between any two cycles (ViewsAgree).
\* The reads the execution believes outstanding are those its engines' trackers hold
\* accepted, each of them in the slot that waits for it (submit, tokenComplete).
ReadsAgree ==
  /\ exec.outstanding = UNION {Tracker!Entries(engines[bg].tracker, "ACCEPTED") : bg \in LocalBGs}
  /\ \A token \in exec.outstanding :
       engines[Owner(token)].slots[token.kind] = [phase |-> "accepted", token |-> token]

\* While nothing failed an engine's wait state is what its rank holds for it: the
\* pending operation, the running or completed one, or nothing at all
\* (submitTarget, pollTarget, flushBG).
RankAgrees ==
  ~exec.failed =>
    \A bg \in LocalBGs :
      LET e == engines[bg]
      IN  turn = Idle =>
          /\ rank.pending[bg] = IF e.state = "WAIT_TARGET_GRANT" THEN e.op ELSE NoOp
          /\ IF e.state = "WAIT_TARGET_COMPLETION" THEN e.op \in {rank.active[bg], rank.completion[bg]}
             ELSE rank.active[bg] = NoOp /\ rank.completion[bg] = NoOp

\* What an engine and its accumulator know of each other's batches agrees as well,
\* flushed or not: the batch it will offer again is the one presented there, the next
\* sequence follows the last one taken, and every product it counts as accepted is
\* still in the accumulator or in a record taken from it (submitBGA, acceptBGAOutput).
BatchesAgree ==
  Enabled /\ exec.launched /\ turn = Idle =>
    \A bg \in LocalBGs :
      LET e == engines[bg]
          a == accumulators[bg]
          leaving == IF a.retiring THEN Len(Head(a.output).value) ELSE 0
      IN  /\ a.presented[0] = e.batch
          /\ a.last[0].sequence + 1 = e.nextBatch
          /\ e.accepted + leaving =
               Accumulator!LiveContributionCount(a) + Len(FlattenSeq(output.handed[bg]))

ViewsAgree == ReadsAgree /\ RankAgrees /\ BatchesAgree

\* Between two cycles, whatever flushes, resets and failures came: everything in
\* its domain, and no two owners of the same work disagree about it.
SafeState == TypeOK /\ ViewsAgree

\* No exception leaves tick(), and an execution fails only on a descriptor
\* that is malformed or loses its operand, whatever flushes come between: no
\* stale submission, no query of an operation the rank dropped, no completion
\* with the wrong identity, no broken request accounting at DONE, no batch refused
\* as a duplicate or out of order, no failed self-check of an accumulator or of the
\* path, no conservation mismatch at the end (finalizeEndToEnd).
FailsOnlyOnBadImage ==
  /\ ~exec.threw
  /\ exec.failed =>
       \E bg \in LocalBGs : \E k \in DOMAIN exec.work[bg] :
         ~exec.work[bg][k].valid \/ ~exec.work[bg][k].xStays

\* A valid result contains every chunk of every bank group once, in order:
\* "the flushed BG's partials are not committed as successful output" (M6
\* design, section 9; resultValid).  With accumulators, flushed or not, the valid
\* result, and what the validation collector has when it is done, adds up every
\* product of every row once, in the order of the image, whatever merges,
\* evictions, drains and bursts it went through.
ValidResultIsComplete ==
  ResultValid \/ (Enabled /\ IsDone(exec, World)) =>
    \A bg \in LocalBGs :
      /\ exec.emitted[bg] = Expected(exec.work[bg])
      /\ Enabled =>
           \A row \in 0 .. NumRows - 1 :
             SummedProducts(AddedRecords(bg), row) = RowProducts(exec.work[bg], row)

\* Under the lockstep reference no bank group is more than one chunk ahead of
\* another that still takes part in the barrier.
Lockstep ==
  policy.barrier /\ ~exec.failed =>
    \A a, b \in Participants(engines) : engines[a].epoch <= engines[b].epoch + 1

\* A launched execution terminates, with or without the barrier, serialized or
\* not, flushed or not, on good and on malformed images: "finished, flushing
\* and error BGs cannot hold the minimum epoch and deadlock the remaining
\* participants" (M6 design, barrier section).  With accumulators a flushed engine
\* does not end its producer (finishWork), so then only an execution flushed too
\* late to matter terminates.
Abandoned ==
  Enabled /\ \E bg \in LocalBGs : engines[bg].flushRequested /\ ~engines[bg].submitDone

Terminates == exec.launched ~> (IsTerminal(exec, World) \/ ~exec.launched \/ Abandoned)

\* A requested flush completes unless the execution fails (flush, tick).
FlushCompletes ==
  exec.flushRequested ~>
    (exec.flushCompleted \/ exec.failed \/ ~exec.flushRequested \/ Abandoned)

\* What the host polls for comes: the end of the work, and of its flush.
Progress == Terminates /\ FlushCompletes
=============================================================================
