--------------------- MODULE CSCNativeExecution_proofs ---------------------
(***************************************************************************)
(* Proofs about CSCNativeExecution, for any number of bank groups, any     *)
(* images, policies and host calls.  With the lockstep barrier no engine   *)
(* that takes part is more than one chunk ahead of another.  Every engine  *)
(* stays sound: its walk, its operand slots and its request tracker agree, *)
(* and the execution's outstanding reads are those its trackers hold       *)
(* accepted (ReadsInv).  Unless a bank group is reset at work, the rank    *)
(* holds what the engines wait for, while nothing failed (RankInv), and    *)
(* every accumulator has the batches its engine counts on (BatchInv).      *)
(***************************************************************************)
EXTENDS CSCNativeExecution, FiniteSetTheorems, SequenceTheorems, WellFoundedInduction, TLAPS

-----------------------------------------------------------------------------
(* What the steps of an engine do to its part in the barrier               *)

EngineFields == DOMAIN EngineInit

\* An engine between two steps: when it is busy there is something left to do.
Sound(e) ==
  /\ DOMAIN e = EngineFields
  /\ e.epoch \in Nat
  /\ e.state \in EngineStates
  /\ e.busy => e.state \notin {"IDLE", "DONE", "ERROR"}

\* It takes part in the barrier.
TakesPart(e) == e.busy /\ ~e.flushRequested

\* t is e with no more chunks done, or at most one more; nobody joins the barrier.
Stays(e, t) ==
  Sound(t) /\ t.epoch = e.epoch /\ (TakesPart(t) => TakesPart(e))

Moves(e, t) ==
  Sound(t) /\ t.epoch \in {e.epoch, e.epoch + 1} /\ (TakesPart(t) => TakesPart(e))

\* What the steps are told of: everything an engine's soundness looks at.
LEMMA StaysMoves ==
  ASSUME NEW e, NEW t, Stays(e, t)
  PROVE  Moves(e, t)
BY DEF Stays, Moves

\* Keeping the barrier state, twice, keeps it.
LEMMA StaysChain ==
  ASSUME NEW e, NEW t, NEW u, Stays(e, t), Stays(t, u)
  PROVE  Stays(e, u)
BY DEF Stays

\* An engine that is not touched keeps its barrier state.
LEMMA StaysPut ==
  ASSUME NEW e, Sound(e)
  PROVE  Stays(e, e)
BY DEF Stays

\* fail(): a failed engine is not busy.
LEMMA FailStays ==
  ASSUME NEW e, Sound(e)
  PROVE  Stays(e, FailEngine(e))
BY DEF FailEngine, Stays, Sound, TakesPart, EngineFields, EngineInit, EngineStates, HasFailed

\* prepare(): the engine stays where it was, unless it fails.
LEMMA PrepareStays ==
  ASSUME NEW e, NEW bg, NEW kind, NEW generation, Sound(e)
  PROVE  Stays(e, Prepare(e, bg, kind, generation))
<1>1. ASSUME NEW made, NEW token
      PROVE  Stays(e, Remember(e, kind, made, token))
  <2> DEFINE slot == IF made.ok THEN [phase |-> "created", token |-> token] ELSE NoSlot
             next == [e EXCEPT !.sequence = @ + 1, !.tracker = made.tracker, !.slots[kind] = slot]
  <2>1. Remember(e, kind, made, token) \in {next, FailEngine(next)} BY DEF Remember
  <2> HIDE DEF slot
  <2>2. Stays(e, next) BY DEF Stays, Sound, TakesPart, EngineFields, EngineInit
  <2>3. Stays(next, FailEngine(next)) BY <2>2, FailStays DEF Stays
  <2> HIDE DEF next
  <2> QED BY <2>1, <2>2, <2>3, StaysChain
<1> QED BY <1>1 DEF Prepare

\* issueWaiting(): the engine keeps its state, whatever the memory system answers.
LEMMA IssueStays ==
  ASSUME NEW e, NEW accepted, Sound(e)
  PROVE  /\ Stays(e, IssueWaiting(e, accepted))
         /\ IssueWaiting(e, accepted).state = e.state
         /\ IssueWaiting(e, accepted).busy = e.busy
<1> DEFINE kind == CHOOSE k \in Attempted(e) : TRUE
           made == Tracker!RecordAccepted(e.tracker, e.slots[kind].token)
           next == [e EXCEPT !.tracker = made.tracker, !.slots[kind].phase = "accepted"]
<1>1. IssueWaiting(e, accepted) = IF ~accepted \/ Attempted(e) = {} THEN e ELSE next
  BY DEF IssueWaiting
<1> HIDE DEF kind, made
<1>2. Stays(e, next) /\ next.state = e.state /\ next.busy = e.busy
  BY DEF Stays, Sound, TakesPart, EngineFields, EngineInit
<1> HIDE DEF next
<1> QED BY <1>1, <1>2, StaysPut

\* onRequestComplete(): a completion retires a request or fails the engine.
LEMMA CompletionStays ==
  ASSUME NEW e, NEW token, Sound(e)
  PROVE  Stays(e, OnRequestComplete(e, token))
<1> DEFINE made == Tracker!Complete(e.tracker, token)
           retired == Tracker!Retire(made.tracker, token).tracker
           lost == token.kind = "X_READ" /\ ~Current(e).xStays
           told == [e EXCEPT !.tracker = made.tracker]
           failed == FailEngine(told)
           created == [e EXCEPT !.tracker = retired, !.slots[token.kind].phase = "created"]
           dropped == [failed EXCEPT !.tracker = Tracker!Retire(@, token).tracker,
                                     !.slots[token.kind].phase = "created"]
           staged == [e EXCEPT !.tracker = retired, !.slots[token.kind].phase = "ready"]
<1>1. OnRequestComplete(e, token) \in {FailEngine(e), created, dropped, staged}
  BY DEF OnRequestComplete
<1> HIDE DEF made, retired, lost
<1>2. Stays(e, FailEngine(e)) BY FailStays
<1>3. Stays(e, created) /\ Stays(e, staged) /\ Stays(e, told)
  BY DEF Stays, Sound, TakesPart, EngineFields, EngineInit
<1>4. Stays(told, failed) BY <1>3, FailStays DEF Stays
<1> HIDE DEF told
<1>5. Stays(e, failed) BY <1>3, <1>4, StaysChain
<1> HIDE DEF failed
<1>6. Stays(failed, dropped) BY <1>5 DEF Stays, Sound, TakesPart, EngineFields, EngineInit
<1>7. Stays(e, dropped) BY <1>5, <1>6, StaysChain
<1> HIDE DEF created, dropped, staged
<1> QED BY <1>1, <1>2, <1>3, <1>7

-----------------------------------------------------------------------------
(* One tick of an engine, by state                                         *)

\* FETCH_DESCRIPTOR: three requests are prepared, and the first failure stops it.
LEMMA FetchDescriptorStays ==
  ASSUME NEW e, NEW bg, NEW generation, Sound(e)
  PROVE  Stays(e, FetchDescriptor(e, bg, generation))
<1> DEFINE first == [e EXCEPT !.chunk = 0]
           x == Prepare(first, bg, "X_READ", generation)
           value == IF HasFailed(x) THEN x ELSE Prepare(x, bg, "VALUE_READ", generation)
           index == IF HasFailed(value) THEN value ELSE Prepare(value, bg, "INDEX_READ", generation)
           loads == [index EXCEPT !.state = "LOAD_X"]
<1>1. FetchDescriptor(e, bg, generation) =
        IF ~Current(e).valid THEN FailEngine(e) ELSE IF HasFailed(index) THEN index ELSE loads
  BY DEF FetchDescriptor
<1>2. Stays(e, FailEngine(e)) BY FailStays
<1>3. Stays(e, first) BY DEF Stays, Sound, TakesPart, EngineFields, EngineInit
<1> HIDE DEF first
<1>4. Stays(first, x) BY <1>3, PrepareStays DEF Stays
<1> HIDE DEF x
<1>5. Stays(x, value) BY <1>4, PrepareStays, StaysPut DEF Stays
<1> HIDE DEF value
<1>6. Stays(value, index) BY <1>5, PrepareStays, StaysPut DEF Stays
<1> HIDE DEF index
<1>7. Stays(e, index) BY <1>3, <1>4, <1>5, <1>6, StaysChain
<1>8. Stays(index, loads)
  BY <1>7 DEF Stays, Sound, TakesPart, EngineFields, EngineInit, EngineStates
<1>9. Stays(e, loads) BY <1>7, <1>8, StaysChain
<1> HIDE DEF loads
<1> QED BY <1>1, <1>2, <1>7, <1>9

\* LOAD_X, FETCH_VALUE and FETCH_ROW_INDEX, and WAIT_OPERANDS.
LEMMA OperandStays ==
  ASSUME NEW e, NEW accepted, Sound(e), e.state \in Requesting
  PROVE  Stays(e, IF e.state = "WAIT_OPERANDS" THEN WaitOperands(e, accepted)
                  ELSE FetchOperand(e, accepted))
<1> DEFINE issued == IssueWaiting(e, accepted)
           next == CASE issued.state = "LOAD_X" -> "FETCH_VALUE"
                     [] issued.state = "FETCH_VALUE" -> "FETCH_ROW_INDEX"
                     [] issued.state = "FETCH_ROW_INDEX" -> "WAIT_OPERANDS"
           fetched == [issued EXCEPT !.state = next]
           multiplies == [e EXCEPT !.state = "SIMD_MUL"]
<1>1. FetchOperand(e, accepted) = fetched BY DEF FetchOperand
<1>2. WaitOperands(e, accepted) \in {multiplies, issued} BY DEF WaitOperands
<1>3. Stays(e, issued) /\ issued.state = e.state /\ issued.busy = e.busy BY IssueStays
<1> HIDE DEF issued
<1>4. Stays(e, multiplies)
  BY DEF Stays, Sound, TakesPart, EngineFields, EngineInit, EngineStates
<1>5. ASSUME e.state # "WAIT_OPERANDS"
      PROVE  Stays(e, fetched)
  <2>1. next \in EngineStates \ {"IDLE", "DONE", "ERROR"}
    BY <1>3, <1>5 DEF Requesting, EngineStates
  <2> HIDE DEF next
  <2>2. Stays(issued, fetched)
    BY <1>3, <2>1 DEF Stays, Sound, TakesPart, EngineFields, EngineInit
  <2> HIDE DEF fetched
  <2> QED BY <1>3, <2>2, StaysChain
<1> HIDE DEF fetched, multiplies
<1> QED BY <1>1, <1>2, <1>3, <1>4, <1>5

\* SIMD_MUL, WAIT_TARGET_GRANT and WAIT_TARGET_COMPLETION.
LEMMA TargetStays ==
  ASSUME NEW e, Sound(e)
  PROVE  /\ Stays(e, BuildOperation(e))
         /\ Stays(e, TargetSubmitted(e))
         /\ Stays(e, TargetGranted(e))
         /\ Stays(e, TargetCompleted(e))
<1>1. Stays(e, BuildOperation(e))
  BY DEF BuildOperation, Stays, Sound, TakesPart, EngineFields, EngineInit, EngineStates
<1>2. Stays(e, TargetSubmitted(e)) /\ Stays(e, TargetGranted(e))
  BY DEF TargetSubmitted, TargetGranted, Stays, Sound, TakesPart, EngineFields, EngineInit,
         EngineStates
<1>3. Stays(e, TargetCompleted(e))
  BY DEF TargetCompleted, Stays, Sound, TakesPart, EngineFields, EngineInit, EngineStates
<1> QED BY <1>1, <1>2, <1>3

\* EMIT_PARTIALS, to the sink or to an accumulator, and COMPLETE_PRODUCER.
LEMMA EmitStays ==
  ASSUME NEW e, NEW answer, NEW rows, NEW drains, Sound(e)
  PROVE  /\ Stays(e, EmitPartials(e))
         /\ Stays(e, BuildBatch(e, rows))
         /\ Stays(e, BatchAnswered(e, answer))
         /\ Stays(e, CompleteProducer(e, drains))
<1>1. Stays(e, FailEngine(e)) /\ Stays(e, e) BY FailStays, StaysPut
<1>2. Stays(e, EmitPartials(e))
  BY DEF EmitPartials, Stays, Sound, TakesPart, EngineFields, EngineInit, EngineStates
<1>3. Stays(e, BuildBatch(e, rows))
  <2> DEFINE batch == [stream |-> 0, generation |-> e.targetGeneration,
                       sequence |-> e.nextBatch, rows |-> Current(e).rows[e.chunk + 1]]
             built == [e EXCEPT !.batch = batch]
  <2>1. BuildBatch(e, rows) \in {e, FailEngine(e), built} BY DEF BuildBatch
  <2> HIDE DEF batch
  <2>2. Stays(e, built) BY DEF Stays, Sound, TakesPart, EngineFields, EngineInit
  <2> HIDE DEF built
  <2> QED BY <1>1, <2>1, <2>2
<1>4. Stays(e, BatchAnswered(e, answer))
  <2> DEFINE taken == [e EXCEPT !.batch = NoBatch, !.nextBatch = @ + 1,
                                !.accepted = @ + Len(e.batch.rows), !.state = "ADVANCE_CHUNK"]
  <2>1. BatchAnswered(e, answer) \in {e, FailEngine(e), taken} BY DEF BatchAnswered
  <2>2. Stays(e, taken) BY DEF Stays, Sound, TakesPart, EngineFields, EngineInit, EngineStates
  <2> HIDE DEF taken
  <2> QED BY <1>1, <2>1, <2>2
<1>5. Stays(e, CompleteProducer(e, drains))
  <2> DEFINE ended == [e EXCEPT !.submitDone = TRUE, !.state = "DONE", !.busy = FALSE]
  <2>1. CompleteProducer(e, drains) \in {FailEngine(e), ended} BY DEF CompleteProducer
  <2>2. Stays(e, ended) BY DEF Stays, Sound, TakesPart, EngineFields, EngineInit, EngineStates
  <2> HIDE DEF ended
  <2> QED BY <1>1, <2>1, <2>2
<1> QED BY <1>2, <1>3, <1>4, <1>5

\* ADVANCE_CHUNK is the one step that counts a chunk, and it counts one.
LEMMA AdvanceMoves ==
  ASSUME NEW e, NEW bg, NEW generation, Sound(e)
  PROVE  Moves(e, AdvanceChunk(e, bg, generation))
<1> DEFINE moved == [e EXCEPT !.chunk = @ + 1]
           value == Prepare(moved, bg, "VALUE_READ", generation)
           index == IF HasFailed(value) THEN value ELSE Prepare(value, bg, "INDEX_READ", generation)
           last == [moved EXCEPT !.state = "NEXT_DESCRIPTOR", !.epoch = @ + 1]
           again == [index EXCEPT !.state = "WAIT_OPERANDS", !.epoch = @ + 1]
<1>1. AdvanceChunk(e, bg, generation) \in {last, index, again} BY DEF AdvanceChunk
<1>2. Stays(e, moved) BY DEF Stays, Sound, TakesPart, EngineFields, EngineInit
<1> HIDE DEF moved
<1>3. Stays(moved, value) BY <1>2, PrepareStays DEF Stays
<1> HIDE DEF value
<1>4. Stays(value, index) BY <1>3, PrepareStays, StaysPut DEF Stays
<1> HIDE DEF index
<1>5. Stays(e, index) BY <1>2, <1>3, <1>4, StaysChain
<1>6. Moves(e, last)
  BY <1>2 DEF Stays, Moves, Sound, TakesPart, EngineFields, EngineInit, EngineStates
<1>7. Moves(e, again)
  BY <1>5 DEF Stays, Moves, Sound, TakesPart, EngineFields, EngineInit, EngineStates
<1> HIDE DEF last, again
<1> QED BY <1>1, <1>5, <1>6, <1>7, StaysMoves

\* NEXT_DESCRIPTOR and the end of the work.
LEMMA NextDescriptorStays ==
  ASSUME NEW e, Sound(e), e.busy
  PROVE  Stays(e, NextDescriptor(e))
<1> DEFINE moved == [e EXCEPT !.pointer = @ + 1]
           next == [moved EXCEPT !.slots = EmptySlots, !.state = "FETCH_DESCRIPTOR"]
           flushes == [moved EXCEPT !.state = "FLUSHING", !.busy = TRUE]
           ends == [moved EXCEPT !.state = "COMPLETE_PRODUCER", !.busy = TRUE]
           done == [moved EXCEPT !.state = "DONE", !.busy = FALSE]
<1>1. NextDescriptor(e) \in {next, FailEngine(moved), flushes, ends, done}
  BY DEF NextDescriptor, FinishWork
<1>2. Stays(e, moved) /\ moved.busy BY DEF Stays, Sound, TakesPart, EngineFields, EngineInit
<1> HIDE DEF moved
<1>3. Stays(moved, FailEngine(moved)) BY <1>2, FailStays DEF Stays
<1>4. Stays(moved, next) /\ Stays(moved, flushes)
  BY <1>2 DEF Stays, Sound, TakesPart, EngineFields, EngineInit, EngineStates
<1>5. Stays(moved, ends) /\ Stays(moved, done)
  BY <1>2 DEF Stays, Sound, TakesPart, EngineFields, EngineInit, EngineStates
<1> HIDE DEF next, flushes, ends, done
<1> QED BY <1>1, <1>2, <1>3, <1>4, <1>5, StaysChain

\* FLUSHING.
LEMMA FlushingStays ==
  ASSUME NEW e, Sound(e)
  PROVE  Stays(e, Flushing(e))
BY DEF Flushing, Stays, Sound, TakesPart, EngineFields, EngineInit, EngineStates

\* The host's calls: no engine joins the barrier but in a launch.
LEMMA HostStays ==
  ASSUME NEW e, Sound(e)
  PROVE  /\ Stays(e, ResetEngine(e))
         /\ Stays(e, Flush(e))
         /\ Stays(e, FlushIncomplete(e))
         /\ Stays(e, Flushing(Flush(e)))
<1>1. Stays(e, ResetEngine(e))
  BY DEF ResetEngine, Stays, Sound, TakesPart, EngineFields, EngineInit, EngineStates
<1>2. Stays(e, Flush(e))
  BY DEF Flush, Stays, Sound, TakesPart, EngineFields, EngineInit, EngineStates, HasFailed
<1>3. Stays(e, FlushIncomplete(e))
  <2> DEFINE kept == Tracker!AbandonWaiting(e.tracker)
             state == IF e.state = "WAIT_TARGET_COMPLETION" THEN e.state ELSE "FLUSHING"
             ended == [e EXCEPT !.flushRequested = TRUE, !.incomplete = TRUE, !.busy = TRUE,
                                !.state = state, !.tracker = kept]
  <2>1. FlushIncomplete(e) \in {e, ended} BY DEF FlushIncomplete
  <2>2. state \in EngineStates \ {"IDLE", "DONE", "ERROR"} BY DEF EngineStates
  <2> HIDE DEF kept, state
  <2>3. Stays(e, ended) BY <2>2 DEF Stays, Sound, TakesPart, EngineFields, EngineInit
  <2> HIDE DEF ended
  <2> QED BY <2>1, <2>3, StaysPut
<1>4. Stays(e, Flushing(Flush(e))) BY <1>2, FlushingStays, StaysChain DEF Stays
<1> QED BY <1>1, <1>2, <1>3, <1>4

\* launch: every engine starts at chunk zero.
LEMMA LaunchSound ==
  ASSUME NEW e, NEW image, NEW generation
  PROVE  Sound(LaunchEngine(e, image, generation)) /\ LaunchEngine(e, image, generation).epoch = 0
<1> DEFINE kept == Tracker!Reset(e.tracker, 0)
           some == image # <<>> \/ generation # 0
           state == IF image # <<>> THEN "FETCH_DESCRIPTOR"
                    ELSE IF generation # 0 THEN "COMPLETE_PRODUCER" ELSE "DONE"
<1>1. LaunchEngine(e, image, generation) =
        [EngineInit EXCEPT !.state = state, !.busy = some, !.image = image,
                           !.bgaGeneration = generation, !.tracker = kept]
  BY DEF LaunchEngine
<1>2. state \in EngineStates /\ (some => state \notin {"IDLE", "DONE", "ERROR"})
  BY DEF EngineStates
<1> HIDE DEF kept, some, state
<1> QED BY <1>1, <1>2 DEF Sound, EngineFields, EngineInit

-----------------------------------------------------------------------------
(* The barrier                                                             *)

\* What the barrier keeps between any two steps: nobody is more than one chunk
\* ahead, and while tick() visits the engines the minimum it has taken is not above
\* the chunks of any participant.
BarrierHolds ==
  /\ \A a, b \in Participants(engines) : engines[a].epoch <= engines[b].epoch + 1
  /\ turn # Idle =>
       /\ epochs \subseteq Nat
       /\ \A b \in Participants(engines) : \E epoch \in epochs : epoch <= engines[b].epoch

AllSound ==
  /\ DOMAIN engines = LocalBGs
  /\ \A bg \in LocalBGs : Sound(engines[bg])

LockstepInv ==
  /\ AllSound
  /\ turn \in 0 .. Idle
  /\ policy.barrier => BarrierHolds

\* The engines the barrier takes its minimum over are those that take part.
LEMMA ParticipantsTakePart ==
  ASSUME NEW f, NEW bg, Sound(f[bg])
  PROVE  bg \in Participants(f) <=> bg \in LocalBGs /\ TakesPart(f[bg])
BY DEF Participants, TakesPart, HasFailed, Sound

\* The turns are numbers, Idle the one after the local engines' turns.
LEMMA TurnNumbers == Idle \in Nat /\ Idle = NumBGs + 1 /\ LocalBGs = 0 .. NumBGs - 1
BY IntegrationAssumption DEF Idle, LocalBGs

\* In the first step of tick(), and in the calls of the host, nobody joins and
\* nobody moves on.
LEMMA NobodyMoves ==
  ASSUME LockstepInv,
         DOMAIN engines' = LocalBGs,
         \A bg \in LocalBGs : Stays(engines[bg], engines'[bg])
  PROVE  /\ AllSound'
         /\ Participants(engines') \subseteq Participants(engines)
         /\ \A bg \in LocalBGs : engines'[bg].epoch = engines[bg].epoch
<1>1. AllSound' BY DEF AllSound, Stays
<1>2. \A bg \in LocalBGs : engines'[bg].epoch = engines[bg].epoch BY DEF Stays
<1>3. ASSUME NEW bg \in Participants(engines')
      PROVE  bg \in Participants(engines)
  BY <1>3, ParticipantsTakePart DEF Participants, Stays, LockstepInv, AllSound
<1> QED BY <1>1, <1>2, <1>3

\* A call of the host between two cycles keeps the lockstep invariant.
LEMMA HostKeepsBarrier ==
  ASSUME LockstepInv, turn = Idle, UNCHANGED tickVars,
         DOMAIN engines' = LocalBGs,
         \A bg \in LocalBGs : Stays(engines[bg], engines'[bg])
  PROVE  LockstepInv'
<1>1. /\ AllSound'
      /\ Participants(engines') \subseteq Participants(engines)
      /\ \A bg \in LocalBGs : engines'[bg].epoch = engines[bg].epoch
  BY NobodyMoves
<1>2. Participants(engines) \subseteq LocalBGs BY DEF Participants
<1>3. ASSUME policy.barrier
      PROVE  BarrierHolds'
  BY <1>1, <1>2, <1>3 DEF LockstepInv, BarrierHolds, tickVars, Idle
<1> QED BY <1>1, <1>3 DEF LockstepInv, tickVars, Idle

-----------------------------------------------------------------------------
(* The steps                                                               *)

LEMMA InitLockstep == Init => LockstepInv
<1> SUFFICES ASSUME Init PROVE LockstepInv OBVIOUS
<1>1. Sound(EngineInit) /\ ~TakesPart(EngineInit)
  BY DEF Sound, TakesPart, EngineFields, EngineInit, EngineStates
<1>2. AllSound /\ \A bg \in LocalBGs : ~TakesPart(engines[bg]) BY <1>1 DEF AllSound, Init
<1>3. Participants(engines) = {} BY <1>2, ParticipantsTakePart DEF AllSound, Participants
<1>4. turn = Idle /\ turn \in 0 .. Idle BY TurnNumbers DEF Init
<1> QED BY <1>2, <1>3, <1>4 DEF LockstepInv, BarrierHolds

\* The memory may complete a request, and tick() takes its minimum.
LEMMA CycleLockstep ==
  ASSUME LockstepInv, NEW done, NEW busBusy, Cycle(done, busBusy)
  PROVE  LockstepInv'
<1>1. /\ engines' = [bg \in LocalBGs |->
                       IF \E token \in done : Owner(token) = bg
                       THEN OnRequestComplete(engines[bg], CHOOSE token \in done : TRUE)
                       ELSE engines[bg]]
      /\ epochs' = {engines'[bg].epoch : bg \in Participants(engines')}
      /\ turn' = 0 /\ policy' = policy
  BY DEF Cycle
<1>2. ASSUME NEW bg \in LocalBGs
      PROVE  Stays(engines[bg], engines'[bg])
  BY <1>1, CompletionStays, StaysPut DEF LockstepInv, AllSound
<1>3. /\ AllSound'
      /\ Participants(engines') \subseteq Participants(engines)
      /\ \A bg \in LocalBGs : engines'[bg].epoch = engines[bg].epoch
  BY <1>1, <1>2, NobodyMoves
<1>4. Participants(engines) \subseteq LocalBGs /\ \A bg \in LocalBGs : engines'[bg].epoch \in Nat
  BY <1>3 DEF Participants, AllSound, Sound
<1>5. ASSUME policy.barrier
      PROVE  BarrierHolds'
  <2>1. \A a, b \in Participants(engines') : engines'[a].epoch <= engines'[b].epoch + 1
    BY <1>3, <1>4, <1>5 DEF LockstepInv, BarrierHolds
  <2>2. epochs' \subseteq Nat BY <1>1, <1>3, <1>4
  <2>3. \A b \in Participants(engines') : \E epoch \in epochs' : epoch <= engines'[b].epoch
    <3> SUFFICES ASSUME NEW b \in Participants(engines')
                 PROVE  \E epoch \in epochs' : epoch <= engines'[b].epoch
      OBVIOUS
    <3>0. b \in LocalBGs /\ engines'[b].epoch \in Nat BY <1>3, <1>4
    <3>1. epochs' = {engines'[bg].epoch : bg \in Participants(engines')} BY <1>1
    <3>2. engines'[b].epoch \in epochs' BY <3>1
    <3> QED BY <3>0, <3>2
  <2> QED BY <2>1, <2>2, <2>3 DEF BarrierHolds
<1> QED BY <1>1, <1>3, <1>5, TurnNumbers DEF LockstepInv, Idle

\* One engine's turn: whatever it does, it counts at most one chunk.
MovesAlone(bg) ==
  /\ DOMAIN engines' = LocalBGs
  /\ Moves(engines[bg], engines'[bg])
  /\ \A other \in LocalBGs \ {bg} : engines'[other] = engines[other]

\* The turn of one engine changes that engine alone.
LEMMA TickMoves ==
  ASSUME LockstepInv, NEW bg \in LocalBGs, engines[bg].busy,
         NEW accepted, TickEngineAndBGA(bg, accepted)
  PROVE  MovesAlone(bg)
<1> DEFINE old == engines[bg]
<1>1. Sound(old) /\ old.state \in EngineStates \ {"IDLE", "DONE", "ERROR"}
  BY DEF LockstepInv, AllSound, Sound
<1>2. ASSUME NEW e, Moves(old, e), Put(bg, e)
      PROVE  MovesAlone(bg)
  BY <1>2 DEF Put, MovesAlone, LockstepInv, AllSound
<1>3. ASSUME UNCHANGED engines
      PROVE  MovesAlone(bg)
  BY <1>1, <1>3, StaysPut, StaysMoves DEF MovesAlone, LockstepInv, AllSound
<1>4. ASSUME NEW e, Stays(old, e), Put(bg, e)
      PROVE  MovesAlone(bg)
  BY <1>2, <1>4, StaysMoves
<1>5. CASE old.state \in Requesting
  <2> DEFINE next == IF old.state = "WAIT_OPERANDS" THEN WaitOperands(old, accepted)
                     ELSE FetchOperand(old, accepted)
  <2>1. Put(bg, next) BY <1>5 DEF TickEngineAndBGA, TickEngine, RequestOperand, Requesting
  <2>2. Stays(old, next) BY <1>1, <1>5, OperandStays
  <2> HIDE DEF next
  <2> QED BY <1>4, <2>1, <2>2
<1>6. CASE old.state = "SIMD_MUL"
  <2>1. SubmitTarget(bg) BY <1>6 DEF TickEngineAndBGA, TickEngine, Requesting
  <2>2. \/ UNCHANGED engines
        \/ Put(bg, BuildOperation(old))
        \/ Put(bg, TargetSubmitted(BuildOperation(old)))
    BY <2>1 DEF SubmitTarget, Throw
  <2>3. Stays(old, BuildOperation(old)) BY <1>1, TargetStays
  <2>4. Stays(old, TargetSubmitted(BuildOperation(old)))
    BY <2>3, TargetStays, StaysChain DEF Stays
  <2> QED BY <1>3, <1>4, <2>2, <2>3, <2>4
<1>7. CASE old.state = "WAIT_TARGET_GRANT"
  BY <1>7, <1>1, <1>3, <1>4, TargetStays, StaysPut DEF TickEngineAndBGA, TickEngine, Requesting,
    AskGrant, Throw, Step
<1>8. CASE old.state = "WAIT_TARGET_COMPLETION"
  BY <1>8, <1>1, <1>3, <1>4, TargetStays, StaysPut DEF TickEngineAndBGA, TickEngine, Requesting,
    PollTarget, Step
<1>9. CASE old.state = "EMIT_PARTIALS" /\ ~Enabled
  BY <1>9, <1>1, <1>4, EmitStays DEF TickEngineAndBGA, TickEngine, Requesting, Emit
<1>10. CASE old.state = "EMIT_PARTIALS" /\ Enabled
  <2>1. SubmitBatch(bg) BY <1>10 DEF TickEngineAndBGA
  <2>2. PICK built \in {BuildBatch(old, NumRows)} :
          \/ Put(bg, built)
          \/ \E answer : Put(bg, BatchAnswered(built, answer))
    BY <2>1 DEF SubmitBatch, Step
  <2>3. Stays(old, built) BY <1>1, <2>2, EmitStays
  <2>4. ASSUME NEW answer
        PROVE  Stays(old, BatchAnswered(built, answer))
    BY <2>3, EmitStays, StaysChain DEF Stays
  <2> QED BY <1>4, <2>2, <2>3, <2>4
<1>11. CASE old.state = "COMPLETE_PRODUCER"
  BY <1>11, <1>1, <1>4, EmitStays DEF TickEngineAndBGA, EndBankGroup, Step
<1>12. CASE old.state \in {"FETCH_DESCRIPTOR", "ADVANCE_CHUNK", "NEXT_DESCRIPTOR", "FLUSHING"}
  <2>1. Put(bg, LocalStep(bg)) BY <1>12 DEF TickEngineAndBGA, TickEngine, Requesting, Step
  <2>2. CASE old.state = "FETCH_DESCRIPTOR"
    BY <1>1, <1>4, <2>1, <2>2, FetchDescriptorStays DEF LocalStep
  <2>3. CASE old.state = "ADVANCE_CHUNK"
    BY <2>1, <2>3, <1>1, AdvanceMoves, <1>2 DEF LocalStep
  <2>4. CASE old.state = "NEXT_DESCRIPTOR"
    BY <1>1, <1>4, <2>1, <2>4, NextDescriptorStays DEF LocalStep
  <2>5. CASE old.state = "FLUSHING" BY <1>1, <1>4, <2>1, <2>5, FlushingStays DEF LocalStep
  <2> QED BY <1>12, <2>2, <2>3, <2>4, <2>5
<1> QED BY <1>1, <1>5, <1>6, <1>7, <1>8, <1>9, <1>10, <1>11, <1>12 DEF EngineStates, Requesting

\* An engine that the barrier does not hold is at the minimum, so one more chunk
\* leaves it no more than one ahead.
LEMMA VisitLockstep ==
  ASSUME LockstepInv, NEW accepted, Visit(accepted)
  PROVE  LockstepInv'
<1>1. /\ turn \in LocalBGs /\ turn # Idle
      /\ turn' \in 0 .. Idle
      /\ policy' = policy /\ epochs' = epochs
  BY IntegrationAssumption, TurnNumbers DEF Visit, LockstepInv
<1>2. CASE UNCHANGED engines
  BY <1>1, <1>2 DEF BarrierHolds, LockstepInv, Idle, AllSound
<1>3. CASE engines[turn].busy /\ ~Held(turn) /\ TickEngineAndBGA(turn, accepted)
  <2>1. Moves(engines[turn], engines'[turn]) BY <1>1, <1>3, TickMoves DEF MovesAlone
  <2>2. /\ DOMAIN engines' = LocalBGs
        /\ \A bg \in LocalBGs \ {turn} : engines'[bg] = engines[bg]
    BY <1>1, <1>3, TickMoves DEF MovesAlone
  <2>3. AllSound' BY <1>1, <2>1, <2>2 DEF LockstepInv, AllSound, Moves
  <2>4. Participants(engines') \subseteq Participants(engines)
    <3> SUFFICES ASSUME NEW bg \in Participants(engines')
                 PROVE  bg \in Participants(engines)
      OBVIOUS
    <3>1. bg \in LocalBGs BY DEF Participants
    <3>2. TakesPart(engines'[bg]) BY <2>3, <3>1, ParticipantsTakePart DEF AllSound
    <3>3. TakesPart(engines[bg]) BY <2>1, <2>2, <3>1, <3>2 DEF Moves
    <3> QED BY <3>1, <3>3, ParticipantsTakePart DEF LockstepInv, AllSound
  <2>5. Participants(engines) \subseteq LocalBGs BY DEF Participants
  <2>6. \A bg \in LocalBGs : engines[bg].epoch \in Nat /\ engines'[bg].epoch \in Nat
    BY <2>3 DEF LockstepInv, AllSound, Sound
  <2>7. \A bg \in LocalBGs : engines'[bg].epoch >= engines[bg].epoch
    BY <1>1, <2>1, <2>2, <2>6 DEF Moves
  <2>8. ASSUME policy.barrier
        PROVE  BarrierHolds'
    <3>1. /\ \A a, b \in Participants(engines) : engines[a].epoch <= engines[b].epoch + 1
          /\ epochs \subseteq Nat
          /\ \A b \in Participants(engines) : \E epoch \in epochs : epoch <= engines[b].epoch
      BY <1>1, <2>8 DEF LockstepInv, BarrierHolds
    <3>2. \A b \in Participants(engines') : \E epoch \in epochs : epoch <= engines'[b].epoch
      <4> SUFFICES ASSUME NEW b \in Participants(engines')
                   PROVE  \E epoch \in epochs : epoch <= engines'[b].epoch
        OBVIOUS
      <4>1. PICK epoch \in epochs : epoch <= engines[b].epoch BY <2>4, <3>1
      <4>2. epoch <= engines'[b].epoch BY <2>4, <2>5, <2>6, <2>7, <3>1, <4>1
      <4> QED BY <4>2
    <3>3. ASSUME NEW a \in Participants(engines'), NEW b \in Participants(engines')
          PROVE  engines'[a].epoch <= engines'[b].epoch + 1
      <4>1. /\ a \in Participants(engines) /\ b \in Participants(engines)
            /\ a \in LocalBGs /\ b \in LocalBGs
        BY <2>4, <2>5, <3>3
      <4>2. CASE a # turn BY <2>2, <2>6, <2>7, <3>1, <4>1, <4>2
      <4>3. CASE a = turn
        <5>1. ~engines[turn].flushRequested BY <4>1, <4>3 DEF Participants
        <5>2. PICK epoch \in epochs : epoch <= engines[b].epoch BY <3>1, <4>1
        <5>3. ~(engines[turn].epoch > epoch) BY <1>3, <2>8, <5>1, <5>2 DEF Held
        <5>4. epoch \in Nat /\ engines[turn].epoch \in Nat /\ engines[b].epoch \in Nat
          BY <1>1, <2>6, <3>1, <4>1, <5>2
        <5>5. engines[turn].epoch <= engines[b].epoch BY <5>2, <5>3, <5>4
        <5>6. engines'[a].epoch <= engines[turn].epoch + 1 BY <2>1, <2>2, <4>3, <5>4 DEF Moves
        <5> QED BY <2>6, <2>7, <4>1, <5>4, <5>5, <5>6
      <4> QED BY <4>2, <4>3
    <3> QED BY <1>1, <3>1, <3>2, <3>3 DEF BarrierHolds
  <2> QED BY <1>1, <2>3, <2>8, TurnNumbers DEF LockstepInv, Idle
<1> QED BY <1>2, <1>3 DEF Visit

\* launch: nobody has done a chunk.
LEMMA LaunchLockstep ==
  ASSUME LockstepInv, Launch
  PROVE  LockstepInv'
<1>1. /\ turn = Idle /\ UNCHANGED tickVars
      /\ \E image :
           engines' = [bg \in LocalBGs |-> LaunchEngine(ResetEngine(engines[bg]), image[bg],
                                                      IF Enabled THEN exec.generation + 1 ELSE 0)]
  BY DEF Launch
<1>2. /\ DOMAIN engines' = LocalBGs
      /\ \A bg \in LocalBGs : Sound(engines'[bg]) /\ engines'[bg].epoch = 0
  BY <1>1, LaunchSound
<1>3. BarrierHolds' BY <1>1, <1>2 DEF BarrierHolds, Participants, tickVars, Idle
<1> QED BY <1>1, <1>2, <1>3 DEF LockstepInv, AllSound, tickVars, Idle

\* The other calls of the host.
LEMMA HostCallsLockstep ==
  ASSUME LockstepInv,
         FlushAll \/ Reset \/ \E bg \in LocalBGs : FlushBG(bg) \/ ResetBG(bg)
  PROVE  LockstepInv'
<1>1. CASE FlushAll
  BY <1>1, HostStays, HostKeepsBarrier DEF FlushAll, HostCall, LockstepInv, AllSound
<1>2. CASE Reset
  BY <1>2, HostStays, HostKeepsBarrier DEF Reset, HostCall, LockstepInv, AllSound
<1>3. ASSUME NEW bg \in LocalBGs, FlushBG(bg) \/ ResetBG(bg)
      PROVE  LockstepInv'
  BY <1>3, HostStays, StaysPut, HostKeepsBarrier DEF FlushBG, ResetBG, HostCall, LockstepInv,
    AllSound
<1> QED BY <1>1, <1>2, <1>3

\* Every step keeps the lockstep invariant.
LEMMA NextLockstep ==
  ASSUME LockstepInv, [Next]_vars
  PROVE  LockstepInv'
<1>1. ASSUME NEW done, NEW busBusy, Cycle(done, busBusy)
      PROVE  LockstepInv'
  BY <1>1, CycleLockstep
<1>2. ASSUME NEW accepted, Visit(accepted)
      PROVE  LockstepInv'
  BY <1>2, VisitLockstep
<1>3. CASE Finish
  BY <1>3, TurnNumbers DEF Finish, LockstepInv, AllSound, BarrierHolds, Idle
<1>4. CASE Launch BY <1>4, LaunchLockstep
<1>5. CASE FlushAll \/ Reset \/ \E bg \in LocalBGs : FlushBG(bg) \/ ResetBG(bg)
  BY <1>5, HostCallsLockstep
<1>6. CASE UNCHANGED vars BY <1>6 DEF vars, LockstepInv, AllSound, BarrierHolds, Idle
<1> QED BY <1>1, <1>2, <1>3, <1>4, <1>5, <1>6 DEF Next

\* With the lockstep reference policy no engine that takes part in the barrier is
\* more than one chunk ahead of another, between any two steps of a tick(), for any
\* number of bank groups, any images and any calls of the host (tick, barrier_epoch).
THEOREM LockstepHolds == Spec => []Lockstep
<1>1. LockstepInv => Lockstep BY DEF LockstepInv, BarrierHolds, Lockstep
<1> QED BY <1>1, InitLockstep, NextLockstep, PTL DEF Spec

-----------------------------------------------------------------------------
(* The tracker of an engine                                                *)

TrackerFields == DOMAIN Tracker!TrackerInit(1)

\* The trackers count with the same Cardinality.
LEMMA SameCount ==
  ASSUME NEW S
  PROVE  Tracker!Cardinality(S) = Cardinality(S)
BY DEF Tracker!Cardinality, Cardinality

\* A token of a bank group's engine, made not later than its n-th.
TokenOf(x, bg, n) ==
  /\ x.id = <<x.id[1], bg, x.id[3]>> /\ x.id[3] \in 1 .. n
  /\ x.kind \in KindSet

Waiting(t) == Tracker!Entries(t, "WAITING_TO_SUBMIT")
AcceptedBy(t) == Tracker!Entries(t, "ACCEPTED")

\* A tracker between two calls of its engine: every entry waits or is accepted,
\* was made by the engine in the tracker's generation, and is counted once.
TrackerSound(t, bg, n) ==
  /\ DOMAIN t = TrackerFields
  /\ n \in Nat /\ t.generation \in Nat
  /\ \A x \in DOMAIN t.entries :
       /\ t.entries[x] \in {"WAITING_TO_SUBMIT", "ACCEPTED"}
       /\ TokenOf(x, bg, n) /\ x.generation = t.generation
  /\ \A x \in DOMAIN t.history : TokenOf(x, bg, n)
  /\ IsFiniteSet(DOMAIN t.entries)
  /\ {t.created, t.issued, t.completed, t.abandoned} \subseteq Nat
  /\ t.created = t.issued + t.abandoned + Cardinality(Waiting(t))
  /\ t.issued = t.completed + Cardinality(AcceptedBy(t))

\* What is left of the entries when those of D are gone.
Keeps(t, u, D) ==
  /\ DOMAIN u.entries = DOMAIN t.entries \ D
  /\ \A x \in DOMAIN u.entries : u.entries[x] = t.entries[x]

\* A new tracker is sound and holds nothing.
LEMMA EmptyTracker ==
  ASSUME NEW g \in Nat, NEW bg
  PROVE  /\ TrackerSound(Tracker!TrackerInit(g), bg, 0)
         /\ DOMAIN Tracker!TrackerInit(g).entries = {}
         /\ Tracker!TrackerInit(g).generation = g
         /\ Tracker!TrackerInit(g).abandoned = 0
<1> DEFINE t == Tracker!TrackerInit(g)
<1>1. /\ DOMAIN t = TrackerFields /\ DOMAIN t.entries = {} /\ DOMAIN t.history = {}
      /\ t.generation = g /\ t.created = 0 /\ t.issued = 0 /\ t.completed = 0 /\ t.abandoned = 0
  BY DEF Tracker!TrackerInit, TrackerFields
<1> HIDE DEF t
<1>2. Waiting(t) = {} /\ AcceptedBy(t) = {} BY <1>1 DEF Waiting, AcceptedBy, Tracker!Entries
<1>3. Cardinality(Waiting(t)) = 0 /\ Cardinality(AcceptedBy(t)) = 0 /\ IsFiniteSet(DOMAIN t.entries)
  BY <1>1, <1>2, FS_EmptySet
<1>4. TrackerSound(t, bg, 0) BY <1>1, <1>3 DEF TrackerSound
<1> QED BY <1>1, <1>4 DEF t

\* The sets of waiting and of accepted entries can be counted.
LEMMA CountsAreNat ==
  ASSUME NEW t, IsFiniteSet(DOMAIN t.entries)
  PROVE  /\ IsFiniteSet(Waiting(t)) /\ IsFiniteSet(AcceptedBy(t))
         /\ Cardinality(Waiting(t)) \in Nat /\ Cardinality(AcceptedBy(t)) \in Nat
<1>1. Waiting(t) \subseteq DOMAIN t.entries /\ AcceptedBy(t) \subseteq DOMAIN t.entries
  BY DEF Waiting, AcceptedBy, Tracker!Entries
<1> QED BY <1>1, FS_Subset, FS_CardinalityType

\* reset: of the two generations one is kept.
LEMMA ResetSound ==
  ASSUME NEW t, NEW bg, NEW n, TrackerSound(t, bg, n), NEW g \in Nat
  PROVE  LET u == Tracker!Reset(t, g)
         IN  /\ TrackerSound(u, bg, 0) /\ TrackerSound(u, bg, n)
             /\ DOMAIN u.entries = {}
             /\ u.generation = (IF g = 0 THEN t.generation ELSE g) /\ u.abandoned = 0
<1> DEFINE h == IF g = 0 THEN t.generation ELSE g
           u == Tracker!TrackerInit(h)
<1>1. h \in Nat /\ n \in Nat /\ Tracker!Reset(t, g) = u BY DEF TrackerSound, Tracker!Reset
<1> HIDE DEF h
<1>2. TrackerSound(u, bg, 0) /\ DOMAIN u.entries = {} /\ u.generation = h /\ u.abandoned = 0
  BY <1>1, EmptyTracker
<1>3. DOMAIN u.history = {} BY DEF Tracker!TrackerInit
<1> HIDE DEF u
<1>4. TrackerSound(u, bg, n) BY <1>1, <1>2, <1>3 DEF TrackerSound
<1> QED BY <1>1, <1>2, <1>4 DEF h

\* create: a fresh token of the tracker's generation waits.
LEMMA CreateSound ==
  ASSUME NEW t, NEW bg, NEW n, TrackerSound(t, bg, n),
         NEW x, TokenOf(x, bg, n + 1), x.id[3] = n + 1, x.generation = t.generation
  PROVE  LET made == Tracker!Create(t, x)
             u == made.tracker
         IN  /\ made.ok
             /\ TrackerSound(u, bg, n + 1)
             /\ DOMAIN u.entries = DOMAIN t.entries \cup {x} /\ x \notin DOMAIN t.entries
             /\ u.entries[x] = "WAITING_TO_SUBMIT"
             /\ \A y \in DOMAIN t.entries : u.entries[y] = t.entries[y]
             /\ u.generation = t.generation /\ u.abandoned = t.abandoned
<1> DEFINE u == [t EXCEPT !.entries = Tracker!Bind(t.entries, x, "WAITING_TO_SUBMIT"),
                          !.created = @ + 1]
<1>1. n \in Nat /\ x.id[3] > n BY DEF TrackerSound, TokenOf
<1>2. ~Tracker!Known(t.entries, x.id) /\ ~Tracker!Known(t.history, x.id)
  BY <1>1 DEF TrackerSound, TokenOf, Tracker!Known
<1>3. Tracker!Create(t, x) = [tracker |-> u, ok |-> TRUE]
  BY <1>2 DEF Tracker!Create, Tracker!Result
<1>4. /\ DOMAIN u = TrackerFields
      /\ u.entries = Tracker!Bind(t.entries, x, "WAITING_TO_SUBMIT") /\ u.history = t.history
      /\ u.generation = t.generation /\ u.abandoned = t.abandoned /\ u.issued = t.issued
      /\ u.completed = t.completed /\ u.created = t.created + 1
  BY DEF TrackerSound, TrackerFields, Tracker!TrackerInit
<1> HIDE DEF u
<1>5. x \notin DOMAIN t.entries BY <1>2 DEF Tracker!Known
<1>6. /\ DOMAIN u.entries = DOMAIN t.entries \cup {x}
      /\ u.entries[x] = "WAITING_TO_SUBMIT"
      /\ \A y \in DOMAIN t.entries : u.entries[y] = t.entries[y]
  BY <1>4, <1>5 DEF Tracker!Bind
<1>7. Waiting(u) = Waiting(t) \cup {x} /\ AcceptedBy(u) = AcceptedBy(t) /\ x \notin Waiting(t)
  BY <1>5, <1>6 DEF Waiting, AcceptedBy, Tracker!Entries
<1>8. /\ IsFiniteSet(DOMAIN u.entries)
      /\ Cardinality(Waiting(u)) = Cardinality(Waiting(t)) + 1
      /\ Cardinality(Waiting(t)) \in Nat
  <2>1. IsFiniteSet(DOMAIN t.entries) BY DEF TrackerSound
  <2>2. IsFiniteSet(Waiting(t)) /\ Cardinality(Waiting(t)) \in Nat BY <2>1, CountsAreNat
  <2>3. IsFiniteSet(DOMAIN u.entries) BY <1>6, <2>1, FS_AddElement
  <2>4. Cardinality(Waiting(u)) = Cardinality(Waiting(t)) + 1 BY <1>7, <2>2, FS_AddElement
  <2> QED BY <2>2, <2>3, <2>4
<1>9. \A y : TokenOf(y, bg, n) => TokenOf(y, bg, n + 1) BY <1>1 DEF TokenOf
<1>10. TrackerSound(u, bg, n + 1)
  BY <1>1, <1>4, <1>6, <1>9, <1>7, <1>8 DEF TrackerSound
<1> QED BY <1>3, <1>4, <1>5, <1>6, <1>10

\* recordAccepted: the memory system takes a waiting request.
LEMMA AcceptSound ==
  ASSUME NEW t, NEW bg, NEW n, TrackerSound(t, bg, n), NEW x \in Waiting(t)
  PROVE  LET u == Tracker!RecordAccepted(t, x).tracker
         IN  /\ TrackerSound(u, bg, n)
             /\ DOMAIN u.entries = DOMAIN t.entries /\ x \in DOMAIN t.entries
             /\ u.entries[x] = "ACCEPTED"
             /\ \A y \in DOMAIN t.entries \ {x} : u.entries[y] = t.entries[y]
             /\ u.generation = t.generation /\ u.abandoned = t.abandoned
             /\ AcceptedBy(u) = AcceptedBy(t) \cup {x}
<1> DEFINE u == [t EXCEPT !.entries[x] = "ACCEPTED", !.issued = @ + 1]
<1>1. Tracker!RecordAccepted(t, x).tracker = u
  BY DEF Tracker!RecordAccepted, Tracker!Result, Waiting
<1>2. /\ DOMAIN u = TrackerFields
      /\ u.entries = [t.entries EXCEPT ![x] = "ACCEPTED"] /\ u.history = t.history
      /\ u.generation = t.generation /\ u.abandoned = t.abandoned /\ u.issued = t.issued + 1
      /\ u.completed = t.completed /\ u.created = t.created
  BY DEF TrackerSound, TrackerFields, Tracker!TrackerInit
<1> HIDE DEF u
<1>3. x \in DOMAIN t.entries /\ t.entries[x] = "WAITING_TO_SUBMIT"
  BY DEF Waiting, Tracker!Entries
<1>4. /\ DOMAIN u.entries = DOMAIN t.entries
      /\ u.entries[x] = "ACCEPTED"
      /\ \A y \in DOMAIN t.entries \ {x} : u.entries[y] = t.entries[y]
  BY <1>2, <1>3
<1>5. /\ Waiting(u) = Waiting(t) \ {x}
      /\ AcceptedBy(u) = AcceptedBy(t) \cup {x} /\ x \notin AcceptedBy(t)
  BY <1>3, <1>4 DEF Waiting, AcceptedBy, Tracker!Entries
<1>6. /\ Cardinality(Waiting(u)) = Cardinality(Waiting(t)) - 1
      /\ Cardinality(AcceptedBy(u)) = Cardinality(AcceptedBy(t)) + 1
      /\ Cardinality(Waiting(t)) \in Nat /\ Cardinality(AcceptedBy(t)) \in Nat
      /\ Cardinality(Waiting(u)) \in Nat
  <2>1. IsFiniteSet(DOMAIN t.entries) /\ IsFiniteSet(DOMAIN u.entries) BY <1>4 DEF TrackerSound
  <2>2. /\ IsFiniteSet(Waiting(t)) /\ IsFiniteSet(AcceptedBy(t))
        /\ Cardinality(Waiting(t)) \in Nat /\ Cardinality(AcceptedBy(t)) \in Nat
        /\ Cardinality(Waiting(u)) \in Nat
    BY <2>1, CountsAreNat
  <2>3. Cardinality(AcceptedBy(u)) = Cardinality(AcceptedBy(t)) + 1 BY <1>5, <2>2, FS_AddElement
  <2>4. x \in Waiting(t) OBVIOUS
  <2>5. Cardinality(Waiting(u)) = Cardinality(Waiting(t)) - 1
    BY <1>5, <2>2, <2>4, FS_RemoveElement
  <2> QED BY <2>2, <2>3, <2>5
<1>7. TrackerSound(u, bg, n)
  BY <1>2, <1>4, <1>6 DEF TrackerSound
<1> QED BY <1>1, <1>2, <1>3, <1>4, <1>5, <1>7

\* complete, then retire: an accepted request is gone.
LEMMA CompleteSound ==
  ASSUME NEW t, NEW bg, NEW n, TrackerSound(t, bg, n), NEW x \in AcceptedBy(t)
  PROVE  LET made == Tracker!Complete(t, x)
             u == Tracker!Retire(made.tracker, x).tracker
         IN  /\ made.ok
             /\ TrackerSound(u, bg, n)
             /\ Keeps(t, u, {x}) /\ x \in DOMAIN t.entries
             /\ u.generation = t.generation /\ u.abandoned = t.abandoned
             /\ AcceptedBy(u) = AcceptedBy(t) \ {x}
<1> DEFINE c == [t EXCEPT !.entries[x] = "COMPLETED", !.completed = @ + 1]
           u == [c EXCEPT !.entries = Tracker!Restrict(c.entries, DOMAIN c.entries \ {x}),
                          !.history = Tracker!Bind(c.history, x, "RETIRED")]
<1>1. x \in DOMAIN t.entries /\ t.entries[x] = "ACCEPTED" /\ x.generation = t.generation
      /\ TokenOf(x, bg, n)
  BY DEF AcceptedBy, Tracker!Entries, TrackerSound
<1>2. Tracker!Complete(t, x) = [tracker |-> c, ok |-> TRUE]
  BY <1>1 DEF Tracker!Complete, Tracker!Result, AcceptedBy
<1>3. /\ DOMAIN c = TrackerFields
      /\ c.entries = [t.entries EXCEPT ![x] = "COMPLETED"] /\ c.history = t.history
      /\ c.generation = t.generation /\ c.abandoned = t.abandoned /\ c.issued = t.issued
      /\ c.completed = t.completed + 1 /\ c.created = t.created
  BY DEF TrackerSound, TrackerFields, Tracker!TrackerInit
<1> HIDE DEF c
<1>4. x \in Tracker!Entries(c, "COMPLETED") BY <1>1, <1>3 DEF Tracker!Entries
<1>5. Tracker!Retire(c, x).tracker = u BY <1>4 DEF Tracker!Retire, Tracker!Result
<1>6. /\ DOMAIN u = TrackerFields
      /\ u.entries = Tracker!Restrict(c.entries, DOMAIN c.entries \ {x})
      /\ u.history = Tracker!Bind(t.history, x, "RETIRED")
      /\ u.generation = t.generation /\ u.abandoned = t.abandoned /\ u.issued = t.issued
      /\ u.completed = t.completed + 1 /\ u.created = t.created
  BY <1>3 DEF TrackerFields, Tracker!TrackerInit
<1> HIDE DEF u
<1>7. Keeps(t, u, {x}) BY <1>1, <1>3, <1>6 DEF Keeps, Tracker!Restrict
<1>8. /\ Waiting(u) = Waiting(t)
      /\ AcceptedBy(u) = AcceptedBy(t) \ {x}
  BY <1>1, <1>7 DEF Waiting, AcceptedBy, Tracker!Entries, Keeps
<1>9. /\ IsFiniteSet(DOMAIN u.entries)
      /\ Cardinality(AcceptedBy(u)) = Cardinality(AcceptedBy(t)) - 1
      /\ Cardinality(AcceptedBy(t)) \in Nat /\ Cardinality(AcceptedBy(u)) \in Nat
  <2>1. IsFiniteSet(DOMAIN t.entries) BY DEF TrackerSound
  <2>2. IsFiniteSet(DOMAIN u.entries) BY <1>7, <2>1, FS_Subset DEF Keeps
  <2>3. /\ IsFiniteSet(AcceptedBy(t))
        /\ Cardinality(AcceptedBy(t)) \in Nat /\ Cardinality(AcceptedBy(u)) \in Nat
    BY <2>1, <2>2, CountsAreNat
  <2>4. x \in AcceptedBy(t) OBVIOUS
  <2>5. Cardinality(AcceptedBy(u)) = Cardinality(AcceptedBy(t)) - 1
    BY <1>8, <2>3, <2>4, FS_RemoveElement
  <2> QED BY <2>2, <2>3, <2>5
<1>10. TrackerSound(u, bg, n)
  BY <1>6, <1>7, <1>1, <1>8, <1>9 DEF TrackerSound, Keeps, Tracker!Bind
<1> QED BY <1>1, <1>2, <1>5, <1>6, <1>7, <1>8, <1>10

\* abandonWaiting: nothing waits any longer.
LEMMA AbandonSound ==
  ASSUME NEW t, NEW bg, NEW n, TrackerSound(t, bg, n)
  PROVE  LET u == Tracker!AbandonWaiting(t)
         IN  /\ TrackerSound(u, bg, n)
             /\ Keeps(t, u, Waiting(t))
             /\ u.generation = t.generation
             /\ AcceptedBy(u) = AcceptedBy(t) /\ Waiting(u) = {}
<1> DEFINE w == Waiting(t)
           u == [t EXCEPT !.entries = Tracker!Restrict(t.entries, DOMAIN t.entries \ w),
                          !.history = [x \in DOMAIN t.history \cup w |->
                                         IF x \in w THEN "ABANDONED" ELSE t.history[x]],
                          !.abandoned = @ + Cardinality(w)]
<1>1. Tracker!AbandonWaiting(t) = u BY SameCount, Zenon DEF Tracker!AbandonWaiting, Waiting
<1>2. w \subseteq DOMAIN t.entries BY DEF Waiting, Tracker!Entries
<1>3. /\ DOMAIN u = TrackerFields
      /\ u.entries = Tracker!Restrict(t.entries, DOMAIN t.entries \ w)
      /\ DOMAIN u.history = DOMAIN t.history \cup w
      /\ u.generation = t.generation /\ u.issued = t.issued
      /\ u.completed = t.completed /\ u.created = t.created
      /\ u.abandoned = t.abandoned + Cardinality(w)
  BY DEF TrackerSound, TrackerFields, Tracker!TrackerInit
<1> HIDE DEF u
<1>4. Keeps(t, u, w) BY <1>3 DEF Keeps, Tracker!Restrict
<1>5. AcceptedBy(u) = AcceptedBy(t) /\ Waiting(u) = {}
  BY <1>4 DEF Keeps, AcceptedBy, Waiting, Tracker!Entries
<1>6. /\ Cardinality(w) \in Nat /\ Cardinality(AcceptedBy(t)) \in Nat
      /\ Cardinality(Waiting(u)) = 0 /\ IsFiniteSet(DOMAIN u.entries)
  BY <1>4, FS_Subset, CountsAreNat, <1>5, FS_EmptySet DEF TrackerSound, Keeps
<1>7. TrackerSound(u, bg, n)
  <2>1. \A y \in DOMAIN u.entries :
             /\ u.entries[y] \in {"WAITING_TO_SUBMIT", "ACCEPTED"}
             /\ TokenOf(y, bg, n) /\ y.generation = u.generation
    BY <1>3, <1>4 DEF TrackerSound, Keeps
  <2>2. \A y \in DOMAIN u.history : TokenOf(y, bg, n) BY <1>2, <1>3 DEF TrackerSound
  <2>3. /\ {u.created, u.issued, u.completed, u.abandoned} \subseteq Nat
        /\ u.created = u.issued + u.abandoned + Cardinality(Waiting(u))
        /\ u.issued = u.completed + Cardinality(AcceptedBy(u))
    BY <1>3, <1>5, <1>6 DEF TrackerSound
  <2> QED BY <1>3, <1>6, <2>1, <2>2, <2>3 DEF TrackerSound
<1> QED BY <1>1, <1>3, <1>4, <1>5, <1>7

\* The completion of a request of an engine that fails meanwhile: complete,
\* abandonWaiting and retire leave what complete, retire and abandonWaiting leave.
LEMMA CompleteAbandonSound ==
  ASSUME NEW t, NEW bg, NEW n, TrackerSound(t, bg, n), NEW x \in AcceptedBy(t)
  PROVE  LET u == Tracker!Retire(Tracker!AbandonWaiting(Tracker!Complete(t, x).tracker), x).tracker
         IN  /\ TrackerSound(u, bg, n)
             /\ Keeps(t, u, Waiting(t) \cup {x})
             /\ u.generation = t.generation
             /\ AcceptedBy(u) = AcceptedBy(t) \ {x} /\ Waiting(u) = {}
<1> DEFINE c == [t EXCEPT !.entries[x] = "COMPLETED", !.completed = @ + 1]
           w == Waiting(t)
           a == Tracker!AbandonWaiting(c)
           u == [a EXCEPT !.entries = Tracker!Restrict(a.entries, DOMAIN a.entries \ {x}),
                          !.history = Tracker!Bind(a.history, x, "RETIRED")]
<1>1. /\ x \in DOMAIN t.entries /\ t.entries[x] = "ACCEPTED" /\ x.generation = t.generation
      /\ TokenOf(x, bg, n) /\ w \subseteq DOMAIN t.entries
      /\ \A y \in w : TokenOf(y, bg, n)
  BY DEF AcceptedBy, Waiting, Tracker!Entries, TrackerSound
<1>2. Tracker!Complete(t, x).tracker = c
  BY <1>1 DEF Tracker!Complete, Tracker!Result, AcceptedBy
<1>3. /\ DOMAIN c = TrackerFields
      /\ c.entries = [t.entries EXCEPT ![x] = "COMPLETED"] /\ c.history = t.history
      /\ c.generation = t.generation /\ c.abandoned = t.abandoned /\ c.issued = t.issued
      /\ c.completed = t.completed + 1 /\ c.created = t.created
  BY DEF TrackerSound, TrackerFields, Tracker!TrackerInit
<1> HIDE DEF c
<1>4. Tracker!Entries(c, "WAITING_TO_SUBMIT") = w BY <1>1, <1>3 DEF Tracker!Entries, Waiting
<1> HIDE DEF w
<1>5. /\ DOMAIN a = TrackerFields
      /\ a.entries = Tracker!Restrict(c.entries, DOMAIN t.entries \ w)
      /\ DOMAIN a.history = DOMAIN t.history \cup w
      /\ a.generation = t.generation /\ a.issued = t.issued
      /\ a.completed = t.completed + 1 /\ a.created = t.created
      /\ a.abandoned = t.abandoned + Cardinality(w)
  BY SameCount, <1>3, <1>4 DEF Tracker!AbandonWaiting, TrackerFields, Tracker!TrackerInit
<1> HIDE DEF a
<1>6. x \notin w BY <1>1 DEF w, Waiting, Tracker!Entries
<1>7. x \in Tracker!Entries(a, "COMPLETED")
  BY <1>1, <1>3, <1>5, <1>6 DEF Tracker!Entries, Tracker!Restrict
<1>8. Tracker!Retire(a, x).tracker = u BY <1>7 DEF Tracker!Retire, Tracker!Result
<1>9. /\ DOMAIN u = TrackerFields
      /\ u.entries = Tracker!Restrict(a.entries, DOMAIN a.entries \ {x})
      /\ DOMAIN u.history = DOMAIN t.history \cup w \cup {x}
      /\ u.generation = t.generation /\ u.issued = t.issued
      /\ u.completed = t.completed + 1 /\ u.created = t.created
      /\ u.abandoned = t.abandoned + Cardinality(w)
  BY <1>5 DEF TrackerFields, Tracker!TrackerInit, Tracker!Bind
<1> HIDE DEF u
<1>10. Keeps(t, u, w \cup {x}) BY <1>1, <1>3, <1>5, <1>6, <1>9 DEF Keeps, Tracker!Restrict
<1>11. AcceptedBy(u) = AcceptedBy(t) \ {x} /\ Waiting(u) = {}
  BY <1>1, <1>10 DEF Keeps, AcceptedBy, w, Waiting, Tracker!Entries
<1>12. /\ Cardinality(w) \in Nat /\ Cardinality(AcceptedBy(t)) \in Nat
       /\ Cardinality(AcceptedBy(u)) = Cardinality(AcceptedBy(t)) - 1
       /\ Cardinality(AcceptedBy(u)) \in Nat
       /\ Cardinality(Waiting(u)) = 0 /\ IsFiniteSet(DOMAIN u.entries)
  <2>1. IsFiniteSet(DOMAIN t.entries) BY DEF TrackerSound
  <2>2. IsFiniteSet(DOMAIN u.entries) BY <1>10, <2>1, FS_Subset DEF Keeps
  <2>3. /\ Cardinality(w) \in Nat /\ Cardinality(AcceptedBy(t)) \in Nat /\ IsFiniteSet(AcceptedBy(t))
        /\ Cardinality(AcceptedBy(u)) \in Nat
    BY <2>1, <2>2, CountsAreNat DEF w
  <2>4. x \in AcceptedBy(t) OBVIOUS
  <2>5. Cardinality(AcceptedBy(u)) = Cardinality(AcceptedBy(t)) - 1
    BY <1>11, <2>3, <2>4, FS_RemoveElement
  <2> QED BY <1>11, <2>2, <2>3, <2>5, FS_EmptySet
<1>13. TrackerSound(u, bg, n)
  <2>1. \A y \in DOMAIN u.entries :
             /\ u.entries[y] \in {"WAITING_TO_SUBMIT", "ACCEPTED"}
             /\ TokenOf(y, bg, n) /\ y.generation = u.generation
    BY <1>9, <1>10 DEF TrackerSound, Keeps
  <2>2. \A y \in DOMAIN u.history : TokenOf(y, bg, n) BY <1>1, <1>9 DEF TrackerSound
  <2>3. /\ {u.created, u.issued, u.completed, u.abandoned} \subseteq Nat
        /\ u.created = u.issued + u.abandoned + Cardinality(Waiting(u))
        /\ u.issued = u.completed + Cardinality(AcceptedBy(u))
    BY <1>9, <1>11, <1>12 DEF TrackerSound, w
  <2> QED BY <1>9, <1>12, <2>1, <2>2, <2>3 DEF TrackerSound
<1> QED BY <1>2, <1>8, <1>9, <1>10, <1>11, <1>13 DEF a, w

-----------------------------------------------------------------------------
(* An engine between two steps                                             *)

Staged == {"SIMD_MUL", "WAIT_TARGET_GRANT", "WAIT_TARGET_COMPLETION", "EMIT_PARTIALS",
           "ADVANCE_CHUNK", "NEXT_DESCRIPTOR"}
Walking == {"FETCH_DESCRIPTOR"} \cup Requesting \cup Staged
Waits == {"WAIT_TARGET_GRANT", "WAIT_TARGET_COMPLETION"}
Over == {"DONE", "ERROR", "FLUSHING"}
Phases == {"empty", "created", "accepted", "ready"}

\* Every field keeps its type, and what is busy is neither idle nor at its end.
EngineTyped(e) ==
  /\ DOMAIN e = EngineFields
  /\ e.state \in EngineStates
  /\ {e.busy, e.flushRequested, e.flushCompleted, e.incomplete} \subseteq BOOLEAN
  /\ e.busy <=> e.state \notin {"IDLE", "DONE", "ERROR"}
  /\ {e.chunk, e.epoch, e.opSequence, e.bgaGeneration, e.targetGeneration, e.accepted} \subseteq Nat
  /\ e.nextBatch \in Nat \ {0}
  /\ e.op # NoOp => e.op \in [id : 1 .. e.opSequence, mask : {{0}}, generation : Nat]

\* While it walks, its pointer names a descriptor that was found valid and its chunk
\* is one of the descriptor's.
WalkSound(e, consumer) ==
  /\ e.image \in Seq([rows : Seq(Seq(Nat)), valid : BOOLEAN, xStays : BOOLEAN])
  /\ \A k \in DOMAIN e.image : WellFormedFor(consumer, e.image[k])
  /\ e.pointer \in 1 .. Len(e.image) + 1
  /\ e.state \in Walking => e.pointer <= Len(e.image)
  /\ e.state \in Requesting \cup Staged => Current(e).valid
  /\ e.state \in (Requesting \cup Staged) \ {"NEXT_DESCRIPTOR"} => e.chunk < Len(Current(e).rows)

SlotsTyped(s) ==
  /\ DOMAIN s = KindSet
  /\ \A kind \in KindSet :
       /\ s[kind] = [phase |-> s[kind].phase, token |-> s[kind].token] /\ s[kind].phase \in Phases
       /\ s[kind].phase # "empty" => s[kind].token.kind = kind

\* Every request of the tracker is in the slot of its kind.
EntriesInSlots(s, t) ==
  \A x \in DOMAIN t.entries :
    /\ s[x.kind].token = x
    /\ s[x.kind].phase = IF t.entries[x] = "ACCEPTED" THEN "accepted" ELSE "created"

\* A slot that is still to be submitted is one the tracker lets wait, and where the
\* operands are used all of them are there.
SlotsFit(state, s, t) ==
  /\ state \in Requesting =>
       \A kind \in KindSet : s[kind].phase = "created" => s[kind].token \in Waiting(t)
  /\ state \in Staged => \A kind \in KindSet : s[kind].phase = "ready"
  /\ state = "FETCH_DESCRIPTOR" => DOMAIN t.entries = {}

EngineInv(e, bg, consumer) ==
  /\ EngineTyped(e)
  /\ WalkSound(e, consumer)
  /\ SlotsTyped(e.slots) /\ EntriesInSlots(e.slots, e.tracker)
  /\ SlotsFit(e.state, e.slots, e.tracker)
  /\ TrackerSound(e.tracker, bg, e.sequence)

\* What a step leaves alone: of all fields, of the batches, of the reads, and of what
\* an engine may wait for in its rank.
Same(e, t, F) == DOMAIN t = EngineFields /\ \A f \in EngineFields \ F : t[f] = e[f]
SameBatches(e, t) ==
  /\ t.batch = e.batch /\ t.nextBatch = e.nextBatch
  /\ t.accepted = e.accepted /\ t.bgaGeneration = e.bgaGeneration
SameReads(e, t) == AcceptedBy(t.tracker) = AcceptedBy(e.tracker)
Quiet(e, t) == e.state \in Waits \/ t.state \in Waits => t.state = e.state /\ t.op = e.op

\* t is a sound engine after e: nobody starts to walk, and what is over stays over.
Goes(e, t, bg, consumer) ==
  /\ EngineInv(t, bg, consumer)
  /\ t.state \in Walking => e.state \in Walking
  /\ e.state \in Over => t.state \in Over

\* An engine that keeps its state goes on.
LEMMA GoesOn ==
  ASSUME NEW e, NEW bg, NEW c, EngineInv(e, bg, c)
  PROVE  Goes(e, e, bg, c) /\ SameBatches(e, e) /\ SameReads(e, e) /\ Quiet(e, e)
BY DEF Goes, SameBatches, SameReads, Quiet

\* A slot changes its phase.
LEMMA SlotPhase ==
  ASSUME NEW s, SlotsTyped(s), NEW kind \in KindSet, NEW phase \in Phases,
         s[kind].phase # "empty"
  PROVE  LET u == [s EXCEPT ![kind].phase = phase]
         IN  /\ SlotsTyped(u)
             /\ u[kind].phase = phase /\ u[kind].token = s[kind].token
             /\ \A other \in KindSet \ {kind} : u[other] = s[other]
<1> DEFINE u == [s EXCEPT ![kind].phase = phase]
<1>1. /\ DOMAIN u = KindSet
      /\ u[kind] = [phase |-> phase, token |-> s[kind].token]
      /\ \A other \in KindSet \ {kind} : u[other] = s[other]
  BY DEF SlotsTyped
<1> HIDE DEF u
<1>2. SlotsTyped(u) BY <1>1 DEF SlotsTyped
<1> QED BY <1>1, <1>2 DEF u

\* fail(): the reads in flight stay, what waited is abandoned.
LEMMA FailGoes ==
  ASSUME NEW e, NEW bg, NEW c, EngineInv(e, bg, c)
  PROVE  LET t == FailEngine(e)
         IN  /\ Goes(e, t, bg, c) /\ t.state = "ERROR"
             /\ SameBatches(e, t) /\ SameReads(e, t)
<1> DEFINE u == Tracker!AbandonWaiting(e.tracker)
           t == [e EXCEPT !.state = "ERROR", !.busy = FALSE, !.flushCompleted = FALSE,
                          !.tracker = u]
<1>1. CASE HasFailed(e) BY <1>1, GoesOn DEF FailEngine, HasFailed
<1>2. CASE ~HasFailed(e)
  <2>1. FailEngine(e) = t BY <1>2 DEF FailEngine
  <2>2. /\ TrackerSound(u, bg, e.sequence)
        /\ Keeps(e.tracker, u, Waiting(e.tracker))
        /\ AcceptedBy(u) = AcceptedBy(e.tracker)
    BY AbandonSound DEF EngineInv
  <2> HIDE DEF u
  <2>3. /\ Same(e, t, {"state", "busy", "flushCompleted", "tracker"})
        /\ t.state = "ERROR" /\ t.busy = FALSE /\ t.flushCompleted = FALSE /\ t.tracker = u
    BY DEF EngineInv, EngineTyped, Same, EngineFields, EngineInit
  <2> HIDE DEF t
  <2>4. EngineTyped(t)
    <3>1. /\ DOMAIN t = EngineFields
          /\ t.flushRequested = e.flushRequested /\ t.incomplete = e.incomplete
          /\ t.chunk = e.chunk /\ t.epoch = e.epoch /\ t.opSequence = e.opSequence
          /\ t.bgaGeneration = e.bgaGeneration /\ t.targetGeneration = e.targetGeneration
          /\ t.accepted = e.accepted /\ t.nextBatch = e.nextBatch /\ t.op = e.op
      BY <2>3 DEF Same, EngineFields, EngineInit
    <3> QED BY <2>3, <3>1 DEF EngineInv, EngineTyped, EngineStates
  <2>5. WalkSound(t, c)
    BY <2>3 DEF EngineInv, WalkSound, Same, EngineFields, EngineInit, Walking, Requesting, Staged
  <2>6. t.slots = e.slots /\ t.sequence = e.sequence BY <2>3 DEF Same, EngineFields, EngineInit
  <2>7. EntriesInSlots(t.slots, t.tracker)
    BY <2>2, <2>3, <2>6 DEF EngineInv, EntriesInSlots, Keeps
  <2>8. SlotsFit(t.state, t.slots, t.tracker) BY <2>3 DEF SlotsFit, Requesting, Staged
  <2>9. Goes(e, t, bg, c)
    BY <2>2, <2>3, <2>4, <2>5, <2>6, <2>7, <2>8
       DEF Goes, EngineInv, Walking, Requesting, Staged, Over
  <2>10. SameBatches(e, t) /\ SameReads(e, t)
    BY <2>2, <2>3 DEF SameBatches, SameReads, Same, EngineFields, EngineInit
  <2> QED BY <2>1, <2>3, <2>9, <2>10
<1> QED BY <1>1, <1>2

-----------------------------------------------------------------------------
(* Operand requests                                                        *)

\* An engine in the middle of preparing its requests.
Preparing(e, bg) ==
  /\ DOMAIN e = EngineFields
  /\ SlotsTyped(e.slots) /\ EntriesInSlots(e.slots, e.tracker)
  /\ TrackerSound(e.tracker, bg, e.sequence)

\* The tracker is in this generation, or it is empty and adopts it.
InGeneration(e, g) == DOMAIN e.tracker.entries = {} \/ e.tracker.generation = g

\* prepare(): the request waits in its slot, and it never fails.
LEMMA PrepareWaits ==
  ASSUME NEW e, NEW bg, NEW kind \in KindSet, NEW g \in Nat \ {0},
         Preparing(e, bg), InGeneration(e, g),
         \A x \in DOMAIN e.tracker.entries : x.kind # kind
  PROVE  LET t == Prepare(e, bg, kind, g)
         IN  /\ Preparing(t, bg) /\ t.tracker.generation = g
             /\ Same(e, t, {"sequence", "tracker", "slots"})
             /\ SameReads(e, t)
             /\ t.slots[kind].phase = "created" /\ t.slots[kind].token \in Waiting(t.tracker)
             /\ t.tracker.abandoned \in {0, e.tracker.abandoned}
             /\ \A other \in KindSet \ {kind} : t.slots[other] = e.slots[other]
             /\ \A x \in DOMAIN t.tracker.entries : x \in DOMAIN e.tracker.entries \/ x.kind = kind
             /\ Waiting(e.tracker) \subseteq Waiting(t.tracker)
<1> DEFINE n == e.sequence
           token == Token(bg, kind, n + 1, g)
           ready == IF Tracker!Empty(e.tracker) /\ e.tracker.generation # g
                    THEN Tracker!Reset(e.tracker, g) ELSE e.tracker
           made == Tracker!Create(ready, token)
           slot == [phase |-> "created", token |-> token]
           t == [e EXCEPT !.sequence = @ + 1, !.tracker = made.tracker, !.slots[kind] = slot]
<1>1. n \in Nat /\ TrackerSound(e.tracker, bg, n) BY DEF Preparing, TrackerSound
<1>2. /\ TrackerSound(ready, bg, n) /\ ready.generation = g
      /\ ready = e.tracker \/ (DOMAIN ready.entries = {} /\ DOMAIN e.tracker.entries = {})
      /\ ready.abandoned \in {0, e.tracker.abandoned}
  BY <1>1, ResetSound DEF InGeneration, Tracker!Empty
<1> HIDE DEF ready
<1>3. TokenOf(token, bg, n + 1) /\ token.id[3] = n + 1 /\ token.generation = g /\ token.kind = kind
  BY <1>1 DEF Token, TokenOf
<1> HIDE DEF token
<1>4. /\ made.ok
      /\ TrackerSound(made.tracker, bg, n + 1)
      /\ DOMAIN made.tracker.entries = DOMAIN ready.entries \cup {token}
      /\ made.tracker.entries[token] = "WAITING_TO_SUBMIT"
      /\ \A y \in DOMAIN ready.entries : made.tracker.entries[y] = ready.entries[y]
      /\ made.tracker.generation = g /\ made.tracker.abandoned = ready.abandoned
      /\ token \notin DOMAIN ready.entries
  BY <1>2, <1>3, CreateSound
<1> HIDE DEF made
<1>5. Prepare(e, bg, kind, g) = t
  <2>1. Prepare(e, bg, kind, g) = Remember(e, kind, made, token)
    BY DEF Prepare, ready, token, made
  <2> QED BY <1>4, <2>1 DEF Remember
<1>6. /\ Same(e, t, {"sequence", "tracker", "slots"})
      /\ t.sequence = n + 1 /\ t.tracker = made.tracker /\ t.slots = [e.slots EXCEPT ![kind] = slot]
  BY DEF Preparing, Same, EngineFields, EngineInit
<1> HIDE DEF t
<1>7. /\ DOMAIN t.slots = KindSet /\ t.slots[kind] = slot
      /\ \A other \in KindSet \ {kind} : t.slots[other] = e.slots[other]
  BY <1>6 DEF Preparing, SlotsTyped
<1>8. SlotsTyped(t.slots) BY <1>3, <1>7 DEF Preparing, SlotsTyped, Phases
<1>9. EntriesInSlots(t.slots, t.tracker)
  <2> SUFFICES ASSUME NEW x \in DOMAIN t.tracker.entries
               PROVE  /\ t.slots[x.kind].token = x
                      /\ t.slots[x.kind].phase =
                           IF t.tracker.entries[x] = "ACCEPTED" THEN "accepted" ELSE "created"
    BY DEF EntriesInSlots
  <2>1. CASE x = token BY <1>3, <1>4, <1>6, <1>7, <2>1
  <2>2. CASE x # token
    BY <1>2, <1>4, <1>6, <2>2, <1>1, <1>7 DEF TrackerSound, TokenOf, Preparing, EntriesInSlots
  <2> QED BY <2>1, <2>2
<1>10. Preparing(t, bg) BY <1>4, <1>6, <1>8, <1>9 DEF Preparing, Same
<1>11. SameReads(e, t) /\ Waiting(e.tracker) \subseteq Waiting(t.tracker) /\ token \in Waiting(t.tracker)
  BY <1>2, <1>4, <1>6 DEF SameReads, AcceptedBy, Waiting, Tracker!Entries
<1>12. \A x \in DOMAIN t.tracker.entries : x \in DOMAIN e.tracker.entries \/ x.kind = kind
  BY <1>2, <1>3, <1>4, <1>6
<1> QED BY <1>2, <1>4, <1>5, <1>6, <1>7, <1>10, <1>11, <1>12

\* The fields that say where an engine is.
ProgressFields ==
  {"state", "busy", "flushRequested", "flushCompleted", "incomplete", "submitDone", "batch",
   "nextBatch", "accepted", "epoch", "op", "opSequence", "targetGeneration"}

\* Where it only moves on, its requests and its descriptor are what they were.
LEMMA ProgressGoes ==
  ASSUME NEW e, NEW t, NEW bg, NEW c, EngineInv(e, bg, c), EngineTyped(t),
         Same(e, t, ProgressFields),
         t.state \in Walking => e.state \in Walking,
         t.state \in Requesting \cup Staged => e.state \in Requesting \cup Staged,
         t.state \in (Requesting \cup Staged) \ {"NEXT_DESCRIPTOR"} => e.state # "NEXT_DESCRIPTOR",
         t.state \in Requesting => e.state \in Requesting,
         t.state \in Staged => \A kind \in KindSet : e.slots[kind].phase = "ready",
         t.state = "FETCH_DESCRIPTOR" => e.state = "FETCH_DESCRIPTOR",
         e.state \in Over => t.state \in Over
  PROVE  Goes(e, t, bg, c) /\ SameReads(e, t)
<1>1. /\ t.image = e.image /\ t.pointer = e.pointer /\ t.chunk = e.chunk
      /\ t.slots = e.slots /\ t.tracker = e.tracker /\ t.sequence = e.sequence
  BY DEF Same, EngineFields, EngineInit, ProgressFields
<1>2. WalkSound(t, c) BY <1>1 DEF EngineInv, WalkSound, Current
<1>3. SlotsFit(t.state, t.slots, t.tracker) BY <1>1 DEF EngineInv, SlotsFit
<1> QED BY <1>1, <1>2, <1>3 DEF Goes, EngineInv, SameReads

\* What EngineTyped says of fields that did not change.
LEMMA TypedFields ==
  ASSUME NEW e, NEW t, EngineTyped(e),
         Same(e, t, {"state", "busy", "flushRequested", "flushCompleted", "incomplete",
                     "submitDone", "batch", "tracker", "slots", "sequence", "image", "pointer"}),
         t.state \in EngineStates, t.flushRequested \in BOOLEAN, t.flushCompleted \in BOOLEAN,
         t.incomplete \in BOOLEAN, t.busy \in BOOLEAN,
         t.busy <=> t.state \notin {"IDLE", "DONE", "ERROR"}
  PROVE  EngineTyped(t)
<1>1. /\ DOMAIN t = EngineFields
      /\ t.chunk = e.chunk /\ t.epoch = e.epoch /\ t.opSequence = e.opSequence
      /\ t.bgaGeneration = e.bgaGeneration /\ t.targetGeneration = e.targetGeneration
      /\ t.accepted = e.accepted /\ t.nextBatch = e.nextBatch /\ t.op = e.op
  BY DEF Same, EngineFields, EngineInit
<1> QED BY <1>1 DEF EngineTyped

\* The slot that issueWaiting tries is one the tracker lets wait.
LEMMA AttemptWaits ==
  ASSUME NEW e, NEW bg, NEW c, EngineInv(e, bg, c), e.state \in Requesting,
         NEW kind \in Attempted(e)
  PROVE  /\ kind \in KindSet /\ e.slots[kind].phase = "created"
         /\ e.slots[kind].token \in Waiting(e.tracker)
         /\ e.slots[kind].token.kind = kind
<1>1. kind \in KindSet /\ e.slots[kind].phase = "created" BY DEF Attempted
<1>2. e.slots[kind].token \in Waiting(e.tracker) BY <1>1 DEF EngineInv, SlotsFit
<1> QED BY <1>1, <1>2 DEF EngineInv, SlotsTyped

\* At most one slot is tried.
LEMMA OneAttempt ==
  ASSUME NEW e, NEW j \in Attempted(e), NEW k \in Attempted(e)
  PROVE  j = k
<1>1. /\ j \in KindSet /\ e.slots[j].phase = "created"
      /\ k \in KindSet /\ e.slots[k].phase = "created"
      /\ \A a, b \in 1 .. 3 : OperandKinds[b] = j /\ a < b => e.slots[OperandKinds[a]].phase # "created"
      /\ \A a, b \in 1 .. 3 : OperandKinds[b] = k /\ a < b => e.slots[OperandKinds[a]].phase # "created"
  BY DEF Attempted
<1>2. \A x \in KindSet : \E a \in 1 .. 3 : OperandKinds[a] = x BY DEF OperandKinds, KindSet
<1>3. PICK a \in 1 .. 3 : OperandKinds[a] = j BY <1>1, <1>2
<1>4. PICK b \in 1 .. 3 : OperandKinds[b] = k BY <1>1, <1>2
<1> QED BY <1>1, <1>3, <1>4

\* issueWaiting(): the request the memory system takes is accepted in tracker and slot.
LEMMA IssueGoes ==
  ASSUME NEW e, NEW bg, NEW c, EngineInv(e, bg, c), e.state \in Requesting, NEW accepted
  PROVE  LET t == IssueWaiting(e, accepted)
         IN  /\ Goes(e, t, bg, c) /\ Same(e, t, {"tracker", "slots"})
             /\ AcceptedBy(t.tracker) =
                  AcceptedBy(e.tracker) \cup (IF accepted THEN AttemptedTokens(e) ELSE {})
<1> DEFINE kind == CHOOSE k \in Attempted(e) : TRUE
           token == e.slots[kind].token
           u == Tracker!RecordAccepted(e.tracker, token).tracker
           slots == [e.slots EXCEPT ![kind].phase = "accepted"]
           t == [e EXCEPT !.tracker = u, !.slots[kind].phase = "accepted"]
<1>1. CASE ~accepted \/ Attempted(e) = {}
  BY <1>1, GoesOn DEF IssueWaiting, AttemptedTokens, Same, EngineInv, EngineTyped, SameReads
<1>2. CASE accepted /\ Attempted(e) # {}
  <2>1. IssueWaiting(e, accepted) = t BY <1>2 DEF IssueWaiting
  <2>2. kind \in Attempted(e) BY <1>2
  <2> HIDE DEF kind
  <2>3. /\ kind \in KindSet /\ e.slots[kind].phase = "created"
        /\ token \in Waiting(e.tracker) /\ token.kind = kind
    BY <2>2, AttemptWaits
  <2>4. /\ TrackerSound(u, bg, e.sequence)
        /\ DOMAIN u.entries = DOMAIN e.tracker.entries /\ token \in DOMAIN e.tracker.entries
        /\ u.entries[token] = "ACCEPTED"
        /\ \A y \in DOMAIN e.tracker.entries \ {token} : u.entries[y] = e.tracker.entries[y]
        /\ AcceptedBy(u) = AcceptedBy(e.tracker) \cup {token}
    BY <2>3, AcceptSound DEF EngineInv
  <2> HIDE DEF u
  <2>5. /\ Same(e, t, {"tracker", "slots"}) /\ t.tracker = u /\ t.slots = slots
    BY DEF EngineInv, EngineTyped, Same, EngineFields, EngineInit
  <2> HIDE DEF t
  <2>6. /\ SlotsTyped(slots)
        /\ slots[kind].phase = "accepted" /\ slots[kind].token = token
        /\ \A other \in KindSet \ {kind} : slots[other] = e.slots[other]
    BY <2>3, SlotPhase DEF EngineInv, Phases
  <2> HIDE DEF slots
  <2>7. /\ DOMAIN t = EngineFields /\ t.state = e.state /\ t.sequence = e.sequence
        /\ t.image = e.image /\ t.pointer = e.pointer /\ t.chunk = e.chunk
    BY <2>5 DEF Same, EngineFields, EngineInit
  <2>8. EngineTyped(t)
    BY <2>5, <2>7, TypedFields DEF Same, EngineFields, EngineInit, EngineInv, EngineTyped
  <2>9. WalkSound(t, c) BY <2>7 DEF EngineInv, WalkSound, Current
  <2>10. EntriesInSlots(slots, u)
    <3> SUFFICES ASSUME NEW x \in DOMAIN u.entries
                 PROVE  /\ slots[x.kind].token = x
                        /\ slots[x.kind].phase = IF u.entries[x] = "ACCEPTED" THEN "accepted" ELSE "created"
      BY DEF EntriesInSlots
    <3>1. x \in DOMAIN e.tracker.entries /\ x.kind \in KindSet /\ e.slots[x.kind].token = x
      BY <2>4 DEF EngineInv, EntriesInSlots, TrackerSound, TokenOf
    <3>2. CASE x = token BY <2>3, <2>4, <2>6, <3>2
    <3>3. CASE x # token
      BY <3>1, <3>3, <2>4, <2>6 DEF EngineInv, EntriesInSlots
    <3> QED BY <3>2, <3>3
  <2>11. SlotsFit(t.state, slots, u)
    <3>1. ASSUME NEW k \in KindSet, slots[k].phase = "created"
          PROVE  slots[k].token \in Waiting(u)
      BY <2>6, <3>1, <2>3, <2>4 DEF EngineInv, SlotsFit, SlotsTyped, Waiting, Tracker!Entries
    <3> QED BY <2>7, <3>1 DEF SlotsFit, Requesting, Staged
  <2>12. Goes(e, t, bg, c)
    BY <2>4, <2>5, <2>6, <2>7, <2>8, <2>9, <2>10, <2>11 DEF Goes, EngineInv
  <2>13. AttemptedTokens(e) = {token} BY <2>2, OneAttempt DEF AttemptedTokens
  <2> QED BY <1>2, <2>1, <2>4, <2>5, <2>12, <2>13
<1> QED BY <1>1, <1>2

\* A request that leaves the tracker leaves the slots of the others alone.
LEMMA SlotLeaves ==
  ASSUME NEW e, NEW bg, NEW c, EngineInv(e, bg, c), NEW x \in DOMAIN e.tracker.entries,
         NEW u, NEW D, Keeps(e.tracker, u, D), x \in D, NEW phase \in Phases
  PROVE  LET slots == [e.slots EXCEPT ![x.kind].phase = phase]
         IN  /\ x.kind \in KindSet /\ e.slots[x.kind].token = x
             /\ SlotsTyped(slots) /\ EntriesInSlots(slots, u)
             /\ slots[x.kind].phase = phase
             /\ \A other \in KindSet \ {x.kind} : slots[other] = e.slots[other]
<1> DEFINE slots == [e.slots EXCEPT ![x.kind].phase = phase]
<1>1. /\ \A y \in DOMAIN e.tracker.entries :
           /\ y.kind \in KindSet /\ e.slots[y.kind].token = y
           /\ e.slots[y.kind].phase = IF e.tracker.entries[y] = "ACCEPTED" THEN "accepted" ELSE "created"
      /\ SlotsTyped(e.slots)
  BY DEF EngineInv, EntriesInSlots, TrackerSound, TokenOf
<1>2. /\ SlotsTyped(slots)
      /\ slots[x.kind].phase = phase
      /\ \A other \in KindSet \ {x.kind} : slots[other] = e.slots[other]
  BY <1>1, SlotPhase
<1> HIDE DEF slots
<1>3. EntriesInSlots(slots, u)
  <2> SUFFICES ASSUME NEW y \in DOMAIN u.entries
               PROVE  /\ slots[y.kind].token = y
                      /\ slots[y.kind].phase = IF u.entries[y] = "ACCEPTED" THEN "accepted" ELSE "created"
    BY DEF EntriesInSlots
  <2>1. y \in DOMAIN e.tracker.entries /\ y # x /\ u.entries[y] = e.tracker.entries[y]
    BY DEF Keeps
  <2>2. y.kind \in KindSet \ {x.kind} BY <1>1, <2>1
  <2> QED BY <1>1, <1>2, <2>1, <2>2
<1> QED BY <1>1, <1>2, <1>3 DEF slots

\* onRequestComplete(): the request of an accepted entry matches and is retired, the
\* engine goes on unless its x operand is lost.
LEMMA CompletionGoes ==
  ASSUME NEW e, NEW bg, NEW c, EngineInv(e, bg, c), NEW x \in AcceptedBy(e.tracker)
  PROVE  LET t == OnRequestComplete(e, x)
         IN  /\ Matches(e, x)
             /\ Goes(e, t, bg, c) /\ SameBatches(e, t) /\ Quiet(e, t)
             /\ AcceptedBy(t.tracker) = AcceptedBy(e.tracker) \ {x}
<1> DEFINE kind == x.kind
           made == Tracker!Complete(e.tracker, x)
           retired == Tracker!Retire(made.tracker, x).tracker
           both == Tracker!Retire(Tracker!AbandonWaiting(made.tracker), x).tracker
           Slots(phase) == [e.slots EXCEPT ![kind].phase = phase]
           created == [e EXCEPT !.tracker = retired, !.slots[kind].phase = "created"]
           staged == [e EXCEPT !.tracker = retired, !.slots[kind].phase = "ready"]
           told == [e EXCEPT !.tracker = made.tracker]
           failed == FailEngine(told)
           dropped == [failed EXCEPT !.tracker = Tracker!Retire(@, x).tracker,
                                     !.slots[kind].phase = "created"]
<1>1. /\ made.ok
      /\ TrackerSound(retired, bg, e.sequence) /\ Keeps(e.tracker, retired, {x})
      /\ AcceptedBy(retired) = AcceptedBy(e.tracker) \ {x}
      /\ x \in DOMAIN e.tracker.entries
  BY CompleteSound DEF EngineInv
<1>2. /\ TrackerSound(both, bg, e.sequence) /\ Keeps(e.tracker, both, Waiting(e.tracker) \cup {x})
      /\ AcceptedBy(both) = AcceptedBy(e.tracker) \ {x}
  BY CompleteAbandonSound DEF EngineInv
<1>3. /\ kind \in KindSet /\ e.slots[kind].token = x /\ e.slots[kind].phase = "accepted"
  BY <1>1 DEF EngineInv, EntriesInSlots, TrackerSound, TokenOf, AcceptedBy, Tracker!Entries
<1>4. Matches(e, x) BY <1>1, <1>3 DEF Matches
<1>5. e.state \notin Staged /\ e.state # "FETCH_DESCRIPTOR"
  BY <1>1, <1>3 DEF EngineInv, SlotsFit
<1>6. ASSUME NEW p \in {"created", "ready"}
      PROVE  /\ SlotsTyped(Slots(p)) /\ EntriesInSlots(Slots(p), retired)
             /\ EntriesInSlots(Slots(p), both)
             /\ Slots(p)[kind].phase = p
             /\ \A other \in KindSet \ {kind} : Slots(p)[other] = e.slots[other]
  <2> HIDE DEF retired, both
  <2>1. p \in Phases BY DEF Phases
  <2> QED BY <1>1, <1>2, <2>1, SlotLeaves
<1>7. OnRequestComplete(e, x) =
        IF HasFailed(e) THEN created
        ELSE IF x.kind = "X_READ" /\ ~Current(e).xStays THEN dropped ELSE staged
  BY <1>4 DEF OnRequestComplete
<1> DEFINE Proper(t, u) ==
             Goes(e, t, bg, c) /\ SameBatches(e, t) /\ Quiet(e, t) /\ t.tracker = u
<1>8. ASSUME NEW t, NEW p \in {"created", "ready"},
             Same(e, t, {"tracker", "slots"}), t.tracker = retired, t.slots = Slots(p),
             p = "created" => e.state = "ERROR"
      PROVE  Proper(t, retired)
  <2> HIDE DEF made, retired, both
  <2>1. /\ DOMAIN t = EngineFields /\ t.state = e.state /\ t.sequence = e.sequence
        /\ t.image = e.image /\ t.pointer = e.pointer /\ t.chunk = e.chunk
        /\ t.busy = e.busy /\ t.flushRequested = e.flushRequested /\ t.op = e.op
        /\ t.flushCompleted = e.flushCompleted /\ t.incomplete = e.incomplete
        /\ SameBatches(e, t)
    BY <1>8 DEF Same, EngineFields, EngineInit, SameBatches
  <2>2. EngineTyped(t)
    BY <1>8, <2>1, TypedFields DEF EngineInv, Same, EngineTyped
  <2>3. WalkSound(t, c) BY <2>1 DEF EngineInv, WalkSound, Current
  <2>4. SlotsFit(t.state, t.slots, t.tracker)
    <3>1. ASSUME NEW k \in KindSet, t.slots[k].phase = "created", t.state \in Requesting
          PROVE  t.slots[k].token \in Waiting(retired)
      <4>1. k # kind /\ t.slots[k] = e.slots[k] BY <1>6, <1>8, <2>1, <3>1 DEF Requesting
      <4>2. t.slots[k].token \in Waiting(e.tracker) /\ t.slots[k].token.kind = k
        BY <2>1, <3>1, <4>1 DEF EngineInv, SlotsFit, SlotsTyped
      <4> QED BY <1>1, <4>1, <4>2 DEF Waiting, Tracker!Entries, Keeps
    <3> QED BY <1>5, <1>8, <2>1, <3>1 DEF SlotsFit
  <2>5. EngineInv(t, bg, c) BY <1>1, <1>6, <1>8, <2>1, <2>2, <2>3, <2>4 DEF EngineInv
  <2> QED BY <1>8, <2>1, <2>5 DEF Goes, Quiet
<1>9. CASE HasFailed(e)
  <2>1. Same(e, created, {"tracker", "slots"}) /\ created.tracker = retired
        /\ created.slots = Slots("created")
    <3> HIDE DEF made, retired
    <3> QED BY DEF EngineInv, EngineTyped, Same, EngineFields, EngineInit
  <2> HIDE DEF created, retired, Slots
  <2>2. Proper(created, retired) BY <1>8, <1>9, <2>1 DEF HasFailed
  <2> QED BY <1>1, <1>4, <1>7, <1>9, <2>2
<1>10. CASE ~HasFailed(e) /\ x.kind = "X_READ" /\ ~Current(e).xStays
  <2>1. /\ Same(e, dropped, {"tracker", "slots", "state", "busy", "flushCompleted"})
        /\ dropped.tracker = both
        /\ dropped.slots = Slots("created")
        /\ dropped.state = "ERROR" /\ dropped.busy = FALSE /\ dropped.flushCompleted = FALSE
    <3>1. /\ Same(e, told, {"tracker"}) /\ told.tracker = made.tracker /\ told.state = e.state
      <4> HIDE DEF made
      <4> QED BY DEF EngineInv, EngineTyped, Same, EngineFields, EngineInit
    <3> HIDE DEF told
    <3>2. failed = [told EXCEPT !.state = "ERROR", !.busy = FALSE, !.flushCompleted = FALSE,
                                !.tracker = Tracker!AbandonWaiting(@)]
      BY <1>10, <3>1 DEF FailEngine, HasFailed
    <3>3. /\ Same(e, failed, {"tracker", "state", "busy", "flushCompleted"})
          /\ failed.tracker = Tracker!AbandonWaiting(made.tracker)
          /\ failed.state = "ERROR" /\ failed.busy = FALSE /\ failed.flushCompleted = FALSE
          /\ failed.slots = e.slots
      <4> HIDE DEF made, failed
      <4> QED BY <3>1, <3>2 DEF Same, EngineFields, EngineInit
    <3> HIDE DEF failed, made
    <3> QED BY <3>3 DEF Same, EngineFields, EngineInit
  <2> HIDE DEF dropped, both, retired, made, Slots
  <2>2. /\ DOMAIN dropped = EngineFields /\ dropped.sequence = e.sequence
        /\ dropped.image = e.image /\ dropped.pointer = e.pointer
        /\ dropped.flushRequested = e.flushRequested /\ dropped.incomplete = e.incomplete
        /\ SameBatches(e, dropped)
    BY <2>1 DEF Same, EngineFields, EngineInit, SameBatches
  <2>3. EngineTyped(dropped)
    <3>1. EngineTyped(e) BY DEF EngineInv
    <3>2. Same(e, dropped, {"state", "busy", "flushRequested", "flushCompleted", "incomplete",
                      "submitDone", "batch", "tracker", "slots", "sequence", "image", "pointer"})
      BY <2>1 DEF Same
    <3>3. /\ dropped.state \in EngineStates /\ dropped.busy \in BOOLEAN
          /\ dropped.flushRequested \in BOOLEAN /\ dropped.flushCompleted \in BOOLEAN
          /\ dropped.incomplete \in BOOLEAN
          /\ (dropped.busy <=> dropped.state \notin {"IDLE", "DONE", "ERROR"})
      BY <2>1, <2>2, <3>1 DEF EngineTyped, EngineStates
    <3> QED BY <3>1, <3>2, <3>3, TypedFields
  <2>4. WalkSound(dropped, c) /\ SlotsFit(dropped.state, dropped.slots, dropped.tracker)
    BY <2>1, <2>2 DEF EngineInv, WalkSound, SlotsFit, Walking, Requesting, Staged
  <2>5. EngineInv(dropped, bg, c) BY <1>2, <1>6, <2>1, <2>2, <2>3, <2>4 DEF EngineInv
  <2>6. Goes(e, dropped, bg, c) /\ Quiet(e, dropped)
    BY <1>5, <2>1, <2>5 DEF Goes, Quiet, Walking, Requesting, Staged, Over, Waits
  <2> QED BY <1>2, <1>4, <1>7, <1>10, <2>1, <2>2, <2>6
<1>11. CASE ~HasFailed(e) /\ ~(x.kind = "X_READ" /\ ~Current(e).xStays)
  <2>1. Same(e, staged, {"tracker", "slots"}) /\ staged.tracker = retired
        /\ staged.slots = Slots("ready")
    <3> HIDE DEF made, retired
    <3> QED BY DEF EngineInv, EngineTyped, Same, EngineFields, EngineInit
  <2> HIDE DEF staged, retired, Slots
  <2>2. Proper(staged, retired) BY <1>8, <2>1
  <2> QED BY <1>1, <1>4, <1>7, <1>11, <2>2
<1> QED BY <1>9, <1>10, <1>11

\* Where all operands are there the tracker has no request.
LEMMA StagedEmpty ==
  ASSUME NEW e, NEW bg, NEW c, EngineInv(e, bg, c), e.state \in Staged \cup {"FETCH_DESCRIPTOR"}
  PROVE  DOMAIN e.tracker.entries = {}
BY DEF EngineInv, SlotsFit, EntriesInSlots, TrackerSound, TokenOf

\* The fields that a step on the descriptor or its requests changes.
WalkFields == {"chunk", "pointer", "sequence", "tracker", "slots", "state", "epoch"}

\* A step that walks on leaves the other fields typed.
LEMMA WalkTyped ==
  ASSUME NEW e, NEW t, EngineTyped(e), e.busy, Same(e, t, WalkFields),
         t.chunk \in Nat, t.epoch \in Nat, t.state \in Walking
  PROVE  EngineTyped(t) /\ SameBatches(e, t)
<1>1. /\ DOMAIN t = EngineFields /\ t.busy = e.busy
      /\ t.flushRequested = e.flushRequested /\ t.flushCompleted = e.flushCompleted
      /\ t.incomplete = e.incomplete /\ t.opSequence = e.opSequence
      /\ t.bgaGeneration = e.bgaGeneration /\ t.targetGeneration = e.targetGeneration
      /\ t.accepted = e.accepted /\ t.nextBatch = e.nextBatch /\ t.op = e.op /\ t.batch = e.batch
  BY DEF Same, EngineFields, EngineInit, WalkFields
<1>2. t.state \in EngineStates \ {"IDLE", "DONE", "ERROR"}
  BY DEF Walking, Requesting, Staged, EngineStates
<1> QED BY <1>1, <1>2 DEF EngineTyped, SameBatches

\* FETCH_DESCRIPTOR: a valid descriptor's three requests wait, a malformed one fails.
LEMMA FetchGoes ==
  ASSUME NEW e, NEW bg, NEW c, EngineInv(e, bg, c), e.state = "FETCH_DESCRIPTOR",
         NEW g \in Nat \ {0}
  PROVE  LET t == FetchDescriptor(e, bg, g)
         IN  /\ Goes(e, t, bg, c) /\ SameBatches(e, t) /\ SameReads(e, t) /\ Quiet(e, t)
             /\ t.state = "ERROR" => ~Current(e).valid
<1> DEFINE first == [e EXCEPT !.chunk = 0]
           x == Prepare(first, bg, "X_READ", g)
           value == Prepare(x, bg, "VALUE_READ", g)
           index == Prepare(value, bg, "INDEX_READ", g)
           t == [index EXCEPT !.state = "LOAD_X"]
<1>1. CASE ~Current(e).valid
  BY <1>1, FailGoes DEF FetchDescriptor, Quiet, Waits
<1>2. CASE Current(e).valid
  <2>1. /\ Same(e, first, {"chunk"}) /\ first.chunk = 0
        /\ first.slots = e.slots /\ first.tracker = e.tracker /\ first.sequence = e.sequence
    BY DEF EngineInv, EngineTyped, Same, EngineFields, EngineInit
  <2>2. DOMAIN e.tracker.entries = {} BY StagedEmpty
  <2>3. Preparing(first, bg) /\ InGeneration(first, g) /\ SameReads(e, first)
    BY <2>1, <2>2 DEF EngineInv, Preparing, InGeneration, SameReads, Same
  <2> HIDE DEF first
  <2>4. /\ Preparing(x, bg) /\ x.tracker.generation = g
        /\ Same(first, x, {"sequence", "tracker", "slots"}) /\ SameReads(first, x)
        /\ x.slots["X_READ"].phase = "created" /\ x.slots["X_READ"].token \in Waiting(x.tracker)
        /\ \A y \in DOMAIN x.tracker.entries : y.kind = "X_READ"
    BY <2>1, <2>2, <2>3, PrepareWaits DEF KindSet
  <2> HIDE DEF x
  <2>5. InGeneration(x, g) /\ \A y \in DOMAIN x.tracker.entries : y.kind # "VALUE_READ"
    BY <2>4 DEF InGeneration
  <2>6. /\ Preparing(value, bg) /\ value.tracker.generation = g
        /\ Same(x, value, {"sequence", "tracker", "slots"}) /\ SameReads(x, value)
        /\ value.slots["VALUE_READ"].phase = "created"
        /\ value.slots["VALUE_READ"].token \in Waiting(value.tracker)
        /\ value.slots["X_READ"] = x.slots["X_READ"]
        /\ \A y \in DOMAIN value.tracker.entries : y.kind \in {"X_READ", "VALUE_READ"}
        /\ Waiting(x.tracker) \subseteq Waiting(value.tracker)
    <3>1. "VALUE_READ" \in KindSet /\ "X_READ" \in KindSet \ {"VALUE_READ"} BY DEF KindSet
    <3> QED BY <2>4, <2>5, <3>1, PrepareWaits
  <2> HIDE DEF value
  <2>7. InGeneration(value, g) /\ \A y \in DOMAIN value.tracker.entries : y.kind # "INDEX_READ"
    BY <2>6 DEF InGeneration
  <2>8. /\ Preparing(index, bg)
        /\ Same(value, index, {"sequence", "tracker", "slots"}) /\ SameReads(value, index)
        /\ index.slots["INDEX_READ"].phase = "created"
        /\ index.slots["INDEX_READ"].token \in Waiting(index.tracker)
        /\ index.slots["X_READ"] = value.slots["X_READ"]
        /\ index.slots["VALUE_READ"] = value.slots["VALUE_READ"]
        /\ Waiting(value.tracker) \subseteq Waiting(index.tracker)
    BY <2>6, <2>7, PrepareWaits DEF KindSet
  <2> HIDE DEF index
  <2>9. /\ x.state = "FETCH_DESCRIPTOR" /\ value.state = "FETCH_DESCRIPTOR"
        /\ index.state = "FETCH_DESCRIPTOR"
    BY <2>1, <2>4, <2>6, <2>8 DEF Same, EngineFields, EngineInit
  <2>10. FetchDescriptor(e, bg, g) = t
    BY <1>2, <2>9 DEF FetchDescriptor, HasFailed, first, x, value, index
  <2>11. /\ Same(e, index, {"chunk", "sequence", "tracker", "slots"}) /\ index.chunk = 0
         /\ SameReads(e, index)
    BY <2>1, <2>4, <2>6, <2>8, <2>3 DEF Same, EngineFields, EngineInit, SameReads
  <2>12. /\ Same(index, t, {"state"}) /\ t.state = "LOAD_X"
         /\ t.slots = index.slots /\ t.tracker = index.tracker /\ t.sequence = index.sequence
         /\ t.chunk = 0
    BY <2>8, <2>11 DEF Preparing, Same, EngineFields, EngineInit
  <2> HIDE DEF t
  <2>13. Same(e, t, {"chunk", "sequence", "tracker", "slots", "state"}) BY <2>11, <2>12 DEF Same
  <2>14. EngineTyped(t) /\ SameBatches(e, t)
    BY <2>13, <2>12, WalkTyped DEF EngineInv, EngineTyped, Same, WalkFields, EngineFields,
      EngineInit, Walking, Requesting
  <2>15. WalkSound(t, c)
    <3>1. t.image = e.image /\ t.pointer = e.pointer BY <2>13 DEF Same, EngineFields, EngineInit
    <3>2. /\ WalkSound(e, c) /\ e.pointer \in DOMAIN e.image /\ e.image[e.pointer].valid
      BY <1>2 DEF EngineInv, WalkSound, Walking, Current
    <3>3. 0 < Len(Current(t).rows) BY <3>1, <3>2 DEF WalkSound, WellFormedFor, Current
    <3>4. t.pointer <= Len(t.image) /\ Current(t).valid BY <3>1, <3>2 DEF WalkSound, Current
    <3> QED BY <2>12, <3>1, <3>2, <3>3, <3>4 DEF WalkSound
  <2>16. SlotsFit(t.state, t.slots, t.tracker)
    BY <2>4, <2>6, <2>8, <2>12 DEF KindSet, SlotsFit, Staged
  <2>17. EngineInv(t, bg, c) BY <2>8, <2>12, <2>14, <2>15, <2>16 DEF EngineInv, Preparing
  <2>18. Goes(e, t, bg, c) /\ Quiet(e, t) BY <2>12, <2>17 DEF Goes, Quiet, Walking, Over, Waits
  <2>19. SameReads(e, t) BY <2>11, <2>12 DEF SameReads
  <2> QED BY <2>10, <2>12, <2>14, <2>18, <2>19
<1> QED BY <1>1, <1>2

\* ADVANCE_CHUNK: the next chunk's two requests wait, or the descriptor is done.
LEMMA AdvanceGoes ==
  ASSUME NEW e, NEW bg, NEW c, EngineInv(e, bg, c), e.state = "ADVANCE_CHUNK",
         NEW g \in Nat \ {0}
  PROVE  LET t == AdvanceChunk(e, bg, g)
         IN  /\ Goes(e, t, bg, c) /\ SameBatches(e, t) /\ SameReads(e, t) /\ Quiet(e, t)
             /\ t.state # "ERROR"
<1> DEFINE moved == [e EXCEPT !.chunk = @ + 1]
           value == Prepare(moved, bg, "VALUE_READ", g)
           index == Prepare(value, bg, "INDEX_READ", g)
           last == [moved EXCEPT !.state = "NEXT_DESCRIPTOR", !.epoch = @ + 1]
           again == [index EXCEPT !.state = "WAIT_OPERANDS", !.epoch = @ + 1]
<1>1. /\ Same(e, moved, {"chunk"}) /\ moved.chunk = e.chunk + 1
      /\ moved.slots = e.slots /\ moved.tracker = e.tracker /\ moved.sequence = e.sequence
      /\ moved.state = "ADVANCE_CHUNK" /\ moved.epoch = e.epoch
      /\ moved.image = e.image /\ moved.pointer = e.pointer
  BY DEF EngineInv, EngineTyped, Same, EngineFields, EngineInit
<1>2. /\ DOMAIN e.tracker.entries = {}
      /\ \A kind \in KindSet : e.slots[kind].phase = "ready"
  BY StagedEmpty DEF EngineInv, SlotsFit, Staged
<1>3. Preparing(moved, bg) /\ InGeneration(moved, g) /\ SameReads(e, moved)
  BY <1>1, <1>2 DEF EngineInv, Preparing, InGeneration, SameReads, Same
<1>4. /\ EngineTyped(e) /\ e.busy /\ e.chunk \in Nat /\ e.epoch \in Nat
      /\ WalkSound(e, c) /\ e.pointer \in DOMAIN e.image /\ Current(e).valid
      /\ e.chunk < Len(Current(e).rows) /\ Len(Current(e).rows) \in Nat
  <2>1. /\ EngineTyped(e) /\ e.busy /\ e.chunk \in Nat /\ e.epoch \in Nat /\ WalkSound(e, c)
    BY DEF EngineInv, EngineTyped
  <2>2. /\ e.pointer <= Len(e.image) /\ Current(e).valid /\ e.chunk < Len(Current(e).rows)
    BY <2>1 DEF WalkSound, Walking, Staged
  <2>3. e.pointer \in DOMAIN e.image BY <2>1, <2>2 DEF WalkSound
  <2>4. Current(e).rows \in Seq(Seq(Nat))
    <3> DEFINE DT == [rows : Seq(Seq(Nat)), valid : BOOLEAN, xStays : BOOLEAN]
    <3>1. e.image \in Seq(DT) BY <2>1 DEF WalkSound
    <3> HIDE DEF DT
    <3>2. e.image[e.pointer] \in DT BY <2>3, <3>1
    <3> QED BY <3>2 DEF DT, Current
  <2> QED BY <2>1, <2>2, <2>3, <2>4
<1>5. CASE moved.chunk = Len(Current(e).rows)
  <2>1. AdvanceChunk(e, bg, g) = last BY <1>5 DEF AdvanceChunk
  <2>2. /\ Same(e, last, {"chunk", "state", "epoch"}) /\ last.state = "NEXT_DESCRIPTOR"
        /\ last.chunk = e.chunk + 1 /\ last.epoch = e.epoch + 1
        /\ last.slots = e.slots /\ last.tracker = e.tracker /\ last.sequence = e.sequence
        /\ last.image = e.image /\ last.pointer = e.pointer
    BY <1>1 DEF Same, EngineFields, EngineInit
  <2> HIDE DEF last, moved
  <2>3. EngineTyped(last) /\ SameBatches(e, last)
    <3>1. Same(e, last, WalkFields) BY <2>2 DEF Same, WalkFields
    <3>2. last.chunk \in Nat /\ last.epoch \in Nat /\ last.state \in Walking
      BY <1>4, <2>2 DEF Walking, Staged
    <3> QED BY <1>4, <3>1, <3>2, WalkTyped
  <2>4. WalkSound(last, c) /\ SlotsFit(last.state, last.slots, last.tracker)
    BY <1>2, <1>4, <2>2 DEF WalkSound, SlotsFit, Current, Requesting
  <2>5. EngineInv(last, bg, c) BY <2>2, <2>3, <2>4 DEF EngineInv
  <2> QED BY <2>1, <2>2, <2>3, <2>5 DEF Goes, Quiet, SameReads, Walking, Staged, Over, Waits
<1>6. CASE moved.chunk # Len(Current(e).rows)
  <2> HIDE DEF moved
  <2>1. /\ Preparing(value, bg) /\ value.tracker.generation = g
        /\ Same(moved, value, {"sequence", "tracker", "slots"}) /\ SameReads(moved, value)
        /\ value.slots["VALUE_READ"].phase = "created"
        /\ value.slots["VALUE_READ"].token \in Waiting(value.tracker)
        /\ value.slots["X_READ"] = moved.slots["X_READ"]
        /\ \A y \in DOMAIN value.tracker.entries : y.kind = "VALUE_READ"
    BY <1>1, <1>2, <1>3, PrepareWaits DEF KindSet
  <2> HIDE DEF value
  <2>2. InGeneration(value, g) /\ \A y \in DOMAIN value.tracker.entries : y.kind # "INDEX_READ"
    BY <2>1 DEF InGeneration
  <2>3. /\ Preparing(index, bg)
        /\ Same(value, index, {"sequence", "tracker", "slots"}) /\ SameReads(value, index)
        /\ index.slots["INDEX_READ"].phase = "created"
        /\ index.slots["INDEX_READ"].token \in Waiting(index.tracker)
        /\ index.slots["X_READ"] = value.slots["X_READ"]
        /\ index.slots["VALUE_READ"] = value.slots["VALUE_READ"]
        /\ Waiting(value.tracker) \subseteq Waiting(index.tracker)
    BY <2>1, <2>2, PrepareWaits DEF KindSet
  <2> HIDE DEF index
  <2>4. value.state = "ADVANCE_CHUNK" /\ index.state = "ADVANCE_CHUNK"
    BY <1>1, <2>1, <2>3 DEF Same, EngineFields, EngineInit
  <2>5. AdvanceChunk(e, bg, g) = again
    BY <1>6, <2>4 DEF AdvanceChunk, HasFailed, moved, value, index
  <2>6. /\ Same(e, index, {"chunk", "sequence", "tracker", "slots"})
        /\ SameReads(e, index)
    BY <1>1, <2>1, <2>3, <1>3 DEF Same, SameReads
  <2>7. index.chunk = e.chunk + 1 /\ index.epoch = e.epoch
    BY <1>1, <2>1, <2>3 DEF Same, EngineFields, EngineInit
  <2>8. /\ Same(index, again, {"state", "epoch"}) /\ again.state = "WAIT_OPERANDS"
        /\ again.slots = index.slots /\ again.tracker = index.tracker
        /\ again.sequence = index.sequence
        /\ again.chunk = e.chunk + 1 /\ again.epoch = e.epoch + 1
    BY <2>3, <2>7 DEF Preparing, Same, EngineFields, EngineInit
  <2> HIDE DEF again
  <2>9. Same(e, again, {"chunk", "sequence", "tracker", "slots", "state", "epoch"})
    BY <2>6, <2>8 DEF Same
  <2>10. EngineTyped(again) /\ SameBatches(e, again)
    <3>1. Same(e, again, WalkFields) BY <2>9 DEF Same, WalkFields
    <3>2. again.chunk \in Nat /\ again.epoch \in Nat /\ again.state \in Walking
      BY <1>4, <2>8 DEF Walking, Requesting
    <3> QED BY <1>4, <3>1, <3>2, WalkTyped
  <2>11. WalkSound(again, c)
    <3>1. again.image = e.image /\ again.pointer = e.pointer
      BY <2>9 DEF Same, EngineFields, EngineInit
    <3>2. again.chunk < Len(Current(e).rows) BY <1>1, <1>4, <1>6, <2>8
    <3> QED BY <1>4, <2>8, <3>1, <3>2 DEF WalkSound, Current
  <2>12. SlotsFit(again.state, again.slots, again.tracker)
    BY <1>1, <1>2, <2>1, <2>3, <2>8 DEF KindSet, SlotsFit, Staged
  <2>13. EngineInv(again, bg, c) BY <2>3, <2>8, <2>10, <2>11, <2>12 DEF EngineInv, Preparing
  <2>14. Goes(e, again, bg, c) /\ Quiet(e, again)
    BY <2>8, <2>13 DEF Goes, Quiet, Walking, Staged, Over, Waits
  <2>15. SameReads(e, again) BY <2>6, <2>8 DEF SameReads
  <2> QED BY <2>5, <2>8, <2>10, <2>14, <2>15
<1> QED BY <1>5, <1>6

\* Two steps of an engine are one.
LEMMA GoesChain ==
  ASSUME NEW e, NEW t, NEW u, NEW bg, NEW c, Goes(e, t, bg, c), Goes(t, u, bg, c)
  PROVE  Goes(e, u, bg, c)
BY DEF Goes

\* LOAD_X, FETCH_VALUE, FETCH_ROW_INDEX and WAIT_OPERANDS.
LEMMA OperandGoes ==
  ASSUME NEW e, NEW bg, NEW c, EngineInv(e, bg, c), e.state \in Requesting, NEW accepted
  PROVE  LET t == IF e.state = "WAIT_OPERANDS" THEN WaitOperands(e, accepted)
                  ELSE FetchOperand(e, accepted)
         IN  /\ Goes(e, t, bg, c) /\ SameBatches(e, t) /\ Quiet(e, t)
             /\ t.state # "ERROR" /\ t.state # "FETCH_DESCRIPTOR"
             /\ AcceptedBy(t.tracker) =
                  AcceptedBy(e.tracker) \cup (IF accepted THEN AttemptedTokens(e) ELSE {})
<1> DEFINE issued == IssueWaiting(e, accepted)
           next == CASE issued.state = "LOAD_X" -> "FETCH_VALUE"
                     [] issued.state = "FETCH_VALUE" -> "FETCH_ROW_INDEX"
                     [] issued.state = "FETCH_ROW_INDEX" -> "WAIT_OPERANDS"
           fetched == [issued EXCEPT !.state = next]
           multiplies == [e EXCEPT !.state = "SIMD_MUL"]
           AllReady == \A kind \in KindSet : e.slots[kind].phase = "ready"
<1>1. /\ Goes(e, issued, bg, c) /\ Same(e, issued, {"tracker", "slots"})
      /\ AcceptedBy(issued.tracker) =
           AcceptedBy(e.tracker) \cup (IF accepted THEN AttemptedTokens(e) ELSE {})
  BY IssueGoes
<1> HIDE DEF issued
<1>2. /\ issued.state = e.state /\ issued.op = e.op /\ SameBatches(e, issued) /\ issued.busy = e.busy
  BY <1>1 DEF Same, EngineFields, EngineInit, SameBatches
<1>3. CASE e.state # "WAIT_OPERANDS"
  <2>1. next \in Requesting BY <1>2, <1>3 DEF Requesting
  <2>2. FetchOperand(e, accepted) = fetched BY DEF FetchOperand, issued
  <2> HIDE DEF next
  <2>3. EngineInv(issued, bg, c) BY <1>1 DEF Goes
  <2>4. /\ Same(issued, fetched, {"state"}) /\ fetched.state = next
        /\ fetched.busy = issued.busy /\ fetched.flushRequested = issued.flushRequested
        /\ fetched.flushCompleted = issued.flushCompleted /\ fetched.incomplete = issued.incomplete
        /\ SameBatches(issued, fetched) /\ fetched.tracker = issued.tracker
    BY <2>3 DEF EngineInv, EngineTyped, Same, EngineFields, EngineInit, SameBatches
  <2> HIDE DEF fetched
  <2>5. EngineTyped(fetched)
    <3>1. Same(issued, fetched, {"state", "busy", "flushRequested", "flushCompleted", "incomplete",
                     "submitDone", "batch", "tracker", "slots", "sequence", "image", "pointer"})
      BY <2>4 DEF Same
    <3>2. EngineTyped(issued) /\ issued.state \in Requesting BY <1>2, <2>3 DEF EngineInv
    <3>3. fetched.state \in EngineStates \ {"IDLE", "DONE", "ERROR"}
          /\ issued.state \in EngineStates \ {"IDLE", "DONE", "ERROR"}
      BY <2>1, <2>4, <3>2 DEF Requesting, EngineStates
    <3> QED BY <2>4, <3>1, <3>2, <3>3, TypedFields DEF EngineTyped
  <2>6. Goes(issued, fetched, bg, c)
    BY <2>4, <1>2, <2>1, <2>3, <2>5, ProgressGoes DEF Same, ProgressFields, Requesting, Walking,
      Staged, Over
  <2>7. Goes(e, fetched, bg, c) BY <1>1, <2>6, GoesChain
  <2>8. /\ SameBatches(e, fetched)
        /\ AcceptedBy(fetched.tracker) =
             AcceptedBy(e.tracker) \cup (IF accepted THEN AttemptedTokens(e) ELSE {})
    BY <1>1, <1>2, <2>4 DEF SameBatches
  <2>9. Quiet(e, fetched) /\ fetched.state # "ERROR" /\ fetched.state # "FETCH_DESCRIPTOR"
    BY <2>1, <2>4 DEF Quiet, Requesting, Waits
  <2> QED BY <1>3, <2>2, <2>7, <2>8, <2>9
<1>4. CASE e.state = "WAIT_OPERANDS" /\ ~AllReady
  BY <1>4, <1>2, <1>1 DEF WaitOperands, issued, Quiet, Waits
<1>5. CASE e.state = "WAIT_OPERANDS" /\ AllReady
  <2>1. WaitOperands(e, accepted) = multiplies BY <1>5 DEF WaitOperands
  <2>2. AttemptedTokens(e) = {} BY <1>5 DEF AttemptedTokens, Attempted
  <2>3. /\ Same(e, multiplies, {"state"}) /\ multiplies.state = "SIMD_MUL"
        /\ multiplies.busy = e.busy /\ multiplies.flushRequested = e.flushRequested
        /\ multiplies.flushCompleted = e.flushCompleted /\ multiplies.incomplete = e.incomplete
        /\ SameBatches(e, multiplies)
    BY DEF EngineInv, EngineTyped, Same, EngineFields, EngineInit, SameBatches
  <2> HIDE DEF multiplies
  <2>4. EngineTyped(multiplies)
    BY <2>3, <1>5, TypedFields DEF Same, EngineInv, EngineTyped, EngineStates
  <2>5. Goes(e, multiplies, bg, c) /\ SameReads(e, multiplies)
    BY <2>3, <1>5, <2>4, ProgressGoes DEF Same, ProgressFields, Requesting, Walking, Over
  <2>6. Quiet(e, multiplies) /\ multiplies.state # "ERROR" /\ multiplies.state # "FETCH_DESCRIPTOR"
    BY <1>5, <2>3 DEF Quiet, Waits
  <2> QED BY <1>5, <2>1, <2>2, <2>3, <2>5, <2>6 DEF SameReads
<1> QED BY <1>3, <1>4, <1>5

-----------------------------------------------------------------------------
(* The multiplication, the partials and the end of the work                *)

\* A step between two states in which the operands are there.
LEMMA StagedGoes ==
  ASSUME NEW e, NEW t, NEW bg, NEW c, EngineInv(e, bg, c), EngineTyped(t),
         Same(e, t, ProgressFields), e.state \in Staged \ {"NEXT_DESCRIPTOR"},
         t.state \in Staged \cup {"FLUSHING", "ERROR"}
  PROVE  Goes(e, t, bg, c) /\ SameReads(e, t)
<1>1. /\ t.state \notin Requesting /\ t.state # "FETCH_DESCRIPTOR"
      /\ e.state \in Walking /\ e.state \notin Over
  BY DEF Walking, Requesting, Staged, Over
<1>2. \A kind \in KindSet : e.slots[kind].phase = "ready" BY DEF EngineInv, SlotsFit
<1> QED BY <1>1, <1>2, ProgressGoes

\* SIMD_MUL: the operation is one, with an id of its own.
LEMMA BuildGoes ==
  ASSUME NEW e, NEW bg, NEW c, EngineInv(e, bg, c), e.state = "SIMD_MUL"
  PROVE  LET t == BuildOperation(e)
         IN  /\ Goes(e, t, bg, c) /\ SameBatches(e, t) /\ SameReads(e, t) /\ Quiet(e, t)
             /\ t.state = "SIMD_MUL" /\ t.op # NoOp /\ t.epoch = e.epoch /\ t.busy = e.busy
             /\ t.flushRequested = e.flushRequested
             /\ e.op # NoOp => t.op = e.op
             /\ t.tracker = e.tracker
<1> DEFINE op == [id |-> e.opSequence + 1, mask |-> {0}, generation |-> e.tracker.generation]
           t == [e EXCEPT !.opSequence = @ + 1, !.op = op]
<1>1. CASE e.op # NoOp BY <1>1, GoesOn DEF BuildOperation
<1>2. CASE e.op = NoOp
  <2>1. BuildOperation(e) = t BY <1>2 DEF BuildOperation
  <2>2. /\ e.opSequence \in Nat /\ e.tracker.generation \in Nat /\ EngineTyped(e)
    BY DEF EngineInv, EngineTyped, TrackerSound
  <2>3. /\ op \in [id : 1 .. e.opSequence + 1, mask : {{0}}, generation : Nat]
        /\ op \in [id : Nat, mask : {{0}}, generation : Nat]
    BY <2>2
  <2>4. op # NoOp BY <2>3, NoOpAssumption
  <2> HIDE DEF op
  <2>5. /\ Same(e, t, {"opSequence", "op"}) /\ t.op = op /\ t.opSequence = e.opSequence + 1
        /\ t.state = e.state /\ t.epoch = e.epoch /\ t.busy = e.busy /\ t.tracker = e.tracker
        /\ t.flushRequested = e.flushRequested /\ SameBatches(e, t)
        /\ t.flushCompleted = e.flushCompleted /\ t.incomplete = e.incomplete /\ t.chunk = e.chunk
        /\ t.targetGeneration = e.targetGeneration /\ DOMAIN t = EngineFields
    BY <2>2 DEF EngineTyped, Same, EngineFields, EngineInit, SameBatches
  <2> HIDE DEF t
  <2>6. EngineTyped(t) BY <2>2, <2>3, <2>5 DEF EngineTyped, SameBatches
  <2>7. Goes(e, t, bg, c) /\ SameReads(e, t)
    BY <2>5, <2>6, StagedGoes DEF Same, ProgressFields, Staged
  <2> QED BY <1>2, <2>1, <2>4, <2>5, <2>7 DEF Quiet, Waits
<1> QED BY <1>1, <1>2

\* The target's three steps.
LEMMA TargetGoes ==
  ASSUME NEW e, NEW bg, NEW c, EngineInv(e, bg, c)
  PROVE  /\ e.state = "SIMD_MUL" =>
              LET t == TargetSubmitted(e)
              IN  /\ Goes(e, t, bg, c) /\ SameBatches(e, t) /\ SameReads(e, t)
                  /\ t.state = "WAIT_TARGET_GRANT" /\ t.op = e.op /\ t.epoch = e.epoch
         /\ e.state = "WAIT_TARGET_GRANT" =>
              LET t == TargetGranted(e)
              IN  /\ Goes(e, t, bg, c) /\ SameBatches(e, t) /\ SameReads(e, t)
                  /\ t.state = "WAIT_TARGET_COMPLETION" /\ t.op = e.op
         /\ e.state = "WAIT_TARGET_COMPLETION" /\ e.op # NoOp =>
              LET t == TargetCompleted(e)
              IN  /\ Goes(e, t, bg, c) /\ SameBatches(e, t) /\ SameReads(e, t)
                  /\ t.state = (IF e.incomplete THEN "FLUSHING" ELSE "EMIT_PARTIALS")
                  /\ t.op = NoOp
<1>0. EngineTyped(e) BY DEF EngineInv
<1>1. ASSUME NEW s \in {"WAIT_TARGET_GRANT", "WAIT_TARGET_COMPLETION"},
             e.state \in {"SIMD_MUL", "WAIT_TARGET_GRANT"}
      PROVE  LET t == [e EXCEPT !.state = s]
             IN  /\ Goes(e, t, bg, c) /\ SameBatches(e, t) /\ SameReads(e, t)
                 /\ t.state = s /\ t.op = e.op /\ t.epoch = e.epoch
  <2> DEFINE t == [e EXCEPT !.state = s]
  <2>1. /\ Same(e, t, {"state"}) /\ t.state = s /\ t.op = e.op /\ t.epoch = e.epoch
        /\ t.busy = e.busy /\ t.flushRequested = e.flushRequested /\ SameBatches(e, t)
        /\ t.flushCompleted = e.flushCompleted /\ t.incomplete = e.incomplete
    BY <1>0 DEF EngineTyped, Same, EngineFields, EngineInit, SameBatches
  <2> HIDE DEF t
  <2>2. EngineTyped(t)
    BY <2>1, <1>0, <1>1, TypedFields DEF Same, EngineTyped, EngineStates
  <2>3. Goes(e, t, bg, c) /\ SameReads(e, t)
    BY <2>1, <1>1, <2>2, StagedGoes DEF Same, ProgressFields, Staged
  <2> QED BY <2>1, <2>3 DEF t
<1>2. ASSUME e.state = "WAIT_TARGET_COMPLETION", e.op # NoOp
      PROVE  LET t == TargetCompleted(e)
             IN  /\ Goes(e, t, bg, c) /\ SameBatches(e, t) /\ SameReads(e, t)
                 /\ t.state = (IF e.incomplete THEN "FLUSHING" ELSE "EMIT_PARTIALS")
                 /\ t.op = NoOp
  <2> DEFINE s == IF e.incomplete THEN "FLUSHING" ELSE "EMIT_PARTIALS"
             t == [e EXCEPT !.op = NoOp, !.targetGeneration = e.op.generation, !.state = s]
  <2>1. TargetCompleted(e) = t BY DEF TargetCompleted
  <2>2. s \in EngineStates \ {"IDLE", "DONE", "ERROR"} /\ s \in Staged \cup {"FLUSHING", "ERROR"}
    BY DEF EngineStates, Staged
  <2>3. e.op.generation \in Nat BY <1>0, <1>2 DEF EngineTyped
  <2> HIDE DEF s
  <2>4. /\ Same(e, t, {"state", "op", "targetGeneration"}) /\ t.state = s /\ t.op = NoOp
        /\ t.targetGeneration = e.op.generation
        /\ t.busy = e.busy /\ t.flushRequested = e.flushRequested /\ SameBatches(e, t)
        /\ t.flushCompleted = e.flushCompleted /\ t.incomplete = e.incomplete
        /\ t.chunk = e.chunk /\ t.epoch = e.epoch /\ t.opSequence = e.opSequence
    BY <1>0 DEF EngineTyped, Same, EngineFields, EngineInit, SameBatches
  <2> HIDE DEF t
  <2>5. EngineTyped(t)
    BY <1>0, <1>2, <2>2, <2>3, <2>4 DEF EngineTyped, SameBatches, Same
  <2>6. Goes(e, t, bg, c) /\ SameReads(e, t)
    BY <2>4, <1>2, <2>2, <2>5, StagedGoes DEF Same, ProgressFields, Staged
  <2> QED BY <2>1, <2>4, <2>6 DEF s
<1> QED BY <1>1, <1>2 DEF TargetSubmitted, TargetGranted

\* EMIT_PARTIALS, into the sink or into a batch, and what its accumulator answers.
LEMMA EmitGoes ==
  ASSUME NEW e, NEW bg, NEW c, EngineInv(e, bg, c), e.state = "EMIT_PARTIALS"
  PROVE  LET t == EmitPartials(e)
         IN  /\ Goes(e, t, bg, c) /\ SameBatches(e, t) /\ SameReads(e, t) /\ Quiet(e, t)
             /\ t.state # "ERROR"
<1> DEFINE t == [e EXCEPT !.state = "ADVANCE_CHUNK"]
<1>0. EngineTyped(e) BY DEF EngineInv
<1>1. /\ Same(e, t, {"state"}) /\ t.state = "ADVANCE_CHUNK"
      /\ t.busy = e.busy /\ t.flushRequested = e.flushRequested /\ SameBatches(e, t)
      /\ t.flushCompleted = e.flushCompleted /\ t.incomplete = e.incomplete
  BY <1>0 DEF EngineTyped, Same, EngineFields, EngineInit, SameBatches
<1> HIDE DEF t
<1>2. EngineTyped(t)
  BY <1>1, <1>0, TypedFields DEF Same, EngineTyped, EngineStates
<1>3. Goes(e, t, bg, c) /\ SameReads(e, t)
  BY <1>1, <1>2, StagedGoes DEF Same, ProgressFields, Staged
<1> QED BY <1>1, <1>3 DEF EmitPartials, t, Quiet, Waits

\* The batch of the chunk is built once, or the engine fails.
LEMMA BatchGoes ==
  ASSUME NEW e, NEW bg, NEW c, EngineInv(e, bg, c), e.state = "EMIT_PARTIALS", NEW rows
  PROVE  LET t == BuildBatch(e, rows)
         IN  /\ Goes(e, t, bg, c) /\ SameReads(e, t) /\ Quiet(e, t)
             /\ \/ t = e /\ e.batch # NoBatch
                \/ t = FailEngine(e)
                \/ /\ Same(e, t, {"batch"}) /\ e.batch = NoBatch
                   /\ t.batch = [stream |-> 0, generation |-> e.bgaGeneration,
                                 sequence |-> e.nextBatch, rows |-> Current(e).rows[e.chunk + 1]]
                   /\ \A i \in DOMAIN t.batch.rows : t.batch.rows[i] < rows
<1> DEFINE batch == [stream |-> 0, generation |-> e.targetGeneration,
                     sequence |-> e.nextBatch, rows |-> Current(e).rows[e.chunk + 1]]
           t == [e EXCEPT !.batch = batch]
           Current_ == e.targetGeneration # 0 /\ e.targetGeneration = e.bgaGeneration
           InRange == \A i \in DOMAIN Current(e).rows[e.chunk + 1] : Current(e).rows[e.chunk + 1][i] < rows
<1>0. EngineTyped(e) BY DEF EngineInv
<1>1. CASE e.batch # NoBatch BY <1>1, GoesOn DEF BuildBatch
<1>2. CASE e.batch = NoBatch /\ ~(Current_ /\ e.epoch + 1 = e.nextBatch /\ InRange)
  BY <1>2, FailGoes DEF BuildBatch, Quiet, Waits
<1>3. CASE e.batch = NoBatch /\ Current_ /\ e.epoch + 1 = e.nextBatch /\ InRange
  <2>1. BuildBatch(e, rows) = t BY <1>3 DEF BuildBatch
  <2>2. /\ batch = [stream |-> 0, generation |-> e.bgaGeneration,
                    sequence |-> e.nextBatch, rows |-> Current(e).rows[e.chunk + 1]]
        /\ \A i \in DOMAIN batch.rows : batch.rows[i] < rows
    BY <1>3
  <2> HIDE DEF batch
  <2>3. /\ Same(e, t, {"batch"}) /\ t.batch = batch /\ t.state = e.state
        /\ t.busy = e.busy /\ t.flushRequested = e.flushRequested
        /\ t.flushCompleted = e.flushCompleted /\ t.incomplete = e.incomplete
    BY <1>0 DEF EngineTyped, Same, EngineFields, EngineInit
  <2> HIDE DEF t
  <2>4. EngineTyped(t)
    BY <2>3, <1>0, TypedFields DEF Same, EngineTyped, EngineStates
  <2>5. Goes(e, t, bg, c) /\ SameReads(e, t)
    BY <2>3, <2>4, StagedGoes DEF Same, ProgressFields, Staged
  <2> QED BY <1>3, <2>1, <2>2, <2>3, <2>5 DEF Quiet, Waits
<1> QED BY <1>1, <1>2, <1>3

\* The accumulator takes the batch, pushes back, or the engine fails.
LEMMA AnswerGoes ==
  ASSUME NEW e, NEW bg, NEW c, EngineInv(e, bg, c), e.state = "EMIT_PARTIALS", NEW answer,
         Len(e.batch.rows) \in Nat
  PROVE  LET t == BatchAnswered(e, answer)
         IN  /\ Goes(e, t, bg, c) /\ SameReads(e, t) /\ Quiet(e, t)
             /\ answer = "ACCEPTED" =>
                  /\ t.batch = NoBatch /\ t.nextBatch = e.nextBatch + 1
                  /\ t.accepted = e.accepted + Len(e.batch.rows)
                  /\ t.bgaGeneration = e.bgaGeneration
             /\ answer # "ACCEPTED" => SameBatches(e, t)
             /\ answer = "BACKPRESSURE" => t = e
<1> DEFINE t == [e EXCEPT !.batch = NoBatch, !.nextBatch = @ + 1,
                          !.accepted = @ + Len(e.batch.rows), !.state = "ADVANCE_CHUNK"]
<1>0. EngineTyped(e) BY DEF EngineInv
<1>1. CASE answer = "BACKPRESSURE" BY <1>1, GoesOn DEF BatchAnswered
<1>2. CASE answer \notin {"BACKPRESSURE", "ACCEPTED"}
  BY <1>2, FailGoes DEF BatchAnswered, Quiet, Waits
<1>3. CASE answer = "ACCEPTED"
  <2>1. BatchAnswered(e, answer) = t BY <1>3 DEF BatchAnswered
  <2>2. /\ Same(e, t, {"batch", "nextBatch", "accepted", "state"}) /\ t.state = "ADVANCE_CHUNK"
        /\ t.batch = NoBatch /\ t.nextBatch = e.nextBatch + 1
        /\ t.accepted = e.accepted + Len(e.batch.rows) /\ t.bgaGeneration = e.bgaGeneration
        /\ t.busy = e.busy /\ t.flushRequested = e.flushRequested
        /\ t.flushCompleted = e.flushCompleted /\ t.incomplete = e.incomplete
        /\ t.chunk = e.chunk /\ t.epoch = e.epoch /\ t.opSequence = e.opSequence
        /\ t.targetGeneration = e.targetGeneration /\ t.op = e.op /\ DOMAIN t = EngineFields
    BY <1>0 DEF EngineTyped, Same, EngineFields, EngineInit
  <2> HIDE DEF t
  <2>3. EngineTyped(t) BY <1>0, <2>2 DEF EngineTyped, EngineStates
  <2>4. Goes(e, t, bg, c) /\ SameReads(e, t)
    BY <2>2, <2>3, StagedGoes DEF Same, ProgressFields, Staged
  <2> QED BY <1>3, <2>1, <2>2, <2>4 DEF Quiet, Waits
<1> QED BY <1>1, <1>2, <1>3

\* COMPLETE_PRODUCER: the engine is done, or fails.
LEMMA ProducerGoes ==
  ASSUME NEW e, NEW bg, NEW c, EngineInv(e, bg, c), e.state = "COMPLETE_PRODUCER", NEW drains
  PROVE  LET t == CompleteProducer(e, drains)
         IN  /\ Goes(e, t, bg, c) /\ SameBatches(e, t) /\ SameReads(e, t) /\ Quiet(e, t)
             /\ t.state \in {"DONE", "ERROR"}
<1> DEFINE t == [e EXCEPT !.submitDone = TRUE, !.state = "DONE", !.busy = FALSE]
<1>0. EngineTyped(e) BY DEF EngineInv
<1>1. CompleteProducer(e, drains) \in {FailEngine(e), t} BY DEF CompleteProducer
<1>2. /\ Same(e, t, {"submitDone", "state", "busy"}) /\ t.state = "DONE" /\ t.busy = FALSE
      /\ t.flushRequested = e.flushRequested /\ SameBatches(e, t)
      /\ t.flushCompleted = e.flushCompleted /\ t.incomplete = e.incomplete
  BY <1>0 DEF EngineTyped, Same, EngineFields, EngineInit, SameBatches
<1> HIDE DEF t
<1>3. EngineTyped(t)
  <2>1. Same(e, t, {"state", "busy", "flushRequested", "flushCompleted", "incomplete",
                   "submitDone", "batch", "tracker", "slots", "sequence", "image", "pointer"})
    BY <1>2 DEF Same
  <2> QED BY <1>0, <1>2, <2>1, TypedFields DEF EngineTyped, EngineStates
<1>4. Goes(e, t, bg, c) /\ SameReads(e, t)
  BY <1>2, <1>3, ProgressGoes DEF Same, ProgressFields, Walking, Requesting, Staged, Over
<1>5. Quiet(e, t) /\ Quiet(e, FailEngine(e)) BY <1>2, FailGoes DEF Quiet, Waits
<1> QED BY <1>1, <1>2, <1>4, <1>5, FailGoes

\* NEXT_DESCRIPTOR and finishWork().
LEMMA NextGoes ==
  ASSUME NEW e, NEW bg, NEW c, EngineInv(e, bg, c), e.state = "NEXT_DESCRIPTOR"
  PROVE  LET t == NextDescriptor(e)
         IN  /\ Goes(e, t, bg, c) /\ SameBatches(e, t) /\ SameReads(e, t) /\ Quiet(e, t)
             /\ t.state = "ERROR" => e.tracker.abandoned # 0
<1> DEFINE moved == [e EXCEPT !.pointer = @ + 1]
           next == [moved EXCEPT !.slots = EmptySlots, !.state = "FETCH_DESCRIPTOR"]
           flushes == [moved EXCEPT !.state = "FLUSHING", !.busy = TRUE]
           ends == [moved EXCEPT !.state = "COMPLETE_PRODUCER", !.busy = TRUE]
           done == [moved EXCEPT !.state = "DONE", !.busy = FALSE]
<1>0. /\ EngineTyped(e) /\ e.busy /\ WalkSound(e, c)
      /\ e.pointer \in Nat /\ Len(e.image) \in Nat /\ e.pointer <= Len(e.image)
  <2>1. EngineTyped(e) /\ WalkSound(e, c) BY DEF EngineInv
  <2>2. e.busy BY <2>1 DEF EngineTyped
  <2>3. Len(e.image) \in Nat /\ e.pointer \in 1 .. Len(e.image) + 1 /\ e.pointer <= Len(e.image)
    BY <2>1 DEF WalkSound, Walking, Staged
  <2> QED BY <2>1, <2>2, <2>3
<1>1. DOMAIN e.tracker.entries = {} BY StagedEmpty DEF Staged
<1>2. /\ Same(e, moved, {"pointer"}) /\ moved.pointer = e.pointer + 1
      /\ moved.state = e.state /\ moved.tracker = e.tracker /\ moved.slots = e.slots
      /\ moved.image = e.image
  BY <1>0 DEF EngineTyped, Same, EngineFields, EngineInit
<1>3. /\ Same(e, next, {"pointer", "slots", "state"}) /\ next.state = "FETCH_DESCRIPTOR"
      /\ next.pointer = e.pointer + 1 /\ next.slots = EmptySlots
  BY <1>2 DEF Same, EngineFields, EngineInit
<1>4. \A t \in {flushes, ends, done} :
        /\ Same(e, t, {"pointer", "state", "busy"})
        /\ t.state \in {"FLUSHING", "COMPLETE_PRODUCER", "DONE"}
        /\ t.busy \in BOOLEAN /\ (t.busy <=> t.state # "DONE") /\ t.pointer = e.pointer + 1
  <2> HIDE DEF moved
  <2>1. /\ Same(e, flushes, {"pointer", "state", "busy"})
        /\ flushes.state = "FLUSHING" /\ flushes.busy = TRUE /\ flushes.pointer = e.pointer + 1
    BY <1>2 DEF Same, EngineFields, EngineInit
  <2>2. /\ Same(e, ends, {"pointer", "state", "busy"})
        /\ ends.state = "COMPLETE_PRODUCER" /\ ends.busy = TRUE /\ ends.pointer = e.pointer + 1
    BY <1>2 DEF Same, EngineFields, EngineInit
  <2>3. /\ Same(e, done, {"pointer", "state", "busy"})
        /\ done.state = "DONE" /\ done.busy = FALSE /\ done.pointer = e.pointer + 1
    BY <1>2 DEF Same, EngineFields, EngineInit
  <2> HIDE DEF flushes, ends, done
  <2> QED BY <2>1, <2>2, <2>3
<1> DEFINE Proper(t) ==
             Goes(e, t, bg, c) /\ SameBatches(e, t) /\ SameReads(e, t) /\ Quiet(e, t)
<1> HIDE DEF moved, next, flushes, ends, done
<1>5. ASSUME NEW t, Same(e, t, {"pointer", "slots", "state", "busy"}),
             t.pointer = e.pointer + 1, t.busy \in BOOLEAN, t.busy <=> t.state # "DONE",
             \/ t.state = "FETCH_DESCRIPTOR" /\ t.slots = EmptySlots /\ t.pointer <= Len(t.image)
             \/ t.state \in {"FLUSHING", "COMPLETE_PRODUCER", "DONE"} /\ t.slots = e.slots
      PROVE  Proper(t)
  <2>1. /\ DOMAIN t = EngineFields /\ t.image = e.image /\ t.tracker = e.tracker
        /\ t.sequence = e.sequence /\ SameBatches(e, t)
        /\ t.flushRequested = e.flushRequested
        /\ t.flushCompleted = e.flushCompleted /\ t.incomplete = e.incomplete
    BY <1>5 DEF Same, EngineFields, EngineInit, SameBatches
  <2>2. EngineTyped(t)
    <3>1. Same(e, t, {"state", "busy", "flushRequested", "flushCompleted", "incomplete",
                     "submitDone", "batch", "tracker", "slots", "sequence", "image", "pointer"})
      BY <1>5 DEF Same
    <3>2. t.busy \in BOOLEAN /\ t.state \in EngineStates
          /\ (t.busy <=> t.state \notin {"IDLE", "DONE", "ERROR"})
      BY <1>5 DEF EngineStates
    <3> QED BY <1>0, <2>1, <3>1, <3>2, TypedFields DEF EngineTyped
  <2>3. WalkSound(t, c)
    BY <1>0, <1>5, <2>1 DEF WalkSound, Walking, Requesting, Staged
  <2>4. SlotsTyped(t.slots) /\ EntriesInSlots(t.slots, t.tracker)
    BY <1>1, <1>5, <2>1 DEF SlotsTyped, EmptySlots, NoSlot, Phases, EngineInv, EntriesInSlots
  <2>5. SlotsFit(t.state, t.slots, t.tracker)
    BY <1>1, <1>5, <2>1 DEF SlotsFit, Requesting, Staged
  <2>6. EngineInv(t, bg, c) BY <2>1, <2>2, <2>3, <2>4, <2>5 DEF EngineInv
  <2> QED
    BY <1>5, <2>1, <2>6 DEF Goes, SameReads, Quiet, Walking, Staged, Requesting, Over, Waits
<1>6. CASE moved.pointer <= Len(e.image)
  BY <1>6, <1>3, <1>0, <1>2, <1>5 DEF NextDescriptor, moved, next, Same, EngineFields,
    EngineInit
<1>7. CASE ~(moved.pointer <= Len(e.image))
  <2>0. /\ Same(e, moved, {"pointer", "slots", "state", "busy"})
        /\ moved.busy = e.busy
    BY <1>2 DEF Same, EngineFields, EngineInit
  <2>1. NextDescriptor(e) \in {flushes, ends, done} \/ NextDescriptor(e) = FailEngine(moved)
    BY <1>7 DEF NextDescriptor, FinishWork, moved, flushes, ends, done
  <2>2. \A t \in {flushes, ends, done} : Proper(t) /\ t.state # "ERROR"
    <3> SUFFICES ASSUME NEW t \in {flushes, ends, done} PROVE Proper(t) /\ t.state # "ERROR"
      OBVIOUS
    <3>1. Same(e, t, {"pointer", "slots", "state", "busy"}) /\ t.slots = e.slots
      BY <1>4 DEF Same, EngineFields, EngineInit
    <3> QED BY <1>4, <1>5, <3>1
  <2>3. NextDescriptor(e) = FailEngine(moved) => e.tracker.abandoned # 0 \/ NextDescriptor(e) \in {flushes, ends, done}
    <3>1. Waiting(e.tracker) = {} /\ AcceptedBy(e.tracker) = {}
      BY <1>1 DEF Waiting, AcceptedBy, Tracker!Entries
    <3>2. Cardinality(Waiting(e.tracker)) = 0 /\ Cardinality(AcceptedBy(e.tracker)) = 0
      BY <3>1, FS_EmptySet
    <3>3. Tracker!TerminalAccountingValid(e.tracker) /\ e.tracker.abandoned \in Nat
      BY <3>2 DEF EngineInv, TrackerSound, Tracker!TerminalAccountingValid
    <3>4. e.tracker.abandoned = 0 => NextDescriptor(e) \in {flushes, ends, done}
      BY <1>2, <1>7, <3>3 DEF NextDescriptor, moved, FinishWork, flushes, ends, done
    <3> QED BY <3>4
  <2>4. Goes(e, FailEngine(moved), bg, c) /\ SameBatches(e, FailEngine(moved))
        /\ SameReads(e, FailEngine(moved)) /\ Quiet(e, FailEngine(moved))
    <3> DEFINE u == Tracker!AbandonWaiting(e.tracker)
               t == [moved EXCEPT !.state = "ERROR", !.busy = FALSE, !.flushCompleted = FALSE,
                                  !.tracker = Tracker!AbandonWaiting(@)]
    <3>1. FailEngine(moved) = t BY <1>2 DEF FailEngine, HasFailed
    <3>2. /\ TrackerSound(u, bg, e.sequence)
          /\ Keeps(e.tracker, u, Waiting(e.tracker))
          /\ AcceptedBy(u) = AcceptedBy(e.tracker)
      BY AbandonSound DEF EngineInv
    <3> HIDE DEF u
    <3>3. /\ Same(e, t, {"pointer", "state", "busy", "flushCompleted", "tracker"})
          /\ t.state = "ERROR" /\ t.busy = FALSE /\ t.flushCompleted = FALSE /\ t.tracker = u
          /\ t.pointer = e.pointer + 1
      BY <1>2 DEF Same, EngineFields, EngineInit, u
    <3> HIDE DEF t
    <3>4. /\ DOMAIN t = EngineFields /\ t.image = e.image /\ t.slots = e.slots
          /\ t.sequence = e.sequence /\ SameBatches(e, t)
          /\ t.flushRequested = e.flushRequested /\ t.incomplete = e.incomplete
      BY <3>3 DEF Same, EngineFields, EngineInit, SameBatches
    <3>5. EngineTyped(t)
      <4>1. Same(e, t, {"state", "busy", "flushRequested", "flushCompleted", "incomplete",
                       "submitDone", "batch", "tracker", "slots", "sequence", "image", "pointer"})
        BY <3>3 DEF Same
      <4>2. /\ t.state \in EngineStates /\ t.busy \in BOOLEAN
            /\ t.flushRequested \in BOOLEAN /\ t.flushCompleted \in BOOLEAN
            /\ t.incomplete \in BOOLEAN
            /\ (t.busy <=> t.state \notin {"IDLE", "DONE", "ERROR"})
        BY <1>0, <3>3, <3>4 DEF EngineTyped, EngineStates
      <4> QED BY <1>0, <4>1, <4>2, TypedFields
    <3>6. WalkSound(t, c) /\ SlotsFit(t.state, t.slots, t.tracker)
      BY <1>0, <3>3, <3>4 DEF WalkSound, SlotsFit, Walking, Requesting, Staged
    <3>7. SlotsTyped(t.slots) /\ EntriesInSlots(t.slots, t.tracker)
      BY <3>2, <3>3, <3>4 DEF EngineInv, EntriesInSlots, Keeps
    <3>8. EngineInv(t, bg, c) BY <3>2, <3>3, <3>4, <3>5, <3>6, <3>7 DEF EngineInv
    <3> QED
      BY <3>1, <3>2, <3>3, <3>4, <3>8
         DEF Goes, SameReads, Quiet, Walking, Staged, Requesting, Over, Waits
  <2> QED BY <2>1, <2>2, <2>3, <2>4
<1> QED BY <1>6, <1>7

\* FLUSHING.
LEMMA FlushingGoes ==
  ASSUME NEW e, NEW bg, NEW c, EngineInv(e, bg, c), e.state = "FLUSHING"
  PROVE  LET t == Flushing(e)
         IN  /\ Goes(e, t, bg, c) /\ SameBatches(e, t) /\ SameReads(e, t) /\ Quiet(e, t)
             /\ t.state # "ERROR" /\ t.incomplete = e.incomplete
<1> DEFINE t == [e EXCEPT !.state = "DONE", !.busy = FALSE, !.flushCompleted = TRUE]
<1>0. EngineTyped(e) BY DEF EngineInv
<1>1. Flushing(e) \in {e, t} BY DEF Flushing
<1>2. /\ Same(e, t, {"flushCompleted", "state", "busy"}) /\ t.state = "DONE" /\ t.busy = FALSE
      /\ t.flushRequested = e.flushRequested /\ SameBatches(e, t)
      /\ t.flushCompleted = TRUE /\ t.incomplete = e.incomplete
  BY <1>0 DEF EngineTyped, Same, EngineFields, EngineInit, SameBatches
<1> HIDE DEF t
<1>3. EngineTyped(t)
  <2>1. Same(e, t, {"state", "busy", "flushRequested", "flushCompleted", "incomplete",
                   "submitDone", "batch", "tracker", "slots", "sequence", "image", "pointer"})
    BY <1>2 DEF Same
  <2> QED BY <1>0, <1>2, <2>1, TypedFields DEF EngineTyped, EngineStates
<1>4. Goes(e, t, bg, c) /\ SameReads(e, t)
  BY <1>2, <1>3, ProgressGoes DEF Same, ProgressFields, Walking, Requesting, Staged, Over
<1> QED BY <1>1, <1>2, <1>4, GoesOn DEF Quiet, Waits

-----------------------------------------------------------------------------
(* Calls of the host on an engine                                          *)

\* A fresh engine.
LEMMA InitGoes ==
  ASSUME NEW bg, NEW c
  PROVE  EngineInv(EngineInit, bg, c) /\ AcceptedBy(EngineInit.tracker) = {}
<1> DEFINE e == EngineInit
<1>1. /\ TrackerSound(Tracker!TrackerInit(1), bg, 0)
      /\ DOMAIN Tracker!TrackerInit(1).entries = {}
  BY EmptyTracker
<1>2. /\ e.state = "IDLE" /\ e.busy = FALSE /\ e.flushRequested = FALSE
      /\ e.flushCompleted = FALSE /\ e.incomplete = FALSE /\ e.image = <<>> /\ e.pointer = 1
      /\ e.chunk = 0 /\ e.epoch = 0 /\ e.slots = EmptySlots /\ e.sequence = 0 /\ e.op = NoOp
      /\ e.opSequence = 0 /\ e.bgaGeneration = 0 /\ e.targetGeneration = 0
      /\ e.nextBatch = 1 /\ e.accepted = 0 /\ e.tracker = Tracker!TrackerInit(1)
      /\ DOMAIN e = EngineFields
  BY DEF EngineInit, EngineFields
<1> HIDE DEF e
<1>3. EngineTyped(e)
  <2>1. {e.busy, e.flushRequested, e.flushCompleted, e.incomplete} \subseteq BOOLEAN BY <1>2
  <2>2. {e.chunk, e.epoch, e.opSequence, e.bgaGeneration, e.targetGeneration, e.accepted} \subseteq Nat
    BY <1>2
  <2> QED BY <1>2, <2>1, <2>2 DEF EngineTyped, EngineStates
<1>4. WalkSound(e, c) BY <1>2 DEF WalkSound, Walking, Requesting, Staged
<1>5. SlotsTyped(e.slots) BY <1>2 DEF SlotsTyped, EmptySlots, NoSlot, Phases
<1>6. EntriesInSlots(e.slots, e.tracker) /\ SlotsFit(e.state, e.slots, e.tracker)
  BY <1>1, <1>2 DEF EntriesInSlots, SlotsFit, Requesting, Staged
<1>7. AcceptedBy(e.tracker) = {} BY <1>1, <1>2 DEF AcceptedBy, Tracker!Entries
<1> QED BY <1>1, <1>2, <1>3, <1>4, <1>5, <1>6, <1>7 DEF EngineInv, e

\* reset, which the host may call when nothing is accepted.
LEMMA ResetGoes ==
  ASSUME NEW e, NEW bg, NEW c, EngineInv(e, bg, c)
  PROVE  LET t == ResetEngine(e)
         IN  /\ EngineInv(t, bg, c) /\ AcceptedBy(t.tracker) = {}
             /\ t.state = "IDLE" /\ t.op = NoOp /\ t.incomplete = FALSE
             /\ t.tracker.generation = e.tracker.generation
             /\ t.image = e.image /\ t.batch = NoBatch
<1> DEFINE u == Tracker!Reset(e.tracker, 0)
           t == [e EXCEPT !.state = "IDLE", !.busy = FALSE,
                          !.flushRequested = FALSE, !.flushCompleted = FALSE, !.incomplete = FALSE,
                          !.slots = EmptySlots, !.op = NoOp, !.tracker = u,
                          !.bgaGeneration = 0, !.targetGeneration = 0, !.batch = NoBatch,
                          !.nextBatch = 1, !.accepted = 0, !.submitDone = FALSE]
<1>0. EngineTyped(e) /\ WalkSound(e, c) /\ ResetEngine(e) = t BY DEF EngineInv, ResetEngine
<1>1. /\ TrackerSound(u, bg, e.sequence) /\ DOMAIN u.entries = {}
      /\ u.generation = e.tracker.generation
  BY ResetSound DEF EngineInv
<1> HIDE DEF u
<1>2. /\ t.state = "IDLE" /\ t.busy = FALSE /\ t.flushRequested = FALSE
      /\ t.flushCompleted = FALSE /\ t.incomplete = FALSE /\ t.image = e.image /\ t.pointer = e.pointer
      /\ t.chunk = e.chunk /\ t.epoch = e.epoch /\ t.slots = EmptySlots /\ t.sequence = e.sequence
      /\ t.op = NoOp /\ t.opSequence = e.opSequence /\ t.bgaGeneration = 0 /\ t.targetGeneration = 0
      /\ t.nextBatch = 1 /\ t.accepted = 0 /\ t.tracker = u /\ t.batch = NoBatch
      /\ DOMAIN t = EngineFields
  BY <1>0 DEF EngineTyped, EngineInit, EngineFields
<1> HIDE DEF t
<1>3. EngineTyped(t)
  <2>1. {t.busy, t.flushRequested, t.flushCompleted, t.incomplete} \subseteq BOOLEAN BY <1>2
  <2>2. {t.chunk, t.epoch, t.opSequence, t.bgaGeneration, t.targetGeneration, t.accepted} \subseteq Nat
    BY <1>0, <1>2 DEF EngineTyped
  <2> QED BY <1>2, <2>1, <2>2 DEF EngineTyped, EngineStates
<1>4. WalkSound(t, c) BY <1>0, <1>2 DEF WalkSound, Walking, Requesting, Staged
<1>5. SlotsTyped(t.slots) BY <1>2 DEF SlotsTyped, EmptySlots, NoSlot, Phases
<1>6. EntriesInSlots(t.slots, t.tracker) /\ SlotsFit(t.state, t.slots, t.tracker)
  BY <1>1, <1>2 DEF EntriesInSlots, SlotsFit, Requesting, Staged
<1>7. AcceptedBy(t.tracker) = {} BY <1>1, <1>2 DEF AcceptedBy, Tracker!Entries
<1> QED BY <1>0, <1>1, <1>2, <1>3, <1>4, <1>5, <1>6, <1>7 DEF EngineInv

\* The descriptors of a bank group that the host may launch.
Launchable(image, consumer) ==
  /\ image \in Seq([rows : Seq(Seq(Nat)), valid : BOOLEAN, xStays : BOOLEAN])
  /\ \A k \in DOMAIN image : WellFormedFor(consumer, image[k])

\* What launch leaves of an engine.
Launched(e, t, image, g) ==
  /\ AcceptedBy(t.tracker) = {}
  /\ t.state \in {"FETCH_DESCRIPTOR", "COMPLETE_PRODUCER", "DONE"} /\ t.op = NoOp
  /\ t.batch = NoBatch /\ t.nextBatch = 1 /\ t.accepted = 0 /\ t.bgaGeneration = g
  /\ t.image = image /\ t.incomplete = FALSE
  /\ t.tracker.generation = e.tracker.generation /\ t.tracker.abandoned = 0

\* launch.
LEMMA LaunchGoes ==
  ASSUME NEW e, NEW bg, NEW c, EngineInv(e, bg, c), NEW image, Launchable(image, c), NEW g \in Nat
  PROVE  LET t == LaunchEngine(e, image, g)
         IN  EngineInv(t, bg, c) /\ Launched(e, t, image, g)
<1> DEFINE u == Tracker!Reset(e.tracker, 0)
           s == IF image # <<>> THEN "FETCH_DESCRIPTOR"
                ELSE IF g # 0 THEN "COMPLETE_PRODUCER" ELSE "DONE"
           t == [EngineInit EXCEPT !.state = s, !.busy = (image # <<>> \/ g # 0),
                                   !.image = image, !.bgaGeneration = g, !.tracker = u]
<1>0. LaunchEngine(e, image, g) = t BY DEF LaunchEngine
<1>1. /\ TrackerSound(u, bg, 0) /\ DOMAIN u.entries = {}
      /\ u.generation = e.tracker.generation /\ u.abandoned = 0
  BY ResetSound DEF EngineInv
<1> HIDE DEF u
<1>2. /\ t.state = s /\ t.busy = (image # <<>> \/ g # 0) /\ t.flushRequested = FALSE
      /\ t.flushCompleted = FALSE /\ t.incomplete = FALSE /\ t.image = image /\ t.pointer = 1
      /\ t.chunk = 0 /\ t.epoch = 0 /\ t.slots = EmptySlots /\ t.sequence = 0 /\ t.op = NoOp
      /\ t.opSequence = 0 /\ t.bgaGeneration = g /\ t.targetGeneration = 0
      /\ t.nextBatch = 1 /\ t.accepted = 0 /\ t.tracker = u /\ t.batch = NoBatch
      /\ DOMAIN t = EngineFields
  BY DEF EngineInit, EngineFields
<1>3. /\ s \in {"FETCH_DESCRIPTOR", "COMPLETE_PRODUCER", "DONE"}
      /\ s = "FETCH_DESCRIPTOR" <=> image # <<>>
      /\ t.busy \in BOOLEAN /\ (t.busy <=> s # "DONE")
  BY <1>2
<1> HIDE DEF t, s
<1>4. EngineTyped(t)
  <2>1. {t.busy, t.flushRequested, t.flushCompleted, t.incomplete} \subseteq BOOLEAN
    BY <1>2, <1>3
  <2>2. {t.chunk, t.epoch, t.opSequence, t.bgaGeneration, t.targetGeneration, t.accepted} \subseteq Nat
    BY <1>2
  <2> QED BY <1>2, <1>3, <2>1, <2>2 DEF EngineTyped, EngineStates
<1>5. WalkSound(t, c)
  <2>1. Len(image) \in Nat /\ (image # <<>> => 1 <= Len(image))
    <3> DEFINE S == [rows : Seq(Seq(Nat)), valid : BOOLEAN, xStays : BOOLEAN]
    <3>1. image \in Seq(S) BY DEF Launchable
    <3> HIDE DEF S
    <3> QED BY <3>1
  <2> QED BY <1>2, <1>3, <2>1 DEF Launchable, WalkSound, Walking, Requesting, Staged
<1>6. SlotsTyped(t.slots) BY <1>2 DEF SlotsTyped, EmptySlots, NoSlot, Phases
<1>7. EntriesInSlots(t.slots, t.tracker) /\ SlotsFit(t.state, t.slots, t.tracker)
  BY <1>1, <1>2, <1>3 DEF EntriesInSlots, SlotsFit, Requesting, Staged
<1>8. AcceptedBy(t.tracker) = {} BY <1>1, <1>2 DEF AcceptedBy, Tracker!Entries
<1> QED BY <1>0, <1>1, <1>2, <1>3, <1>4, <1>5, <1>6, <1>7, <1>8 DEF EngineInv, Launched

\* flush.
LEMMA FlushGoes ==
  ASSUME NEW e, NEW bg, NEW c, EngineInv(e, bg, c)
  PROVE  LET t == Flush(e)
         IN  /\ Goes(e, t, bg, c) /\ SameBatches(e, t) /\ SameReads(e, t) /\ Quiet(e, t)
             /\ t.state \in {e.state, "FLUSHING"} /\ t.incomplete = e.incomplete
             /\ t.state = "FLUSHING" => e.state \in {"IDLE", "DONE", "FLUSHING"}
             /\ e.state = "IDLE" => t.state = "FLUSHING"
             /\ t.tracker = e.tracker
<1> DEFINE again == [e EXCEPT !.flushRequested = TRUE, !.flushCompleted = FALSE,
                              !.busy = TRUE, !.state = "FLUSHING"]
           asked == [e EXCEPT !.flushRequested = TRUE]
<1>0. EngineTyped(e) BY DEF EngineInv
<1>1. \/ Flush(e) = e /\ e.state \in {"DONE", "ERROR"}
      \/ Flush(e) = again /\ e.state \in {"IDLE", "DONE"}
      \/ Flush(e) = asked /\ e.state # "IDLE"
  BY DEF Flush, HasFailed
<1>2. ASSUME NEW t, (t = again /\ e.state \in {"IDLE", "DONE"}) \/ (t = asked /\ e.state # "IDLE")
      PROVE  /\ Same(e, t, {"flushRequested", "flushCompleted", "busy", "state"})
             /\ t.flushRequested = TRUE /\ t.flushCompleted \in BOOLEAN /\ t.incomplete = e.incomplete
             /\ t.state \in {e.state, "FLUSHING"} /\ t.op = e.op
             /\ e.state = "IDLE" => t.state = "FLUSHING"
             /\ t.state = "FLUSHING" => e.state \in {"IDLE", "DONE", "FLUSHING"}
             /\ t.busy = (IF t.state = e.state THEN e.busy ELSE TRUE)
             /\ SameBatches(e, t) /\ t.tracker = e.tracker
  <2>1. CASE t = again /\ e.state \in {"IDLE", "DONE"}
    BY <1>0, <2>1 DEF EngineTyped, Same, EngineFields, EngineInit, SameBatches
  <2>2. CASE t = asked /\ e.state # "IDLE"
    BY <1>0, <2>2 DEF EngineTyped, Same, EngineFields, EngineInit, SameBatches
  <2> QED BY <1>2, <2>1, <2>2
<1>3. ASSUME NEW t, (t = again /\ e.state \in {"IDLE", "DONE"}) \/ (t = asked /\ e.state # "IDLE")
      PROVE  Goes(e, t, bg, c) /\ SameReads(e, t) /\ Quiet(e, t)
  <2>1. EngineTyped(t)
    BY <1>2, <1>3, <1>0, TypedFields DEF Same, EngineTyped, EngineStates
  <2>2. Same(e, t, ProgressFields) BY <1>2, <1>3 DEF Same, ProgressFields
  <2>3. /\ t.state \in {e.state, "FLUSHING"}
        /\ "FLUSHING" \in Over /\ "FLUSHING" \notin Walking /\ "FLUSHING" \notin Waits
        /\ "FLUSHING" \notin Requesting /\ "FLUSHING" \notin Staged
        /\ \A s \in Waits : s \notin {"IDLE", "DONE", "FLUSHING"}
        /\ t.op = e.op /\ (t.state = "FLUSHING" => e.state \in {"IDLE", "DONE", "FLUSHING"})
    BY <1>2, <1>3 DEF Over, Walking, Requesting, Staged, Waits
  <2>4. e.state \in Staged => \A kind \in KindSet : e.slots[kind].phase = "ready"
    BY DEF EngineInv, SlotsFit
  <2>5. Goes(e, t, bg, c) /\ SameReads(e, t) BY <2>1, <2>2, <2>3, <2>4, ProgressGoes
  <2> QED BY <2>3, <2>5 DEF Quiet
<1> DEFINE Proper(t) ==
             /\ Goes(e, t, bg, c) /\ SameBatches(e, t) /\ SameReads(e, t) /\ Quiet(e, t)
             /\ t.state \in {e.state, "FLUSHING"} /\ t.incomplete = e.incomplete
             /\ t.state = "FLUSHING" => e.state \in {"IDLE", "DONE", "FLUSHING"}
             /\ e.state = "IDLE" => t.state = "FLUSHING"
             /\ t.tracker = e.tracker
<1>4. ASSUME NEW t, (t = again /\ e.state \in {"IDLE", "DONE"}) \/ (t = asked /\ e.state # "IDLE")
      PROVE  Proper(t)
  BY <1>2, <1>3, <1>4
<1>5. e.state \in {"DONE", "ERROR"} => Proper(e) BY GoesOn
<1> HIDE DEF Proper, again, asked
<1>6. e.state \in {"IDLE", "DONE"} => Proper(again) BY <1>4
<1>7. e.state # "IDLE" => Proper(asked) BY <1>4
<1>8. Proper(Flush(e)) BY <1>1, <1>5, <1>6, <1>7
<1> QED BY <1>8 DEF Proper

\* flushIncomplete: what is granted is waited for, and only that.
LEMMA IncompleteGoes ==
  ASSUME NEW e, NEW bg, NEW c, EngineInv(e, bg, c)
  PROVE  LET t == FlushIncomplete(e)
         IN  /\ Goes(e, t, bg, c) /\ SameBatches(e, t) /\ SameReads(e, t)
             /\ t.op = e.op /\ t.state \in {e.state, "FLUSHING"}
             /\ e.state = "WAIT_TARGET_COMPLETION" => t.state = e.state
             /\ t.state \in Waits => t.state = "WAIT_TARGET_COMPLETION"
             /\ e.state = "ERROR" => t.state = "ERROR"
             /\ t.state \in Over \cup Waits /\ t.image = e.image
             /\ t.tracker.generation = e.tracker.generation
             /\ ~Terminal(e) => t.incomplete
<1> DEFINE u == Tracker!AbandonWaiting(e.tracker)
           s == IF e.state = "WAIT_TARGET_COMPLETION" THEN e.state ELSE "FLUSHING"
           t == [e EXCEPT !.flushRequested = TRUE, !.incomplete = TRUE, !.busy = TRUE,
                          !.state = s, !.tracker = u]
<1>0. EngineTyped(e) BY DEF EngineInv
<1>1. CASE Terminal(e) BY <1>1, GoesOn DEF FlushIncomplete, Terminal, Waits, Over
<1>2. CASE ~Terminal(e)
  <2>1. FlushIncomplete(e) = t BY <1>2 DEF FlushIncomplete
  <2>2. /\ TrackerSound(u, bg, e.sequence)
        /\ Keeps(e.tracker, u, Waiting(e.tracker))
        /\ u.generation = e.tracker.generation
        /\ AcceptedBy(u) = AcceptedBy(e.tracker)
    BY AbandonSound DEF EngineInv
  <2>3. /\ s \in {"WAIT_TARGET_COMPLETION", "FLUSHING"} /\ s \in {e.state, "FLUSHING"}
        /\ (s = "WAIT_TARGET_COMPLETION" <=> e.state = "WAIT_TARGET_COMPLETION")
    OBVIOUS
  <2> HIDE DEF u, s
  <2>4. /\ Same(e, t, {"flushRequested", "incomplete", "busy", "state", "tracker"})
        /\ t.flushRequested = TRUE /\ t.incomplete = TRUE /\ t.busy = TRUE /\ t.state = s
        /\ t.tracker = u /\ SameBatches(e, t) /\ t.op = e.op /\ t.flushCompleted = e.flushCompleted
        /\ t.slots = e.slots /\ t.sequence = e.sequence /\ t.image = e.image
        /\ t.pointer = e.pointer /\ t.chunk = e.chunk
    BY <1>0 DEF EngineTyped, Same, EngineFields, EngineInit, SameBatches
  <2> HIDE DEF t
  <2>5. EngineTyped(t)
    <3>1. Same(e, t, {"state", "busy", "flushRequested", "flushCompleted", "incomplete",
                     "submitDone", "batch", "tracker", "slots", "sequence", "image", "pointer"})
      BY <2>4 DEF Same
    <3>2. t.state \in EngineStates \ {"IDLE", "DONE", "ERROR"} /\ t.flushCompleted \in BOOLEAN
      BY <1>0, <2>3, <2>4 DEF EngineTyped, EngineStates
    <3> QED BY <1>0, <2>4, <3>1, <3>2, TypedFields
  <2>6. WalkSound(t, c)
    BY <2>3, <2>4 DEF EngineInv, WalkSound, Current, Walking, Requesting, Staged
  <2>7. EntriesInSlots(t.slots, t.tracker) BY <2>2, <2>4 DEF EngineInv, EntriesInSlots, Keeps
  <2>8. SlotsFit(t.state, t.slots, t.tracker)
    BY <2>3, <2>4 DEF EngineInv, SlotsFit, Requesting, Staged
  <2>9. Goes(e, t, bg, c)
    BY <2>2, <2>4, <2>5, <2>6, <2>7, <2>8, <2>3 DEF EngineInv, Goes, Walking, Requesting,
      Staged, Over
  <2> QED BY <1>2, <2>1, <2>2, <2>3, <2>4, <2>9 DEF SameReads, Waits, Over, Terminal
<1> QED BY <1>1, <1>2

-----------------------------------------------------------------------------
(* Domains, and the reads in flight                                        *)

ExecFields == DOMAIN ExecInit

\* The execution's own fields.
ExecTyped(x) ==
  /\ DOMAIN x = ExecFields
  /\ {x.launched, x.failed, x.threw, x.flushRequested, x.flushCompleted} \subseteq BOOLEAN
  /\ x.status \in [LocalBGs -> {"RUNNING", "INCOMPLETE_FLUSHED"}]

OutputTyped(o) == DOMAIN o = DOMAIN OutputInit /\ o.cursor \in LocalBGs

\* The engines are sound, the reads they wait for are the execution's, nothing walks
\* before the first launch, and where nothing was launched nothing is under way.
ReadsInv ==
  /\ policy \in Policies /\ turn \in 0 .. Idle
  /\ ExecTyped(exec) /\ exec.generation \in 0 .. Len(Images[policy])
  /\ engines = [bg \in LocalBGs |-> engines[bg]]
  /\ \A bg \in LocalBGs :
       /\ EngineInv(engines[bg], bg, policy.consumer)
       /\ Len(engines[bg].batch.rows) \in Nat
       /\ engines[bg].state \in Walking => exec.generation # 0
  /\ exec.outstanding = UNION {AcceptedBy(engines[bg].tracker) : bg \in LocalBGs}
  /\ ~exec.launched => /\ turn = Idle /\ exec.work = NoWork
                       /\ \A bg \in LocalBGs : engines[bg].state = "IDLE"
  /\ OutputTyped(output) /\ output.valid \in 0 .. exec.generation

\* What the accepted reads say of their owner.
LEMMA AcceptedOwner ==
  ASSUME NEW e, NEW bg, NEW c, EngineInv(e, bg, c), NEW x \in AcceptedBy(e.tracker)
  PROVE  /\ Owner(x) = bg /\ x.kind \in KindSet
         /\ e.slots[x.kind] = [phase |-> "accepted", token |-> x]
<1>1. /\ x \in DOMAIN e.tracker.entries /\ e.tracker.entries[x] = "ACCEPTED"
      /\ TokenOf(x, bg, e.sequence)
  BY DEF AcceptedBy, Tracker!Entries, EngineInv, TrackerSound
<1>2. x.kind \in KindSet /\ x.id = <<x.id[1], bg, x.id[3]>> BY <1>1 DEF TokenOf
<1>3. e.slots[x.kind].token = x /\ e.slots[x.kind].phase = "accepted"
  BY <1>1 DEF EngineInv, EntriesInSlots
<1>4. e.slots[x.kind] = [phase |-> e.slots[x.kind].phase, token |-> e.slots[x.kind].token]
  BY <1>2 DEF EngineInv, SlotsTyped
<1>5. Owner(x) = bg
  BY <1>2 DEF Owner
<1> QED BY <1>2, <1>3, <1>4, <1>5

\* ReadsInv gives the domains and the reads of SafeState.
LEMMA ReadsInvAgrees ==
  ASSUME ReadsInv
  PROVE  TypeOK /\ ReadsAgree
<1>1. ASSUME NEW token \in exec.outstanding
      PROVE  /\ Owner(token) \in LocalBGs
             /\ engines[Owner(token)].slots[token.kind] = [phase |-> "accepted", token |-> token]
  <2>1. PICK bg \in LocalBGs : token \in AcceptedBy(engines[bg].tracker) BY DEF ReadsInv
  <2> QED BY <2>1, AcceptedOwner DEF ReadsInv
<1>2. ASSUME NEW bg \in LocalBGs
      PROVE  LET e == engines[bg]
             IN  /\ e.state \in EngineStates
                 /\ {e.busy, e.flushRequested, e.flushCompleted, e.incomplete} \subseteq BOOLEAN
                 /\ e.pointer \in 1 .. Len(e.image) + 1
                 /\ e.op # NoOp => e.op.id \in 1 .. e.opSequence
                 /\ \A kind \in KindSet :
                      e.slots[kind].phase \in {"empty", "created", "accepted", "ready"}
  BY DEF ReadsInv, EngineInv, EngineTyped, WalkSound, SlotsTyped, Phases
<1>3. TypeOK BY <1>1, <1>2 DEF ReadsInv, TypeOK, ExecTyped, OutputTyped
<1> QED BY <1>1, <1>3 DEF ReadsInv, AcceptedBy, ReadsAgree

\* An engine's turn, when its reads and the execution's change together.
LEMMA TurnKeepsReads ==
  ASSUME ReadsInv, NEW bg \in LocalBGs, NEW t, NEW X,
         engines' = [engines EXCEPT ![bg] = t],
         Goes(engines[bg], t, bg, policy.consumer), Len(t.batch.rows) \in Nat,
         AcceptedBy(t.tracker) = AcceptedBy(engines[bg].tracker) \cup X,
         exec'.outstanding = exec.outstanding \cup X,
         ExecTyped(exec'), exec'.generation = exec.generation, exec'.launched, exec.launched,
         policy' = policy, turn' \in 0 .. Idle, output' = output
  PROVE  ReadsInv'
<1>1. /\ DOMAIN engines' = LocalBGs /\ engines'[bg] = t
      /\ \A b \in LocalBGs \ {bg} : engines'[b] = engines[b]
      /\ engines' = [b \in LocalBGs |-> engines'[b]]
  BY DEF ReadsInv
<1>2. ASSUME NEW b \in LocalBGs
      PROVE  /\ EngineInv(engines'[b], b, policy'.consumer)
             /\ Len(engines'[b].batch.rows) \in Nat
             /\ engines'[b].state \in Walking => exec'.generation # 0
  BY <1>1 DEF ReadsInv, Goes
<1>3. exec'.outstanding = UNION {AcceptedBy(engines'[b].tracker) : b \in LocalBGs}
  <2>1. exec.outstanding = UNION {AcceptedBy(engines[b].tracker) : b \in LocalBGs}
    BY DEF ReadsInv
  <2>2. ASSUME NEW x
        PROVE  x \in exec'.outstanding <=> \E b \in LocalBGs : x \in AcceptedBy(engines'[b].tracker)
    BY <2>1, <1>1
  <2> QED BY <2>2
<1> QED BY <1>1, <1>2, <1>3 DEF ReadsInv

-----------------------------------------------------------------------------
(* The turn of an engine, state by state                                   *)

LEMMA TickCases ==
  ASSUME NEW bg \in LocalBGs, NEW accepted, TickEngineAndBGA(bg, accepted),
         engines[bg].state \in EngineStates \ {"IDLE", "DONE", "ERROR"}
  PROVE  LET state == engines[bg].state
         IN  \/ state \in Requesting /\ RequestOperand(bg, accepted) /\ UNCHANGED accumulators
             \/ state = "SIMD_MUL" /\ SubmitTarget(bg) /\ UNCHANGED accumulators
             \/ state = "WAIT_TARGET_GRANT" /\ AskGrant(bg) /\ UNCHANGED accumulators
             \/ state = "WAIT_TARGET_COMPLETION" /\ PollTarget(bg) /\ UNCHANGED accumulators
             \/ state = "EMIT_PARTIALS" /\ ~Enabled /\ Emit(bg) /\ UNCHANGED accumulators
             \/ state = "EMIT_PARTIALS" /\ Enabled /\ SubmitBatch(bg)
             \/ state = "COMPLETE_PRODUCER" /\ EndBankGroup(bg)
             \/ /\ state \in {"FETCH_DESCRIPTOR", "ADVANCE_CHUNK", "NEXT_DESCRIPTOR", "FLUSHING"}
                /\ Step(bg, LocalStep(bg)) /\ UNCHANGED accumulators
<1> DEFINE state == engines[bg].state
<1>1. CASE state \in {"EMIT_PARTIALS", "COMPLETE_PRODUCER"}
  BY <1>1 DEF TickEngineAndBGA, TickEngine, Requesting
<1>2. CASE state \notin {"EMIT_PARTIALS", "COMPLETE_PRODUCER"}
  <2>1. TickEngine(bg, accepted) /\ UNCHANGED accumulators BY <1>2 DEF TickEngineAndBGA
  <2>2. CASE state \in Requesting BY <2>1, <2>2 DEF TickEngine, Requesting
  <2>3. CASE state \in {"SIMD_MUL", "WAIT_TARGET_GRANT", "WAIT_TARGET_COMPLETION"}
    BY <2>1, <2>3 DEF TickEngine, Requesting
  <2>4. CASE state \in {"FETCH_DESCRIPTOR", "ADVANCE_CHUNK", "NEXT_DESCRIPTOR", "FLUSHING"}
    BY <2>1, <2>4 DEF TickEngine, Requesting
  <2> QED BY <1>2, <2>2, <2>3, <2>4 DEF EngineStates, Requesting
<1> QED BY <1>1, <1>2

\* The states whose work involves nobody else.
LEMMA LocalGoes ==
  ASSUME ReadsInv, NEW bg \in LocalBGs,
         engines[bg].state \in {"FETCH_DESCRIPTOR", "ADVANCE_CHUNK", "NEXT_DESCRIPTOR", "FLUSHING"}
  PROVE  LET e == engines[bg]
             t == LocalStep(bg)
         IN  /\ Goes(e, t, bg, policy.consumer) /\ SameBatches(e, t) /\ SameReads(e, t) /\ Quiet(e, t)
             /\ t.state = "ERROR" => \/ e.state = "FETCH_DESCRIPTOR" /\ ~Current(e).valid
                                     \/ e.state = "NEXT_DESCRIPTOR" /\ e.tracker.abandoned # 0
<1> DEFINE e == engines[bg]
           g == exec.generation
<1>0. EngineInv(e, bg, policy.consumer) /\ (e.state \in Walking => g # 0) BY DEF ReadsInv
<1>1. g \in Nat
  BY DEF ReadsInv
<1>2. CASE e.state = "FETCH_DESCRIPTOR"
  <2>1. LocalStep(bg) = FetchDescriptor(e, bg, g) BY <1>2 DEF LocalStep
  <2>2. g \in Nat \ {0} BY <1>0, <1>1, <1>2 DEF Walking
  <2> HIDE DEF g
  <2> QED BY <1>0, <1>2, <2>1, <2>2, FetchGoes
<1>3. CASE e.state = "ADVANCE_CHUNK"
  <2>1. LocalStep(bg) = AdvanceChunk(e, bg, g) BY <1>3 DEF LocalStep
  <2>2. g \in Nat \ {0} BY <1>0, <1>1, <1>3 DEF Walking, Staged
  <2> HIDE DEF g
  <2> QED BY <1>0, <1>3, <2>1, <2>2, AdvanceGoes
<1>4. CASE e.state = "NEXT_DESCRIPTOR"
  BY <1>4, <1>0, NextGoes DEF LocalStep
<1>5. CASE e.state = "FLUSHING"
  BY <1>5, <1>0, FlushingGoes DEF LocalStep
<1> QED BY <1>2, <1>3, <1>4, <1>5

\* What a tick() leaves alone of the execution's fields.
ExecStays(x, y) ==
  /\ ExecTyped(y) /\ y.generation = x.generation /\ y.launched = x.launched
  /\ y.work = x.work /\ y.status = x.status

\* The ways in which an engine's turn changes them.
LEMMA ExecNames ==
  ASSUME NEW x, ExecTyped(x)
  PROVE  /\ DOMAIN x = ExecFields /\ x.failed \in BOOLEAN /\ x.threw \in BOOLEAN
         /\ \A f \in {"launched", "failed", "threw", "flushRequested", "flushCompleted", "status",
                      "generation", "work", "outstanding", "emitted"} : f \in DOMAIN x
BY DEF ExecTyped, ExecFields, ExecInit

\* What latching a failure leaves of the execution.
LEMMA FailedExec ==
  ASSUME NEW x, ExecTyped(x)
  PROVE  LET y == [x EXCEPT !.failed = TRUE]
         IN  ExecStays(x, y) /\ y.outstanding = x.outstanding /\ y.failed = TRUE /\ y.threw = x.threw
BY ExecNames DEF ExecTyped, ExecStays

\* What an exception that leaves tick() leaves of it.
LEMMA ThrewExec ==
  ASSUME NEW x, ExecTyped(x)
  PROVE  LET y == [x EXCEPT !.threw = TRUE]
         IN  ExecStays(x, y) /\ y.outstanding = x.outstanding /\ y.threw = TRUE /\ y.failed = x.failed
BY ExecNames DEF ExecTyped, ExecStays

\* What a change of the outstanding reads leaves of it.
LEMMA OutstandingExec ==
  ASSUME NEW x, ExecTyped(x), NEW S
  PROVE  LET y == [x EXCEPT !.outstanding = S]
         IN  ExecStays(x, y) /\ y.outstanding = S /\ y.failed = x.failed /\ y.threw = x.threw
BY ExecNames DEF ExecTyped, ExecStays

\* What a chunk that is handed on leaves of it.
LEMMA EmittedExec ==
  ASSUME NEW x, ExecTyped(x), NEW bg
  PROVE  LET y == Emitted(x, bg)
         IN  /\ ExecStays(x, y) /\ y.outstanding = x.outstanding
             /\ y.failed = x.failed /\ y.threw = x.threw
BY ExecNames DEF ExecTyped, ExecStays, Emitted

\* What the state of an engine, latched when it failed, leaves of it.
LEMMA LatchedExec ==
  ASSUME NEW x, ExecTyped(x), NEW e
  PROVE  LET y == Latched(x, e)
         IN  /\ ExecStays(x, y) /\ y.outstanding = x.outstanding /\ y.threw = x.threw
             /\ y.failed = (x.failed \/ HasFailed(e))
<1>1. CASE HasFailed(e)
  <2> DEFINE y == [x EXCEPT !.failed = TRUE]
  <2>1. Latched(x, e) = y BY <1>1 DEF Latched
  <2>2. ExecStays(x, y) /\ y.outstanding = x.outstanding /\ y.failed = TRUE /\ y.threw = x.threw
    BY FailedExec
  <2> HIDE DEF y
  <2>3. (x.failed \/ HasFailed(e)) = TRUE BY <1>1
  <2> QED BY <2>1, <2>2, <2>3
<1>2. CASE ~HasFailed(e) BY <1>2, ExecNames DEF Latched, ExecStays
<1> QED BY <1>1, <1>2

\* The batch an engine offers, and what becomes of the engine.
LEMMA OfferGoes ==
  ASSUME NEW e, NEW bg, NEW c, EngineInv(e, bg, c), e.state = "EMIT_PARTIALS",
         Len(e.batch.rows) \in Nat, NEW answer, NEW limit
  PROVE  LET built == BuildBatch(e, limit)
             t == BatchAnswered(built, answer)
         IN  /\ Goes(e, built, bg, c) /\ SameReads(e, built) /\ Quiet(e, built)
             /\ Len(built.batch.rows) \in Nat
             /\ built.state # "ERROR" =>
                  /\ built.state = "EMIT_PARTIALS"
                  /\ Goes(e, t, bg, c) /\ SameReads(e, t) /\ Quiet(e, t)
                  /\ Len(t.batch.rows) \in Nat
<1> DEFINE built == BuildBatch(e, limit)
           t == BatchAnswered(built, answer)
<1>1. /\ Goes(e, built, bg, c) /\ SameReads(e, built) /\ Quiet(e, built)
      /\ \/ built = e /\ e.batch # NoBatch
         \/ built = FailEngine(e)
         \/ /\ Same(e, built, {"batch"}) /\ e.batch = NoBatch
            /\ built.batch = [stream |-> 0, generation |-> e.bgaGeneration,
                              sequence |-> e.nextBatch, rows |-> Current(e).rows[e.chunk + 1]]
            /\ \A i \in DOMAIN built.batch.rows : built.batch.rows[i] < limit
  BY BatchGoes
<1> HIDE DEF built
<1>2. Len(built.batch.rows) \in Nat
  <2>1. CASE built = e BY <2>1
  <2>2. CASE built = FailEngine(e) BY <2>2, FailGoes DEF SameBatches
  <2>3. CASE built.batch = [stream |-> 0, generation |-> e.bgaGeneration,
                            sequence |-> e.nextBatch, rows |-> Current(e).rows[e.chunk + 1]]
    <3> DEFINE D == [rows : Seq(Seq(Nat)), valid : BOOLEAN, xStays : BOOLEAN]
    <3>1. /\ e.image \in Seq(D) /\ e.pointer \in 1 .. Len(e.image) + 1 /\ e.pointer <= Len(e.image)
          /\ e.chunk < Len(Current(e).rows) /\ e.chunk \in Nat
      BY DEF EngineInv, WalkSound, EngineTyped, Walking, Staged
    <3>2. Len(e.image) \in Nat /\ e.pointer \in 1 .. Len(e.image)
      <4> HIDE DEF D
      <4> QED BY <3>1
    <3>3. e.image[e.pointer] \in D
      <4> HIDE DEF D
      <4> QED BY <3>1, <3>2
    <3>4. Current(e).rows \in Seq(Seq(Nat)) BY <3>3 DEF Current
    <3>5. Current(e).rows[e.chunk + 1] \in Seq(Nat) BY <3>1, <3>4
    <3> QED BY <2>3, <3>5
  <2> QED BY <1>1, <2>1, <2>2, <2>3
<1>3. ASSUME built.state # "ERROR"
      PROVE  /\ built.state = "EMIT_PARTIALS"
             /\ Goes(e, t, bg, c) /\ SameReads(e, t) /\ Quiet(e, t)
             /\ Len(t.batch.rows) \in Nat
  <2>1. EngineInv(built, bg, c) /\ built.state = "EMIT_PARTIALS"
    BY <1>1, <1>3, FailGoes DEF Goes, Same, EngineFields, EngineInit
  <2>2. /\ Goes(built, t, bg, c) /\ SameReads(built, t) /\ Quiet(built, t)
        /\ answer = "ACCEPTED" => t.batch = NoBatch
        /\ answer # "ACCEPTED" => SameBatches(built, t)
    BY <1>2, <2>1, AnswerGoes
  <2>3. Len(t.batch.rows) \in Nat
    BY <1>2, <2>2 DEF NoBatch, SameBatches
  <2> QED BY <1>1, <2>1, <2>2, <2>3, GoesChain DEF SameReads, Quiet, Waits
<1> QED BY <1>1, <1>2, <1>3 DEF built

\* One pass of the loop over the engines.
LEMMA VisitReads ==
  ASSUME ReadsInv, NEW accepted \in BOOLEAN, Visit(accepted)
  PROVE  ReadsInv' /\ ExecStays(exec, exec')
<1> DEFINE e == engines[turn]
           c == policy.consumer
<1>1. /\ turn \in LocalBGs /\ turn # Idle /\ turn' \in 0 .. Idle
      /\ policy' = policy /\ output' = output
  BY IntegrationAssumption, TurnNumbers DEF Visit, ReadsInv
<1>2. /\ exec.launched = TRUE /\ ExecTyped(exec)
      /\ EngineInv(e, turn, c) /\ Len(e.batch.rows) \in Nat
  BY <1>1 DEF ReadsInv, ExecTyped
<1>3. engines = [engines EXCEPT ![turn] = e] BY <1>1 DEF ReadsInv
<1> DEFINE Turn(t, X) ==
             /\ engines' = [engines EXCEPT ![turn] = t]
             /\ Goes(e, t, turn, c) /\ Len(t.batch.rows) \in Nat
             /\ AcceptedBy(t.tracker) = AcceptedBy(e.tracker) \cup X
             /\ ExecStays(exec, exec') /\ exec'.outstanding = exec.outstanding \cup X
<1>4. ASSUME NEW t, NEW X, Turn(t, X)
      PROVE  ReadsInv' /\ ExecStays(exec, exec')
  BY <1>1, <1>2, <1>4, TurnKeepsReads DEF ExecStays
<1>5. ASSUME NEW t, engines' = [engines EXCEPT ![turn] = t], Goes(e, t, turn, c),
             Len(t.batch.rows) \in Nat, SameReads(e, t),
             ExecStays(exec, exec'), exec'.outstanding = exec.outstanding
      PROVE  ReadsInv' /\ ExecStays(exec, exec')
  <2>1. Turn(t, {}) BY <1>5 DEF SameReads
  <2> HIDE DEF Turn
  <2> QED BY <1>4, <2>1
<1> HIDE DEF Turn
<1>6. CASE exec' = Latched(exec, e) /\ UNCHANGED engines
  BY <1>2, <1>6, LatchedExec, <1>3, GoesOn, <1>5
<1>7. CASE e.busy /\ TickEngineAndBGA(turn, accepted) /\ (accepted => MaySubmit(turn))
  <2>0. e.state \in EngineStates \ {"IDLE", "DONE", "ERROR"}
    BY <1>2, <1>7 DEF EngineInv, EngineTyped
  <2>1. CASE e.state \in Requesting /\ RequestOperand(turn, accepted)
    <3> DEFINE t == IF e.state = "WAIT_OPERANDS" THEN WaitOperands(e, accepted)
                    ELSE FetchOperand(e, accepted)
               X == IF accepted THEN AttemptedTokens(e) ELSE {}
    <3>1. /\ engines' = [engines EXCEPT ![turn] = t]
          /\ exec' = [exec EXCEPT !.outstanding = IF accepted THEN @ \cup AttemptedTokens(e) ELSE @]
      BY <2>1 DEF RequestOperand, Put
    <3>2. exec' = [exec EXCEPT !.outstanding = exec.outstanding \cup X] BY <3>1
    <3>3. ExecStays(exec, exec') /\ exec'.outstanding = exec.outstanding \cup X
      <4> HIDE DEF X
      <4> QED BY <1>2, <3>2, OutstandingExec
    <3>4. /\ Goes(e, t, turn, c) /\ SameBatches(e, t)
          /\ AcceptedBy(t.tracker) = AcceptedBy(e.tracker) \cup X
      BY <1>2, <2>1, OperandGoes
    <3> HIDE DEF t, X
    <3>5. Len(t.batch.rows) \in Nat BY <1>2, <3>4 DEF SameBatches
    <3> QED BY <1>4, <3>1, <3>3, <3>4, <3>5 DEF Turn
  <2>2. CASE e.state = "SIMD_MUL" /\ SubmitTarget(turn)
    <3> DEFINE b == BuildOperation(e)
               t == TargetSubmitted(b)
    <3>1. /\ Goes(e, b, turn, c) /\ SameBatches(e, b) /\ SameReads(e, b) /\ b.state = "SIMD_MUL"
      BY <1>2, <2>2, BuildGoes
    <3>2. Goes(b, t, turn, c) /\ SameBatches(b, t) /\ SameReads(b, t)
      BY <3>1, TargetGoes DEF Goes
    <3>3. \/ exec' = [exec EXCEPT !.threw = TRUE] /\ UNCHANGED engines
          \/ exec' = exec /\ engines' = [engines EXCEPT ![turn] = b]
          \/ exec' = exec /\ engines' = [engines EXCEPT ![turn] = t]
      BY <2>2 DEF SubmitTarget, Throw, Put
    <3> HIDE DEF b, t
    <3>4. Goes(e, t, turn, c) /\ SameBatches(e, t) /\ SameReads(e, t)
      BY <3>1, <3>2, GoesChain DEF SameBatches, SameReads
    <3>5. exec' = exec => ExecStays(exec, exec') /\ exec'.outstanding = exec.outstanding
      BY <1>2 DEF ExecStays
    <3>6. Len(b.batch.rows) \in Nat /\ Len(t.batch.rows) \in Nat
      BY <1>2, <3>1, <3>4 DEF SameBatches
    <3>7. CASE exec' = [exec EXCEPT !.threw = TRUE] /\ UNCHANGED engines
      BY <1>2, <1>3, <1>5, <3>7, GoesOn, ThrewExec
    <3>8. CASE exec' = exec /\ engines' = [engines EXCEPT ![turn] = b]
      BY <1>5, <3>1, <3>5, <3>6, <3>8
    <3>9. CASE exec' = exec /\ engines' = [engines EXCEPT ![turn] = t]
      BY <1>5, <3>4, <3>5, <3>6, <3>9
    <3> QED BY <3>3, <3>7, <3>8, <3>9
  <2>3. CASE e.state = "WAIT_TARGET_GRANT" /\ AskGrant(turn)
    <3> DEFINE t == TargetGranted(e)
    <3>1. \/ exec' = Latched(exec, e) /\ engines' = [engines EXCEPT ![turn] = e]
          \/ exec' = Latched(exec, t) /\ engines' = [engines EXCEPT ![turn] = t]
          \/ exec' = [exec EXCEPT !.threw = TRUE] /\ UNCHANGED engines
      BY <2>3 DEF AskGrant, Throw, Put, Step
    <3>2. Goes(e, t, turn, c) /\ SameBatches(e, t) /\ SameReads(e, t) BY <1>2, <2>3, TargetGoes
    <3> HIDE DEF t
    <3>3. Len(t.batch.rows) \in Nat BY <1>2, <3>2 DEF SameBatches
    <3>4. CASE exec' = Latched(exec, e) /\ engines' = [engines EXCEPT ![turn] = e]
      BY <1>2, <1>5, <3>4, GoesOn, LatchedExec
    <3>5. CASE exec' = Latched(exec, t) /\ engines' = [engines EXCEPT ![turn] = t]
      BY <1>2, <1>5, <3>2, <3>3, <3>5, LatchedExec
    <3>6. CASE exec' = [exec EXCEPT !.threw = TRUE] /\ UNCHANGED engines
      BY <1>2, <1>3, <1>5, <3>6, GoesOn, ThrewExec
    <3> QED BY <3>1, <3>4, <3>5, <3>6
  <2>4. CASE e.state = "WAIT_TARGET_COMPLETION" /\ PollTarget(turn)
    <3> DEFINE t == TargetCompleted(e)
    <3>1. \/ exec' = Latched(exec, e) /\ engines' = [engines EXCEPT ![turn] = e]
          \/ exec' = exec /\ engines' = [engines EXCEPT ![turn] = t] /\ e.op # NoOp
          \/ exec' = [exec EXCEPT !.failed = TRUE] /\ UNCHANGED engines
      BY <2>4 DEF PollTarget, Put, Step
    <3>2. e.op # NoOp => Goes(e, t, turn, c) /\ SameBatches(e, t) /\ SameReads(e, t)
      BY <1>2, <2>4, TargetGoes
    <3> HIDE DEF t
    <3>3. e.op # NoOp => Len(t.batch.rows) \in Nat BY <1>2, <3>2 DEF SameBatches
    <3>4. exec' = exec => ExecStays(exec, exec') /\ exec'.outstanding = exec.outstanding
      BY <1>2 DEF ExecStays
    <3>5. CASE exec' = Latched(exec, e) /\ engines' = [engines EXCEPT ![turn] = e]
      BY <1>2, <1>5, <3>5, GoesOn, LatchedExec
    <3>6. CASE exec' = exec /\ engines' = [engines EXCEPT ![turn] = t] /\ e.op # NoOp
      BY <1>5, <3>2, <3>3, <3>4, <3>6
    <3>7. CASE exec' = [exec EXCEPT !.failed = TRUE] /\ UNCHANGED engines
      BY <1>2, <1>3, <1>5, <3>7, GoesOn, FailedExec
    <3> QED BY <3>1, <3>5, <3>6, <3>7
  <2>5. CASE e.state = "EMIT_PARTIALS" /\ Emit(turn)
    <3> DEFINE t == EmitPartials(e)
    <3>1. exec' = Emitted(exec, turn) /\ engines' = [engines EXCEPT ![turn] = t]
      BY <2>5 DEF Emit, Put
    <3>2. Goes(e, t, turn, c) /\ SameBatches(e, t) /\ SameReads(e, t) BY <1>2, <2>5, EmitGoes
    <3> HIDE DEF t
    <3>3. Len(t.batch.rows) \in Nat BY <1>2, <3>2 DEF SameBatches
    <3> QED BY <1>2, <1>5, <3>1, <3>2, <3>3, EmittedExec
  <2>6. CASE e.state = "EMIT_PARTIALS" /\ SubmitBatch(turn)
    <3> DEFINE b == BuildBatch(e, NumRows)
               answer == SubmitResult(accumulators[turn], b.batch)
               t == BatchAnswered(b, answer)
    <3>1. \/ exec' = Latched(exec, b) /\ engines' = [engines EXCEPT ![turn] = b]
          \/ /\ exec' \in {Latched(exec, t), Latched(Emitted(exec, turn), t)}
             /\ engines' = [engines EXCEPT ![turn] = t] /\ b.state # "ERROR"
      BY <2>6 DEF SubmitBatch, Put, Step, HasFailed
    <3>2. /\ Goes(e, b, turn, c) /\ SameReads(e, b) /\ Len(b.batch.rows) \in Nat
          /\ b.state # "ERROR" =>
               Goes(e, t, turn, c) /\ SameReads(e, t) /\ Len(t.batch.rows) \in Nat
      BY <1>2, <2>6, OfferGoes
    <3> HIDE DEF b, answer, t
    <3>3. ASSUME NEW x \in {exec, Emitted(exec, turn)}, exec' = Latched(x, t)
          PROVE  ExecStays(exec, exec') /\ exec'.outstanding = exec.outstanding
      BY <1>2, EmittedExec, <3>3, LatchedExec DEF ExecStays
    <3>4. CASE exec' = Latched(exec, b) /\ engines' = [engines EXCEPT ![turn] = b]
      BY <1>2, <1>5, <3>2, <3>4, LatchedExec
    <3>5. CASE /\ exec' \in {Latched(exec, t), Latched(Emitted(exec, turn), t)}
               /\ engines' = [engines EXCEPT ![turn] = t] /\ b.state # "ERROR"
      BY <1>5, <3>2, <3>3, <3>5
    <3> QED BY <3>1, <3>4, <3>5
  <2>7. CASE e.state = "COMPLETE_PRODUCER" /\ EndBankGroup(turn)
    <3>1. \E drains : /\ engines' = [engines EXCEPT ![turn] = CompleteProducer(e, drains)]
                      /\ exec' = Latched(exec, CompleteProducer(e, drains))
      BY <2>7 DEF EndBankGroup, Step, Put
    <3>2. PICK drains : /\ engines' = [engines EXCEPT ![turn] = CompleteProducer(e, drains)]
                        /\ exec' = Latched(exec, CompleteProducer(e, drains))
      BY <3>1
    <3> DEFINE t == CompleteProducer(e, drains)
    <3>3. Goes(e, t, turn, c) /\ SameBatches(e, t) /\ SameReads(e, t)
      BY <1>2, <2>7, ProducerGoes
    <3>4. engines' = [engines EXCEPT ![turn] = t] /\ exec' = Latched(exec, t) BY <3>2
    <3> HIDE DEF t
    <3>5. Len(t.batch.rows) \in Nat BY <1>2, <3>3 DEF SameBatches
    <3> QED BY <1>2, <1>5, <3>3, <3>4, <3>5, LatchedExec
  <2>8. CASE /\ e.state \in {"FETCH_DESCRIPTOR", "ADVANCE_CHUNK", "NEXT_DESCRIPTOR", "FLUSHING"}
             /\ Step(turn, LocalStep(turn))
    <3> DEFINE t == LocalStep(turn)
    <3>1. Goes(e, t, turn, c) /\ SameBatches(e, t) /\ SameReads(e, t) BY <1>1, <2>8, LocalGoes
    <3>2. engines' = [engines EXCEPT ![turn] = t] /\ exec' = Latched(exec, t)
      BY <2>8 DEF Step, Put
    <3> HIDE DEF t
    <3>3. Len(t.batch.rows) \in Nat BY <1>2, <3>1 DEF SameBatches
    <3> QED BY <1>2, <1>5, <3>1, <3>2, <3>3, LatchedExec
  <2> QED BY <1>1, <1>7, <2>0, <2>1, <2>2, <2>3, <2>4, <2>5, <2>6, <2>7, <2>8, TickCases
<1>8. \/ exec' = Latched(exec, e) /\ UNCHANGED engines
      \/ e.busy /\ TickEngineAndBGA(turn, accepted) /\ (accepted => MaySubmit(turn))
  BY DEF Visit
<1> QED BY <1>6, <1>7, <1>8

-----------------------------------------------------------------------------
(* One sweep of the consumer                                               *)

\* Induction, over sets.
LEMMA NatSetInduction ==
  ASSUME NEW S, 0 \in S, \A n \in Nat : n \in S => n + 1 \in S
  PROVE  Nat \subseteq S
<1> DEFINE T == Nat \ S
<1> SUFFICES ASSUME T # {} PROVE FALSE OBVIOUS
<1>1. PICK x \in T : \A y \in T : <<y, x>> \notin OpToRel(<, Nat)
  BY NatLessThanWellFounded, WFMin
<1>2. x \in Nat \ {0} /\ x - 1 \in Nat /\ x - 1 < x OBVIOUS
<1>3. x - 1 \in S BY <1>1, <1>2 DEF OpToRel
<1>4. (x - 1) + 1 \in S BY <1>2, <1>3
<1> QED BY <1>2, <1>4

\* A bank group's number after one, or on from another.
LEMMA WrapsAround ==
  ASSUME NEW n \in Nat
  PROVE  n % NumBGs \in LocalBGs
<1>1. NumBGs \in Nat \ {0} BY IntegrationAssumption
<1>2. n % NumBGs \in 0 .. NumBGs - 1 BY <1>1
<1> QED BY <1>2 DEF LocalBGs

\* The steps of the sweep.
Sweep(f, a, p, o, w) ==
  /\ f[0] = Serving(a, p, o)
  /\ \A n \in 1 .. NumBGs : f[n] = Serve(f[n - 1], (o.cursor + n - 1) % NumBGs, w)

\* Service is where the sweep ends.
LEMMA ServiceRuns ==
  ASSUME NEW a, NEW p, NEW o, NEW w
  PROVE  \E f : Sweep(f, a, p, o, w) /\ Service(a, p, o, w) = f[NumBGs]
<1> DEFINE first == Serving(a, p, o)
           Next_(v, n) == Serve(v, (o.cursor + n - 1) % NumBGs, w)
           Runs(f, m) == f = [n \in 0 .. m |-> IF n = 0 THEN first ELSE Next_(f[n - 1], n)]
           S == {m \in Nat : \E f : Runs(f, m)}
<1> HIDE DEF first, Next_
<1>1. 0 \in S
  <2> DEFINE f == [n \in 0 .. 0 |-> first]
  <2>1. Runs(f, 0) OBVIOUS
  <2> QED BY <2>1
<1>2. ASSUME NEW m \in Nat, m \in S
      PROVE  m + 1 \in S
  <2>1. PICK f : Runs(f, m) BY <1>2
  <2> DEFINE g == [n \in 0 .. m + 1 |-> IF n = m + 1 THEN Next_(f[m], m + 1) ELSE f[n]]
  <2>2. \A n \in 0 .. m : f[n] = IF n = 0 THEN first ELSE Next_(f[n - 1], n) BY <2>1
  <2>3. g[m + 1] = Next_(f[m], m + 1) /\ \A n \in 0 .. m : g[n] = f[n] OBVIOUS
  <2>4. \A n \in 0 .. m + 1 : g[n] = IF n = 0 THEN first ELSE Next_(g[n - 1], n)
    <3> HIDE DEF g
    <3> TAKE n \in 0 .. m + 1
    <3>1. CASE n = m + 1
      BY <3>1, <2>3
    <3>2. CASE n # m + 1
      BY <3>2, <2>2, <2>3
    <3> QED BY <3>1, <3>2
  <2>5. g = [n \in 0 .. m + 1 |-> g[n]] OBVIOUS
  <2> HIDE DEF g
  <2>6. Runs(g, m + 1) BY <2>4, <2>5
  <2> QED BY <2>6
<1>3. NumBGs \in Nat /\ NumBGs \in S BY <1>1, <1>2, NatSetInduction, IntegrationAssumption
<1> DEFINE after == CHOOSE f : Runs(f, NumBGs)
<1>4. Runs(after, NumBGs)
  <2>1. \E f : Runs(f, NumBGs) BY <1>3
  <2> HIDE DEF Runs
  <2> QED BY <2>1
<1>5. Service(a, p, o, w) = after[NumBGs] BY DEF Service, first, Next_
<1> HIDE DEF after
<1>6. /\ after[0] = first
      /\ \A n \in 1 .. NumBGs : after[n] = Next_(after[n - 1], n)
  BY <1>3, <1>4
<1> QED BY <1>5, <1>6 DEF first, Next_, Sweep

ServingFields == {"accumulators", "path", "output", "served", "refused", "failed", "threw"}

\* Taking a record leaves the rest of the output as it was.
LEMMA TakeOutputFields ==
  ASSUME NEW s, DOMAIN s = ServingFields, OutputTyped(s.output),
         NEW bg \in LocalBGs, NEW w \in BOOLEAN
  PROVE  LET t == TakeOutput(s, bg, w)
         IN  /\ DOMAIN t = ServingFields /\ OutputTyped(t.output) /\ t.output.valid = s.output.valid
             /\ t.output.reduced = s.output.reduced
             /\ t.threw \in {TRUE, FALSE, s.threw} /\ t.failed \in {TRUE, FALSE, s.failed}
<1> DEFINE record == Head(s.accumulators[bg].output)
           cursor == (bg + 1) % NumBGs
           p == IF w THEN Path!CommitReserved(s.path, bg) ELSE s.path
           x == [s EXCEPT !.failed = TRUE]
           y == [s EXCEPT !.failed = ~w, !.threw = w]
           z == [s EXCEPT !.accumulators[bg] = Accumulator!AcceptOutput(@),
                     !.path = IF w THEN Path!CommitReserved(@, bg) ELSE @,
                     !.output.handed[bg] = Append(@, record.value),
                     !.output.cursor = (bg + 1) % NumBGs,
                     !.served = @ + 1]
<1>1. TakeOutput(s, bg, w) \in {x, y, z} BY DEF TakeOutput
<1>2. cursor \in LocalBGs
  BY IntegrationAssumption, WrapsAround DEF LocalBGs
<1> DEFINE Proper(t) ==
             /\ DOMAIN t = ServingFields /\ OutputTyped(t.output) /\ t.output.valid = s.output.valid
             /\ t.output.reduced = s.output.reduced
             /\ t.threw \in {TRUE, FALSE, s.threw} /\ t.failed \in {TRUE, FALSE, s.failed}
<1>3. Proper(x) /\ Proper(y)
  <2>1. DOMAIN x = ServingFields /\ x.output = s.output /\ x.threw = s.threw /\ x.failed = TRUE
    BY DEF ServingFields
  <2>2. DOMAIN y = ServingFields /\ y.output = s.output /\ y.threw = w /\ y.failed = ~w
    BY DEF ServingFields
  <2> HIDE DEF x, y
  <2> QED BY <2>1, <2>2
<1>4. Proper(z)
  <2> DEFINE handed == [s.output.handed EXCEPT ![bg] = Append(@, record.value)]
             o == [s.output EXCEPT !.handed[bg] = Append(@, record.value), !.cursor = cursor]
  <2>1. /\ DOMAIN z = ServingFields /\ z.threw = s.threw /\ z.failed = s.failed
        /\ z.output = o
    <3> HIDE DEF cursor, record
    <3> QED BY DEF ServingFields, cursor
  <2>2. DOMAIN s.output = {"cursor", "handed", "valid", "reduced"}
    BY DEF OutputTyped, OutputInit
  <2> HIDE DEF cursor, record, z
  <2>3. DOMAIN o = DOMAIN s.output /\ o.cursor = cursor /\ o.valid = s.output.valid
        /\ o.reduced = s.output.reduced
    BY <2>2
  <2> HIDE DEF o
  <2> QED BY <1>2, <2>1, <2>3 DEF OutputTyped
<1> HIDE DEF x, y, z, Proper
<1>5. Proper(TakeOutput(s, bg, w)) BY <1>1, <1>3, <1>4
<1> QED BY <1>5 DEF Proper

\* A sweep leaves the output typed.
LEMMA ServiceOutput ==
  ASSUME NEW a, NEW p, NEW o, OutputTyped(o), NEW w \in BOOLEAN
  PROVE  LET s == Service(a, p, o, w)
         IN  /\ OutputTyped(s.output) /\ s.output.valid = o.valid /\ s.output.reduced = o.reduced
             /\ s.threw \in BOOLEAN /\ s.failed \in BOOLEAN
<1>0. PICK f : Sweep(f, a, p, o, w) /\ Service(a, p, o, w) = f[NumBGs] BY ServiceRuns
<1>1. /\ f[0] = Serving(a, p, o)
      /\ \A n \in 1 .. NumBGs : f[n] = Serve(f[n - 1], (o.cursor + n - 1) % NumBGs, w)
      /\ Service(a, p, o, w) = f[NumBGs]
  BY <1>0 DEF Sweep
<1> DEFINE Proper(s) ==
             /\ DOMAIN s = ServingFields /\ OutputTyped(s.output) /\ s.output.valid = o.valid
             /\ s.output.reduced = o.reduced /\ s.threw \in BOOLEAN /\ s.failed \in BOOLEAN
           S == {n \in Nat : n <= NumBGs => Proper(f[n])}
<1>2. 0 \in S
  <2>1. Proper(Serving(a, p, o)) BY DEF Serving, ServingFields
  <2> QED BY <1>1, <2>1
<1>3. ASSUME NEW n \in Nat, n \in S
      PROVE  n + 1 \in S
  <2>1. CASE ~(n + 1 <= NumBGs) BY <2>1
  <2>2. CASE n + 1 <= NumBGs
    <3> DEFINE bg == (o.cursor + n) % NumBGs
    <3>1. NumBGs \in Nat /\ n <= NumBGs /\ n + 1 \in 1 .. NumBGs /\ (n + 1) - 1 = n /\ o.cursor \in Nat
      BY <2>2, IntegrationAssumption DEF OutputTyped, LocalBGs
    <3>2. Proper(f[n]) BY <1>3, <3>1
    <3>3. f[n + 1] = Serve(f[n], bg, w)
      BY <3>1, <1>1
    <3>4. bg \in LocalBGs BY <3>1, WrapsAround
    <3> HIDE DEF bg
    <3>5. \/ f[n + 1] = f[n]
          \/ f[n + 1] = [f[n] EXCEPT !.refused = TRUE]
          \/ f[n + 1] = TakeOutput(f[n], bg, w)
      BY <3>3 DEF Serve
    <3>6. Proper([f[n] EXCEPT !.refused = TRUE]) BY <3>2 DEF ServingFields
    <3>7. Proper(TakeOutput(f[n], bg, w))
      <4> DEFINE t == TakeOutput(f[n], bg, w)
      <4>1. /\ DOMAIN t = ServingFields /\ OutputTyped(t.output) /\ t.output.valid = f[n].output.valid
            /\ t.output.reduced = f[n].output.reduced
            /\ t.threw \in {TRUE, FALSE, f[n].threw} /\ t.failed \in {TRUE, FALSE, f[n].failed}
        BY <3>2, <3>4, TakeOutputFields
      <4> HIDE DEF t
      <4> QED BY <3>2, <4>1 DEF t
    <3> HIDE DEF Proper
    <3>8. Proper(f[n + 1]) BY <3>2, <3>5, <3>6, <3>7
    <3> QED BY <3>8
  <2> QED BY <2>1, <2>2
<1> HIDE DEF Proper
<1>4. NumBGs \in S
  BY <1>2, <1>3, NatSetInduction, IntegrationAssumption
<1>5. Proper(f[NumBGs]) BY <1>4, IntegrationAssumption
<1> QED BY <1>1, <1>5 DEF Proper

\* What the consumer's sweep of a tick() leaves in the output.
LEMMA ServedOutput ==
  ASSUME ReadsInv
  PROVE  /\ OutputTyped(Served.output) /\ Served.output.valid = output.valid
         /\ Served.output.reduced = output.reduced
         /\ Served.threw \in BOOLEAN /\ Served.failed \in BOOLEAN
<1>1. OutputTyped(output) /\ Writeback \in BOOLEAN BY DEF ReadsInv, Writeback
<1>2. CASE Enabled /\ ~exec.failed
  <2>1. Served = Service(accumulators, path, output, Writeback) BY <1>2 DEF Served
  <2> HIDE DEF Writeback
  <2> QED BY <1>1, <2>1, ServiceOutput
<1>3. CASE ~(Enabled /\ ~exec.failed)
  BY <1>3, <1>1 DEF Served, Serving
<1> QED BY <1>2, <1>3

-----------------------------------------------------------------------------
(* The other steps of a tick(), and the host's                             *)

\* At most one read comes back in a cycle, and its engine was waiting for it.
LEMMA CycleEngines ==
  ASSUME ReadsInv, NEW done \in {{}} \cup OneRead, NEW busBusy, Cycle(done, busBusy)
  PROVE  /\ engines' = [bg \in LocalBGs |-> engines'[bg]]
         /\ \A bg \in LocalBGs :
              /\ Goes(engines[bg], engines'[bg], bg, policy.consumer)
              /\ SameBatches(engines[bg], engines'[bg]) /\ Quiet(engines[bg], engines'[bg])
              /\ AcceptedBy(engines'[bg].tracker) = AcceptedBy(engines[bg].tracker) \ done
         /\ \A token \in done : Matches(engines[Owner(token)], token)
<1> DEFINE c == policy.consumer
<1>1. engines' = [bg \in LocalBGs |->
                   IF \E token \in done : Owner(token) = bg
                   THEN OnRequestComplete(engines[bg], CHOOSE token \in done : TRUE)
                   ELSE engines[bg]]
  BY DEF Cycle
<1>2. \A bg \in LocalBGs : EngineInv(engines[bg], bg, c) BY DEF ReadsInv
<1>3. CASE done = {}
  BY <1>1, <1>3, <1>2, GoesOn
<1>4. ASSUME NEW x \in exec.outstanding, done = {x}
      PROVE  /\ \A bg \in LocalBGs :
                  /\ Goes(engines[bg], engines'[bg], bg, c)
                  /\ SameBatches(engines[bg], engines'[bg]) /\ Quiet(engines[bg], engines'[bg])
                  /\ AcceptedBy(engines'[bg].tracker) = AcceptedBy(engines[bg].tracker) \ done
             /\ Matches(engines[Owner(x)], x)
  <2>1. PICK b \in LocalBGs : x \in AcceptedBy(engines[b].tracker) BY <1>4 DEF ReadsInv
  <2>2. Owner(x) = b BY <1>2, <2>1, AcceptedOwner
  <2>3. engines'[b] = OnRequestComplete(engines[b], x)
    BY <1>4, <1>1, <2>2
  <2>4. /\ Goes(engines[b], engines'[b], b, c)
        /\ SameBatches(engines[b], engines'[b]) /\ Quiet(engines[b], engines'[b])
        /\ AcceptedBy(engines'[b].tracker) = AcceptedBy(engines[b].tracker) \ done
        /\ Matches(engines[b], x)
    BY <1>2, <1>4, <2>1, <2>3, CompletionGoes
  <2>5. ASSUME NEW bg \in LocalBGs, bg # b
        PROVE  engines'[bg] = engines[bg] /\ x \notin AcceptedBy(engines[bg].tracker)
    BY <1>2, <2>2, <2>5, AcceptedOwner, <1>1, <1>4
  <2>6. ASSUME NEW bg \in LocalBGs, bg # b
        PROVE  /\ Goes(engines[bg], engines'[bg], bg, c)
               /\ SameBatches(engines[bg], engines'[bg]) /\ Quiet(engines[bg], engines'[bg])
               /\ AcceptedBy(engines'[bg].tracker) = AcceptedBy(engines[bg].tracker) \ done
    BY <1>4, <2>5, <2>6, <1>2, GoesOn
  <2> QED BY <2>2, <2>4, <2>6
<1>5. done = {} \/ \E x \in exec.outstanding : done = {x} BY DEF OneRead
<1>6. engines' = [bg \in LocalBGs |-> engines'[bg]] BY <1>1
<1> QED BY <1>3, <1>4, <1>5, <1>6

\* The memory's step, the rank's and the path's.
LEMMA CycleReads ==
  ASSUME ReadsInv, NEW done \in {{}} \cup OneRead, NEW busBusy, Cycle(done, busBusy)
  PROVE  ReadsInv' /\ ExecStays(exec, exec')
<1>1. /\ engines' = [bg \in LocalBGs |-> engines'[bg]]
      /\ \A bg \in LocalBGs :
           /\ Goes(engines[bg], engines'[bg], bg, policy.consumer)
           /\ SameBatches(engines[bg], engines'[bg])
           /\ AcceptedBy(engines'[bg].tracker) = AcceptedBy(engines[bg].tracker) \ done
  BY CycleEngines
<1>2. /\ exec.launched /\ turn' = 0 /\ policy' = policy
      /\ output' = [output EXCEPT !.reduced = path.reductionDone]
      /\ \E failed : exec' = [exec EXCEPT !.outstanding = @ \ done,
                                          !.failed = failed \/ path'.error,
                                          !.threw = StepThrew(accumulators')]
  BY DEF Cycle
<1>3. ExecStays(exec, exec') /\ exec'.outstanding = exec.outstanding \ done
  <2>1. PICK failed : exec' = [exec EXCEPT !.outstanding = @ \ done,
                                           !.failed = failed \/ path'.error,
                                           !.threw = StepThrew(accumulators')]
    BY <1>2
  <2> DEFINE A == failed \/ path'.error
             B == StepThrew(accumulators')
  <2>2. A \in BOOLEAN /\ B \in BOOLEAN BY DEF StepThrew
  <2>3. exec' = [exec EXCEPT !.outstanding = @ \ done, !.failed = A, !.threw = B] BY <2>1
  <2> HIDE DEF A, B
  <2>4. ExecTyped(exec) BY DEF ReadsInv
  <2> QED BY <2>2, <2>3, <2>4, ExecNames DEF ExecTyped, ExecStays
<1>4. exec'.outstanding = UNION {AcceptedBy(engines'[b].tracker) : b \in LocalBGs}
  BY <1>1, <1>3 DEF ReadsInv
<1>5. ASSUME NEW b \in LocalBGs
      PROVE  /\ EngineInv(engines'[b], b, policy'.consumer)
             /\ Len(engines'[b].batch.rows) \in Nat
             /\ engines'[b].state \in Walking => exec'.generation # 0
  BY <1>1, <1>2, <1>3 DEF ReadsInv, Goes, SameBatches, ExecStays
<1>6. OutputTyped(output') /\ output'.valid = output.valid
  BY <1>2 DEF ReadsInv, OutputTyped, OutputInit
<1>7. /\ policy' \in Policies /\ turn' \in 0 .. Idle /\ ExecTyped(exec')
      /\ exec'.generation \in 0 .. Len(Images[policy']) /\ exec'.launched
      /\ output'.valid \in 0 .. exec'.generation
  BY <1>2, <1>3, <1>6, TurnNumbers DEF ReadsInv, ExecStays
<1> QED BY <1>1, <1>3, <1>4, <1>5, <1>6, <1>7 DEF ReadsInv

\* The end of a tick().
LEMMA FinishReads ==
  ASSUME ReadsInv, Finish
  PROVE  ReadsInv' /\ ExecStays(exec, exec')
<1> DEFINE s == Served
           x == [exec EXCEPT !.failed = @ \/ s.failed \/ s.path.error, !.threw = s.threw]
           w == [engines |-> engines, accumulators |-> s.accumulators, path |-> s.path,
                 output |-> s.output]
           mismatch == Finalizes(x) /\ ~EndToEndConsistent(x, w)
           y == [x EXCEPT !.failed = @ \/ mismatch]
           valid == IF Finalizes(x) /\ ~mismatch THEN x.generation ELSE s.output.valid
<1>1. /\ UNCHANGED <<engines, policy>> /\ turn' = Idle /\ turn = NumBGs
      /\ output' = [s.output EXCEPT !.valid = valid, !.reduced = FALSE]
      /\ exec' \in {y, [y EXCEPT !.flushCompleted = TRUE]}
  <2>1. /\ UNCHANGED <<engines, policy>> /\ turn' = Idle /\ turn = NumBGs
        /\ output' = [s.output EXCEPT !.valid = IF Finalizes(x) /\ ~mismatch THEN x.generation ELSE @,
                                      !.reduced = FALSE]
        /\ exec' = FinishFlush(y, [w EXCEPT !.output = output'])
    BY DEF Finish
  <2> HIDE DEF s, x, w, mismatch, y
  <2> QED BY <2>1 DEF FinishFlush
<1>2. /\ OutputTyped(s.output) /\ s.output.valid = output.valid
      /\ s.threw \in BOOLEAN /\ s.failed \in BOOLEAN
  BY ServedOutput
<1> HIDE DEF s
<1>3. ExecTyped(exec) BY DEF ReadsInv
<1>4. ExecStays(exec, x) /\ x.outstanding = exec.outstanding
  <2> DEFINE F == exec.failed \/ s.failed \/ s.path.error
  <2>1. F \in BOOLEAN /\ x = [exec EXCEPT !.failed = F, !.threw = s.threw] OBVIOUS
  <2> HIDE DEF F, x
  <2> QED BY <1>2, <1>3, <2>1, ExecNames DEF ExecTyped, ExecStays
<1> HIDE DEF x
<1>5. ExecStays(x, y) /\ y.outstanding = x.outstanding
  <2> DEFINE F == x.failed \/ mismatch
  <2>1. F \in BOOLEAN /\ y = [x EXCEPT !.failed = F] OBVIOUS
  <2>2. ExecTyped(x) BY <1>4 DEF ExecStays
  <2> HIDE DEF F, y
  <2> QED BY <2>1, <2>2, ExecNames DEF ExecTyped, ExecStays
<1> HIDE DEF y, mismatch
<1>6. ExecStays(y, exec') /\ exec'.outstanding = y.outstanding
  <2>1. ExecTyped(y) BY <1>5 DEF ExecStays
  <2>2. CASE exec' = y BY <2>1, <2>2 DEF ExecStays
  <2>3. CASE exec' = [y EXCEPT !.flushCompleted = TRUE]
    BY <2>1, <2>3, ExecNames DEF ExecTyped, ExecStays
  <2> QED BY <1>1, <2>2, <2>3
<1>7. ExecStays(exec, exec') /\ exec'.outstanding = exec.outstanding
  BY <1>4, <1>5, <1>6 DEF ExecStays
<1>8. valid \in 0 .. exec.generation BY <1>2, <1>4 DEF ExecStays, ReadsInv
<1> HIDE DEF valid
<1>9. OutputTyped(output') /\ output'.valid \in 0 .. exec'.generation
  BY <1>2, <1>1, <1>7, <1>8 DEF OutputTyped, OutputInit, ExecStays
<1>10. exec'.launched /\ turn' \in 0 .. Idle
  BY <1>1, TurnNumbers, IntegrationAssumption, <1>7 DEF ReadsInv, Idle, ExecStays
<1> QED BY <1>1, <1>7, <1>9, <1>10 DEF ReadsInv, ExecStays

\* Nothing is accepted by a tracker that may be reset.
LEMMA ResettableAcceptsNothing ==
  ASSUME NEW e, NEW bg, NEW c, EngineInv(e, bg, c), MayResetEngine(e)
  PROVE  AcceptedBy(e.tracker) = {}
<1>1. IsFiniteSet(AcceptedBy(e.tracker)) BY CountsAreNat DEF EngineInv, TrackerSound
<1>2. Cardinality(AcceptedBy(e.tracker)) = 0
  BY SameCount DEF MayResetEngine, Tracker!MayReset, Tracker!AcceptedCount, AcceptedBy
<1> QED BY <1>1, <1>2, FS_EmptySet

\* A call of the host that leaves the reads alone.
LEMMA HostKeepsReads ==
  ASSUME ReadsInv, turn = Idle, UNCHANGED <<tickVars, output>>,
         engines' = [bg \in LocalBGs |-> engines'[bg]],
         ExecTyped(exec'), exec'.generation = exec.generation,
         exec'.outstanding = exec.outstanding,
         ~exec'.launched => exec'.work = NoWork,
         \A bg \in LocalBGs :
           /\ EngineInv(engines'[bg], bg, policy.consumer)
           /\ Len(engines'[bg].batch.rows) \in Nat
           /\ engines'[bg].state \in Walking => engines[bg].state \in Walking
           /\ AcceptedBy(engines'[bg].tracker) = AcceptedBy(engines[bg].tracker)
           /\ ~exec'.launched => engines'[bg].state = "IDLE"
  PROVE  ReadsInv'
<1>1. policy' = policy /\ turn' = turn BY DEF tickVars
<1>2. ASSUME NEW bg \in LocalBGs
      PROVE  /\ EngineInv(engines'[bg], bg, policy'.consumer)
             /\ Len(engines'[bg].batch.rows) \in Nat
             /\ engines'[bg].state \in Walking => exec'.generation # 0
  BY <1>1 DEF ReadsInv
<1>3. exec'.outstanding = UNION {AcceptedBy(engines'[bg].tracker) : bg \in LocalBGs}
  BY DEF ReadsInv
<1> QED BY <1>1, <1>2, <1>3 DEF ReadsInv, Idle

\* At first nothing was launched.
LEMMA InitReads ==
  ASSUME Init
  PROVE  ReadsInv
<1>1. \A bg \in LocalBGs : engines[bg] = EngineInit BY DEF Init
<1>2. /\ EngineInit.state = "IDLE" /\ Len(EngineInit.batch.rows) = 0 /\ "IDLE" \notin Walking
  BY DEF EngineInit, NoBatch, Walking, Requesting, Staged
<1>3. \A bg \in LocalBGs : EngineInv(EngineInit, bg, policy.consumer) /\ AcceptedBy(EngineInit.tracker) = {}
  BY InitGoes
<1>4. ExecTyped(exec) /\ exec.generation = 0 /\ exec.outstanding = {} /\ exec.work = NoWork
  BY DEF Init, ExecTyped, ExecInit, ExecFields, AllRunning
<1>5. OutputTyped(output) /\ output.valid = 0
  BY TurnNumbers, IntegrationAssumption DEF Init, OutputTyped, OutputInit
<1>6. Images[policy] \in Seq(SUBSET ImageType) BY NativeAssumption DEF Init
<1>7. 0 \in 0 .. Len(Images[policy])
  <2> HIDE DEF ImageType
  <2>1. Len(Images[policy]) \in Nat BY <1>6
  <2> QED BY <2>1
<1>8. exec.outstanding = UNION {AcceptedBy(engines[bg].tracker) : bg \in LocalBGs}
  BY <1>1, <1>3, <1>4
<1>9. engines = [bg \in LocalBGs |-> engines[bg]] /\ policy \in Policies /\ turn = Idle
  BY DEF Init
<1> QED BY <1>1, <1>2, <1>3, <1>4, <1>5, <1>7, <1>8, <1>9, TurnNumbers DEF ReadsInv

\* launch.
LEMMA LaunchReads ==
  ASSUME ReadsInv, Launch
  PROVE  /\ ReadsInv'
         /\ exec'.launched /\ ~exec'.failed /\ ~exec'.threw
         /\ exec'.generation = exec.generation + 1 /\ exec.generation < Len(Images[policy])
         /\ \A bg \in LocalBGs :
              LET t == engines'[bg]
              IN  /\ t.state \in {"FETCH_DESCRIPTOR", "COMPLETE_PRODUCER", "DONE"} /\ t.op = NoOp
                  /\ t.batch = NoBatch /\ t.nextBatch = 1 /\ t.accepted = 0
                  /\ t.bgaGeneration = IF Enabled THEN exec.generation + 1 ELSE 0
                  /\ t.incomplete = FALSE
<1> DEFINE g == IF Enabled THEN exec.generation + 1 ELSE 0
<1>1. PICK image \in Images[policy][exec.generation + 1] :
        /\ engines' = [bg \in LocalBGs |-> LaunchEngine(ResetEngine(engines[bg]), image[bg], g)]
        /\ exec' = [ExecInit EXCEPT !.launched = TRUE, !.generation = exec.generation + 1,
                                    !.work = image]
  BY DEF Launch
<1>2. /\ turn = Idle /\ policy' = policy /\ turn' = turn /\ exec.generation < Len(Images[policy])
      /\ output' = [OutputInit EXCEPT !.valid = output.valid]
  BY DEF Launch, tickVars
<1>3. exec.generation \in Nat /\ Len(Images[policy]) \in Nat
      /\ exec.generation + 1 \in DOMAIN Images[policy]
      /\ exec.generation + 1 \in 0 .. Len(Images[policy]) /\ image \in ImageType
  <2>1. exec.generation \in 0 .. Len(Images[policy]) /\ policy \in Policies BY DEF ReadsInv
  <2>2. Images[policy] \in Seq(SUBSET ImageType) BY <2>1, NativeAssumption
  <2> HIDE DEF ImageType
  <2>3. Len(Images[policy]) \in Nat /\ DOMAIN Images[policy] = 1 .. Len(Images[policy]) BY <2>2
  <2>4. exec.generation + 1 \in 1 .. Len(Images[policy]) BY <1>2, <2>1, <2>3
  <2>5. Images[policy][exec.generation + 1] \in SUBSET ImageType BY <2>2, <2>4
  <2> QED BY <1>1, <2>1, <2>3, <2>4, <2>5
<1>4. ASSUME NEW bg \in LocalBGs
      PROVE  Launchable(image[bg], policy.consumer)
  BY <1>3, <1>1, NativeAssumption DEF ImageType, ReadsInv, Launchable
<1>5. g \in Nat BY <1>3
<1> HIDE DEF g
<1>6. ASSUME NEW bg \in LocalBGs
      PROVE  LET t == engines'[bg]
             IN  /\ EngineInv(t, bg, policy.consumer) /\ AcceptedBy(t.tracker) = {}
                 /\ t.state \in {"FETCH_DESCRIPTOR", "COMPLETE_PRODUCER", "DONE"} /\ t.op = NoOp
                 /\ t.batch = NoBatch /\ t.nextBatch = 1 /\ t.accepted = 0 /\ t.bgaGeneration = g
                 /\ t.incomplete = FALSE
  <2> DEFINE e == ResetEngine(engines[bg])
             t == LaunchEngine(e, image[bg], g)
  <2>1. EngineInv(e, bg, policy.consumer) BY ResetGoes DEF ReadsInv
  <2>2. engines'[bg] = t BY <1>1
  <2> HIDE DEF e
  <2>3. Launchable(image[bg], policy.consumer) BY <1>4
  <2>4. EngineInv(t, bg, policy.consumer) /\ Launched(e, t, image[bg], g)
    BY <1>5, <2>1, <2>3, LaunchGoes
  <2> HIDE DEF t
  <2> QED BY <2>2, <2>4 DEF Launched
<1>7. /\ ExecTyped(exec') /\ exec'.generation = exec.generation + 1 /\ exec'.outstanding = {}
      /\ exec'.launched = TRUE /\ exec'.failed = FALSE /\ exec'.threw = FALSE
  BY <1>1 DEF ExecTyped, ExecInit, ExecFields, AllRunning
<1>8. OutputTyped(output') /\ output'.valid = output.valid
  BY <1>2, TurnNumbers, IntegrationAssumption DEF OutputTyped, OutputInit
<1>9. output'.valid \in 0 .. exec'.generation BY <1>3, <1>7, <1>8 DEF ReadsInv
<1>10. exec'.outstanding = UNION {AcceptedBy(engines'[bg].tracker) : bg \in LocalBGs}
  BY <1>6, <1>7
<1>11. ASSUME NEW bg \in LocalBGs
       PROVE  /\ EngineInv(engines'[bg], bg, policy'.consumer)
              /\ Len(engines'[bg].batch.rows) \in Nat
              /\ exec'.generation # 0
  <2>1. Len(NoBatch.rows) = 0 BY DEF NoBatch
  <2>2. exec'.generation # 0 BY <1>3, <1>7
  <2>3. Len(engines'[bg].batch.rows) \in Nat BY <1>6, <2>1
  <2> QED BY <1>2, <1>6, <2>2, <2>3
<1>12. engines' = [bg \in LocalBGs |-> engines'[bg]] BY <1>1
<1>13. ReadsInv' BY <1>2, <1>3, <1>7, <1>8, <1>9, <1>10, <1>11, <1>12, TurnNumbers DEF ReadsInv
<1> QED BY <1>2, <1>6, <1>7, <1>13 DEF g

\* What flush leaves of an engine: before the launch it passes FLUSHING at once.
LEMMA FlushedGoes ==
  ASSUME ReadsInv, NEW bg \in LocalBGs
  PROVE  LET e == engines[bg]
             t == IF exec.launched THEN Flush(e) ELSE Flushing(Flush(e))
         IN  /\ Goes(e, t, bg, policy.consumer) /\ SameBatches(e, t) /\ SameReads(e, t)
             /\ Quiet(e, t)
             /\ t.state = "ERROR" => e.state = "ERROR"
<1> DEFINE e == engines[bg]
           f == Flush(e)
<1>1. EngineInv(e, bg, policy.consumer) /\ (~exec.launched => e.state = "IDLE") BY DEF ReadsInv
<1>2. /\ Goes(e, f, bg, policy.consumer) /\ SameBatches(e, f) /\ SameReads(e, f) /\ Quiet(e, f)
      /\ f.state \in {e.state, "FLUSHING"} /\ (e.state = "IDLE" => f.state = "FLUSHING")
  BY <1>1, FlushGoes
<1> HIDE DEF f
<1>3. CASE exec.launched BY <1>2, <1>3 DEF f
<1>4. CASE ~exec.launched
  <2> DEFINE t == Flushing(f)
  <2>1. EngineInv(f, bg, policy.consumer) /\ f.state = "FLUSHING" BY <1>1, <1>2, <1>4 DEF Goes
  <2>2. /\ Goes(f, t, bg, policy.consumer) /\ SameBatches(f, t) /\ SameReads(f, t) /\ Quiet(f, t)
        /\ t.state # "ERROR"
    BY <2>1, FlushingGoes
  <2> HIDE DEF t
  <2>3. /\ Goes(e, t, bg, policy.consumer) /\ SameBatches(e, t) /\ SameReads(e, t)
    BY <1>2, <2>2, GoesChain DEF SameBatches, SameReads
  <2>4. Quiet(e, t) BY <1>1, <1>4, <2>1, <2>2 DEF Quiet, Waits
  <2> QED BY <1>4, <2>2, <2>3, <2>4 DEF t, f
<1> QED BY <1>3, <1>4

\* flush.
LEMMA FlushAllReads ==
  ASSUME ReadsInv, FlushAll
  PROVE  ReadsInv' /\ exec'.failed = exec.failed /\ exec'.threw = exec.threw /\ exec'.launched
<1> DEFINE y == [exec EXCEPT !.flushRequested = TRUE, !.launched = TRUE]
<1>1. /\ turn = Idle /\ UNCHANGED <<tickVars, output>>
      /\ engines' = [bg \in LocalBGs |->
                       IF exec.launched THEN Flush(engines[bg]) ELSE Flushing(Flush(engines[bg]))]
      /\ exec' = FinishFlush(y, World')
  BY DEF FlushAll, HostCall, bgaVars
<1>2. exec' \in {y, [y EXCEPT !.flushCompleted = TRUE]} BY <1>1 DEF FinishFlush
<1>3. ExecTyped(exec) BY DEF ReadsInv
<1>4. /\ ExecTyped(y) /\ y.generation = exec.generation /\ y.outstanding = exec.outstanding
      /\ y.launched = TRUE /\ y.failed = exec.failed /\ y.threw = exec.threw
  BY <1>3, ExecNames DEF ExecTyped
<1> HIDE DEF y
<1>5. /\ ExecTyped(exec') /\ exec'.generation = exec.generation
      /\ exec'.outstanding = exec.outstanding /\ exec'.launched = TRUE
      /\ exec'.failed = exec.failed /\ exec'.threw = exec.threw
  <2>1. CASE exec' = y BY <1>4, <2>1
  <2>2. CASE exec' = [y EXCEPT !.flushCompleted = TRUE] BY <1>4, <2>2, ExecNames DEF ExecTyped
  <2> QED BY <1>2, <2>1, <2>2
<1>6. ASSUME NEW bg \in LocalBGs
      PROVE  /\ EngineInv(engines'[bg], bg, policy.consumer)
             /\ Len(engines'[bg].batch.rows) \in Nat
             /\ engines'[bg].state \in Walking => engines[bg].state \in Walking
             /\ AcceptedBy(engines'[bg].tracker) = AcceptedBy(engines[bg].tracker)
  BY <1>1, FlushedGoes DEF ReadsInv, Goes, SameBatches, SameReads
<1>7. engines' = [bg \in LocalBGs |-> engines'[bg]] BY <1>1
<1>8. ReadsInv' BY <1>1, <1>5, <1>6, <1>7, HostKeepsReads
<1> QED BY <1>5, <1>8

\* flushBG.
LEMMA FlushBGReads ==
  ASSUME ReadsInv, NEW bg \in LocalBGs, FlushBG(bg)
  PROVE  ReadsInv' /\ exec'.failed = exec.failed /\ exec'.threw = exec.threw
         /\ exec'.launched /\ exec.launched
<1> DEFINE t == FlushIncomplete(engines[bg])
<1>1. /\ turn = Idle /\ UNCHANGED <<tickVars, output>> /\ exec.work # NoWork
      /\ engines' = [engines EXCEPT ![bg] = t]
      /\ exec' = [exec EXCEPT !.status[bg] = "INCOMPLETE_FLUSHED"]
  BY DEF FlushBG, HostCall, bgaVars
<1>2. /\ Goes(engines[bg], t, bg, policy.consumer) /\ SameBatches(engines[bg], t)
      /\ SameReads(engines[bg], t)
  BY IncompleteGoes DEF ReadsInv
<1> HIDE DEF t
<1>3. ExecTyped(exec) /\ exec.launched BY <1>1 DEF ReadsInv
<1>4. /\ ExecTyped(exec') /\ exec'.generation = exec.generation
      /\ exec'.outstanding = exec.outstanding /\ exec'.launched = exec.launched
      /\ exec'.failed = exec.failed /\ exec'.threw = exec.threw
  BY <1>1, <1>3, ExecNames DEF ExecTyped
<1>5. /\ engines' = [b \in LocalBGs |-> engines'[b]] /\ engines'[bg] = t
      /\ \A b \in LocalBGs \ {bg} : engines'[b] = engines[b]
  BY <1>1 DEF ReadsInv
<1>6. ASSUME NEW b \in LocalBGs
      PROVE  /\ EngineInv(engines'[b], b, policy.consumer)
             /\ Len(engines'[b].batch.rows) \in Nat
             /\ engines'[b].state \in Walking => engines[b].state \in Walking
             /\ AcceptedBy(engines'[b].tracker) = AcceptedBy(engines[b].tracker)
  BY <1>2, <1>5 DEF ReadsInv, Goes, SameBatches, SameReads
<1>7. ReadsInv' BY <1>1, <1>3, <1>4, <1>5, <1>6, HostKeepsReads
<1> QED BY <1>3, <1>4, <1>7

\* resetBG: what it resets has nothing accepted.
LEMMA ResetBGReads ==
  ASSUME ReadsInv, NEW bg \in LocalBGs, ResetBG(bg)
  PROVE  ReadsInv' /\ exec'.failed = exec.failed /\ exec'.threw = exec.threw
         /\ exec'.launched = exec.launched
<1> DEFINE t == ResetEngine(engines[bg])
<1>1. /\ turn = Idle /\ UNCHANGED <<tickVars, output>>
      /\ \/ UNCHANGED <<engines, exec>>
         \/ /\ MayResetEngine(engines[bg])
            /\ engines' = [engines EXCEPT ![bg] = t]
            /\ exec' = [exec EXCEPT !.status[bg] = "RUNNING"]
  BY DEF ResetBG, HostCall, bgaVars
<1>2. CASE UNCHANGED <<engines, exec>> BY <1>1, <1>2 DEF ReadsInv, tickVars, Idle
<1>3. CASE /\ MayResetEngine(engines[bg])
           /\ engines' = [engines EXCEPT ![bg] = t]
           /\ exec' = [exec EXCEPT !.status[bg] = "RUNNING"]
  <2>1. EngineInv(engines[bg], bg, policy.consumer) BY DEF ReadsInv
  <2>2. /\ EngineInv(t, bg, policy.consumer) /\ AcceptedBy(t.tracker) = {}
        /\ t.state = "IDLE" /\ t.batch = NoBatch
    BY <2>1, ResetGoes
  <2>3. AcceptedBy(engines[bg].tracker) = {} BY <1>3, <2>1, ResettableAcceptsNothing
  <2> HIDE DEF t
  <2>4. ExecTyped(exec) BY DEF ReadsInv
  <2>5. /\ ExecTyped(exec') /\ exec'.generation = exec.generation /\ exec'.work = exec.work
        /\ exec'.outstanding = exec.outstanding /\ exec'.launched = exec.launched
        /\ exec'.failed = exec.failed /\ exec'.threw = exec.threw
    BY <1>3, <2>4, ExecNames DEF ExecTyped
  <2>6. /\ engines' = [b \in LocalBGs |-> engines'[b]] /\ engines'[bg] = t
        /\ \A b \in LocalBGs \ {bg} : engines'[b] = engines[b]
    BY <1>3 DEF ReadsInv
  <2>7. "IDLE" \notin Walking /\ Len(NoBatch.rows) = 0
    BY DEF Walking, Requesting, Staged, NoBatch
  <2>8. ASSUME NEW b \in LocalBGs
        PROVE  /\ EngineInv(engines'[b], b, policy.consumer)
               /\ Len(engines'[b].batch.rows) \in Nat
               /\ engines'[b].state \in Walking => engines[b].state \in Walking
               /\ AcceptedBy(engines'[b].tracker) = AcceptedBy(engines[b].tracker)
               /\ ~exec'.launched => engines'[b].state = "IDLE"
    <3>1. CASE b = bg
      BY <2>6, <3>1, <2>2, <2>7, <2>3
    <3>2. CASE b # bg BY <2>5, <2>6, <3>2 DEF ReadsInv
    <3> QED BY <3>1, <3>2
  <2>9. ~exec'.launched => exec'.work = NoWork BY <2>5 DEF ReadsInv
  <2>10. ReadsInv' BY <1>1, <2>5, <2>6, <2>8, <2>9, HostKeepsReads
  <2> QED BY <2>5, <2>10
<1> QED BY <1>1, <1>2, <1>3

\* reset.
LEMMA ResetReads ==
  ASSUME ReadsInv, Reset
  PROVE  ReadsInv' /\ ~exec'.launched
<1>1. /\ turn = Idle /\ UNCHANGED tickVars /\ exec.outstanding = {}
      /\ engines' = [bg \in LocalBGs |-> ResetEngine(engines[bg])]
      /\ exec' = [ExecInit EXCEPT !.generation = exec.generation, !.status = exec.status]
      /\ output' = [OutputInit EXCEPT !.valid = output.valid]
  BY DEF Reset, HostCall
<1>2. ExecTyped(exec) BY DEF ReadsInv
<1>3. /\ ExecTyped(exec') /\ exec'.generation = exec.generation /\ exec'.outstanding = {}
      /\ exec'.launched = FALSE /\ exec'.work = NoWork
  BY <1>1, <1>2 DEF ExecTyped, ExecInit, ExecFields
<1>4. ASSUME NEW bg \in LocalBGs
      PROVE  /\ EngineInv(engines'[bg], bg, policy.consumer)
             /\ AcceptedBy(engines'[bg].tracker) = {}
             /\ engines'[bg].state = "IDLE" /\ engines'[bg].batch = NoBatch
  BY <1>1, ResetGoes DEF ReadsInv
<1>5. "IDLE" \notin Walking /\ Len(NoBatch.rows) = 0 BY DEF Walking, Requesting, Staged, NoBatch
<1>6. exec'.outstanding = UNION {AcceptedBy(engines'[bg].tracker) : bg \in LocalBGs}
  BY <1>3, <1>4
<1>7. OutputTyped(output') /\ output'.valid = output.valid
  BY <1>1, TurnNumbers, IntegrationAssumption DEF OutputTyped, OutputInit
<1>8. policy' = policy /\ turn' = turn /\ engines' = [bg \in LocalBGs |-> engines'[bg]]
  BY <1>1 DEF tickVars
<1> QED BY <1>1, <1>3, <1>4, <1>5, <1>6, <1>7, <1>8, TurnNumbers DEF ReadsInv

\* Every step keeps the engines sound and their reads agreed.
LEMMA NextReads ==
  ASSUME ReadsInv, [Next]_vars
  PROVE  ReadsInv'
<1>1. ASSUME NEW done \in {{}} \cup OneRead, NEW busBusy, Cycle(done, busBusy)
      PROVE  ReadsInv'
  BY <1>1, CycleReads
<1>2. ASSUME NEW accepted \in BOOLEAN, Visit(accepted)
      PROVE  ReadsInv'
  BY <1>2, VisitReads
<1>3. CASE Finish BY <1>3, FinishReads
<1>4. CASE Launch BY <1>4, LaunchReads
<1>5. CASE FlushAll BY <1>5, FlushAllReads
<1>6. CASE Reset BY <1>6, ResetReads
<1>7. ASSUME NEW bg \in LocalBGs, FlushBG(bg) \/ ResetBG(bg)
      PROVE  ReadsInv'
  BY <1>7, FlushBGReads, ResetBGReads
<1>8. CASE UNCHANGED vars BY <1>8 DEF vars, bgaVars, ReadsInv, Idle
<1> QED BY <1>1, <1>2, <1>3, <1>4, <1>5, <1>6, <1>7, <1>8 DEF Next

-----------------------------------------------------------------------------
(* Who may be granted while the barrier holds others back                  *)

Granting(e) == e.state = "WAIT_TARGET_GRANT" /\ ~e.flushRequested

\* Nobody that takes part is behind this engine.
Leads(bg) ==
  /\ \A b \in Participants(engines) : engines[bg].epoch <= engines[b].epoch
  /\ turn # Idle => \A epoch \in epochs : engines[bg].epoch <= epoch

\* Under the lockstep reference nobody that takes part is behind an engine that waits
\* for its grant, so the barrier never holds it back.
GrantsFirst ==
  policy.barrier => \A bg \in LocalBGs : Granting(engines[bg]) => Leads(bg)

\* An engine the barrier does not hold is not ahead of anybody.
LEMMA FreeLeads ==
  ASSUME LockstepInv, policy.barrier, NEW bg \in LocalBGs, turn # Idle,
         ~Held(bg), ~engines[bg].flushRequested
  PROVE  Leads(bg)
<1>1. /\ epochs \subseteq Nat /\ Participants(engines) \subseteq LocalBGs
      /\ \A b \in Participants(engines) : \E epoch \in epochs : epoch <= engines[b].epoch
      /\ \A b \in LocalBGs : engines[b].epoch \in Nat
  BY DEF LockstepInv, BarrierHolds, AllSound, Sound, Participants
<1>2. \A epoch \in epochs : engines[bg].epoch <= epoch
  <2> TAKE epoch \in epochs
  <2>1. ~(engines[bg].epoch > epoch) BY DEF Held
  <2> QED BY <1>1, <2>1
<1>3. ASSUME NEW b \in Participants(engines)
      PROVE  engines[bg].epoch <= engines[b].epoch
  <2>1. PICK epoch \in epochs : epoch <= engines[b].epoch BY <1>1
  <2>2. engines[bg].epoch <= epoch /\ epoch \in Nat /\ engines[b].epoch \in Nat BY <1>1, <1>2
  <2> QED BY <1>1, <2>1, <2>2
<1> QED BY <1>2, <1>3 DEF Leads

\* An engine that waits for its grant is not held back.
LEMMA GrantingRuns ==
  ASSUME GrantsFirst, LockstepInv, NEW bg \in LocalBGs, turn # Idle,
         engines[bg].state = "WAIT_TARGET_GRANT"
  PROVE  ~Held(bg)
<1> SUFFICES ASSUME policy.barrier, ~engines[bg].flushRequested,
                    NEW epoch \in epochs, engines[bg].epoch > epoch
             PROVE  FALSE
  BY DEF Held
<1>1. engines[bg].epoch <= epoch BY DEF GrantsFirst, Granting, Leads
<1>2. engines[bg].epoch \in Nat BY DEF LockstepInv, AllSound, Sound
<1>3. bg \in Participants(engines) \/ ~engines[bg].busy BY DEF Participants, HasFailed
<1>4. epoch \in Nat BY DEF LockstepInv, BarrierHolds
<1> QED BY <1>1, <1>2, <1>4

\* Nobody joins, nobody's chunks grow fewer, and only who leads waits: it stays so.
LEMMA GrantsStayFirst ==
  ASSUME LockstepInv, LockstepInv', policy' = policy,
         \A bg \in LocalBGs :
           /\ Moves(engines[bg], engines'[bg])
           /\ policy.barrier /\ Granting(engines'[bg]) =>
                Leads(bg) /\ engines'[bg].epoch = engines[bg].epoch,
         turn' # Idle => \/ turn # Idle /\ epochs' = epochs
                         \/ epochs' = {engines'[bg].epoch : bg \in Participants(engines')}
  PROVE  GrantsFirst'
<1> SUFFICES ASSUME policy.barrier, NEW bg \in LocalBGs, Granting(engines'[bg])
             PROVE  /\ \A b \in Participants(engines') : engines'[bg].epoch <= engines'[b].epoch
                    /\ turn' # Idle => \A epoch \in epochs' : engines'[bg].epoch <= epoch
  BY DEF GrantsFirst, Leads, Idle
<1>1. Leads(bg) /\ engines'[bg].epoch = engines[bg].epoch OBVIOUS
<1>2. ASSUME NEW b \in Participants(engines')
      PROVE  engines'[bg].epoch <= engines'[b].epoch
  <2>1. b \in LocalBGs BY DEF Participants
  <2>2. b \in Participants(engines)
    BY <2>1, ParticipantsTakePart DEF LockstepInv, AllSound, Moves
  <2>3. engines[bg].epoch <= engines[b].epoch BY <1>1, <2>2 DEF Leads
  <2>4. engines[b].epoch \in Nat /\ engines[bg].epoch \in Nat
        /\ engines'[b].epoch \in {engines[b].epoch, engines[b].epoch + 1}
    BY <2>1 DEF LockstepInv, AllSound, Sound, Moves
  <2> QED BY <1>1, <2>3, <2>4
<1>3. ASSUME turn' # Idle, NEW epoch \in epochs'
      PROVE  engines'[bg].epoch <= epoch
  <2>1. CASE turn # Idle /\ epochs' = epochs BY <1>1, <1>3, <2>1 DEF Leads
  <2>2. CASE epochs' = {engines'[b].epoch : b \in Participants(engines')} BY <1>2, <1>3, <2>2
  <2> QED BY <1>3, <2>1, <2>2
<1> QED BY <1>2, <1>3

-----------------------------------------------------------------------------
(* What the rank holds                                                     *)

RankFields == DOMAIN R!RankInit

RankTyped(r) ==
  /\ DOMAIN r = RankFields /\ r.cursor \in LocalBGs
  /\ DOMAIN r.pending = LocalBGs /\ DOMAIN r.active = LocalBGs
  /\ DOMAIN r.completion = LocalBGs /\ DOMAIN r.retired = LocalBGs
  /\ DOMAIN r.lifecycle = LocalBGs /\ DOMAIN r.generation = LocalBGs

\* The fields of a rank.
LEMMA RankNames ==
  ASSUME NEW r, RankTyped(r)
  PROVE  \A f \in {"mode", "cursor", "busy", "pending", "active", "completion", "retired",
                   "lifecycle", "generation"} : f \in DOMAIN r
BY DEF RankTyped, RankFields, R!RankInit

\* The rank holds nothing of a bank group.
Free(r, bg) == r.pending[bg] = NoOp /\ r.active[bg] = NoOp /\ r.completion[bg] = NoOp

\* Two ranks hold the same of a bank group.
Holds(r, s, bg) ==
  /\ s.pending[bg] = r.pending[bg] /\ s.active[bg] = r.active[bg]
  /\ s.completion[bg] = r.completion[bg]
  /\ r.pending[bg] # NoOp => s.lifecycle[bg] = r.lifecycle[bg]

\* An engine's wait state is what the rank holds for it; due: its turn in this tick
\* is still to come, and its operation may have been granted meanwhile.
RankFits(e, r, bg, due) ==
  /\ e.state = "WAIT_TARGET_GRANT" =>
       /\ r.completion[bg] = NoOp
       /\ \/ r.pending[bg] = e.op /\ r.active[bg] = NoOp
          \/ due /\ r.pending[bg] = NoOp /\ r.active[bg] = e.op
  /\ e.state = "WAIT_TARGET_COMPLETION" =>
       /\ r.pending[bg] = NoOp
       /\ \/ r.active[bg] = e.op /\ r.completion[bg] = NoOp
          \/ r.active[bg] = NoOp /\ r.completion[bg] = e.op
  /\ e.state \notin Waits => Free(r, bg)
  /\ e.state \in Waits => e.op # NoOp
  /\ r.pending[bg] # NoOp => r.lifecycle[bg] = "RUNNING"

\* A new rank holds nothing.
LEMMA InitRank == RankTyped(R!RankInit) /\ \A bg \in LocalBGs : Free(R!RankInit, bg)
BY TurnNumbers, IntegrationAssumption DEF RankTyped, RankFields, R!RankInit, Free, R!LocalBGs, LocalBGs

\* An engine that neither starts nor ends a wait, and a rank that holds the same.
LEMMA FitsOn ==
  ASSUME NEW e, NEW t, NEW r, NEW s, NEW bg, NEW due, RankFits(e, r, bg, due),
         Quiet(e, t), Holds(r, s, bg)
  PROVE  RankFits(t, s, bg, due)
BY DEF RankFits, Quiet, Holds, Free, Waits

\* submitBGTargetedOperation, of a bank group of which the rank holds nothing.
LEMMA SubmitHolds ==
  ASSUME NEW r, RankTyped(r), NEW bg \in LocalBGs, NEW op
  PROVE  LET s == R!SubmitBGTargetedOperation(r, bg, op)
         IN  /\ RankTyped(s)
             /\ \A b \in LocalBGs \ {bg} : Holds(r, s, b)
             /\ ~R!Admits(r, bg) => Holds(r, s, bg)
             /\ R!Admits(r, bg) => /\ s.pending[bg] = op /\ s.lifecycle[bg] = "RUNNING"
                                   /\ s.active[bg] = r.active[bg]
                                   /\ s.completion[bg] = r.completion[bg]
<1> DEFINE adopted == [r EXCEPT !.generation[bg] = op.generation]
           taken == [adopted EXCEPT !.mode = "CSC_BG_TARGETED",
                           !.pending[bg] = op,
                           !.lifecycle[bg] = "RUNNING"]
<1>1. R!SubmitBGTargetedOperation(r, bg, op) = IF R!Admits(r, bg) THEN taken ELSE adopted
  BY DEF R!SubmitBGTargetedOperation, R!Adopt
<1>2. /\ RankTyped(adopted) /\ \A b \in LocalBGs : Holds(r, adopted, b)
      /\ adopted.active = r.active /\ adopted.completion = r.completion
  BY RankNames DEF RankTyped, Holds
<1> HIDE DEF adopted
<1>3. /\ taken.pending = [adopted.pending EXCEPT ![bg] = op]
      /\ taken.lifecycle = [adopted.lifecycle EXCEPT ![bg] = "RUNNING"]
      /\ taken.active = adopted.active /\ taken.completion = adopted.completion
      /\ RankTyped(taken)
  BY <1>2, RankNames DEF RankTyped
<1> HIDE DEF taken
<1>4. /\ taken.pending[bg] = op /\ taken.lifecycle[bg] = "RUNNING"
      /\ \A b \in LocalBGs \ {bg} : taken.pending[b] = adopted.pending[b]
                                    /\ taken.lifecycle[b] = adopted.lifecycle[b]
  BY <1>2, <1>3 DEF RankTyped
<1>5. \A b \in LocalBGs \ {bg} : Holds(r, taken, b) BY <1>2, <1>3, <1>4 DEF Holds
<1> QED BY <1>1, <1>2, <1>3, <1>4, <1>5

\* A completion is retired by the engine that polls it.
LEMMA RetireHolds ==
  ASSUME NEW r, RankTyped(r), NEW bg \in LocalBGs,
         r.completion[bg] # NoOp, r.completion[bg] # r.retired[bg]
  PROVE  LET s == R!ValidateAndRetire(r, bg, r.completion[bg])
         IN  /\ RankTyped(s)
             /\ \A b \in LocalBGs \ {bg} : Holds(r, s, b)
             /\ s.completion[bg] = NoOp /\ s.pending[bg] = r.pending[bg]
             /\ s.active[bg] = r.active[bg] /\ s.lifecycle[bg] = r.lifecycle[bg]
<1> DEFINE s == [r EXCEPT !.retired[bg] = r.completion[bg], !.completion[bg] = NoOp]
<1>1. R!ValidateAndRetire(r, bg, r.completion[bg]) = s BY DEF R!ValidateAndRetire, R!Retire
<1>2. /\ s.pending = r.pending /\ s.active = r.active /\ s.lifecycle = r.lifecycle
      /\ s.completion = [r.completion EXCEPT ![bg] = NoOp] /\ RankTyped(s)
  BY RankNames DEF RankTyped
<1> HIDE DEF s
<1>3. s.completion[bg] = NoOp /\ \A b \in LocalBGs \ {bg} : s.completion[b] = r.completion[b]
  BY <1>2 DEF RankTyped
<1> QED BY <1>1, <1>2, <1>3 DEF Holds

\* ValidateAndRetire keeps the rank's shape whatever it is given.
LEMMA ValidateTyped ==
  ASSUME NEW r, RankTyped(r), NEW bg \in LocalBGs, NEW candidate
  PROVE  RankTyped(R!ValidateAndRetire(r, bg, candidate))
<1> DEFINE s == [r EXCEPT !.retired[bg] = r.completion[bg], !.completion[bg] = NoOp]
           t == [r EXCEPT !.pending[bg] = NoOp, !.lifecycle[bg] = "ERROR_DRAINING"]
<1>1. R!ValidateAndRetire(r, bg, candidate) \in {r, s, t}
  BY DEF R!ValidateAndRetire, R!Retire, R!BeginBGError
<1>2. RankTyped(s) /\ RankTyped(t) BY RankNames DEF RankTyped
<1> HIDE DEF s, t
<1> QED BY <1>1, <1>2

\* flushBG drops what waits, unless the lifecycle is at its end.
LEMMA FlushHolds ==
  ASSUME NEW r, RankTyped(r), NEW bg \in LocalBGs
  PROVE  LET s == R!FlushBG(r, bg)
         IN  /\ RankTyped(s)
             /\ \A b \in LocalBGs \ {bg} : Holds(r, s, b)
             /\ s.active[bg] = r.active[bg] /\ s.completion[bg] = r.completion[bg]
             /\ s.pending[bg] \in {NoOp, r.pending[bg]}
             /\ r.lifecycle[bg] = "RUNNING" => s.pending[bg] = NoOp
<1> DEFINE end == IF r.active[bg] # NoOp \/ r.completion[bg] # NoOp THEN "DRAINING" ELSE "FLUSHED"
           s == [r EXCEPT !.pending[bg] = NoOp, !.lifecycle[bg] = end]
<1>1. /\ R!FlushBG(r, bg) = IF r.lifecycle[bg] \in {"ERROR", "FLUSHED"} THEN r ELSE s
  BY DEF R!FlushBG
<1> HIDE DEF end
<1>2. /\ s.active = r.active /\ s.completion = r.completion
      /\ s.pending = [r.pending EXCEPT ![bg] = NoOp]
      /\ s.lifecycle = [r.lifecycle EXCEPT ![bg] = end] /\ RankTyped(s)
  BY RankNames DEF RankTyped
<1> HIDE DEF s
<1>3. s.pending[bg] = NoOp
      /\ \A b \in LocalBGs \ {bg} : s.pending[b] = r.pending[b] /\ s.lifecycle[b] = r.lifecycle[b]
  BY <1>2 DEF RankTyped
<1>4. \A b \in LocalBGs : Holds(r, r, b) BY DEF Holds
<1>5. \A b \in LocalBGs \ {bg} : Holds(r, s, b) BY <1>2, <1>3 DEF Holds
<1>6. CASE r.lifecycle[bg] \in {"ERROR", "FLUSHED"} BY <1>1, <1>4, <1>6
<1>7. CASE r.lifecycle[bg] \notin {"ERROR", "FLUSHED"} BY <1>1, <1>2, <1>3, <1>5, <1>7
<1> QED BY <1>6, <1>7

\* resetBG of a bank group of which the rank holds nothing.
LEMMA ResetHolds ==
  ASSUME NEW r, RankTyped(r), NEW bg \in LocalBGs
  PROVE  LET s == R!ResetBG(r, bg)
         IN  /\ RankTyped(s)
             /\ \A b \in LocalBGs \ {bg} : Holds(r, s, b)
             /\ Free(r, bg) => Holds(r, s, bg)
<1> DEFINE s == [r EXCEPT !.generation[bg] = @ + 1, !.lifecycle[bg] = "IDLE"]
<1>1. R!ResetBG(r, bg) = IF Free(r, bg) THEN s ELSE R!FlushBG(r, bg)
  BY DEF R!ResetBG, R!Outstanding, Free
<1>2. /\ s.active = r.active /\ s.completion = r.completion /\ s.pending = r.pending
      /\ s.lifecycle = [r.lifecycle EXCEPT ![bg] = "IDLE"] /\ RankTyped(s)
  BY RankNames DEF RankTyped
<1> HIDE DEF s
<1>3. \A b \in LocalBGs \ {bg} : s.lifecycle[b] = r.lifecycle[b] BY <1>2 DEF RankTyped
<1>4. Free(r, bg) => \A b \in LocalBGs : Holds(r, s, b) BY <1>2, <1>3 DEF Holds, Free
<1> QED BY <1>1, <1>2, <1>4, FlushHolds

-----------------------------------------------------------------------------
(* The cycle of the rank                                                   *)

\* What serviceBGTargeted makes of one bank group.
Serviced(r, s, bg) ==
  /\ s.completion[bg] = IF r.active[bg] # NoOp THEN r.active[bg] ELSE r.completion[bg]
  /\ r.pending[bg] # NoOp => s.lifecycle[bg] = r.lifecycle[bg]
  /\ \/ s.active[bg] = NoOp /\ s.pending[bg] = r.pending[bg]
     \/ /\ r.pending[bg] # NoOp /\ s.active[bg] = r.pending[bg] /\ s.pending[bg] = NoOp
        /\ s.completion[bg] = NoOp

\* serviceBGTargeted, for every bank group at once.
LEMMA ServiceHolds ==
  ASSUME NEW r, RankTyped(r), NEW busBusy, NEW s, R!ServiceBGTargeted(r, busBusy, s)
  PROVE  RankTyped(s) /\ \A bg \in LocalBGs : Serviced(r, s, bg)
<1> DEFINE c == R!CompleteActive(r)
           d == R!SettleLifecycles(c)
<1>0. R!LocalBGs = LocalBGs BY DEF R!LocalBGs, LocalBGs
<1>1. s = R!DrainOrArbitrate(d, busBusy) BY DEF R!ServiceBGTargeted
<1>2. /\ RankTyped(c) /\ c.pending = r.pending /\ c.lifecycle = r.lifecycle
      /\ \A bg \in LocalBGs : /\ c.active[bg] = NoOp
                              /\ c.completion[bg] = IF r.active[bg] # NoOp THEN r.active[bg]
                                                    ELSE r.completion[bg]
  <2> DEFINE finished == {bg \in LocalBGs : r.active[bg] # NoOp}
             busy == r.busy \ UNION {R!PhysicalBlocks(bg, r.active[bg].mask) : bg \in finished}
             completion == [bg \in LocalBGs |->
                                  IF bg \in finished THEN r.active[bg] ELSE r.completion[bg]]
             active == [bg \in LocalBGs |-> NoOp]
  <2>1. c = [r EXCEPT !.busy = busy, !.completion = completion, !.active = active]
    BY <1>0 DEF R!CompleteActive
  <2> HIDE DEF c, busy
  <2>2. /\ RankTyped(c) /\ c.pending = r.pending /\ c.lifecycle = r.lifecycle
        /\ c.active = active /\ c.completion = completion
    BY <2>1, RankNames DEF RankTyped
  <2> QED BY <2>2
<1> HIDE DEF c
<1>3. /\ RankTyped(d) /\ d.pending = c.pending /\ d.active = c.active
      /\ d.completion = c.completion
      /\ \A bg \in LocalBGs : c.pending[bg] # NoOp => d.lifecycle[bg] = c.lifecycle[bg]
  <2> DEFINE lifecycle == [bg \in LocalBGs |->
                 IF R!Outstanding(c, bg) THEN c.lifecycle[bg]
                 ELSE CASE c.lifecycle[bg] = "DRAINING" -> "FLUSHED"
                        [] c.lifecycle[bg] = "ERROR_DRAINING" -> "ERROR"
                        [] OTHER -> c.lifecycle[bg]]
  <2>1. d = [c EXCEPT !.lifecycle = lifecycle] BY <1>0 DEF R!SettleLifecycles
  <2>2. DOMAIN lifecycle = LocalBGs
        /\ \A bg \in LocalBGs : c.pending[bg] # NoOp => lifecycle[bg] = c.lifecycle[bg]
    BY DEF R!Outstanding
  <2> HIDE DEF d, lifecycle
  <2>3. /\ RankTyped(d) /\ d.pending = c.pending /\ d.active = c.active
        /\ d.completion = c.completion /\ d.lifecycle = lifecycle
    BY <1>2, <2>1, <2>2, RankNames DEF RankTyped
  <2> QED BY <2>2, <2>3
<1> HIDE DEF d
<1>4. \/ s = d
      \/ \E mode : s = [d EXCEPT !.mode = mode]
      \/ \E bg \in LocalBGs : R!Eligible(d, bg) /\ s = R!Grant(d, bg)
  <2>1. CASE d.mode \in {"DRAINING", "ERROR_DRAINING"}
    BY <1>1, <2>1 DEF R!DrainOrArbitrate, R!SettleMode
  <2>2. CASE d.mode = "CSC_BG_TARGETED" /\ ~busBusy
    <3>1. s = R!Arbitrate(d) BY <1>1, <2>2 DEF R!DrainOrArbitrate
    <3> DEFINE open == {offset \in LocalBGs : R!Eligible(d, (d.cursor + offset) % NumBGs)}
               o == CHOOSE x \in open : \A other \in open : x <= other
    <3>2. s = IF open = {} THEN d ELSE R!Grant(d, (d.cursor + o) % NumBGs)
      BY <1>0, <3>1 DEF R!Arbitrate
    <3>3. CASE open = {} BY <3>2, <3>3
    <3>4. CASE open # {}
      <4>1. \E x \in open : \A other \in open : x <= other
        <5>1. open \subseteq Nat BY IntegrationAssumption DEF LocalBGs
        <5>2. PICK x \in open : \A y \in open : <<y, x>> \notin OpToRel(<, Nat)
          BY <3>4, <5>1, NatLessThanWellFounded, WFMin
        <5>3. ASSUME NEW y \in open
              PROVE  x <= y
          <6>1. x \in Nat /\ y \in Nat /\ <<y, x>> \notin OpToRel(<, Nat) BY <5>1, <5>2
          <6> HIDE DEF open
          <6>2. ~(y < x) BY <6>1 DEF OpToRel
          <6>3. x \in Nat /\ y \in Nat BY <6>1
          <6> QED BY <6>2, <6>3
        <5> QED BY <5>2, <5>3
      <4>2. o \in open BY <4>1
      <4> DEFINE b == (d.cursor + o) % NumBGs
      <4>3. o \in LocalBGs /\ R!Eligible(d, b) BY <4>2
      <4> HIDE DEF o, open
      <4>4. d.cursor + o \in Nat
        <5>1. d.cursor \in LocalBGs /\ o \in LocalBGs BY <1>3, <4>3 DEF RankTyped
        <5> HIDE DEF b
        <5> QED BY <5>1, IntegrationAssumption DEF LocalBGs
      <4>5. b \in LocalBGs BY <4>4, WrapsAround
      <4>6. s = R!Grant(d, b) BY <3>2, <3>4
      <4> HIDE DEF b
      <4> QED BY <4>3, <4>5, <4>6
    <3> QED BY <3>3, <3>4
  <2>3. CASE d.mode \notin {"DRAINING", "ERROR_DRAINING"} /\ ~(d.mode = "CSC_BG_TARGETED" /\ ~busBusy)
    BY <1>1, <2>3 DEF R!DrainOrArbitrate
  <2> QED BY <2>1, <2>2, <2>3
<1>5. \A bg \in LocalBGs : Serviced(r, d, bg) BY <1>2, <1>3 DEF Serviced
<1>6. CASE s = d BY <1>3, <1>5, <1>6
<1>7. ASSUME NEW mode, s = [d EXCEPT !.mode = mode]
      PROVE  RankTyped(s) /\ \A bg \in LocalBGs : Serviced(r, s, bg)
  BY <1>3, <1>7, RankNames, <1>5 DEF RankTyped, Serviced
<1>8. ASSUME NEW b \in LocalBGs, R!Eligible(d, b), s = R!Grant(d, b)
      PROVE  RankTyped(s) /\ \A bg \in LocalBGs : Serviced(r, s, bg)
  <2> DEFINE cursor == (b + 1) % NumBGs
             busy == d.busy \cup R!PhysicalBlocks(b, d.pending[b].mask)
  <2>1. cursor \in LocalBGs
    BY IntegrationAssumption, WrapsAround DEF LocalBGs
  <2>2. s = [d EXCEPT !.busy = busy, !.active[b] = d.pending[b], !.pending[b] = NoOp,
                      !.cursor = cursor]
    BY <1>8 DEF R!Grant
  <2> HIDE DEF cursor, busy
  <2>3. /\ RankTyped(s) /\ s.completion = d.completion /\ s.lifecycle = d.lifecycle
        /\ s.active = [d.active EXCEPT ![b] = d.pending[b]]
        /\ s.pending = [d.pending EXCEPT ![b] = NoOp]
    BY <1>3, <2>1, <2>2, RankNames DEF RankTyped
  <2>4. /\ s.active[b] = d.pending[b] /\ s.pending[b] = NoOp
        /\ \A bg \in LocalBGs \ {b} : s.active[bg] = d.active[bg] /\ s.pending[bg] = d.pending[bg]
    BY <1>3, <2>3 DEF RankTyped
  <2>5. d.pending[b] # NoOp /\ d.completion[b] = NoOp BY <1>8 DEF R!Eligible
  <2>6. Serviced(r, s, b) BY <1>2, <1>3, <1>5, <2>3, <2>4, <2>5 DEF Serviced
  <2>7. \A bg \in LocalBGs \ {b} : Serviced(r, s, bg) BY <1>5, <2>3, <2>4 DEF Serviced
  <2> QED BY <2>3, <2>6, <2>7
<1> QED BY <1>4, <1>6, <1>7, <1>8

\* An engine that waits in its rank after the rank's cycle.
LEMMA ServiceFits ==
  ASSUME NEW e, NEW t, NEW r, NEW s, NEW bg, RankFits(e, r, bg, FALSE), Quiet(e, t),
         Serviced(r, s, bg)
  PROVE  RankFits(t, s, bg, TRUE)
BY DEF RankFits, Quiet, Serviced, Free, Waits

\* The engines' turns, as far as the rank is concerned: nobody acts; or an engine
\* acts that neither starts nor ends a wait; or it submits, asks for its grant or polls.
LEMMA VisitWaits ==
  ASSUME ReadsInv, LockstepInv, NEW accepted \in BOOLEAN, Visit(accepted)
  PROVE  LET e == engines[turn]
             t == engines'[turn]
         IN  /\ \A b \in LocalBGs : Moves(engines[b], engines'[b])
             /\ turn \in LocalBGs /\ turn # Idle /\ policy' = policy /\ epochs' = epochs
             /\ turn' = IF exec.failed THEN NumBGs ELSE turn + 1
             /\ \/ /\ UNCHANGED <<engines, rank>> /\ exec' = Latched(exec, e)
                   /\ exec.failed \/ ~e.busy \/ Held(turn)
                \/ /\ ~exec.failed /\ ~Held(turn) /\ e.busy
                   /\ \/ UNCHANGED rank /\ e.state \notin Waits /\ Quiet(e, t)
                         /\ \A b \in LocalBGs \ {turn} : engines'[b] = engines[b]
                      \/ e.state = "SIMD_MUL" /\ SubmitTarget(turn)
                      \/ e.state = "WAIT_TARGET_GRANT" /\ AskGrant(turn)
                      \/ e.state = "WAIT_TARGET_COMPLETION" /\ PollTarget(turn)
<1> DEFINE e == engines[turn]
           c == policy.consumer
<1>1. /\ turn \in LocalBGs /\ turn # Idle /\ turn' = IF exec.failed THEN NumBGs ELSE turn + 1
      /\ policy' = policy /\ epochs' = epochs
  BY IntegrationAssumption, TurnNumbers DEF Visit, ReadsInv
<1>2. EngineInv(e, turn, c) /\ Len(e.batch.rows) \in Nat /\ engines = [b \in LocalBGs |-> engines[b]]
  BY <1>1 DEF ReadsInv
<1> DEFINE QuietTurn == /\ UNCHANGED rank /\ e.state \notin Waits /\ Quiet(e, engines'[turn])
                        /\ \A b \in LocalBGs \ {turn} : engines'[b] = engines[b]
<1>3. ASSUME NEW t, engines' = [engines EXCEPT ![turn] = t], Quiet(e, t), UNCHANGED rank,
             e.state \notin Waits
      PROVE  QuietTurn
  BY <1>1, <1>2, <1>3
<1> HIDE DEF QuietTurn
<1>4. ASSUME e.busy, TickEngineAndBGA(turn, accepted)
      PROVE  \/ QuietTurn
             \/ e.state = "SIMD_MUL" /\ SubmitTarget(turn)
             \/ e.state = "WAIT_TARGET_GRANT" /\ AskGrant(turn)
             \/ e.state = "WAIT_TARGET_COMPLETION" /\ PollTarget(turn)
  <2>0. e.state \in EngineStates \ {"IDLE", "DONE", "ERROR"}
    BY <1>2, <1>4 DEF EngineInv, EngineTyped
  <2>1. CASE e.state \in Requesting /\ RequestOperand(turn, accepted)
    <3> DEFINE t == IF e.state = "WAIT_OPERANDS" THEN WaitOperands(e, accepted)
                    ELSE FetchOperand(e, accepted)
    <3>1. engines' = [engines EXCEPT ![turn] = t] /\ UNCHANGED rank
      BY <2>1 DEF RequestOperand, Put
    <3>2. Quiet(e, t) BY <1>2, <2>1, OperandGoes
    <3>3. e.state \notin Waits BY <2>1 DEF Waits, Requesting
    <3> HIDE DEF t
    <3> QED BY <1>3, <3>1, <3>2, <3>3
  <2>2. CASE e.state = "EMIT_PARTIALS" /\ Emit(turn)
    BY <2>2, <1>2, EmitGoes, <1>3 DEF Emit, Put, Waits
  <2>3. CASE e.state = "EMIT_PARTIALS" /\ SubmitBatch(turn)
    <3> DEFINE b == BuildBatch(e, NumRows)
               answer == SubmitResult(accumulators[turn], b.batch)
               t == BatchAnswered(b, answer)
    <3>1. /\ UNCHANGED rank
          /\ \/ engines' = [engines EXCEPT ![turn] = b]
             \/ engines' = [engines EXCEPT ![turn] = t] /\ b.state # "ERROR"
      BY <2>3 DEF SubmitBatch, Put, Step, HasFailed
    <3>2. Quiet(e, b) /\ (b.state # "ERROR" => Quiet(e, t)) /\ e.state \notin Waits
      BY <1>2, <2>3, OfferGoes DEF Waits
    <3> HIDE DEF b, answer, t
    <3> QED BY <1>3, <3>1, <3>2
  <2>4. CASE e.state = "COMPLETE_PRODUCER" /\ EndBankGroup(turn)
    <3>1. PICK drains : engines' = [engines EXCEPT ![turn] = CompleteProducer(e, drains)]
                        /\ UNCHANGED rank
      BY <2>4 DEF EndBankGroup, Step, Put
    <3>2. Quiet(e, CompleteProducer(e, drains)) /\ e.state \notin Waits
      BY <1>2, <2>4, ProducerGoes DEF Waits
    <3> QED BY <1>3, <3>1, <3>2
  <2>5. CASE /\ e.state \in {"FETCH_DESCRIPTOR", "ADVANCE_CHUNK", "NEXT_DESCRIPTOR", "FLUSHING"}
             /\ Step(turn, LocalStep(turn))
    BY <2>5, <1>1, LocalGoes, <1>3 DEF Step, Put, Waits
  <2> QED BY <1>1, <1>4, <2>0, <2>1, <2>2, <2>3, <2>4, <2>5, TickCases
<1>5. \/ /\ UNCHANGED <<engines, rank>> /\ exec' = Latched(exec, e)
         /\ exec.failed \/ ~e.busy \/ Held(turn)
      \/ ~exec.failed /\ ~Held(turn) /\ e.busy /\ TickEngineAndBGA(turn, accepted)
  BY DEF Visit
<1>6. \A b \in LocalBGs : Moves(engines[b], engines'[b])
  <2>1. \A b \in LocalBGs : Moves(engines[b], engines[b])
    BY StaysPut, StaysMoves DEF LockstepInv, AllSound
  <2>2. CASE UNCHANGED engines BY <2>1, <2>2
  <2>3. CASE e.busy /\ TickEngineAndBGA(turn, accepted)
    BY <1>1, <2>3, TickMoves, <2>1 DEF MovesAlone
  <2> QED BY <1>5, <2>2, <2>3
<1> QED BY <1>1, <1>4, <1>5, <1>6 DEF QuietTurn

-----------------------------------------------------------------------------
(* The rank's part of the invariant                                        *)

\* Nothing failed, and no exception left a tick() half done.
Unharmed == ~exec.failed /\ (exec.threw => turn = Idle)

Due(bg) == turn # Idle /\ bg >= turn

\* Unless a bank group is reset at work, every wait state is what the rank holds.
RankInv ==
  /\ RankTyped(rank)
  /\ "resetBG" \notin policy.calls /\ Unharmed =>
       GrantsFirst /\ \A bg \in LocalBGs : RankFits(engines[bg], rank, bg, Due(bg))

\* A turn that is over is not due, nor was one that did not ask for its grant.
LEMMA FitsAfter ==
  ASSUME NEW e, NEW r, NEW bg, NEW due, RankFits(e, r, bg, due),
         e.state # "WAIT_TARGET_GRANT" \/ ~due
  PROVE  RankFits(e, r, bg, FALSE)
BY DEF RankFits

\* submitTarget, targetStatus and pollTarget as the rank sees them.
LEMMA TurnFits ==
  ASSUME ReadsInv, RankTyped(rank), NEW bg \in LocalBGs,
         NEW due \in BOOLEAN, RankFits(engines[bg], rank, bg, due),
         \/ engines[bg].state = "SIMD_MUL" /\ SubmitTarget(bg)
         \/ engines[bg].state = "WAIT_TARGET_GRANT" /\ AskGrant(bg)
         \/ engines[bg].state = "WAIT_TARGET_COMPLETION" /\ PollTarget(bg)
  PROVE  /\ RankTyped(rank')
         /\ \A b \in LocalBGs \ {bg} : engines'[b] = engines[b] /\ Holds(rank, rank', b)
         /\ exec'.threw \/ RankFits(engines'[bg], rank', bg, FALSE)
         /\ Granting(engines'[bg]) =>
              /\ engines'[bg].epoch = engines[bg].epoch
              /\ Granting(engines[bg]) \/ ~engines[bg].flushRequested
<1> DEFINE e == engines[bg]
           c == policy.consumer
<1>1. EngineInv(e, bg, c) /\ ExecTyped(exec) /\ engines = [b \in LocalBGs |-> engines[b]]
  BY DEF ReadsInv
<1>2. \A b \in LocalBGs : Holds(rank, rank, b) BY DEF Holds
<1>3. ASSUME NEW t, engines' = [engines EXCEPT ![bg] = t]
      PROVE  engines'[bg] = t /\ \A b \in LocalBGs \ {bg} : engines'[b] = engines[b]
  BY <1>1, <1>3
<1>4. CASE e.state = "SIMD_MUL" /\ SubmitTarget(bg)
  <2> DEFINE u == BuildOperation(e)
             t == TargetSubmitted(u)
  <2>1. /\ EngineInv(u, bg, c) /\ u.state = "SIMD_MUL" /\ u.op # NoOp /\ u.epoch = e.epoch
        /\ u.flushRequested = e.flushRequested
    BY <1>1, <1>4, BuildGoes DEF Goes
  <2>2. t.state = "WAIT_TARGET_GRANT" /\ t.op = u.op /\ t.epoch = u.epoch BY <2>1, TargetGoes
  <2>3. t.flushRequested = u.flushRequested
    BY <2>1 DEF TargetSubmitted, EngineInv, EngineTyped, EngineFields, EngineInit
  <2>4. \/ exec' = [exec EXCEPT !.threw = TRUE] /\ UNCHANGED <<engines, rank>>
        \/ /\ engines' = [engines EXCEPT ![bg] = IF R!Admits(rank, bg) THEN t ELSE u]
           /\ rank' = R!SubmitBGTargetedOperation(rank, bg, u.op)
    BY <1>4 DEF SubmitTarget, Throw, Put
  <2> HIDE DEF u, t
  <2>5. CASE exec' = [exec EXCEPT !.threw = TRUE] /\ UNCHANGED <<engines, rank>>
    BY <1>1, <1>2, <1>4, <2>5, ThrewExec DEF Granting
  <2>6. CASE /\ engines' = [engines EXCEPT ![bg] = t] /\ R!Admits(rank, bg)
             /\ rank' = R!SubmitBGTargetedOperation(rank, bg, u.op)
    <3>1. /\ RankTyped(rank') /\ \A b \in LocalBGs \ {bg} : Holds(rank, rank', b)
          /\ rank'.pending[bg] = u.op /\ rank'.lifecycle[bg] = "RUNNING"
          /\ rank'.active[bg] = rank.active[bg] /\ rank'.completion[bg] = rank.completion[bg]
      BY <2>6, SubmitHolds
    <3>2. Free(rank, bg) BY <1>4 DEF RankFits, Waits
    <3>3. RankFits(t, rank', bg, FALSE) BY <2>1, <2>2, <3>1, <3>2 DEF RankFits, Free, Waits
    <3>4. engines'[bg] = t /\ \A b \in LocalBGs \ {bg} : engines'[b] = engines[b] BY <1>3, <2>6
    <3> QED BY <2>1, <2>2, <2>3, <3>1, <3>3, <3>4 DEF Granting
  <2>7. CASE /\ engines' = [engines EXCEPT ![bg] = u] /\ ~R!Admits(rank, bg)
             /\ rank' = R!SubmitBGTargetedOperation(rank, bg, u.op)
    <3>1. RankTyped(rank') /\ \A b \in LocalBGs : Holds(rank, rank', b) BY <2>7, SubmitHolds
    <3>2. Free(rank, bg) BY <1>4 DEF RankFits, Waits
    <3>3. RankFits(u, rank', bg, FALSE) BY <2>1, <3>1, <3>2 DEF RankFits, Free, Waits, Holds
    <3>4. engines'[bg] = u /\ \A b \in LocalBGs \ {bg} : engines'[b] = engines[b] BY <1>3, <2>7
    <3> QED BY <2>1, <3>1, <3>3, <3>4 DEF Granting
  <2> QED BY <2>4, <2>5, <2>6, <2>7
<1>5. CASE e.state = "WAIT_TARGET_GRANT" /\ AskGrant(bg)
  <2> DEFINE t == TargetGranted(e)
             H(slot) == slot # NoOp /\ slot.id = e.op.id
  <2>1. /\ UNCHANGED rank
        /\ \/ engines' = [engines EXCEPT ![bg] = e] /\ H(rank.pending[bg])
           \/ /\ engines' = [engines EXCEPT ![bg] = t] /\ ~H(rank.pending[bg])
              /\ H(rank.active[bg]) \/ H(rank.completion[bg])
           \/ exec' = [exec EXCEPT !.threw = TRUE] /\ UNCHANGED engines
    BY <1>5 DEF AskGrant, Throw, Put, Step
  <2>2. t.state = "WAIT_TARGET_COMPLETION" /\ t.op = e.op BY <1>1, <1>5, TargetGoes
  <2> HIDE DEF t
  <2>3. e.op # NoOp BY <1>5 DEF RankFits, Waits
  <2>4. CASE engines' = [engines EXCEPT ![bg] = e] /\ H(rank.pending[bg])
    BY <1>5, <2>1, <2>3, <2>4, <1>2, <1>3 DEF RankFits, Waits
  <2>5. CASE engines' = [engines EXCEPT ![bg] = t] /\ ~H(rank.pending[bg])
    <3>1. RankFits(t, rank', bg, FALSE) BY <1>5, <2>1, <2>2, <2>3, <2>5 DEF RankFits, Waits
    <3> QED BY <1>2, <1>3, <2>1, <2>2, <2>5, <3>1 DEF Granting
  <2>6. CASE exec' = [exec EXCEPT !.threw = TRUE] /\ UNCHANGED engines
    BY <1>1, <1>2, <2>1, <2>6, ThrewExec
  <2> QED BY <2>1, <2>4, <2>5, <2>6
<1>6. CASE e.state = "WAIT_TARGET_COMPLETION" /\ PollTarget(bg)
  <2> DEFINE t == TargetCompleted(e)
             x == rank.completion[bg]
  <2>1. e.op # NoOp BY <1>6 DEF RankFits, Waits
  <2>2. t.state \in {"FLUSHING", "EMIT_PARTIALS"}
    BY <1>1 DEF TargetCompleted, EngineInv, EngineTyped, EngineFields, EngineInit
  <2>3. \/ engines' = [engines EXCEPT ![bg] = e] /\ UNCHANGED rank
        \/ /\ x # NoOp /\ x # rank.retired[bg]
           /\ rank' = R!ValidateAndRetire(rank, bg, x)
           /\ x = e.op => engines' = [engines EXCEPT ![bg] = t]
    BY <1>6 DEF PollTarget, Put, Step
  <2> HIDE DEF t
  <2>4. CASE engines' = [engines EXCEPT ![bg] = e] /\ UNCHANGED rank
    BY <1>6, <2>4, FitsAfter, <1>2, <1>3
  <2>5. CASE /\ x # NoOp /\ x # rank.retired[bg]
             /\ rank' = R!ValidateAndRetire(rank, bg, x)
             /\ x = e.op => engines' = [engines EXCEPT ![bg] = t]
    <3>1. x = e.op /\ rank.active[bg] = NoOp /\ rank.pending[bg] = NoOp
      BY <1>6, <2>5 DEF RankFits
    <3>2. /\ RankTyped(rank') /\ \A b \in LocalBGs \ {bg} : Holds(rank, rank', b)
          /\ rank'.completion[bg] = NoOp /\ rank'.pending[bg] = NoOp /\ rank'.active[bg] = NoOp
      BY <2>5, <3>1, RetireHolds
    <3>3. RankFits(t, rank', bg, FALSE) BY <2>2, <3>2 DEF RankFits, Free, Waits
    <3> QED BY <1>3, <2>2, <2>5, <3>1, <3>2, <3>3 DEF Granting
  <2> QED BY <2>3, <2>4, <2>5
<1> QED BY <1>4, <1>5, <1>6

\* The rank keeps its shape in every engine's turn.
LEMMA TurnTyped ==
  ASSUME ReadsInv, RankTyped(rank), NEW bg \in LocalBGs,
         SubmitTarget(bg) \/ AskGrant(bg) \/ PollTarget(bg)
  PROVE  RankTyped(rank')
<1>1. CASE SubmitTarget(bg) BY <1>1, SubmitHolds DEF SubmitTarget, Throw
<1>2. CASE AskGrant(bg) BY <1>2 DEF AskGrant, Throw, Step
<1>3. CASE PollTarget(bg) BY <1>3, ValidateTyped DEF PollTarget, Step
<1> QED BY <1>1, <1>2, <1>3

\* One pass of the loop over the engines.
LEMMA VisitRank ==
  ASSUME ReadsInv, LockstepInv, LockstepInv', RankInv, NEW accepted \in BOOLEAN, Visit(accepted)
  PROVE  RankInv'
<1> DEFINE e == engines[turn]
           t == engines'[turn]
<1>0. /\ \A b \in LocalBGs : Moves(engines[b], engines'[b])
      /\ turn \in LocalBGs /\ turn # Idle /\ policy' = policy /\ epochs' = epochs
      /\ turn' = IF exec.failed THEN NumBGs ELSE turn + 1
      /\ \/ /\ UNCHANGED <<engines, rank>> /\ exec' = Latched(exec, e)
            /\ exec.failed \/ ~e.busy \/ Held(turn)
         \/ /\ ~exec.failed /\ ~Held(turn) /\ e.busy
            /\ \/ UNCHANGED rank /\ e.state \notin Waits /\ Quiet(e, t)
                  /\ \A b \in LocalBGs \ {turn} : engines'[b] = engines[b]
               \/ e.state = "SIMD_MUL" /\ SubmitTarget(turn)
               \/ e.state = "WAIT_TARGET_GRANT" /\ AskGrant(turn)
               \/ e.state = "WAIT_TARGET_COMPLETION" /\ PollTarget(turn)
  BY VisitWaits
<1>1. RankTyped(rank') BY <1>0, TurnTyped DEF RankInv
<1>2. ~exec.threw /\ ExecTyped(exec) /\ EngineTyped(e) BY <1>0 DEF Visit, ReadsInv, EngineInv
<1>3. SUFFICES ASSUME "resetBG" \notin policy.calls, Unharmed'
               PROVE  GrantsFirst' /\ \A bg \in LocalBGs : RankFits(engines'[bg], rank', bg, Due(bg)')
  BY <1>0, <1>1 DEF RankInv
<1>4. ~exec'.failed BY <1>3 DEF Unharmed
<1>5. ~exec.failed
  <2>1. CASE exec' = Latched(exec, e)
    BY <1>2, <2>1, LatchedExec, <1>4 DEF ExecTyped, HasFailed
  <2>2. CASE ~exec.failed /\ ~Held(turn) BY <2>2
  <2> QED BY <1>0, <2>1, <2>2
<1>6. turn' = turn + 1 /\ turn' # Idle /\ turn' \in Nat /\ turn \in Nat
  BY <1>0, IntegrationAssumption, <1>5 DEF LocalBGs, Idle
<1>7. ~exec'.threw BY <1>3, <1>6 DEF Unharmed, Idle
<1>8. GrantsFirst /\ \A bg \in LocalBGs : RankFits(engines[bg], rank, bg, Due(bg))
  BY <1>2, <1>3, <1>5 DEF RankInv, Unharmed
<1>9. \A bg \in LocalBGs \ {turn} : Due(bg)' = Due(bg)
  <2> SUFFICES ASSUME NEW bg \in LocalBGs, bg # turn
               PROVE  Due(bg)' = Due(bg)
    OBVIOUS
  <2>1. bg \in Nat BY IntegrationAssumption DEF LocalBGs
  <2>2. bg >= turn + 1 <=> bg >= turn BY <1>6, <2>1
  <2> QED BY <1>0, <1>6, <2>2 DEF Due, Idle
<1>10. Due(turn) \in BOOLEAN /\ \A bg \in LocalBGs : bg = turn => ~Due(bg)'
  <2>1. Due(turn) \in BOOLEAN BY DEF Due
  <2>2. ASSUME NEW bg \in LocalBGs, bg = turn
        PROVE  ~Due(bg)'
    BY <1>6, <2>2 DEF Due
  <2> QED BY <2>1, <2>2
<1> DEFINE Told == /\ \A b \in LocalBGs \ {turn} : engines'[b] = engines[b] /\ Holds(rank, rank', b)
                   /\ RankFits(t, rank', turn, FALSE)
                   /\ policy.barrier /\ Granting(t) => Leads(turn) /\ t.epoch = e.epoch
<1>11. ASSUME Told
       PROVE  GrantsFirst' /\ \A bg \in LocalBGs : RankFits(engines'[bg], rank', bg, Due(bg)')
  <2>1. ASSUME NEW bg \in LocalBGs
        PROVE  RankFits(engines'[bg], rank', bg, Due(bg)')
    <3>1. CASE bg = turn
      BY <1>10, <3>1, <1>11 DEF Due
    <3>2. CASE bg # turn
      BY <1>11, <3>2, <1>8, FitsOn, <1>9 DEF Quiet
    <3> QED BY <3>1, <3>2
  <2>2. ASSUME NEW bg \in LocalBGs, policy.barrier, Granting(engines'[bg])
        PROVE  Leads(bg) /\ engines'[bg].epoch = engines[bg].epoch
    BY <1>8, <1>11, <2>2 DEF GrantsFirst
  <2>3. GrantsFirst' BY <1>0, <2>2, GrantsStayFirst
  <2> QED BY <2>1, <2>3
<1>12. \A b \in LocalBGs : Holds(rank, rank, b) BY DEF Holds
<1>13. CASE UNCHANGED <<engines, rank>> /\ (~e.busy \/ Held(turn))
  BY <1>0, <1>2, <1>8, <1>13, GrantingRuns, FitsAfter, <1>12, <1>11 DEF EngineTyped, Granting
<1>14. CASE /\ UNCHANGED rank /\ e.state \notin Waits /\ Quiet(e, t)
            /\ \A b \in LocalBGs \ {turn} : engines'[b] = engines[b]
  BY <1>0, <1>8, <1>14, FitsAfter, <1>12, FitsOn, <1>11 DEF Waits, Granting, Quiet
<1>15. CASE /\ ~Held(turn)
            /\ \/ e.state = "SIMD_MUL" /\ SubmitTarget(turn)
               \/ e.state = "WAIT_TARGET_GRANT" /\ AskGrant(turn)
               \/ e.state = "WAIT_TARGET_COMPLETION" /\ PollTarget(turn)
  <2>1. RankTyped(rank) /\ RankFits(e, rank, turn, Due(turn)) BY <1>0, <1>8 DEF RankInv
  <2>2. /\ \A b \in LocalBGs \ {turn} : engines'[b] = engines[b] /\ Holds(rank, rank', b)
        /\ RankFits(t, rank', turn, FALSE)
        /\ Granting(t) => t.epoch = e.epoch /\ (Granting(e) \/ ~e.flushRequested)
    BY <1>0, <1>7, <1>10, <1>15, <2>1, TurnFits
  <2>3. policy.barrier /\ Granting(t) => Leads(turn)
    BY <1>0, <1>8, <1>15, <2>2, FreeLeads DEF GrantsFirst
  <2>4. Told BY <2>2, <2>3
  <2> QED BY <1>11, <2>4
<1> QED BY <1>0, <1>5, <1>13, <1>14, <1>15

\* Engines of which none takes a chunk or starts to wait for a grant.
LEMMA StaysFirst ==
  ASSUME LockstepInv, LockstepInv', ReadsInv', policy' = policy, GrantsFirst,
         \A bg \in LocalBGs :
           /\ Stays(engines[bg], engines'[bg])
           /\ engines'[bg].state = "WAIT_TARGET_GRANT" => engines[bg].state = "WAIT_TARGET_GRANT",
         turn' # Idle => epochs' = {engines'[bg].epoch : bg \in Participants(engines')}
  PROVE  GrantsFirst'
<1>1. ASSUME NEW bg \in LocalBGs
      PROVE  /\ Moves(engines[bg], engines'[bg])
             /\ policy.barrier /\ Granting(engines'[bg]) =>
                  Leads(bg) /\ engines'[bg].epoch = engines[bg].epoch
  <2>1. Moves(engines[bg], engines'[bg]) /\ engines'[bg].epoch = engines[bg].epoch
    BY StaysMoves DEF Stays
  <2>2. ASSUME policy.barrier, Granting(engines'[bg])
        PROVE  Leads(bg)
    <3>1. EngineTyped(engines'[bg]) BY DEF ReadsInv, EngineInv
    <3>2. TakesPart(engines'[bg]) BY <2>2, <3>1 DEF EngineTyped, TakesPart, Granting
    <3>3. TakesPart(engines[bg]) BY <3>2 DEF Stays
    <3>4. Granting(engines[bg]) BY <2>2, <3>3 DEF TakesPart, Granting
    <3> QED BY <2>2, <3>4 DEF GrantsFirst
  <2> QED BY <2>1, <2>2
<1> QED BY <1>1, GrantsStayFirst

\* The rank's cycle, and the read that comes back in it.
LEMMA CycleRank ==
  ASSUME ReadsInv, LockstepInv, LockstepInv', RankInv,
         NEW done \in {{}} \cup OneRead, NEW busBusy, Cycle(done, busBusy)
  PROVE  RankInv'
<1>1. /\ \A bg \in LocalBGs : Quiet(engines[bg], engines'[bg])
      /\ ReadsInv'
  BY CycleEngines, CycleReads
<1>2. /\ turn = Idle /\ turn' = 0 /\ policy' = policy
      /\ R!ServiceBGTargeted(rank, busBusy, rank')
      /\ epochs' = {engines'[bg].epoch : bg \in Participants(engines')}
      /\ engines' = [bg \in LocalBGs |->
                      IF \E token \in done : Owner(token) = bg
                      THEN OnRequestComplete(engines[bg], CHOOSE token \in done : TRUE)
                      ELSE engines[bg]]
  BY DEF Cycle
<1>3. RankTyped(rank') /\ \A bg \in LocalBGs : Serviced(rank, rank', bg)
  BY <1>2, ServiceHolds DEF RankInv
<1>4. exec.failed => exec'.failed
  <2>1. PICK failed \in {exec.failed \/ \E token \in done : ~Matches(engines[Owner(token)], token)} :
          exec' = [exec EXCEPT !.outstanding = @ \ done,
                               !.failed = failed \/ path'.error,
                               !.threw = StepThrew(accumulators')]
    BY DEF Cycle
  <2> DEFINE A == failed \/ path'.error
             B == StepThrew(accumulators')
  <2>2. exec' = [exec EXCEPT !.outstanding = @ \ done, !.failed = A, !.threw = B]
        /\ (exec.failed => A)
    BY <2>1
  <2> HIDE DEF A, B
  <2>3. ExecTyped(exec) BY DEF ReadsInv
  <2>4. exec'.failed = A BY <2>2, <2>3, ExecNames
  <2> QED BY <2>2, <2>4
<1>5. SUFFICES ASSUME "resetBG" \notin policy.calls, Unharmed'
               PROVE  GrantsFirst' /\ \A bg \in LocalBGs : RankFits(engines'[bg], rank', bg, Due(bg)')
  BY <1>2, <1>3 DEF RankInv
<1>6. GrantsFirst /\ \A bg \in LocalBGs : RankFits(engines[bg], rank, bg, FALSE)
  BY <1>2, <1>4, <1>5 DEF RankInv, Unharmed, Due
<1>7. ASSUME NEW bg \in LocalBGs
      PROVE  RankFits(engines'[bg], rank', bg, Due(bg)')
  <2>1. Due(bg)' = TRUE
    BY TurnNumbers, IntegrationAssumption, <1>2 DEF LocalBGs, Due, Idle
  <2>2. RankFits(engines'[bg], rank', bg, TRUE) BY <1>1, <1>3, <1>6, ServiceFits
  <2> QED BY <2>1, <2>2
<1>8. ASSUME NEW bg \in LocalBGs
      PROVE  /\ Stays(engines[bg], engines'[bg])
             /\ engines'[bg].state = "WAIT_TARGET_GRANT" => engines[bg].state = "WAIT_TARGET_GRANT"
  BY <1>2, CompletionStays, StaysPut, <1>1 DEF LockstepInv, AllSound, Quiet, Waits
<1> QED BY <1>1, <1>2, <1>6, <1>7, <1>8, StaysFirst

\* The end of a tick().
LEMMA FinishRank ==
  ASSUME ReadsInv, LockstepInv, LockstepInv', RankInv, Finish
  PROVE  RankInv'
<1> DEFINE s == Served
           x == [exec EXCEPT !.failed = @ \/ s.failed \/ s.path.error, !.threw = s.threw]
           w == [engines |-> engines, accumulators |-> s.accumulators, path |-> s.path,
                 output |-> s.output]
           mismatch == Finalizes(x) /\ ~EndToEndConsistent(x, w)
           y == [x EXCEPT !.failed = @ \/ mismatch]
<1>1. /\ UNCHANGED <<engines, rank, policy>> /\ turn' = Idle /\ turn = NumBGs /\ ~exec.threw
      /\ exec' \in {y, [y EXCEPT !.flushCompleted = TRUE]}
  <2>1. /\ UNCHANGED <<engines, rank, policy>> /\ turn' = Idle /\ turn = NumBGs /\ ~exec.threw
        /\ exec' = FinishFlush(y, [w EXCEPT !.output = output'])
    BY DEF Finish
  <2> HIDE DEF s, x, w, mismatch, y
  <2> QED BY <2>1 DEF FinishFlush
<1> HIDE DEF s
<1>2. ExecTyped(exec) /\ ReadsInv' BY FinishReads DEF ReadsInv
<1>3. DOMAIN x = ExecFields /\ (exec.failed => x.failed)
  <2> DEFINE F == exec.failed \/ s.failed \/ s.path.error
  <2>1. x = [exec EXCEPT !.failed = F, !.threw = s.threw] OBVIOUS
  <2>2. exec.failed => F OBVIOUS
  <2> HIDE DEF F, x
  <2> QED BY <1>2, <2>1, <2>2, ExecNames
<1> HIDE DEF x, mismatch
<1>4. DOMAIN y = ExecFields /\ (x.failed => y.failed)
  <2> DEFINE F == x.failed \/ mismatch
  <2>1. y = [x EXCEPT !.failed = F] OBVIOUS
  <2>2. x.failed => F OBVIOUS
  <2>3. "failed" \in DOMAIN x BY <1>2, <1>3, ExecNames
  <2> HIDE DEF F, y
  <2> QED BY <1>3, <2>1, <2>2, <2>3
<1> HIDE DEF y
<1>5. exec'.failed = y.failed
  BY <1>2, <1>4, ExecNames, <1>1
<1>6. SUFFICES ASSUME "resetBG" \notin policy.calls, Unharmed'
               PROVE  GrantsFirst' /\ \A bg \in LocalBGs : RankFits(engines'[bg], rank', bg, Due(bg)')
  BY <1>1 DEF RankInv
<1>7. GrantsFirst /\ \A bg \in LocalBGs : RankFits(engines[bg], rank, bg, Due(bg))
  BY <1>1, <1>3, <1>4, <1>5, <1>6 DEF RankInv, Unharmed
<1>8. ASSUME NEW bg \in LocalBGs
      PROVE  RankFits(engines'[bg], rank', bg, Due(bg)')
  <2>1. Due(bg) = FALSE /\ Due(bg)' = FALSE
    BY IntegrationAssumption, <1>1 DEF LocalBGs, Due, Idle
  <2> QED BY <1>1, <1>7, <2>1
<1>9. ASSUME NEW bg \in LocalBGs
      PROVE  /\ Stays(engines[bg], engines'[bg])
             /\ engines'[bg].state = "WAIT_TARGET_GRANT" => engines[bg].state = "WAIT_TARGET_GRANT"
  BY <1>1, StaysPut DEF LockstepInv, AllSound
<1>10. turn' = Idle BY <1>1
<1> QED BY <1>1, <1>2, <1>7, <1>8, <1>9, StaysFirst DEF Idle

\* A rank that holds nothing, and engines that do not wait.
LEMMA IdleFits ==
  ASSUME NEW e, NEW r, NEW bg, NEW due, Free(r, bg), e.state \notin Waits
  PROVE  RankFits(e, r, bg, due)
BY DEF RankFits, Free, Waits

\* launch and reset.
LEMMA RestartRank ==
  ASSUME ReadsInv, RankInv, Launch \/ Reset
  PROVE  RankInv'
<1>1. UNCHANGED rank /\ \A bg \in LocalBGs : Free(rank, bg)
  BY DEF Launch, Reset, HostSeesIdleRank, R!Outstanding, Free
<1>2. \A bg \in LocalBGs : engines'[bg].state \notin Waits
  <2>1. CASE Launch BY <2>1, LaunchReads DEF Waits
  <2>2. CASE Reset
    <3>1. \A bg \in LocalBGs : engines'[bg] = ResetEngine(engines[bg]) BY <2>2 DEF Reset
    <3>2. ASSUME NEW bg \in LocalBGs
          PROVE  engines'[bg].state = "IDLE"
      <4>1. EngineInv(engines[bg], bg, policy.consumer) BY DEF ReadsInv
      <4>2. ResetEngine(engines[bg]).state = "IDLE" BY <4>1, ResetGoes
      <4> QED BY <3>1, <4>2
    <3> QED BY <3>2 DEF Waits
  <2> QED BY <2>1, <2>2
<1>3. GrantsFirst' BY <1>2 DEF GrantsFirst, Granting, Waits
<1>4. \A bg \in LocalBGs : RankFits(engines'[bg], rank', bg, Due(bg)') BY <1>1, <1>2, IdleFits
<1> QED BY <1>1, <1>3, <1>4 DEF RankInv

\* A host call of the second kind: engines and rank are flushed or reset in place.
LEMMA HostRank ==
  ASSUME LockstepInv, LockstepInv', ReadsInv', RankInv,
         turn = Idle, turn' = Idle, policy' = policy,
         RankTyped(rank'), exec'.failed = exec.failed,
         \A bg \in LocalBGs :
           /\ Stays(engines[bg], engines'[bg])
           /\ engines'[bg].state = "WAIT_TARGET_GRANT" => engines[bg].state = "WAIT_TARGET_GRANT",
         "resetBG" \notin policy.calls =>
           \A bg \in LocalBGs : RankFits(engines[bg], rank, bg, FALSE) =>
                                  RankFits(engines'[bg], rank', bg, FALSE)
  PROVE  RankInv'
<1>1. SUFFICES ASSUME "resetBG" \notin policy.calls, Unharmed'
               PROVE  GrantsFirst' /\ \A bg \in LocalBGs : RankFits(engines'[bg], rank', bg, Due(bg)')
  BY DEF RankInv
<1>2. GrantsFirst /\ \A bg \in LocalBGs : RankFits(engines[bg], rank, bg, Due(bg))
  BY <1>1 DEF RankInv, Unharmed
<1>3. \A bg \in LocalBGs : Due(bg) = FALSE /\ Due(bg)' = FALSE BY DEF Due, Idle
<1>4. \A bg \in LocalBGs : RankFits(engines'[bg], rank', bg, Due(bg)') BY <1>1, <1>2, <1>3
<1>5. turn' # Idle => epochs' = {engines'[bg].epoch : bg \in Participants(engines')} BY DEF Idle
<1>6. GrantsFirst' BY <1>2, <1>5, StaysFirst DEF Idle
<1> QED BY <1>4, <1>6

\* flush.
LEMMA FlushAllRank ==
  ASSUME ReadsInv, LockstepInv, LockstepInv', RankInv, FlushAll
  PROVE  RankInv'
<1>1. /\ turn = Idle /\ turn' = Idle /\ policy' = policy /\ UNCHANGED rank
      /\ engines' = [bg \in LocalBGs |->
                       IF exec.launched THEN Flush(engines[bg]) ELSE Flushing(Flush(engines[bg]))]
  BY DEF FlushAll, HostCall, tickVars
<1>2. ReadsInv' /\ exec'.failed = exec.failed BY FlushAllReads
<1>3. ASSUME NEW bg \in LocalBGs
      PROVE  /\ Stays(engines[bg], engines'[bg]) /\ Quiet(engines[bg], engines'[bg])
             /\ engines'[bg].state = "WAIT_TARGET_GRANT" => engines[bg].state = "WAIT_TARGET_GRANT"
             /\ RankFits(engines[bg], rank, bg, FALSE) => RankFits(engines'[bg], rank', bg, FALSE)
  <2> DEFINE t == IF exec.launched THEN Flush(engines[bg]) ELSE Flushing(Flush(engines[bg]))
  <2>1. engines'[bg] = t BY <1>1
  <2>2. Stays(engines[bg], t) BY HostStays DEF LockstepInv, AllSound
  <2>3. Quiet(engines[bg], t) BY FlushedGoes
  <2> HIDE DEF t
  <2>4. Holds(rank, rank', bg) BY <1>1 DEF Holds
  <2>5. RankFits(engines[bg], rank, bg, FALSE) => RankFits(t, rank', bg, FALSE)
    BY <2>3, <2>4, FitsOn
  <2> QED BY <2>1, <2>2, <2>3, <2>5 DEF Quiet, Waits
<1> QED BY <1>1, <1>2, <1>3, HostRank DEF RankInv

\* flushBG drops what waits for its grant, and the engine gives it up.
LEMMA FlushBGFits ==
  ASSUME NEW e, NEW bg \in LocalBGs, NEW c, EngineInv(e, bg, c), NEW r, RankTyped(r),
         RankFits(e, r, bg, FALSE)
  PROVE  RankFits(FlushIncomplete(e), R!FlushBG(r, bg), bg, FALSE)
<1> DEFINE t == FlushIncomplete(e)
           s == R!FlushBG(r, bg)
<1>1. /\ t.op = e.op /\ t.state \in {e.state, "FLUSHING"}
      /\ e.state = "WAIT_TARGET_COMPLETION" => t.state = e.state
      /\ t.state \in Waits => t.state = "WAIT_TARGET_COMPLETION"
  BY IncompleteGoes
<1>2. /\ s.active[bg] = r.active[bg] /\ s.completion[bg] = r.completion[bg]
      /\ s.pending[bg] \in {NoOp, r.pending[bg]}
      /\ r.lifecycle[bg] = "RUNNING" => s.pending[bg] = NoOp
  BY FlushHolds
<1> HIDE DEF t, s
<1>3. s.pending[bg] = NoOp BY <1>2 DEF RankFits
<1>4. ASSUME e.state = "WAIT_TARGET_COMPLETION"
      PROVE  RankFits(t, s, bg, FALSE)
  BY <1>1, <1>2, <1>3, <1>4 DEF RankFits, Waits
<1>5. ASSUME e.state # "WAIT_TARGET_COMPLETION"
      PROVE  RankFits(t, s, bg, FALSE)
  BY <1>1, <1>5, <1>2, <1>3, IdleFits DEF Waits, RankFits, Free
<1> QED BY <1>4, <1>5 DEF t, s

\* flushBG, of the rank and its engine.
LEMMA FlushBGRank ==
  ASSUME ReadsInv, LockstepInv, LockstepInv', RankInv, NEW bg \in LocalBGs, FlushBG(bg)
  PROVE  RankInv'
<1> DEFINE e == engines[bg]
           t == FlushIncomplete(e)
<1>1. /\ turn = Idle /\ turn' = Idle /\ policy' = policy /\ rank' = R!FlushBG(rank, bg)
      /\ engines' = [engines EXCEPT ![bg] = t]
  BY DEF FlushBG, HostCall, tickVars
<1>2. ReadsInv' /\ exec'.failed = exec.failed BY FlushBGReads
<1>3. EngineInv(e, bg, policy.consumer) /\ engines = [b \in LocalBGs |-> engines[b]]
  BY DEF ReadsInv
<1>4. engines'[bg] = t /\ \A b \in LocalBGs \ {bg} : engines'[b] = engines[b] BY <1>1, <1>3
<1>5. RankTyped(rank) /\ RankTyped(rank') /\ \A b \in LocalBGs \ {bg} : Holds(rank, rank', b)
  BY <1>1, FlushHolds DEF RankInv
<1>6. RankFits(e, rank, bg, FALSE) => RankFits(t, rank', bg, FALSE)
  BY <1>1, <1>3, <1>5, FlushBGFits
<1>7. Stays(e, t) BY HostStays DEF LockstepInv, AllSound
<1>8. t.state = "WAIT_TARGET_GRANT" => e.state = "WAIT_TARGET_GRANT" BY <1>3, IncompleteGoes
<1> HIDE DEF t
<1>9. ASSUME NEW b \in LocalBGs
      PROVE  /\ Stays(engines[b], engines'[b])
             /\ engines'[b].state = "WAIT_TARGET_GRANT" => engines[b].state = "WAIT_TARGET_GRANT"
             /\ RankFits(engines[b], rank, b, FALSE) => RankFits(engines'[b], rank', b, FALSE)
  <2>1. CASE b = bg BY <1>4, <1>6, <1>7, <1>8, <2>1
  <2>2. CASE b # bg
    BY <1>4, <1>5, <2>2, StaysPut, FitsOn DEF LockstepInv, AllSound, Quiet
  <2> QED BY <2>1, <2>2
<1> QED BY <1>1, <1>2, <1>5, <1>9, HostRank

\* resetBG after a reset, when no engine is at work.
LEMMA ResetBGRank ==
  ASSUME ReadsInv, LockstepInv, LockstepInv', RankInv, NEW bg \in LocalBGs, ResetBG(bg)
  PROVE  RankInv'
<1> DEFINE e == engines[bg]
           t == ResetEngine(e)
<1>1. /\ turn = Idle /\ turn' = Idle /\ policy' = policy /\ rank' = R!ResetBG(rank, bg)
      /\ UNCHANGED engines \/ engines' = [engines EXCEPT ![bg] = t]
      /\ "resetBG" \notin policy.calls => ~exec.launched
  BY DEF ResetBG, HostCall, tickVars
<1>2. ReadsInv' /\ exec'.failed = exec.failed BY ResetBGReads
<1>3. EngineInv(e, bg, policy.consumer) /\ engines = [b \in LocalBGs |-> engines[b]]
  BY DEF ReadsInv
<1>4. t.state = "IDLE" /\ Stays(e, t)
  BY <1>3, ResetGoes, HostStays DEF LockstepInv, AllSound
<1> HIDE DEF t
<1>5. /\ engines'[bg] \in {e, t}
      /\ \A b \in LocalBGs \ {bg} : engines'[b] = engines[b]
  BY <1>1, <1>3
<1>6. /\ RankTyped(rank') /\ \A b \in LocalBGs \ {bg} : Holds(rank, rank', b)
      /\ Free(rank, bg) => Holds(rank, rank', bg)
  BY <1>1, ResetHolds DEF RankInv
<1>7. ASSUME NEW b \in LocalBGs
      PROVE  /\ Stays(engines[b], engines'[b])
             /\ engines'[b].state = "WAIT_TARGET_GRANT" => engines[b].state = "WAIT_TARGET_GRANT"
             /\ "resetBG" \notin policy.calls /\ RankFits(engines[b], rank, b, FALSE) =>
                  RankFits(engines'[b], rank', b, FALSE)
  <2>1. Sound(engines[b]) BY DEF LockstepInv, AllSound
  <2>2. Stays(engines[b], engines'[b]) /\ engines'[b] \in {engines[b], t}
    BY <1>4, <1>5, <2>1, StaysPut
  <2>3. ASSUME "resetBG" \notin policy.calls, RankFits(engines[b], rank, b, FALSE)
        PROVE  RankFits(engines'[b], rank', b, FALSE)
    BY <1>1, <1>4, <2>2, <2>3, <1>6, IdleFits DEF ReadsInv, RankFits, Waits, Holds, Free
  <2> QED BY <1>4, <2>2, <2>3
<1> QED BY <1>1, <1>2, <1>6, <1>7, HostRank

-----------------------------------------------------------------------------
(* The three together                                                      *)

NativeInv == LockstepInv /\ ReadsInv /\ RankInv

\* The invariant holds when nothing was launched yet.
LEMMA InitNative ==
  ASSUME Init
  PROVE  NativeInv
<1>1. LockstepInv /\ ReadsInv BY InitLockstep, InitReads
<1>2. rank = R!RankInit /\ \A bg \in LocalBGs : engines[bg].state = "IDLE"
  BY DEF Init, EngineInit
<1>3. RankTyped(rank) /\ \A bg \in LocalBGs : Free(rank, bg) BY <1>2, InitRank
<1>4. GrantsFirst BY <1>2 DEF GrantsFirst, Granting
<1>5. \A bg \in LocalBGs : RankFits(engines[bg], rank, bg, Due(bg))
  BY <1>2, <1>3, IdleFits DEF Waits
<1> QED BY <1>1, <1>3, <1>4, <1>5 DEF NativeInv, RankInv

\* Every step keeps the invariant.
LEMMA NextNative ==
  ASSUME NativeInv, [Next]_vars
  PROVE  NativeInv'
<1>1. LockstepInv /\ ReadsInv /\ RankInv /\ LockstepInv' /\ ReadsInv'
  BY NextLockstep, NextReads DEF NativeInv
<1>2. ASSUME NEW done \in {{}} \cup OneRead, NEW busBusy, Cycle(done, busBusy)
      PROVE  RankInv'
  BY <1>1, <1>2, CycleRank
<1>3. ASSUME NEW accepted \in BOOLEAN, Visit(accepted)
      PROVE  RankInv'
  BY <1>1, <1>3, VisitRank
<1>4. ASSUME Finish
      PROVE  RankInv'
  BY <1>1, <1>4, FinishRank
<1>5. ASSUME Launch \/ Reset
      PROVE  RankInv'
  BY <1>1, <1>5, RestartRank
<1>6. ASSUME FlushAll
      PROVE  RankInv'
  BY <1>1, <1>6, FlushAllRank
<1>7. ASSUME NEW bg \in LocalBGs, FlushBG(bg) \/ ResetBG(bg)
      PROVE  RankInv'
  BY <1>1, <1>7, FlushBGRank, ResetBGRank
<1>8. ASSUME UNCHANGED vars
      PROVE  RankInv'
  BY <1>8, <1>1 DEF vars, GrantsFirst, Leads, Granting, Participants, Idle, RankInv, Unharmed,
    Due
<1> QED BY <1>1, <1>2, <1>3, <1>4, <1>5, <1>6, <1>7, <1>8 DEF Next, NativeInv

\* Between two ticks the rank holds what the engines wait for.
LEMMA RankInvAgrees ==
  ASSUME RankInv, "resetBG" \notin policy.calls
  PROVE  RankAgrees
<1> SUFFICES ASSUME ~exec.failed, turn = Idle, NEW bg \in LocalBGs
             PROVE  LET e == engines[bg]
                    IN  /\ rank.pending[bg] = IF e.state = "WAIT_TARGET_GRANT" THEN e.op ELSE NoOp
                        /\ IF e.state = "WAIT_TARGET_COMPLETION"
                           THEN e.op \in {rank.active[bg], rank.completion[bg]}
                           ELSE rank.active[bg] = NoOp /\ rank.completion[bg] = NoOp
  BY DEF RankAgrees
<1>1. RankFits(engines[bg], rank, bg, FALSE)
  BY DEF Unharmed, Due, RankInv
<1> QED BY <1>1 DEF RankFits, Free, Waits

\* The inductive invariant of the native execution, for any images, policies and calls.
THEOREM NativeInvariance == Spec => []NativeInv
  BY InitNative, NextNative, PTL DEF Spec

\* Every field keeps its type, and the reads the execution believes outstanding are
\* those its engines wait for, whatever the host flushes or resets (submit, tokenComplete).
THEOREM ReadsAgreement == Spec => [](TypeOK /\ ReadsAgree)
<1>1. NativeInv => TypeOK /\ ReadsAgree BY ReadsInvAgrees DEF NativeInv
<1> QED BY <1>1, NativeInvariance, PTL

\* As long as no bank group is reset at work, and nothing failed, every engine that waits
\* for its multiplication finds it in the rank, pending, running or completed, and the
\* rank holds nothing else (submitTarget, targetStatus, pollTarget, flushBG).
THEOREM RankAgreement == Spec => []("resetBG" \notin policy.calls => RankAgrees)
<1>1. NativeInv /\ "resetBG" \notin policy.calls => RankAgrees BY RankInvAgrees DEF NativeInv
<1> QED BY <1>1, NativeInvariance, PTL

-----------------------------------------------------------------------------
(* An accumulator, as far as its engine and its consumer know it           *)

AccFields == DOMAIN Accumulator!BGAInit

EntrySet ==
  [valid : BOOLEAN, reserved : BOOLEAN, row : Accumulator!Row,
   value : Seq(Accumulator!Contribution), age : Nat]
RecordSet ==
  [row : Accumulator!Row, value : Seq(Accumulator!Contribution), seq : Nat,
   slot : Accumulator!Slot, reason : {"CAPACITY_EVICTION", "FINAL_DRAIN"}]

\* Containers hold products, and so do the operation and the miss at work.
Contents(queue, acc, records) ==
  /\ queue \in [Accumulator!Stream -> Seq(Accumulator!Contribution)]
  /\ acc \in [Accumulator!Slot -> EntrySet]
  /\ records \in Seq(RecordSet)
InHand(op, miss) ==
  /\ DOMAIN op = DOMAIN Accumulator!NoOperation /\ op.input \in Accumulator!Contribution
  /\ DOMAIN miss = DOMAIN Accumulator!NoMiss /\ miss.input \in Accumulator!Contribution

\* Every field keeps its type, and what is being retired is there.
Shaped(s) ==
  /\ DOMAIN s = AccFields
  /\ Contents(s.queue, s.acc, s.output) /\ InHand(s.op, s.miss)
  /\ {s.presented, s.accepted, s.last} \subseteq [Accumulator!Stream -> Accumulator!Batch]
  /\ s.done \in [Accumulator!Stream -> BOOLEAN]
  /\ {s.rr, s.age, s.outSeq, s.taken, s.retired, s.aborted, s.generation} \subseteq Nat
  /\ s.retiring \in BOOLEAN /\ s.draining \in BOOLEAN
  /\ s.retiring => s.output # <<>>

\* What step() leaves alone.
Untouched(s, t) ==
  /\ t.presented = s.presented /\ t.last = s.last /\ t.done = s.done
  /\ t.generation = s.generation /\ t.taken = s.taken /\ t.aborted = s.aborted
  /\ t.draining = s.draining

\* A phase of step() that neither retires a record nor takes in a batch; what has
\* failed stays as it is.
InnerPhase(s, t) ==
  /\ Shaped(t) /\ Untouched(s, t)
  /\ t.retired = s.retired /\ t.retiring = s.retiring
  /\ s.fault # "none" => t.fault # "none"

\* Phases one after the other.
LEMMA PhasesCompose ==
  ASSUME NEW s, NEW t, NEW u, InnerPhase(s, t), InnerPhase(t, u)
  PROVE  InnerPhase(s, u)
BY DEF InnerPhase, Untouched

\* An invariant error changes nothing else.
LEMMA FaultShaped ==
  ASSUME NEW s, Shaped(s), NEW what, what # "none"
  PROVE  /\ InnerPhase(s, Accumulator!Fault(s, what)) /\ Accumulator!Fault(s, what).fault # "none"
         /\ Accumulator!Fault(s, what).accepted = s.accepted
BY DEF InnerPhase, Untouched, Shaped, AccFields, Accumulator!BGAInit, Accumulator!Fault

\* One stream.
LEMMA OneStream == Accumulator!Stream = {0} /\ 0 \in Accumulator!Stream
BY DEF Accumulator!Stream

\* The oldest record leaves.
LEMMA RetireShaped ==
  ASSUME NEW s, Shaped(s), NEW t, t = Accumulator!RetireOutput(s)
  PROVE  /\ Shaped(t) /\ Untouched(s, t)
         /\ s.fault # "none" => t.fault # "none"
         /\ t.fault = "none" =>
              /\ t.retiring = FALSE
              /\ t.retired = s.retired + (IF s.retiring THEN Len(Head(s.output).value) ELSE 0)
<1>1. CASE ~s.retiring
  BY <1>1 DEF Accumulator!RetireOutput, Shaped, Untouched
<1>2. CASE s.retiring /\ ~s.acc[Head(s.output).slot].reserved
  BY <1>2, FaultShaped DEF Accumulator!RetireOutput, InnerPhase
<1>3. CASE s.retiring /\ s.acc[Head(s.output).slot].reserved
  <2> DEFINE front == Head(s.output)
  <2>1. t = [s EXCEPT !.retired = @ + Len(front.value), !.acc[front.slot] = Accumulator!FreeEntry,
                      !.output = Tail(@), !.retiring = FALSE,
                      !.miss.awaiting = @ /\ s.miss.eviction # front.seq]
    BY <1>3 DEF Accumulator!RetireOutput
  <2>2. /\ DOMAIN t = AccFields /\ t.retired = s.retired + Len(front.value)
        /\ t.acc = [s.acc EXCEPT ![front.slot] = Accumulator!FreeEntry]
        /\ t.output = Tail(s.output) /\ t.retiring = FALSE
        /\ t.miss = [s.miss EXCEPT !.awaiting = s.miss.awaiting /\ s.miss.eviction # front.seq]
        /\ \A f \in AccFields \ {"retired", "acc", "output", "retiring", "miss"} : t[f] = s[f]
    BY <2>1 DEF Shaped, AccFields, Accumulator!BGAInit
  <2>3. front \in RecordSet /\ Len(front.value) \in Nat /\ Tail(s.output) \in Seq(RecordSet)
    <3>1. s.output \in Seq(RecordSet) /\ s.output # <<>> BY <1>3 DEF Shaped, Contents
    <3>2. front \in RecordSet /\ Tail(s.output) \in Seq(RecordSet) BY <3>1
    <3> QED BY <3>2 DEF RecordSet
  <2>4. Accumulator!FreeEntry \in EntrySet
    BY IntegrationAssumption DEF Accumulator!FreeEntry, EntrySet, Accumulator!Row
  <2>5. t.acc \in [Accumulator!Slot -> EntrySet] BY <2>2, <2>4 DEF Shaped, Contents
  <2>6. DOMAIN t.miss = DOMAIN Accumulator!NoMiss /\ t.miss.input \in Accumulator!Contribution
    BY <2>2 DEF Shaped, InHand, Accumulator!NoMiss
  <2> HIDE DEF front
  <2>7. /\ t.queue = s.queue /\ t.presented = s.presented /\ t.accepted = s.accepted
        /\ t.last = s.last /\ t.done = s.done /\ t.op = s.op /\ t.draining = s.draining
        /\ t.rr = s.rr /\ t.age = s.age /\ t.outSeq = s.outSeq /\ t.taken = s.taken
        /\ t.aborted = s.aborted /\ t.generation = s.generation /\ t.fault = s.fault
    BY <2>2 DEF AccFields, Accumulator!BGAInit
  <2>8. t.retired \in Nat /\ s.retired \in Nat BY <2>2, <2>3 DEF Shaped
  <2>9. Shaped(t)
    <3>1. Contents(t.queue, t.acc, t.output) /\ InHand(t.op, t.miss)
      BY <2>2, <2>3, <2>5, <2>6, <2>7 DEF Shaped, Contents, InHand
    <3>2. {t.rr, t.age, t.outSeq, t.taken, t.retired, t.aborted, t.generation} \subseteq Nat
      BY <2>7, <2>8 DEF Shaped
    <3>3. /\ {t.presented, t.accepted, t.last} \subseteq [Accumulator!Stream -> Accumulator!Batch]
          /\ t.done \in [Accumulator!Stream -> BOOLEAN]
          /\ t.draining \in BOOLEAN
      BY <2>7 DEF Shaped
    <3>4. t.retiring \in BOOLEAN /\ ~t.retiring BY <2>2
    <3> QED BY <2>2, <3>1, <3>2, <3>3, <3>4 DEF Shaped
  <2>10. Untouched(s, t) BY <2>7 DEF Untouched
  <2> QED BY <1>3, <2>2, <2>7, <2>9, <2>10 DEF front
<1> QED BY <1>1, <1>2, <1>3

InnerFields == {"queue", "acc", "output", "op", "miss", "rr", "age", "outSeq"}

\* Only what the datapath works on changes.
LEMMA InnerShaped ==
  ASSUME NEW s, Shaped(s), NEW t, DOMAIN t = AccFields,
         Contents(t.queue, t.acc, t.output), InHand(t.op, t.miss),
         s.output # <<>> => t.output # <<>>, {t.rr, t.age, t.outSeq} \subseteq Nat,
         \A f \in AccFields \ InnerFields : t[f] = s[f]
  PROVE  InnerPhase(s, t) /\ t.accepted = s.accepted
<1>1. /\ t.presented = s.presented /\ t.accepted = s.accepted
      /\ t.last = s.last /\ t.done = s.done /\ t.draining = s.draining /\ t.taken = s.taken
      /\ t.aborted = s.aborted /\ t.generation = s.generation /\ t.fault = s.fault
      /\ t.retired = s.retired /\ t.retiring = s.retiring
  BY DEF AccFields, InnerFields, Accumulator!BGAInit
<1>2. {t.rr, t.age, t.outSeq, t.taken, t.retired, t.aborted, t.generation} \subseteq Nat
  BY <1>1 DEF Shaped
<1>3. /\ {t.presented, t.accepted, t.last} \subseteq [Accumulator!Stream -> Accumulator!Batch]
      /\ t.done \in [Accumulator!Stream -> BOOLEAN]
      /\ t.retiring \in BOOLEAN /\ t.draining \in BOOLEAN
  BY <1>1 DEF Shaped
<1>4. t.retiring => t.output # <<>> BY <1>1 DEF Shaped
<1>5. Shaped(t) BY <1>2, <1>3, <1>4 DEF Shaped
<1> QED BY <1>1, <1>5 DEF InnerPhase, Untouched

\* The comparison of a lookup.
LEMMA LookupShaped ==
  ASSUME NEW s, Shaped(s), NEW t, t = Accumulator!CommitLookup(s)
  PROVE  InnerPhase(s, t) /\ t.accepted = s.accepted
<1> DEFINE Starts(kind, k) ==
             [s EXCEPT !.op = [kind |-> kind, input |-> s.op.input, slot |-> k, remaining |-> AddLatency]]
           Misses(k) ==
             [s EXCEPT !.op = Accumulator!NoOperation,
                       !.miss = [active |-> TRUE, input |-> s.op.input, victim |-> k,
                                 eviction |-> 0, awaiting |-> FALSE]]
<1>1. \/ \E what : what # "none" /\ t = Accumulator!Fault(s, what)
      \/ \E kind, k : t = Starts(kind, k)
      \/ \E k : t = Misses(k)
  BY DEF Accumulator!CommitLookup
<1>2. ASSUME NEW what, what # "none", t = Accumulator!Fault(s, what)
      PROVE  InnerPhase(s, t) /\ t.accepted = s.accepted
  BY <1>2, FaultShaped
<1>3. /\ Contents(s.queue, s.acc, s.output) /\ InHand(s.op, s.miss)
      /\ {s.rr, s.age, s.outSeq} \subseteq Nat /\ DOMAIN s = AccFields
  BY DEF Shaped
<1>4. ASSUME NEW kind, NEW k, t = Starts(kind, k)
      PROVE  InnerPhase(s, t) /\ t.accepted = s.accepted
  <2>1. /\ DOMAIN t = AccFields
        /\ t.op = [kind |-> kind, input |-> s.op.input, slot |-> k, remaining |-> AddLatency]
        /\ \A f \in AccFields \ {"op"} : t[f] = s[f]
    BY <1>3, <1>4 DEF AccFields, Accumulator!BGAInit
  <2>2. /\ t.queue = s.queue /\ t.acc = s.acc /\ t.output = s.output /\ t.miss = s.miss
        /\ t.rr = s.rr /\ t.age = s.age /\ t.outSeq = s.outSeq
    BY <2>1 DEF AccFields, Accumulator!BGAInit
  <2>3. InHand(t.op, t.miss) BY <1>3, <2>1, <2>2 DEF InHand, Accumulator!NoOperation
  <2>4. \A f \in AccFields \ InnerFields : t[f] = s[f] BY <2>1 DEF InnerFields
  <2> QED BY <1>3, <2>1, <2>2, <2>3, <2>4, InnerShaped
<1>5. ASSUME NEW k, t = Misses(k)
      PROVE  InnerPhase(s, t) /\ t.accepted = s.accepted
  <2>1. /\ DOMAIN t = AccFields /\ t.op = Accumulator!NoOperation
        /\ t.miss = [active |-> TRUE, input |-> s.op.input, victim |-> k,
                     eviction |-> 0, awaiting |-> FALSE]
        /\ \A f \in AccFields \ {"op", "miss"} : t[f] = s[f]
    BY <1>3, <1>5 DEF AccFields, Accumulator!BGAInit
  <2>2. /\ t.queue = s.queue /\ t.acc = s.acc /\ t.output = s.output
        /\ t.rr = s.rr /\ t.age = s.age /\ t.outSeq = s.outSeq
    BY <2>1 DEF AccFields, Accumulator!BGAInit
  <2>3. Accumulator!NoContribution \in Accumulator!Contribution
    BY OneStream, IntegrationAssumption
       DEF Accumulator!NoContribution, Accumulator!Contribution, Accumulator!Row
  <2>4. InHand(t.op, t.miss)
    BY <1>3, <2>1, <2>3 DEF InHand, Accumulator!NoOperation, Accumulator!NoMiss
  <2>5. \A f \in AccFields \ InnerFields : t[f] = s[f] BY <2>1 DEF InnerFields
  <2> QED BY <1>3, <2>1, <2>2, <2>4, <2>5, InnerShaped
<1> QED BY <1>1, <1>2, <1>4, <1>5

\* A product is added to its entry, or begins one.
LEMMA MergeShaped ==
  ASSUME NEW s, Shaped(s), NEW t, t = Accumulator!CommitMerge(s) \/ t = Accumulator!CommitInsert(s)
  PROVE  InnerPhase(s, t) /\ t.accepted = s.accepted
<1> DEFINE k == s.op.slot
           merged == [s EXCEPT !.op = Accumulator!NoOperation, !.acc[k].value = Append(@, s.op.input)]
           inserted == [s EXCEPT !.op = Accumulator!NoOperation, !.age = @ + 1,
                                 !.acc[k] = [valid |-> TRUE, reserved |-> FALSE,
                                             row |-> s.op.input.row, value |-> <<s.op.input>>,
                                             age |-> s.age + 1]]
<1>1. \/ \E what : what # "none" /\ t = Accumulator!Fault(s, what)
      \/ t = merged /\ k \in Accumulator!Slot
      \/ t = inserted
  BY DEF Accumulator!CommitMerge, Accumulator!CommitInsert, Accumulator!LiveSlots
<1>2. ASSUME NEW what, what # "none", t = Accumulator!Fault(s, what)
      PROVE  InnerPhase(s, t) /\ t.accepted = s.accepted
  BY <1>2, FaultShaped
<1>3. /\ Contents(s.queue, s.acc, s.output) /\ InHand(s.op, s.miss) /\ s.acc \in [Accumulator!Slot -> EntrySet]
      /\ {s.rr, s.age, s.outSeq} \subseteq Nat /\ DOMAIN s = AccFields /\ s.op.input \in Accumulator!Contribution
  BY DEF Shaped, Contents, InHand
<1>4. InHand(Accumulator!NoOperation, s.miss)
  BY <1>3, OneStream, IntegrationAssumption
     DEF InHand, Accumulator!NoOperation, Accumulator!NoContribution, Accumulator!Contribution, Accumulator!Row
<1>5. ASSUME t = merged, k \in Accumulator!Slot
      PROVE  InnerPhase(s, t) /\ t.accepted = s.accepted
  <2> DEFINE acc == [s.acc EXCEPT ![k].value = Append(@, s.op.input)]
  <2>1. /\ DOMAIN t = AccFields /\ t.op = Accumulator!NoOperation /\ t.acc = acc
        /\ \A f \in AccFields \ {"op", "acc"} : t[f] = s[f]
    BY <1>3, <1>5 DEF AccFields, Accumulator!BGAInit
  <2>2. acc \in [Accumulator!Slot -> EntrySet]
    <3>1. s.acc[k] \in EntrySet /\ Append(s.acc[k].value, s.op.input) \in Seq(Accumulator!Contribution)
      BY <1>3, <1>5 DEF EntrySet
    <3>2. [s.acc[k] EXCEPT !.value = Append(s.acc[k].value, s.op.input)] \in EntrySet
      BY <3>1 DEF EntrySet
    <3> QED BY <1>3, <3>2
  <2> HIDE DEF acc, k, merged
  <2>3. /\ t.queue = s.queue /\ t.output = s.output /\ t.miss = s.miss
        /\ t.rr = s.rr /\ t.age = s.age /\ t.outSeq = s.outSeq
    BY <2>1 DEF AccFields, Accumulator!BGAInit
  <2>4. Contents(t.queue, t.acc, t.output) /\ InHand(t.op, t.miss)
    BY <1>3, <1>4, <2>1, <2>2, <2>3 DEF Contents
  <2>5. \A f \in AccFields \ InnerFields : t[f] = s[f] BY <2>1 DEF InnerFields
  <2> QED BY <1>3, <2>1, <2>3, <2>4, <2>5, InnerShaped
<1>6. ASSUME t = inserted
      PROVE  InnerPhase(s, t) /\ t.accepted = s.accepted
  <2> DEFINE entry == [valid |-> TRUE, reserved |-> FALSE, row |-> s.op.input.row,
                       value |-> <<s.op.input>>, age |-> s.age + 1]
             acc == [s.acc EXCEPT ![k] = entry]
  <2>1. /\ DOMAIN t = AccFields /\ t.op = Accumulator!NoOperation /\ t.acc = acc /\ t.age = s.age + 1
        /\ \A f \in AccFields \ {"op", "acc", "age"} : t[f] = s[f]
    BY <1>3, <1>6 DEF AccFields, Accumulator!BGAInit
  <2>2. acc \in [Accumulator!Slot -> EntrySet]
    <3>1. s.op.input.row \in Accumulator!Row /\ <<s.op.input>> \in Seq(Accumulator!Contribution)
          /\ s.age + 1 \in Nat
      BY <1>3 DEF Accumulator!Contribution
    <3>2. entry \in EntrySet BY <3>1 DEF EntrySet
    <3> QED BY <1>3, <3>2
  <2> HIDE DEF acc, k, inserted, entry
  <2>3. /\ t.queue = s.queue /\ t.output = s.output /\ t.miss = s.miss
        /\ t.rr = s.rr /\ t.outSeq = s.outSeq
    BY <2>1 DEF AccFields, Accumulator!BGAInit
  <2>4. Contents(t.queue, t.acc, t.output) /\ InHand(t.op, t.miss)
    BY <1>3, <1>4, <2>1, <2>2, <2>3 DEF Contents
  <2>5. \A f \in AccFields \ InnerFields : t[f] = s[f] BY <2>1 DEF InnerFields
  <2>6. {t.rr, t.age, t.outSeq} \subseteq Nat BY <1>3, <2>1, <2>3
  <2> QED BY <1>3, <2>1, <2>3, <2>4, <2>5, <2>6, InnerShaped
<1> QED BY <1>1, <1>2, <1>5, <1>6

\* Nothing happens.
LEMMA InnerNothing ==
  ASSUME NEW s, Shaped(s)
  PROVE  InnerPhase(s, s)
BY DEF InnerPhase, Untouched

\* The running operation goes on, or is committed.
LEMMA CommitShaped ==
  ASSUME NEW s, Shaped(s), NEW t, t = Accumulator!CommitOperation(s)
  PROVE  InnerPhase(s, t) /\ t.accepted = s.accepted
<1> DEFINE counted == [s EXCEPT !.op.remaining = @ - 1]
<1>1. t \in {s, counted, Accumulator!CommitLookup(s), Accumulator!CommitMerge(s), Accumulator!CommitInsert(s)}
  BY DEF Accumulator!CommitOperation
<1>2. ASSUME t = counted
      PROVE  InnerPhase(s, t) /\ t.accepted = s.accepted
  <2>1. /\ Contents(s.queue, s.acc, s.output) /\ InHand(s.op, s.miss)
        /\ {s.rr, s.age, s.outSeq} \subseteq Nat /\ DOMAIN s = AccFields
    BY DEF Shaped
  <2>2. /\ DOMAIN t = AccFields /\ t.op = [s.op EXCEPT !.remaining = @ - 1]
        /\ \A f \in AccFields \ {"op"} : t[f] = s[f]
    BY <1>2, <2>1 DEF AccFields, Accumulator!BGAInit
  <2>3. /\ t.queue = s.queue /\ t.acc = s.acc /\ t.output = s.output /\ t.miss = s.miss
        /\ t.rr = s.rr /\ t.age = s.age /\ t.outSeq = s.outSeq
    BY <2>2 DEF AccFields, Accumulator!BGAInit
  <2>4. InHand(t.op, t.miss) BY <2>1, <2>2, <2>3 DEF InHand, Accumulator!NoOperation
  <2>5. \A f \in AccFields \ InnerFields : t[f] = s[f] BY <2>2 DEF InnerFields
  <2> QED BY <2>1, <2>2, <2>3, <2>4, <2>5, InnerShaped
<1> QED BY <1>1, <1>2, InnerNothing, LookupShaped, MergeShaped

\* A record of an entry is pushed; what else may change with it is the miss.
LEMMA PushShaped ==
  ASSUME NEW s, Shaped(s), NEW k, NEW reason \in {"CAPACITY_EVICTION", "FINAL_DRAIN"},
         NEW t, t = Accumulator!PushOutput(s, k, reason)
  PROVE  InnerPhase(s, t) /\ t.accepted = s.accepted
<1> DEFINE record == [row |-> s.acc[k].row, value |-> s.acc[k].value,
                      seq |-> s.outSeq + 1, slot |-> k, reason |-> reason]
           pushed == [s EXCEPT !.output = Append(@, record), !.acc[k].reserved = TRUE, !.outSeq = @ + 1]
<1>1. CASE k \notin Accumulator!LiveSlots(s)
  BY <1>1, FaultShaped DEF Accumulator!PushOutput
<1>2. CASE k \in Accumulator!LiveSlots(s)
  <2>1. /\ Contents(s.queue, s.acc, s.output) /\ InHand(s.op, s.miss) /\ s.acc \in [Accumulator!Slot -> EntrySet]
        /\ {s.rr, s.age, s.outSeq} \subseteq Nat /\ DOMAIN s = AccFields /\ s.output \in Seq(RecordSet)
    BY DEF Shaped, Contents
  <2>2. t = pushed /\ k \in Accumulator!Slot
    BY <1>2 DEF Accumulator!PushOutput, Accumulator!LiveSlots
  <2>3. /\ DOMAIN t = AccFields /\ t.output = Append(s.output, record)
        /\ t.acc = [s.acc EXCEPT ![k].reserved = TRUE] /\ t.outSeq = s.outSeq + 1
        /\ \A f \in AccFields \ {"output", "acc", "outSeq"} : t[f] = s[f]
    BY <2>1, <2>2 DEF AccFields, Accumulator!BGAInit
  <2>4. s.acc[k] \in EntrySet BY <2>1, <2>2
  <2>5. record \in RecordSet BY <2>1, <2>2, <2>4 DEF EntrySet, RecordSet
  <2>6. t.acc \in [Accumulator!Slot -> EntrySet]
    <3>1. [s.acc[k] EXCEPT !.reserved = TRUE] \in EntrySet BY <2>4 DEF EntrySet
    <3> QED BY <2>1, <2>3, <3>1
  <2> HIDE DEF record, pushed
  <2>7. t.output \in Seq(RecordSet) /\ t.output # <<>> BY <2>1, <2>3, <2>5
  <2>8. /\ t.queue = s.queue /\ t.op = s.op /\ t.miss = s.miss /\ t.rr = s.rr /\ t.age = s.age
    BY <2>3 DEF AccFields, Accumulator!BGAInit
  <2>9. Contents(t.queue, t.acc, t.output) /\ InHand(t.op, t.miss)
    BY <2>1, <2>6, <2>7, <2>8 DEF Contents
  <2>10. \A f \in AccFields \ InnerFields : t[f] = s[f] BY <2>3 DEF InnerFields
  <2>11. {t.rr, t.age, t.outSeq} \subseteq Nat BY <2>1, <2>3, <2>8
  <2>12. DOMAIN t = AccFields /\ (s.output # <<>> => t.output # <<>>) BY <2>3, <2>7
  <2>13. InnerPhase(s, t) /\ t.accepted = s.accepted BY <2>9, <2>10, <2>11, <2>12, InnerShaped
  <2> QED BY <2>13
<1> QED BY <1>1, <1>2

\* The miss is looked after, or the drain.
LEMMA EvictionShaped ==
  ASSUME NEW s, Shaped(s), NEW committed, NEW t, t = Accumulator!UpdateEvictionOrDrain(s, committed)
  PROVE  InnerPhase(s, t) /\ t.accepted = s.accepted
<1> DEFINE victim == Accumulator!PushOutput(s, s.miss.victim, "CAPACITY_EVICTION")
           evicting == [victim EXCEPT !.miss.eviction = s.outSeq + 1, !.miss.awaiting = TRUE]
           inserting == [s EXCEPT !.op = [kind |-> "INSERT", input |-> s.miss.input,
                                          slot |-> s.miss.victim, remaining |-> AddLatency],
                                  !.miss = Accumulator!NoMiss]
           drained == Accumulator!PushOutput(s, Accumulator!Oldest(s, Accumulator!LiveSlots(s)), "FINAL_DRAIN")
<1>1. t \in {s, victim, evicting, inserting, drained}
  BY DEF Accumulator!UpdateEvictionOrDrain, Accumulator!UpdateEviction, Accumulator!FinalDrain
<1>2. ASSUME t = evicting
      PROVE  InnerPhase(s, t) /\ t.accepted = s.accepted
  <2>1. InnerPhase(s, victim) /\ victim.accepted = s.accepted BY PushShaped
  <2> HIDE DEF victim
  <2>2. /\ Contents(victim.queue, victim.acc, victim.output) /\ InHand(victim.op, victim.miss)
        /\ {victim.rr, victim.age, victim.outSeq} \subseteq Nat /\ DOMAIN victim = AccFields /\ Shaped(victim)
    BY <2>1 DEF InnerPhase, Shaped
  <2>3. /\ DOMAIN t = AccFields
        /\ t.miss = [victim.miss EXCEPT !.eviction = s.outSeq + 1, !.awaiting = TRUE]
        /\ \A f \in AccFields \ {"miss"} : t[f] = victim[f]
    BY <1>2, <2>2 DEF AccFields, Accumulator!BGAInit
  <2>4. /\ t.queue = victim.queue /\ t.acc = victim.acc /\ t.output = victim.output /\ t.op = victim.op
        /\ t.rr = victim.rr /\ t.age = victim.age /\ t.outSeq = victim.outSeq
    BY <2>3 DEF AccFields, Accumulator!BGAInit
  <2>5. InHand(t.op, t.miss) BY <2>2, <2>3, <2>4 DEF InHand, Accumulator!NoMiss
  <2>6. \A f \in AccFields \ InnerFields : t[f] = victim[f] BY <2>3 DEF InnerFields
  <2>7. InnerPhase(victim, t) /\ t.accepted = victim.accepted
    BY <2>2, <2>3, <2>4, <2>5, <2>6, InnerShaped
  <2> QED BY <2>1, <2>7, PhasesCompose
<1>3. ASSUME t = inserting
      PROVE  InnerPhase(s, t) /\ t.accepted = s.accepted
  <2>1. /\ Contents(s.queue, s.acc, s.output) /\ InHand(s.op, s.miss)
        /\ {s.rr, s.age, s.outSeq} \subseteq Nat /\ DOMAIN s = AccFields
    BY DEF Shaped
  <2>2. /\ DOMAIN t = AccFields /\ t.miss = Accumulator!NoMiss
        /\ t.op = [kind |-> "INSERT", input |-> s.miss.input, slot |-> s.miss.victim, remaining |-> AddLatency]
        /\ \A f \in AccFields \ {"op", "miss"} : t[f] = s[f]
    BY <1>3, <2>1 DEF AccFields, Accumulator!BGAInit
  <2>3. /\ t.queue = s.queue /\ t.acc = s.acc /\ t.output = s.output
        /\ t.rr = s.rr /\ t.age = s.age /\ t.outSeq = s.outSeq
    BY <2>2 DEF AccFields, Accumulator!BGAInit
  <2>4. Accumulator!NoContribution \in Accumulator!Contribution
    BY OneStream, IntegrationAssumption
       DEF Accumulator!NoContribution, Accumulator!Contribution, Accumulator!Row
  <2>5. InHand(t.op, t.miss)
    BY <2>1, <2>2, <2>4 DEF InHand, Accumulator!NoOperation, Accumulator!NoMiss
  <2>6. \A f \in AccFields \ InnerFields : t[f] = s[f] BY <2>2 DEF InnerFields
  <2> QED BY <2>1, <2>2, <2>3, <2>5, <2>6, InnerShaped
<1>4. ASSUME t \in {victim, drained}
      PROVE  InnerPhase(s, t) /\ t.accepted = s.accepted
  BY <1>4, PushShaped
<1> QED BY <1>1, <1>2, <1>3, <1>4, InnerNothing

\* A lookup starts.
LEMMA StartShaped ==
  ASSUME NEW s, Shaped(s), NEW t, t = Accumulator!StartService(s)
  PROVE  InnerPhase(s, t) /\ t.accepted = s.accepted
<1> DEFINE ready == {offset \in Accumulator!Stream : s.queue[(s.rr + offset) % 1] # <<>>}
           st == (s.rr + Accumulator!Lowest(ready)) % 1
           started == [s EXCEPT !.queue[st] = Tail(@),
                                !.op = [kind |-> "LOOKUP", input |-> Head(s.queue[st]), slot |-> 0,
                                        remaining |-> CompareLatency],
                                !.rr = (st + 1) % 1]
<1>1. t = s \/ (t = started /\ ready # {}) BY DEF Accumulator!StartService
<1>2. ASSUME t = started, ready # {}
      PROVE  InnerPhase(s, t) /\ t.accepted = s.accepted
  <2>1. /\ Contents(s.queue, s.acc, s.output) /\ InHand(s.op, s.miss) /\ s.rr \in Nat
        /\ {s.age, s.outSeq} \subseteq Nat /\ DOMAIN s = AccFields
        /\ s.queue \in [Accumulator!Stream -> Seq(Accumulator!Contribution)]
    BY DEF Shaped, Contents
  <2>2. ready = {0} /\ s.queue[0] # <<>>
    <3>1. (s.rr + 0) % 1 = 0 BY <2>1
    <3>2. \A offset \in ready : offset = 0 BY OneStream
    <3>3. 0 \in ready BY <1>2, <3>2
    <3> QED BY <3>1, <3>2, <3>3
  <2>3. Accumulator!Lowest(ready) = 0 BY <2>2 DEF Accumulator!Lowest
  <2> HIDE DEF ready
  <2>4. st = 0 /\ (st + 1) % 1 \in Nat
    BY <2>1, <2>3
  <2> HIDE DEF st
  <2>5. /\ DOMAIN t = AccFields /\ t.queue = [s.queue EXCEPT ![0] = Tail(s.queue[0])]
        /\ t.op = [kind |-> "LOOKUP", input |-> Head(s.queue[0]), slot |-> 0, remaining |-> CompareLatency]
        /\ t.rr \in Nat
        /\ \A f \in AccFields \ {"queue", "op", "rr"} : t[f] = s[f]
    BY <1>2, <2>1, <2>4 DEF AccFields, Accumulator!BGAInit
  <2>6. /\ t.acc = s.acc /\ t.output = s.output /\ t.miss = s.miss
        /\ t.age = s.age /\ t.outSeq = s.outSeq
    BY <2>5 DEF AccFields, Accumulator!BGAInit
  <2>7. Tail(s.queue[0]) \in Seq(Accumulator!Contribution) /\ Head(s.queue[0]) \in Accumulator!Contribution
    BY <2>1, <2>2, OneStream
  <2>8. t.queue \in [Accumulator!Stream -> Seq(Accumulator!Contribution)] BY <2>1, <2>5, <2>7
  <2>9. InHand(t.op, t.miss) BY <2>1, <2>5, <2>6, <2>7 DEF InHand, Accumulator!NoOperation
  <2>10. Contents(t.queue, t.acc, t.output) BY <2>1, <2>6, <2>8 DEF Contents
  <2>11. \A f \in AccFields \ InnerFields : t[f] = s[f] BY <2>5 DEF InnerFields
  <2> QED BY <2>1, <2>5, <2>6, <2>9, <2>10, <2>11, InnerShaped
<1> QED BY <1>1, <1>2, InnerNothing

\* The batches accepted in this cycle go to the FIFO.
LEMMA QueueShaped ==
  ASSUME NEW s, Shaped(s), NEW t, t = Accumulator!CommitAcceptedBatches(s)
  PROVE  /\ InnerPhase(s, t)
         /\ t.fault = "none" => t.accepted = [st \in Accumulator!Stream |-> Accumulator!NoBatch]
<1> DEFINE queue == [st \in Accumulator!Stream |->
                       s.queue[st] \o Accumulator!Contributions(s.accepted[st])]
           none == [st \in Accumulator!Stream |-> Accumulator!NoBatch]
           queued == [s EXCEPT !.queue = queue, !.accepted = none]
<1>1. \/ t = s /\ s.fault # "none"
      \/ t = Accumulator!Fault(s, "accepted batch lost reserved FIFO capacity")
      \/ t = queued
  BY DEF Accumulator!CommitAcceptedBatches
<1>2. ASSUME t = queued
      PROVE  InnerPhase(s, t) /\ t.accepted = none
  <2>1. /\ Contents(s.queue, s.acc, s.output) /\ InHand(s.op, s.miss) /\ DOMAIN s = AccFields
        /\ s.queue \in [Accumulator!Stream -> Seq(Accumulator!Contribution)]
        /\ s.accepted \in [Accumulator!Stream -> Accumulator!Batch]
    BY DEF Shaped, Contents
  <2>2. queue \in [Accumulator!Stream -> Seq(Accumulator!Contribution)]
    <3> SUFFICES ASSUME NEW st \in Accumulator!Stream
                 PROVE  s.queue[st] \o Accumulator!Contributions(s.accepted[st]) \in Seq(Accumulator!Contribution)
      OBVIOUS
    <3> DEFINE b == s.accepted[st]
    <3>1. /\ b \in Accumulator!Batch /\ b.rows \in Seq(Accumulator!Row) /\ Len(b.rows) \in Nat
          /\ b.stream \in Accumulator!Stream /\ b.generation \in Nat /\ b.sequence \in Nat
      BY <2>1 DEF Accumulator!Batch
    <3> HIDE DEF b
    <3>2. \A i \in 1 .. Len(b.rows) : b.rows[i] \in Accumulator!Row /\ i \in Nat BY <3>1
    <3>3. \A i \in 1 .. Len(b.rows) :
            [row |-> b.rows[i], stream |-> b.stream, generation |-> b.generation,
             sequence |-> b.sequence, index |-> i] \in Accumulator!Contribution
      BY <3>1, <3>2 DEF Accumulator!Contribution
    <3>4. Accumulator!Contributions(b) \in Seq(Accumulator!Contribution)
      BY <3>1, <3>3 DEF Accumulator!Contributions
    <3> QED BY <2>1, <3>4 DEF b
  <2> HIDE DEF queue
  <2>3. none \in [Accumulator!Stream -> Accumulator!Batch]
    BY OneStream DEF Accumulator!NoBatch, Accumulator!Batch
  <2> HIDE DEF none
  <2>4. /\ DOMAIN t = AccFields /\ t.queue = queue /\ t.accepted = none
        /\ \A f \in AccFields \ {"queue", "accepted"} : t[f] = s[f]
    BY <1>2, <2>1 DEF AccFields, Accumulator!BGAInit
  <2>5. /\ t.acc = s.acc /\ t.output = s.output /\ t.op = s.op /\ t.miss = s.miss /\ t.rr = s.rr
        /\ t.age = s.age /\ t.outSeq = s.outSeq /\ t.presented = s.presented
        /\ t.last = s.last /\ t.done = s.done /\ t.draining = s.draining /\ t.taken = s.taken
        /\ t.aborted = s.aborted /\ t.generation = s.generation /\ t.fault = s.fault
        /\ t.retired = s.retired /\ t.retiring = s.retiring
    BY <2>4 DEF AccFields, Accumulator!BGAInit
  <2>6. {t.rr, t.age, t.outSeq, t.taken, t.retired, t.aborted, t.generation} \subseteq Nat
    BY <2>5 DEF Shaped
  <2>7. /\ {t.presented, t.accepted, t.last} \subseteq [Accumulator!Stream -> Accumulator!Batch]
        /\ t.done \in [Accumulator!Stream -> BOOLEAN]
        /\ t.retiring \in BOOLEAN /\ t.draining \in BOOLEAN
    BY <2>3, <2>4, <2>5 DEF Shaped
  <2>8. t.retiring => t.output # <<>> BY <2>5 DEF Shaped
  <2>9. Contents(t.queue, t.acc, t.output) /\ InHand(t.op, t.miss)
    BY <2>1, <2>2, <2>4, <2>5 DEF Contents
  <2>10. Shaped(t) BY <2>4, <2>6, <2>7, <2>8, <2>9 DEF Shaped
  <2> QED BY <2>4, <2>5, <2>10 DEF InnerPhase, Untouched
<1>3. ASSUME t = Accumulator!Fault(s, "accepted batch lost reserved FIFO capacity")
      PROVE  InnerPhase(s, t) /\ t.fault # "none"
  BY <1>3, FaultShaped
<1> QED BY <1>1, <1>2, <1>3, InnerNothing

\* The checks at the end.
LEMMA CheckShaped ==
  ASSUME NEW s, Shaped(s), NEW t, t = Accumulator!CheckStep(s)
  PROVE  InnerPhase(s, t) /\ (t.fault = "none" => t = s /\ Accumulator!ConservationInvariant(t))
<1>1. \/ t = s /\ (t.fault = "none" => Accumulator!ConservationInvariant(t))
      \/ t = Accumulator!Fault(s, "duplicate/reservation accumulator invariant")
      \/ t = Accumulator!Fault(s, "contribution conservation invariant")
  BY DEF Accumulator!CheckStep
<1>2. /\ "duplicate/reservation accumulator invariant" # "none"
      /\ "contribution conservation invariant" # "none"
  OBVIOUS
<1>3. ASSUME NEW what, what # "none", t = Accumulator!Fault(s, what)
      PROVE  InnerPhase(s, t) /\ t.fault # "none"
  BY <1>3, FaultShaped
<1>4. CASE t = Accumulator!Fault(s, "duplicate/reservation accumulator invariant")
  BY <1>2, <1>3, <1>4
<1>5. CASE t = Accumulator!Fault(s, "contribution conservation invariant") BY <1>2, <1>3, <1>5
<1> QED BY <1>1, <1>4, <1>5, InnerNothing

\* A step that does not fail: what was accepted is queued, what was being retired has
\* left, and the products are counted.
Advanced(s, t) ==
  /\ Shaped(t) /\ Untouched(s, t) /\ t.accepted[0] = NoBatch /\ t.retiring = FALSE
  /\ t.retired = s.retired + (IF s.retiring THEN Len(Head(s.output).value) ELSE 0)
  /\ Accumulator!ConservationInvariant(t)

\* step(), all phases, when none of them throws.
LEMMA StepShaped ==
  ASSUME NEW s, Shaped(s), NEW t, t = (CHOOSE x \in Accumulator!Stepped(s) : TRUE), t.fault = "none"
  PROVE  Advanced(s, t)
<1> DEFINE r == Accumulator!RetireOutput(s)
           c == Accumulator!CommitOperation(r)
           u == Accumulator!UpdateEvictionOrDrain(c, r.fault = "none" /\ Accumulator!Commits(r))
           v == Accumulator!StartService(u)
           w == Accumulator!CommitAcceptedBatches(v)
<1>1. t = Accumulator!CheckStep(w)
  BY DEF Accumulator!Stepped
<1> HIDE DEF w
<1>2. /\ Shaped(r) /\ Untouched(s, r)
      /\ r.fault = "none" =>
           /\ r.retiring = FALSE
           /\ r.retired = s.retired + (IF s.retiring THEN Len(Head(s.output).value) ELSE 0)
  BY RetireShaped
<1> HIDE DEF r
<1>3. InnerPhase(r, c) BY <1>2, CommitShaped
<1> HIDE DEF c
<1>4. InnerPhase(c, u) BY <1>3, EvictionShaped DEF InnerPhase
<1> HIDE DEF u
<1>5. InnerPhase(u, v) BY <1>4, StartShaped DEF InnerPhase
<1> HIDE DEF v
<1>6. /\ InnerPhase(v, w)
      /\ w.fault = "none" => w.accepted = [st \in Accumulator!Stream |-> Accumulator!NoBatch]
  BY <1>5, QueueShaped DEF InnerPhase, w
<1>7. InnerPhase(w, t) /\ t = w /\ Accumulator!ConservationInvariant(t)
  BY <1>1, <1>6, CheckShaped DEF InnerPhase
<1>8. InnerPhase(r, w) BY <1>3, <1>4, <1>5, <1>6, PhasesCompose
<1>9. w.fault = "none" /\ r.fault = "none" BY <1>7, <1>8 DEF InnerPhase
<1>10. t.accepted[0] = NoBatch BY <1>6, <1>7, <1>9, OneStream DEF NoBatch, Accumulator!NoBatch
<1>11. Untouched(s, t) BY <1>2, <1>7, <1>8 DEF InnerPhase, Untouched
<1>12. /\ Shaped(t) /\ t.retiring = FALSE
       /\ t.retired = s.retired + (IF s.retiring THEN Len(Head(s.output).value) ELSE 0)
  BY <1>2, <1>7, <1>8, <1>9 DEF InnerPhase
<1> QED BY <1>7, <1>10, <1>11, <1>12 DEF Advanced

-----------------------------------------------------------------------------
(* The products inside an accumulator, counted                             *)

\* Finitely many places.
LEMMA PlacesFinite ==
  ASSUME NEW D, IsFiniteSet(D), NEW what, NEW f \in [D -> Nat]
  PROVE  IsFiniteSet(Accumulator!Places(what, f))
<1> DEFINE T(d) == {<<what, d, i>> : i \in 1 .. f[d]}
           All == {T(d) : d \in D}
           P == [d \in D |-> T(d)]
<1>1. ASSUME NEW d \in D PROVE IsFiniteSet(T(d))
  <2> DEFINE g == [i \in 1 .. f[d] |-> <<what, d, i>>]
  <2>1. g \in Surjection(1 .. f[d], T(d)) BY DEF Surjection
  <2>2. IsFiniteSet(1 .. f[d]) BY FS_Interval
  <2> HIDE DEF T, g
  <2> QED BY <2>1, <2>2, FS_Surjection
<1>2. IsFiniteSet(All)
  <2>1. P \in [D -> All] /\ \A t \in All : \E d \in D : P[d] = t OBVIOUS
  <2>2. P \in Surjection(D, All) BY <2>1, Zenon DEF Surjection
  <2> HIDE DEF P, All
  <2> QED BY <2>2, FS_Surjection
<1>3. Accumulator!Places(what, f) = UNION All BY DEF Accumulator!Places
<1>4. \A t \in All : IsFiniteSet(t) BY <1>1
<1> HIDE DEF T, All
<1> QED BY <1>2, <1>3, <1>4, FS_UNION

\* The accumulators count with the same Cardinality.
LEMMA SameCardinality ==
  ASSUME NEW S
  PROVE  Accumulator!Cardinality(S) = Cardinality(S)
BY DEF Accumulator!Cardinality, Cardinality

QueueLengths(s) == [st \in Accumulator!Stream |-> Len(s.queue[st])]
AcceptedLengths(s) == [st \in Accumulator!Stream |-> Len(s.accepted[st].rows)]
EntryLengths(s) == [k \in Accumulator!LiveSlots(s) |-> Len(s.acc[k].value)]
OutputLengths(s) == [n \in 1 .. Len(s.output) |-> Len(s.output[n].value)]

\* The places but for those of accepted batches.
OtherPlaces(s) ==
  Accumulator!Places("queue", QueueLengths(s))
  \cup Accumulator!Places("entry", EntryLengths(s))
  \cup Accumulator!Places("output", OutputLengths(s))
  \cup Accumulator!Places("operation", [n \in {0} |-> IF s.op # Accumulator!NoOperation THEN 1 ELSE 0])
  \cup Accumulator!Places("miss", [n \in {0} |-> IF s.miss.active THEN 1 ELSE 0])

\* What an accumulator holds can be counted.
LEMMA LiveFinite ==
  ASSUME NEW s, Shaped(s)
  PROVE  /\ Accumulator!HeldPlaces(s) =
              OtherPlaces(s) \cup Accumulator!Places("accepted", AcceptedLengths(s))
         /\ IsFiniteSet(OtherPlaces(s)) /\ IsFiniteSet(Accumulator!HeldPlaces(s))
         /\ Accumulator!LiveContributionCount(s) = Cardinality(Accumulator!HeldPlaces(s))
         /\ Accumulator!LiveContributionCount(s) \in Nat
<1> DEFINE p == [n \in {0} |-> IF s.op # Accumulator!NoOperation THEN 1 ELSE 0]
           m == [n \in {0} |-> IF s.miss.active THEN 1 ELSE 0]
<1>0. /\ s.queue \in [Accumulator!Stream -> Seq(Accumulator!Contribution)]
      /\ s.accepted \in [Accumulator!Stream -> Accumulator!Batch]
      /\ s.acc \in [Accumulator!Slot -> EntrySet] /\ s.output \in Seq(RecordSet)
  BY DEF Shaped, Contents
<1>1. /\ QueueLengths(s) \in [Accumulator!Stream -> Nat]
      /\ AcceptedLengths(s) \in [Accumulator!Stream -> Nat]
      /\ EntryLengths(s) \in [Accumulator!LiveSlots(s) -> Nat]
      /\ OutputLengths(s) \in [1 .. Len(s.output) -> Nat]
      /\ p \in [{0} -> Nat] /\ m \in [{0} -> Nat]
  <2>1. QueueLengths(s) \in [Accumulator!Stream -> Nat] BY <1>0 DEF QueueLengths
  <2>2. AcceptedLengths(s) \in [Accumulator!Stream -> Nat]
    BY <1>0 DEF AcceptedLengths, Accumulator!Batch
  <2>3. EntryLengths(s) \in [Accumulator!LiveSlots(s) -> Nat]
    <3> SUFFICES ASSUME NEW k \in Accumulator!LiveSlots(s)
                 PROVE  Len(s.acc[k].value) \in Nat
      BY DEF EntryLengths
    <3>1. s.acc[k] \in EntrySet BY <1>0 DEF Accumulator!LiveSlots
    <3> QED BY <3>1 DEF EntrySet
  <2>4. OutputLengths(s) \in [1 .. Len(s.output) -> Nat]
    <3> SUFFICES ASSUME NEW n \in 1 .. Len(s.output)
                 PROVE  Len(s.output[n].value) \in Nat
      BY DEF OutputLengths
    <3>1. s.output[n] \in RecordSet BY <1>0
    <3> QED BY <3>1 DEF RecordSet
  <2> QED BY <2>1, <2>2, <2>3, <2>4
<1>2. /\ IsFiniteSet(Accumulator!Stream)
      /\ IsFiniteSet(Accumulator!LiveSlots(s))
      /\ IsFiniteSet(1 .. Len(s.output))
      /\ IsFiniteSet({0})
  <2>1. IsFiniteSet(Accumulator!Stream) /\ IsFiniteSet({0}) BY OneStream, FS_Singleton
  <2>2. IsFiniteSet(Accumulator!Slot) BY IntegrationAssumption, FS_Interval DEF Accumulator!Slot
  <2>3. IsFiniteSet(Accumulator!LiveSlots(s)) BY <2>2, FS_Subset DEF Accumulator!LiveSlots
  <2>4. IsFiniteSet(1 .. Len(s.output)) BY <1>0, FS_Interval
  <2> QED BY <2>1, <2>3, <2>4
<1>3. Accumulator!HeldPlaces(s) =
        OtherPlaces(s) \cup Accumulator!Places("accepted", AcceptedLengths(s))
  BY DEF Accumulator!HeldPlaces, OtherPlaces, QueueLengths, AcceptedLengths, EntryLengths, OutputLengths
<1>4. OtherPlaces(s) = Accumulator!Places("queue", QueueLengths(s))
                       \cup Accumulator!Places("entry", EntryLengths(s))
                       \cup Accumulator!Places("output", OutputLengths(s))
                       \cup Accumulator!Places("operation", p) \cup Accumulator!Places("miss", m)
  BY DEF OtherPlaces
<1> HIDE DEF p, m
<1>5. IsFiniteSet(OtherPlaces(s)) /\ IsFiniteSet(Accumulator!Places("accepted", AcceptedLengths(s)))
  <2>1. /\ IsFiniteSet(Accumulator!Places("queue", QueueLengths(s)))
        /\ IsFiniteSet(Accumulator!Places("accepted", AcceptedLengths(s)))
        /\ IsFiniteSet(Accumulator!Places("entry", EntryLengths(s)))
        /\ IsFiniteSet(Accumulator!Places("output", OutputLengths(s)))
        /\ IsFiniteSet(Accumulator!Places("operation", p)) /\ IsFiniteSet(Accumulator!Places("miss", m))
    BY <1>1, <1>2, PlacesFinite
  <2> QED BY <1>4, <2>1, FS_Union
<1>6. IsFiniteSet(Accumulator!HeldPlaces(s)) BY <1>3, <1>5, FS_Union
<1>7. Accumulator!LiveContributionCount(s) = Cardinality(Accumulator!HeldPlaces(s))
  BY SameCardinality DEF Accumulator!LiveContributionCount
<1> QED BY <1>3, <1>5, <1>6, <1>7, FS_CardinalityType

\* The places of a batch of n products.
BatchPlaces(n) == {<<"accepted", 0, i>> : i \in 1 .. n}

\* There are as many as the batch has products.
LEMMA CountedPlaces ==
  ASSUME NEW n \in Nat
  PROVE  IsFiniteSet(BatchPlaces(n)) /\ Cardinality(BatchPlaces(n)) = n
<1> DEFINE T == BatchPlaces(n)
           g == [i \in 1 .. n |-> <<"accepted", 0, i>>]
<1>1. g \in [1 .. n -> T] BY DEF BatchPlaces
<1>2. \A t \in T : \E i \in 1 .. n : g[i] = t BY DEF BatchPlaces
<1>3. \A i, j \in 1 .. n : g[i] = g[j] => i = j OBVIOUS
<1> HIDE DEF T, g
<1>4. g \in Bijection(1 .. n, T)
  BY <1>1, <1>2, <1>3 DEF Bijection, Injection, Surjection, IsInjective
<1>5. IsFiniteSet(1 .. n) /\ Cardinality(1 .. n) = n BY FS_Interval
<1>6. ExistsBijection(1 .. n, T) BY <1>4 DEF ExistsBijection
<1>7. IsFiniteSet(T) /\ Cardinality(T) = n BY <1>5, <1>6, FS_Bijection
<1> QED BY <1>7 DEF T

\* A batch accepted where none was is so many products more.
LEMMA AcceptedCounts ==
  ASSUME NEW s, Shaped(s), s.accepted[0] = NoBatch, NEW t, Shaped(t),
         t.queue = s.queue, t.acc = s.acc, t.output = s.output, t.op = s.op, t.miss = s.miss
  PROVE  /\ Len(t.accepted[0].rows) \in Nat
         /\ Accumulator!LiveContributionCount(t) =
              Accumulator!LiveContributionCount(s) + Len(t.accepted[0].rows)
<1> DEFINE n == Len(t.accepted[0].rows)
           T == BatchPlaces(n)
<1>1. n \in Nat
  <2>1. t.accepted[0] \in Accumulator!Batch BY OneStream DEF Shaped
  <2> QED BY <2>1 DEF Accumulator!Batch
<1>2. OtherPlaces(t) = OtherPlaces(s)
  BY DEF OtherPlaces, QueueLengths, EntryLengths, OutputLengths, Accumulator!LiveSlots
<1>3. Accumulator!Places("accepted", AcceptedLengths(s)) = {}
  BY OneStream DEF NoBatch, AcceptedLengths, Accumulator!Places
<1>4. Accumulator!Places("accepted", AcceptedLengths(t)) = T
  <2>1. AcceptedLengths(t)[0] = n /\ DOMAIN AcceptedLengths(t) = {0}
    BY OneStream DEF AcceptedLengths
  <2> HIDE DEF n
  <2> QED BY <2>1 DEF Accumulator!Places, BatchPlaces
<1>5. IsFiniteSet(T) /\ Cardinality(T) = n BY <1>1, CountedPlaces
<1>6. OtherPlaces(s) \cap T = {}
  <2>1. \A v, f : v # "accepted" => Accumulator!Places(v, f) \cap T = {}
    <3> SUFFICES ASSUME NEW v, NEW f, v # "accepted", NEW p \in Accumulator!Places(v, f), p \in T
                 PROVE  FALSE
      OBVIOUS
    <3>1. PICK d, i : p = <<v, d, i>> BY DEF Accumulator!Places
    <3>2. PICK j : p = <<"accepted", 0, j>> BY DEF BatchPlaces
    <3> QED BY <3>1, <3>2
  <2> HIDE DEF T
  <2> QED BY <2>1 DEF OtherPlaces
<1>7. /\ Accumulator!HeldPlaces(s) = OtherPlaces(s)
      /\ Accumulator!HeldPlaces(t) = OtherPlaces(s) \cup T
      /\ IsFiniteSet(OtherPlaces(s))
  BY <1>2, <1>3, <1>4, LiveFinite
<1> HIDE DEF T, n
<1>8. Cardinality(OtherPlaces(s) \cup T) = Cardinality(OtherPlaces(s)) + n
  <2>1. Cardinality({}) = 0 /\ Cardinality(OtherPlaces(s)) \in Nat
    BY <1>7, FS_EmptySet, FS_CardinalityType
  <2>2. Cardinality(OtherPlaces(s) \cup T)
          = Cardinality(OtherPlaces(s)) + Cardinality(T) - Cardinality(OtherPlaces(s) \cap T)
    BY <1>5, <1>7, FS_Union
  <2>3. Cardinality(OtherPlaces(s) \cap T) = 0 BY <1>6, <2>1
  <2> QED BY <1>1, <1>5, <2>1, <2>2, <2>3
<1>9. /\ Accumulator!LiveContributionCount(s) = Cardinality(OtherPlaces(s))
      /\ Accumulator!LiveContributionCount(t) = Cardinality(OtherPlaces(s) \cup T)
  BY <1>7, LiveFinite
<1> QED BY <1>1, <1>8, <1>9 DEF n

-----------------------------------------------------------------------------
(* The products taken from an accumulator, counted                         *)

\* What FlattenSeq computes, up to the m-th sequence of h.
Flattens(f, h, m) == f = [i \in 1 .. m |-> IF i = 1 THEN h[i] ELSE f[i - 1] \o h[i]]

\* There is such a function for every length.
LEMMA FlattensSome ==
  ASSUME NEW h, NEW m \in Nat
  PROVE  \E f : Flattens(f, h, m)
<1> DEFINE S == {n \in Nat : \E f : Flattens(f, h, n)}
<1>1. 0 \in S
  <2>1. Flattens([i \in 1 .. 0 |-> 0], h, 0) BY DEF Flattens
  <2> QED BY <2>1
<1>2. ASSUME NEW n \in Nat, n \in S
      PROVE  n + 1 \in S
  <2>1. PICK f : Flattens(f, h, n) BY <1>2
  <2> DEFINE last == IF n = 0 THEN h[1] ELSE f[n] \o h[n + 1]
             g == [i \in 1 .. n + 1 |-> IF i = n + 1 THEN last ELSE f[i]]
  <2>2. \A i \in 1 .. n : f[i] = IF i = 1 THEN h[i] ELSE f[i - 1] \o h[i] BY <2>1 DEF Flattens
  <2> HIDE DEF last
  <2>3. g[n + 1] = last /\ \A i \in 1 .. n : g[i] = f[i] OBVIOUS
  <2>4. g = [i \in 1 .. n + 1 |-> g[i]] OBVIOUS
  <2> HIDE DEF g
  <2>5. ASSUME NEW i \in 1 .. n + 1
        PROVE  g[i] = IF i = 1 THEN h[i] ELSE g[i - 1] \o h[i]
    <3>1. CASE i # n + 1
      BY <3>1, <2>2, <2>3
    <3>2. CASE i = n + 1 /\ n = 0 BY <2>3, <3>2 DEF last
    <3>3. CASE i = n + 1 /\ n # 0
      <4>1. i # 1 /\ i - 1 = n /\ n \in 1 .. n BY <3>3
      <4> QED BY <2>3, <3>3, <4>1 DEF last
    <3> QED BY <3>1, <3>2, <3>3
  <2>6. Flattens(g, h, n + 1) BY <2>4, <2>5 DEF Flattens
  <2> QED BY <2>6
<1>3. m \in S BY <1>1, <1>2, NatSetInduction
<1> QED BY <1>3

\* FlattenSeq ends with it.
LEMMA FlattenRuns ==
  ASSUME NEW h, Len(h) \in Nat \ {0}
  PROVE  \E f : Flattens(f, h, Len(h)) /\ FlattenSeq(h) = f[Len(h)]
<1> DEFINE f == CHOOSE g : Flattens(g, h, Len(h))
<1>1. Flattens(f, h, Len(h)) BY FlattensSome
<1>2. FlattenSeq(h) = f[Len(h)] BY DEF FlattenSeq, Flattens
<1> HIDE DEF f
<1> QED BY <1>1, <1>2

\* Of the same sequences it computes the same, and sequences.
LEMMA FlattensSame ==
  ASSUME NEW X, NEW h, NEW g, NEW m \in Nat, NEW n \in Nat, m <= n,
         \A i \in 1 .. m : g[i] = h[i] /\ h[i] \in Seq(X),
         NEW f, Flattens(f, h, m), NEW e, Flattens(e, g, n)
  PROVE  \A i \in 1 .. m : e[i] = f[i] /\ f[i] \in Seq(X)
<1> DEFINE S == {i \in Nat : (i + 1) \in 1 .. m => e[i + 1] = f[i + 1] /\ f[i + 1] \in Seq(X)}
<1>1. /\ \A i \in 1 .. m : f[i] = IF i = 1 THEN h[i] ELSE f[i - 1] \o h[i]
      /\ \A i \in 1 .. m : e[i] = IF i = 1 THEN g[i] ELSE e[i - 1] \o g[i]
  <2>1. \A i \in 1 .. m : f[i] = IF i = 1 THEN h[i] ELSE f[i - 1] \o h[i] BY DEF Flattens
  <2>2. \A i \in 1 .. n : e[i] = IF i = 1 THEN g[i] ELSE e[i - 1] \o g[i] BY DEF Flattens
  <2>3. \A i \in 1 .. m : i \in 1 .. n OBVIOUS
  <2> QED BY <2>1, <2>2, <2>3
<1>2. 0 \in S BY <1>1
<1>3. ASSUME NEW i \in Nat, i \in S
      PROVE  i + 1 \in S
  <2> SUFFICES ASSUME (i + 1) + 1 \in 1 .. m
               PROVE  e[(i + 1) + 1] = f[(i + 1) + 1] /\ f[(i + 1) + 1] \in Seq(X)
    OBVIOUS
  <2> DEFINE j == (i + 1) + 1
  <2>1. j - 1 = i + 1 /\ j # 1 /\ i + 1 \in 1 .. m /\ j \in 1 .. m OBVIOUS
  <2>2. e[i + 1] = f[i + 1] /\ f[i + 1] \in Seq(X) BY <1>3, <2>1
  <2> HIDE DEF j
  <2>3. f[j] = f[i + 1] \o h[j] /\ e[j] = e[i + 1] \o g[j] BY <1>1, <2>1
  <2>4. g[j] = h[j] /\ h[j] \in Seq(X) BY <2>1
  <2>5. e[j] = f[j] /\ f[j] \in Seq(X) BY <2>2, <2>3, <2>4
  <2> QED BY <2>5 DEF j
<1>4. Nat \subseteq S BY <1>2, <1>3, NatSetInduction
<1> QED
  <2> TAKE i \in 1 .. m
  <2>1. i - 1 \in S /\ (i - 1) + 1 = i BY <1>4
  <2> QED BY <2>1

\* One sequence more adds its length.
LEMMA FlattenAppend ==
  ASSUME NEW X, NEW h \in Seq(Seq(X)), NEW v \in Seq(X)
  PROVE  /\ FlattenSeq(h) \in Seq(X)
         /\ Len(FlattenSeq(Append(h, v))) = Len(FlattenSeq(h)) + Len(v)
<1> DEFINE g == Append(h, v)
           m == Len(h)
<1>1. /\ m \in Nat /\ g \in Seq(Seq(X)) /\ Len(g) = m + 1 /\ g[m + 1] = v
      /\ \A i \in 1 .. m : g[i] = h[i] /\ h[i] \in Seq(X)
  OBVIOUS
<1> HIDE DEF g
<1>2. PICK e : Flattens(e, g, m + 1) /\ FlattenSeq(g) = e[m + 1]
  <2>1. Len(g) \in Nat \ {0} BY <1>1
  <2> QED BY <1>1, <2>1, FlattenRuns
<1>3. e[m + 1] = IF m + 1 = 1 THEN v ELSE e[(m + 1) - 1] \o v
  <2>1. m + 1 \in 1 .. m + 1 BY <1>1
  <2> QED BY <1>1, <1>2, <2>1 DEF Flattens
<1>4. CASE m = 0
  <2>1. h = <<>> /\ FlattenSeq(h) = <<>> /\ Len(<<>>) = 0 /\ <<>> \in Seq(X)
    BY <1>4 DEF FlattenSeq
  <2>2. FlattenSeq(g) = v BY <1>2, <1>3, <1>4
  <2>3. Len(v) \in Nat OBVIOUS
  <2>4. Len(FlattenSeq(g)) = Len(FlattenSeq(h)) + Len(v) BY <2>1, <2>2, <2>3
  <2> QED BY <2>1, <2>4 DEF g
<1>5. CASE m # 0
  <2>1. PICK f : Flattens(f, h, m) /\ FlattenSeq(h) = f[m] BY <1>1, <1>5, FlattenRuns
  <2>2. \A i \in 1 .. m : e[i] = f[i] /\ f[i] \in Seq(X)
    <3>1. m + 1 \in Nat /\ m <= m + 1 /\ Flattens(e, g, m + 1) BY <1>1, <1>2
    <3> QED BY <1>1, <2>1, <3>1, FlattensSame
  <2>3. (m + 1) - 1 = m /\ m \in 1 .. m /\ m + 1 # 1 BY <1>1, <1>5
  <2>4. FlattenSeq(g) = FlattenSeq(h) \o v /\ FlattenSeq(h) \in Seq(X)
    BY <1>2, <1>3, <2>1, <2>2, <2>3
  <2> QED BY <2>4 DEF g
<1> QED BY <1>4, <1>5

-----------------------------------------------------------------------------
(* What an engine and its accumulator know of each other                   *)

\* The products of a record that its consumer took and the accumulator still holds.
Leaving(a) == IF a.retiring THEN Len(Head(a.output).value) ELSE 0

\* A batch the accumulator may be shown next.
Presentable(a, b) ==
  /\ b.stream = 0 /\ b.generation = a.generation /\ b.generation \in Nat
  /\ b.sequence = a.last[0].sequence + 1
  /\ b.rows \in Seq(Accumulator!Row) /\ Len(b.rows) \in 1 .. InputQueueDepth

\* What an engine, its accumulator and the consumer know of each other's batches; due:
\* the engine's turn is still to come in this cycle.
BatchFits(e, a, handed, due) ==
  /\ Shaped(a) /\ a.aborted = 0 /\ Accumulator!ConservationInvariant(a)
  /\ a.generation = e.bgaGeneration /\ a.presented[0] = e.batch
  /\ a.last[0].sequence + 1 = e.nextBatch /\ a.taken = e.accepted
  /\ a.done[0] => e.state \in Over
  /\ e.batch # NoBatch =>
       e.batch = [stream |-> 0, generation |-> e.bgaGeneration,
                  sequence |-> e.nextBatch, rows |-> e.batch.rows] /\ Presentable(a, e.batch)
  /\ due => a.accepted[0] = NoBatch
  /\ handed \in Seq(Seq(Accumulator!Contribution))
  /\ a.retired + Leaving(a) = Len(FlattenSeq(handed))

\* Of every bank group, in an execution with accumulators.
BatchLive ==
  Enabled /\ exec.launched /\ "resetBG" \notin policy.calls /\ (exec.threw => turn = Idle)
BatchInv ==
  BatchLive =>
    /\ accumulators = [bg \in LocalBGs |-> accumulators[bg]]
    /\ DOMAIN output.handed = LocalBGs
    /\ \A bg \in LocalBGs : BatchFits(engines[bg], accumulators[bg], output.handed[bg], Due(bg))

\* The invariant gives the last conjunct of ViewsAgree.
LEMMA BatchInvAgrees ==
  ASSUME ReadsInv, BatchInv, "resetBG" \notin policy.calls
  PROVE  BatchesAgree
<1> SUFFICES ASSUME Enabled, exec.launched, turn = Idle, NEW bg \in LocalBGs
             PROVE  LET e == engines[bg]
                        a == accumulators[bg]
                        leaving == IF a.retiring THEN Len(Head(a.output).value) ELSE 0
                    IN  /\ a.presented[0] = e.batch
                        /\ a.last[0].sequence + 1 = e.nextBatch
                        /\ e.accepted + leaving =
                             Accumulator!LiveContributionCount(a) + Len(FlattenSeq(output.handed[bg]))
  BY DEF BatchesAgree
<1> DEFINE e == engines[bg]
           a == accumulators[bg]
           live == Accumulator!LiveContributionCount(a)
           len == Len(FlattenSeq(output.handed[bg]))
<1>1. BatchFits(e, a, output.handed[bg], Due(bg)) BY DEF BatchInv, BatchLive
<1>2. Shaped(a) /\ live \in Nat /\ a.retired \in Nat /\ a.taken \in Nat
  BY <1>1, LiveFinite DEF BatchFits, Shaped
<1>3. Leaving(a) \in Nat
  <2>1. CASE a.retiring
    <3>1. a.output \in Seq(RecordSet) /\ a.output # <<>> BY <1>2, <2>1 DEF Shaped, Contents
    <3>2. Head(a.output) \in RecordSet BY <3>1
    <3> QED BY <2>1, <3>2 DEF Leaving, RecordSet
  <2> QED BY <2>1 DEF Leaving
<1>4. /\ a.aborted = 0 /\ a.taken = live + a.retired + a.aborted
      /\ a.taken = e.accepted /\ a.retired + Leaving(a) = len
      /\ a.presented[0] = e.batch /\ a.last[0].sequence + 1 = e.nextBatch
  BY <1>1 DEF BatchFits, Accumulator!ConservationInvariant
<1> HIDE DEF e, a, live, len
<1>5. e.accepted + Leaving(a) = live + len BY <1>2, <1>3, <1>4
<1> QED BY <1>4, <1>5 DEF e, a, live, len, Leaving

\* The owner's calls change what the accumulator remembers of batches, not its contents.
OuterFields == {"presented", "accepted", "last", "taken", "done", "draining", "retiring"}
\* What keeps its shape then.
LEMMA OuterShaped ==
  ASSUME NEW s, Shaped(s), NEW t, DOMAIN t = AccFields,
         \A f \in AccFields \ OuterFields : t[f] = s[f],
         {t.presented, t.accepted, t.last} \subseteq [Accumulator!Stream -> Accumulator!Batch],
         t.done \in [Accumulator!Stream -> BOOLEAN], t.taken \in Nat, t.draining \in BOOLEAN,
         t.retiring \in BOOLEAN, t.retiring => s.output # <<>>
  PROVE  /\ Shaped(t)
         /\ t.queue = s.queue /\ t.acc = s.acc /\ t.output = s.output /\ t.op = s.op
         /\ t.miss = s.miss /\ t.retired = s.retired /\ t.aborted = s.aborted
         /\ t.generation = s.generation
<1>1. /\ t.queue = s.queue /\ t.acc = s.acc /\ t.output = s.output /\ t.op = s.op
      /\ t.miss = s.miss /\ t.retired = s.retired /\ t.aborted = s.aborted
      /\ t.generation = s.generation /\ t.rr = s.rr /\ t.age = s.age /\ t.outSeq = s.outSeq
  BY DEF AccFields, Accumulator!BGAInit, OuterFields
<1>2. /\ Contents(t.queue, t.acc, t.output) /\ InHand(t.op, t.miss)
      /\ {t.rr, t.age, t.outSeq, t.taken, t.retired, t.aborted, t.generation} \subseteq Nat
  BY <1>1 DEF Shaped
<1>3. t.retiring => t.output # <<>> BY <1>1
<1>4. Shaped(t) BY <1>2, <1>3 DEF Shaped
<1> QED BY <1>1, <1>4

\* The count of the contributions held looks at nothing else.
LEMMA SameHeld ==
  ASSUME NEW s, NEW t, t.queue = s.queue, t.acc = s.acc, t.output = s.output, t.op = s.op,
         t.miss = s.miss, t.accepted = s.accepted
  PROVE  Accumulator!LiveContributionCount(t) = Accumulator!LiveContributionCount(s)
BY DEF Accumulator!LiveContributionCount, Accumulator!HeldPlaces, Accumulator!LiveSlots

\* A batch in its turn is accepted or refused for lack of room, never anything else.
LEMMA OfferAnswers ==
  ASSUME NEW a, Shaped(a), NEW b, Presentable(a, b), a.accepted[0] = NoBatch, ~a.done[0],
         a.presented[0] \in {NoBatch, b}
  PROVE  /\ SubmitResult(a, b) \in {"ACCEPTED", "BACKPRESSURE"}
         /\ Submit(a, b) =
              IF SubmitResult(a, b) = "ACCEPTED"
              THEN [a EXCEPT !.presented[0] = NoBatch, !.accepted[0] = b, !.last[0] = b,
                             !.taken = @ + Len(b.rows)]
              ELSE [a EXCEPT !.presented[0] = b]
<1>1. a.last[0] \in Accumulator!Batch /\ a.last[0].sequence \in Nat
  BY OneStream DEF Shaped, Accumulator!Batch
<1>2. /\ b.sequence # 0 /\ b.sequence # a.last[0].sequence
      /\ b.sequence \in {a.last[0].sequence, a.last[0].sequence + 1}
      /\ b.sequence = a.last[0].sequence + 1
  BY <1>1 DEF Presentable
<1>3. Accumulator!WellFormed(a, b)
  BY <1>2, OneStream DEF Presentable, Accumulator!WellFormed
<1>4. ~SubmitThrows(a, b) BY <1>2 DEF SubmitThrows, Presentable
<1>5. b.stream = 0 /\ Accumulator!NoBatch = NoBatch
  BY DEF Presentable, Accumulator!NoBatch, NoBatch
<1>6. Accumulator!OfferResult(a, b) =
        IF Accumulator!HasRoom(a, b) THEN "ACCEPTED" ELSE "BACKPRESSURE"
  BY <1>2, <1>3, <1>5 DEF Accumulator!OfferResult
<1>7. SubmitResult(a, b) = Accumulator!OfferResult(a, b) /\ Submit(a, b) = Accumulator!OfferBatch(a, b)
  BY <1>4 DEF SubmitResult, Submit
<1> QED BY <1>5, <1>6, <1>7 DEF Accumulator!OfferBatch

\* The batch an engine builds, or holds, is the one its accumulator expects.
LEMMA BuiltPresentable ==
  ASSUME NEW e, NEW a, NEW h, NEW due, NEW bg, NEW c, EngineInv(e, bg, c), c # "RAW",
         e.state = "EMIT_PARTIALS", BatchFits(e, a, h, due)
  PROVE  LET t == BuildBatch(e, NumRows)
         IN  \/ t = FailEngine(e)
             \/ /\ t.batch = [stream |-> 0, generation |-> e.bgaGeneration,
                              sequence |-> e.nextBatch, rows |-> t.batch.rows]
                /\ Presentable(a, t.batch) /\ t.batch # NoBatch
                /\ a.presented[0] \in {NoBatch, t.batch}
                /\ t.nextBatch = e.nextBatch /\ t.accepted = e.accepted
                /\ t.bgaGeneration = e.bgaGeneration /\ t.state = "EMIT_PARTIALS"
<1> DEFINE t == BuildBatch(e, NumRows)
<1>1. \/ t = e /\ e.batch # NoBatch
      \/ t = FailEngine(e)
      \/ /\ Same(e, t, {"batch"}) /\ e.batch = NoBatch
         /\ t.batch = [stream |-> 0, generation |-> e.bgaGeneration,
                       sequence |-> e.nextBatch, rows |-> Current(e).rows[e.chunk + 1]]
         /\ \A i \in DOMAIN t.batch.rows : t.batch.rows[i] < NumRows
  BY BatchGoes
<1> HIDE DEF t
<1>2. CASE t = e /\ e.batch # NoBatch BY <1>2 DEF BatchFits, t
<1>3. ASSUME Same(e, t, {"batch"}), e.batch = NoBatch,
             t.batch = [stream |-> 0, generation |-> e.bgaGeneration,
                        sequence |-> e.nextBatch, rows |-> Current(e).rows[e.chunk + 1]],
             \A i \in DOMAIN t.batch.rows : t.batch.rows[i] < NumRows
      PROVE  /\ t.batch = [stream |-> 0, generation |-> e.bgaGeneration,
                           sequence |-> e.nextBatch, rows |-> t.batch.rows]
             /\ Presentable(a, t.batch) /\ t.batch # NoBatch
             /\ a.presented[0] \in {NoBatch, t.batch}
             /\ t.nextBatch = e.nextBatch /\ t.accepted = e.accepted
             /\ t.bgaGeneration = e.bgaGeneration /\ t.state = "EMIT_PARTIALS"
  <2> DEFINE d == Current(e)
             rows == d.rows[e.chunk + 1]
  <2>1. /\ d \in [rows : Seq(Seq(Nat)), valid : BOOLEAN, xStays : BOOLEAN]
        /\ WellFormedFor(c, d) /\ d.valid /\ e.chunk < Len(d.rows)
    <3>1. e.state \in Walking /\ e.state \in (Requesting \cup Staged) \ {"NEXT_DESCRIPTOR"}
      BY DEF Walking, Staged
    <3>2. e.pointer \in DOMAIN e.image BY <3>1 DEF EngineInv, WalkSound
    <3>3. /\ e.image \in Seq([rows : Seq(Seq(Nat)), valid : BOOLEAN, xStays : BOOLEAN])
          /\ WellFormedFor(c, e.image[e.pointer])
      BY <3>2 DEF EngineInv, WalkSound
    <3>5. e.image[e.pointer] \in [rows : Seq(Seq(Nat)), valid : BOOLEAN, xStays : BOOLEAN]
      <4> DEFINE D == [rows : Seq(Seq(Nat)), valid : BOOLEAN, xStays : BOOLEAN]
      <4>1. e.image \in Seq(D) /\ e.pointer \in 1 .. Len(e.image) BY <3>2, <3>3
      <4> HIDE DEF D
      <4>2. e.image[e.pointer] \in D BY <4>1, ElementOfSeq
      <4> QED BY <4>2 DEF D
    <3>4. d.valid /\ e.chunk < Len(d.rows) BY <3>1 DEF EngineInv, WalkSound
    <3> QED BY <3>3, <3>4, <3>5 DEF Current
  <2>2. e.chunk \in Nat /\ e.nextBatch \in Nat \ {0} /\ e.bgaGeneration \in Nat
    BY DEF EngineInv, EngineTyped
  <2> HIDE DEF d
  <2>3. d.rows \in Seq(Seq(Nat)) /\ e.chunk + 1 \in DOMAIN d.rows BY <2>1, <2>2
  <2>4. rows \in Seq(Nat) /\ rows # <<>> /\ Len(rows) <= InputQueueDepth
    BY <2>1, <2>3 DEF WellFormedFor
  <2>5. rows = t.batch.rows BY <1>3 DEF d
  <2> HIDE DEF rows
  <2>6. rows \in Seq(Accumulator!Row) /\ Len(rows) \in 1 .. InputQueueDepth
    <3>1. NumRows \in Nat /\ InputQueueDepth \in Nat BY IntegrationAssumption
    <3>2. \A i \in 1 .. Len(rows) : rows[i] \in Accumulator!Row
      BY <1>3, <2>4, <2>5, <3>1 DEF Accumulator!Row
    <3>3. rows \in Seq(Accumulator!Row) BY <2>4, <3>2
    <3>4. Len(rows) \in Nat /\ Len(rows) # 0 BY <2>4
    <3> QED BY <2>4, <3>1, <3>3, <3>4
  <2>7. Presentable(a, t.batch) BY <1>3, <2>2, <2>5, <2>6 DEF Presentable, BatchFits
  <2>8. t.batch # NoBatch BY <1>3, <2>2 DEF NoBatch
  <2>9. /\ t.nextBatch = e.nextBatch /\ t.accepted = e.accepted
        /\ t.bgaGeneration = e.bgaGeneration /\ t.state = "EMIT_PARTIALS"
    BY <1>3 DEF Same, EngineFields, EngineInit
  <2>10. a.presented[0] = NoBatch BY <1>3 DEF BatchFits
  <2> QED BY <1>3, <2>5, <2>7, <2>8, <2>9, <2>10
<1> QED BY <1>1, <1>2, <1>3 DEF t

\* An engine that keeps what it knows of batches still fits.
LEMMA FitsStill ==
  ASSUME NEW e, NEW a, NEW h, NEW due, BatchFits(e, a, h, due), NEW t, SameBatches(e, t),
         e.state \in Over => t.state \in Over, NEW later, later => due
  PROVE  BatchFits(t, a, h, later)
BY DEF BatchFits, SameBatches

\* The batch offered: the engine, its accumulator and the consumer still fit.
LEMMA OfferFits ==
  ASSUME NEW e, NEW a, NEW h, NEW bg, NEW c, EngineInv(e, bg, c), c # "RAW",
         e.state = "EMIT_PARTIALS", BatchFits(e, a, h, TRUE), Len(e.batch.rows) \in Nat
  PROVE  LET built == BuildBatch(e, NumRows)
         IN  IF HasFailed(built) THEN BatchFits(built, a, h, FALSE)
             ELSE BatchFits(BatchAnswered(built, SubmitResult(a, built.batch)),
                            Submit(a, built.batch), h, FALSE)
<1> DEFINE built == BuildBatch(e, NumRows)
           b == built.batch
           answer == SubmitResult(a, b)
           t == BatchAnswered(built, answer)
           u == Submit(a, b)
<1>0. /\ EngineInv(built, bg, c)
      /\ \/ built = FailEngine(e)
         \/ /\ b = [stream |-> 0, generation |-> e.bgaGeneration, sequence |-> e.nextBatch,
                    rows |-> b.rows]
            /\ Presentable(a, b) /\ b # NoBatch /\ a.presented[0] \in {NoBatch, b}
            /\ built.nextBatch = e.nextBatch /\ built.accepted = e.accepted
            /\ built.bgaGeneration = e.bgaGeneration /\ built.state = "EMIT_PARTIALS"
  BY BatchGoes, BuiltPresentable DEF Goes
<1> HIDE DEF built
<1>1. CASE built = FailEngine(e)
  BY <1>1, FailGoes, FitsStill DEF HasFailed, Over, built
<1>2. ASSUME b = [stream |-> 0, generation |-> e.bgaGeneration, sequence |-> e.nextBatch,
                  rows |-> b.rows],
             Presentable(a, b), b # NoBatch, a.presented[0] \in {NoBatch, b},
             built.nextBatch = e.nextBatch, built.accepted = e.accepted,
             built.bgaGeneration = e.bgaGeneration, built.state = "EMIT_PARTIALS"
      PROVE  ~HasFailed(built) /\ BatchFits(t, u, h, FALSE)
  <2>1. ~HasFailed(built) BY <1>2 DEF HasFailed
  <2>2. /\ Shaped(a) /\ a.aborted = 0 /\ a.generation = e.bgaGeneration
        /\ a.last[0].sequence + 1 = e.nextBatch /\ a.taken = e.accepted
        /\ a.accepted[0] = NoBatch /\ ~a.done[0]
        /\ a.taken = Accumulator!LiveContributionCount(a) + a.retired + a.aborted
        /\ h \in Seq(Seq(Accumulator!Contribution))
        /\ a.retired + Leaving(a) = Len(FlattenSeq(h))
    BY DEF Over, BatchFits, Accumulator!ConservationInvariant
  <2>3. /\ answer \in {"ACCEPTED", "BACKPRESSURE"}
        /\ u = IF answer = "ACCEPTED"
               THEN [a EXCEPT !.presented[0] = NoBatch, !.accepted[0] = b, !.last[0] = b,
                              !.taken = @ + Len(b.rows)]
               ELSE [a EXCEPT !.presented[0] = b]
    BY <1>2, <2>2, OfferAnswers
  <2>4. Len(b.rows) \in Nat /\ b \in Accumulator!Batch /\ NoBatch \in Accumulator!Batch
    <3>1. Len(b.rows) \in Nat /\ b.rows \in Seq(Accumulator!Row) BY <1>2 DEF Presentable
    <3>2. e.bgaGeneration \in Nat /\ e.nextBatch \in Nat BY DEF EngineInv, EngineTyped
    <3> HIDE DEF b
    <3> QED BY <1>2, <3>1, <3>2, OneStream DEF Accumulator!Batch, NoBatch
  <2>5. /\ answer = "ACCEPTED" =>
             /\ t.batch = NoBatch /\ t.nextBatch = built.nextBatch + 1
             /\ t.accepted = built.accepted + Len(b.rows) /\ t.bgaGeneration = built.bgaGeneration
        /\ answer = "BACKPRESSURE" => t = built
    BY <1>0, <1>2, <2>4, AnswerGoes
  <2>6. /\ DOMAIN a = AccFields /\ 0 \in Accumulator!Stream
        /\ {a.presented, a.accepted, a.last} \subseteq [Accumulator!Stream -> Accumulator!Batch]
        /\ a.done \in [Accumulator!Stream -> BOOLEAN] /\ a.taken \in Nat
        /\ a.draining \in BOOLEAN /\ a.retiring \in BOOLEAN /\ (a.retiring => a.output # <<>>)
    BY <2>2, OneStream DEF Shaped
  <2> HIDE DEF b, answer, t, u
  <2>7. ASSUME answer = "ACCEPTED"
        PROVE  BatchFits(t, u, h, FALSE)
    <3>1. /\ DOMAIN u = AccFields
          /\ u.presented = [a.presented EXCEPT ![0] = NoBatch]
          /\ u.accepted = [a.accepted EXCEPT ![0] = b] /\ u.last = [a.last EXCEPT ![0] = b]
          /\ u.taken = a.taken + Len(b.rows)
          /\ \A f \in AccFields \ {"presented", "accepted", "last", "taken"} : u[f] = a[f]
      BY <2>3, <2>6, <2>7 DEF AccFields, Accumulator!BGAInit
    <3>2. u.done = a.done /\ u.draining = a.draining /\ u.retiring = a.retiring
      BY <3>1 DEF AccFields, Accumulator!BGAInit
    <3>3. {u.presented, u.accepted, u.last} \subseteq [Accumulator!Stream -> Accumulator!Batch]
      BY <2>4, <2>6, <3>1
    <3>4. u.taken \in Nat BY <2>4, <2>6, <3>1
    <3>5. /\ Shaped(u) /\ u.queue = a.queue /\ u.acc = a.acc /\ u.output = a.output /\ u.op = a.op
          /\ u.miss = a.miss /\ u.retired = a.retired /\ u.aborted = a.aborted
          /\ u.generation = a.generation
      <4>1. \A f \in AccFields \ OuterFields : u[f] = a[f] BY <3>1 DEF OuterFields
      <4>2. u.done \in [Accumulator!Stream -> BOOLEAN] BY <2>6, <3>2
      <4>3. u.draining \in BOOLEAN /\ u.retiring \in BOOLEAN BY <2>6, <3>2
      <4>4. u.retiring => a.output # <<>> BY <2>6, <3>2
      <4>5. DOMAIN u = AccFields /\ Shaped(a) BY <2>2, <3>1
      <4> QED BY <3>3, <3>4, <4>1, <4>2, <4>3, <4>4, <4>5, OuterShaped
    <3>6. u.presented[0] = NoBatch /\ u.accepted[0] = b /\ u.last[0] = b BY <2>6, <3>1
    <3>7. Accumulator!LiveContributionCount(u) = Accumulator!LiveContributionCount(a) + Len(b.rows)
      BY <2>2, <3>5, <3>6, AcceptedCounts
    <3>8. u.taken = Accumulator!LiveContributionCount(u) + u.retired + u.aborted
      <4>1. Accumulator!LiveContributionCount(a) \in Nat /\ a.retired \in Nat /\ a.aborted \in Nat
        BY <2>2, LiveFinite DEF Shaped
      <4> QED BY <2>2, <2>4, <3>1, <3>5, <3>7, <4>1
    <3>9. Leaving(u) = Leaving(a) BY <3>2, <3>5 DEF Leaving
    <3>10. u.last[0].sequence + 1 = t.nextBatch /\ u.taken = t.accepted
      BY <1>2, <2>2, <2>5, <2>7, <3>1, <3>6
    <3>11. ~u.done[0] /\ t.batch = NoBatch /\ u.presented[0] = t.batch
           /\ u.generation = t.bgaGeneration
      BY <1>2, <2>2, <2>5, <2>7, <3>2, <3>5, <3>6
    <3> QED
      BY <2>2, <3>5, <3>8, <3>9, <3>10, <3>11 DEF BatchFits, Accumulator!ConservationInvariant
  <2>8. ASSUME answer = "BACKPRESSURE"
        PROVE  BatchFits(t, u, h, FALSE)
    <3>0. u = [a EXCEPT !.presented[0] = b] BY <2>3, <2>8
    <3>1. /\ DOMAIN u = AccFields /\ u.presented = [a.presented EXCEPT ![0] = b]
          /\ \A f \in AccFields \ {"presented"} : u[f] = a[f]
      BY <2>6, <3>0 DEF AccFields, Accumulator!BGAInit
    <3>2. /\ u.done = a.done /\ u.draining = a.draining /\ u.retiring = a.retiring
          /\ u.accepted = a.accepted /\ u.last = a.last /\ u.taken = a.taken
      BY <3>1 DEF AccFields, Accumulator!BGAInit
    <3>3. {u.presented, u.accepted, u.last} \subseteq [Accumulator!Stream -> Accumulator!Batch]
      BY <2>4, <2>6, <3>1, <3>2
    <3>5. /\ Shaped(u) /\ u.queue = a.queue /\ u.acc = a.acc /\ u.output = a.output /\ u.op = a.op
          /\ u.miss = a.miss /\ u.retired = a.retired /\ u.aborted = a.aborted
          /\ u.generation = a.generation
      BY <2>2, <2>6, <3>1, <3>2, <3>3, OuterShaped DEF OuterFields
    <3>6. u.presented[0] = b BY <2>6, <3>1
    <3>7. Accumulator!LiveContributionCount(u) = Accumulator!LiveContributionCount(a)
      BY <3>2, <3>5, SameHeld
    <3>8. u.taken = Accumulator!LiveContributionCount(u) + u.retired + u.aborted
      BY <2>2, <3>2, <3>5, <3>7
    <3>9. Leaving(u) = Leaving(a) BY <3>2, <3>5 DEF Leaving
    <3>10. t = built BY <2>5, <2>8
    <3>11. u.last[0].sequence + 1 = t.nextBatch /\ u.taken = t.accepted
           /\ u.generation = t.bgaGeneration /\ u.presented[0] = t.batch /\ ~u.done[0]
      BY <1>2, <2>2, <3>2, <3>5, <3>6, <3>10 DEF b
    <3>12. t.batch = [stream |-> 0, generation |-> t.bgaGeneration,
                      sequence |-> t.nextBatch, rows |-> t.batch.rows] /\ Presentable(u, t.batch)
      BY <1>2, <3>2, <3>5, <3>10 DEF Presentable, b
    <3> QED
      BY <2>2, <3>5, <3>8, <3>9, <3>11, <3>12 DEF BatchFits, Accumulator!ConservationInvariant
  <2> QED BY <2>1, <2>3, <2>7, <2>8
<1> QED BY <1>0, <1>1, <1>2 DEF built

\* The accumulator's step: the record that was accepted is retired, the batch accepted
\* goes to the FIFO.
LEMMA StepFits ==
  ASSUME NEW e, NEW a, NEW h, BatchFits(e, a, h, FALSE), NEW t, Advanced(a, t)
  PROVE  BatchFits(e, t, h, TRUE)
<1>1. t.retired + Leaving(t) = Len(FlattenSeq(h))
  BY DEF Advanced, Leaving, Shaped, BatchFits
<1>2. /\ Shaped(t) /\ t.aborted = 0 /\ Accumulator!ConservationInvariant(t)
      /\ t.generation = e.bgaGeneration /\ t.presented[0] = e.batch
      /\ t.last[0].sequence + 1 = e.nextBatch /\ t.taken = e.accepted
      /\ t.accepted[0] = NoBatch
  BY DEF BatchFits, Advanced, Untouched
<1>3. t.done[0] => e.state \in Over BY DEF BatchFits, Advanced, Untouched
<1>4. e.batch # NoBatch =>
        e.batch = [stream |-> 0, generation |-> e.bgaGeneration,
                   sequence |-> e.nextBatch, rows |-> e.batch.rows] /\ Presentable(t, e.batch)
  BY DEF BatchFits, Advanced, Untouched, Presentable
<1>5. h \in Seq(Seq(Accumulator!Contribution)) BY DEF BatchFits
<1> QED BY <1>1, <1>2, <1>3, <1>4, <1>5 DEF BatchFits

\* The end of the producer changes the flags only, and then the engine is over.
LEMMA EndShaped ==
  ASSUME NEW a, Shaped(a), NEW u, u = EndProducer(a)
  PROVE  /\ Shaped(u) /\ u.presented = a.presented /\ u.last = a.last /\ u.taken = a.taken
         /\ u.queue = a.queue /\ u.acc = a.acc /\ u.output = a.output /\ u.op = a.op
         /\ u.miss = a.miss /\ u.retired = a.retired /\ u.aborted = a.aborted
         /\ u.generation = a.generation /\ u.accepted = a.accepted /\ u.retiring = a.retiring
<1> DEFINE m == Accumulator!MarkProducerDone(a, 0)
<1>1. /\ DOMAIN a = AccFields /\ 0 \in Accumulator!Stream
      /\ {a.presented, a.accepted, a.last} \subseteq [Accumulator!Stream -> Accumulator!Batch]
      /\ a.done \in [Accumulator!Stream -> BOOLEAN] /\ a.taken \in Nat
  BY OneStream DEF Shaped
<1>2. /\ DOMAIN m = AccFields /\ m.done \in [Accumulator!Stream -> BOOLEAN]
      /\ \A f \in AccFields \ {"done"} : m[f] = a[f]
  <2>1. CASE a.presented[0] # Accumulator!NoBatch BY <1>1, <2>1 DEF Accumulator!MarkProducerDone
  <2>2. CASE a.presented[0] = Accumulator!NoBatch
    <3>1. m = [a EXCEPT !.done[0] = TRUE] BY <2>2 DEF Accumulator!MarkProducerDone
    <3> HIDE DEF m
    <3>2. /\ DOMAIN m = AccFields /\ m.done = [a.done EXCEPT ![0] = TRUE]
          /\ \A f \in AccFields \ {"done"} : m[f] = a[f]
      BY <1>1, <3>1 DEF AccFields, Accumulator!BGAInit
    <3>3. m.done \in [Accumulator!Stream -> BOOLEAN] BY <1>1, <3>2
    <3> QED BY <3>2, <3>3
  <2> QED BY <2>1, <2>2
<1> HIDE DEF m
<1>3. u = m \/ u = [m EXCEPT !.draining = TRUE]
  BY DEF EndProducer, Accumulator!RequestFinalDrain, m
<1>4. /\ DOMAIN u = AccFields /\ u.done = m.done
      /\ \A f \in AccFields \ {"done", "draining"} : u[f] = a[f]
  BY <1>2, <1>3 DEF AccFields, Accumulator!BGAInit
<1>5. u.draining = m.draining \/ u.draining = TRUE
  BY <1>2, <1>3 DEF AccFields, Accumulator!BGAInit
<1>6. u.draining \in BOOLEAN
  BY <1>2, <1>5 DEF AccFields, Accumulator!BGAInit, Shaped
<1>7. /\ u.presented = a.presented /\ u.last = a.last /\ u.taken = a.taken
      /\ u.accepted = a.accepted /\ u.retiring = a.retiring
  BY <1>4 DEF AccFields, Accumulator!BGAInit
<1>8. /\ Shaped(u) /\ u.queue = a.queue /\ u.acc = a.acc /\ u.output = a.output /\ u.op = a.op
      /\ u.miss = a.miss /\ u.retired = a.retired /\ u.aborted = a.aborted
      /\ u.generation = a.generation
  <2>1. \A f \in AccFields \ OuterFields : u[f] = a[f] BY <1>4 DEF OuterFields
  <2>2. u.done \in [Accumulator!Stream -> BOOLEAN] BY <1>2, <1>4
  <2>3. {u.presented, u.accepted, u.last} \subseteq [Accumulator!Stream -> Accumulator!Batch] /\ u.taken \in Nat
    BY <1>1, <1>7
  <2>4. u.retiring \in BOOLEAN BY <1>7 DEF Shaped
  <2>5. u.retiring => a.output # <<>> BY <1>7 DEF Shaped
  <2> QED BY <1>4, <1>6, <2>1, <2>2, <2>3, <2>4, <2>5, OuterShaped
<1> QED BY <1>7, <1>8

\* With its engine, it still fits.
LEMMA EndFits ==
  ASSUME NEW e, NEW a, NEW h, NEW bg, NEW c, EngineInv(e, bg, c), e.state = "COMPLETE_PRODUCER",
         BatchFits(e, a, h, TRUE), NEW u, u \in {a, EndProducer(a)}, NEW drains
  PROVE  BatchFits(CompleteProducer(e, drains), u, h, FALSE)
<1> DEFINE t == CompleteProducer(e, drains)
<1>1. SameBatches(e, t) /\ t.state \in Over BY ProducerGoes DEF Over
<1> HIDE DEF t
<1>2. /\ Shaped(u) /\ u.presented = a.presented /\ u.last = a.last /\ u.taken = a.taken
      /\ u.queue = a.queue /\ u.acc = a.acc /\ u.output = a.output /\ u.op = a.op
      /\ u.miss = a.miss /\ u.retired = a.retired /\ u.aborted = a.aborted
      /\ u.generation = a.generation /\ u.accepted = a.accepted /\ u.retiring = a.retiring
  BY EndShaped DEF BatchFits
<1>3. Accumulator!LiveContributionCount(u) = Accumulator!LiveContributionCount(a)
  BY <1>2, SameHeld
<1>4. Accumulator!ConservationInvariant(u) /\ Leaving(u) = Leaving(a)
  BY <1>2, <1>3 DEF BatchFits, Accumulator!ConservationInvariant, Leaving
<1>5. t.batch # NoBatch =>
        t.batch = [stream |-> 0, generation |-> t.bgaGeneration,
                   sequence |-> t.nextBatch, rows |-> t.batch.rows] /\ Presentable(u, t.batch)
  BY <1>1, <1>2 DEF BatchFits, SameBatches, Presentable
<1> QED BY <1>1, <1>2, <1>4, <1>5 DEF BatchFits, SameBatches, t

\* A new accumulator holds nothing.
LEMMA FreshFits ==
  ASSUME NEW g \in Nat, NEW a, a = [Accumulator!BGAInit EXCEPT !.generation = g], NEW e,
         e.batch = NoBatch, e.nextBatch = 1, e.accepted = 0, e.bgaGeneration = g
  PROVE  BatchFits(e, a, <<>>, FALSE)
<1>1. /\ DOMAIN a = AccFields /\ a.generation = g
      /\ \A f \in AccFields \ {"generation"} : a[f] = Accumulator!BGAInit[f]
  BY DEF AccFields, Accumulator!BGAInit
<1>2. /\ a.queue = [st \in Accumulator!Stream |-> <<>>]
      /\ a.presented = [st \in Accumulator!Stream |-> Accumulator!NoBatch]
      /\ a.accepted = [st \in Accumulator!Stream |-> Accumulator!NoBatch]
      /\ a.last = [st \in Accumulator!Stream |-> Accumulator!NoBatch]
      /\ a.done = [st \in Accumulator!Stream |-> FALSE]
      /\ a.acc = [k \in Accumulator!Slot |-> Accumulator!FreeEntry]
      /\ a.output = <<>> /\ a.op = Accumulator!NoOperation /\ a.miss = Accumulator!NoMiss
      /\ a.rr = 0 /\ a.age = 0 /\ a.outSeq = 0 /\ a.taken = 0 /\ a.retired = 0 /\ a.aborted = 0
  BY <1>1 DEF AccFields, Accumulator!BGAInit
<1>3. a.retiring = FALSE /\ a.draining = FALSE BY <1>1 DEF AccFields, Accumulator!BGAInit
<1>4. Accumulator!NoBatch \in Accumulator!Batch /\ Accumulator!NoBatch = NoBatch
  BY OneStream DEF Accumulator!NoBatch, Accumulator!Batch, NoBatch
<1>5. Accumulator!FreeEntry \in EntrySet /\ Accumulator!NoContribution \in Accumulator!Contribution
  BY OneStream, IntegrationAssumption
     DEF Accumulator!FreeEntry, EntrySet, Accumulator!Row, Accumulator!NoContribution,
         Accumulator!Contribution
<1>6. Contents(a.queue, a.acc, a.output)
  <2>1. a.queue \in [Accumulator!Stream -> Seq(Accumulator!Contribution)]
    <3>1. a.queue = [st \in Accumulator!Stream |-> <<>>] BY <1>2
    <3>2. <<>> \in Seq(Accumulator!Contribution) OBVIOUS
    <3> QED BY ONLY <3>1, <3>2
  <2>2. a.acc \in [Accumulator!Slot -> EntrySet]
    <3>1. a.acc = [k \in Accumulator!Slot |-> Accumulator!FreeEntry] BY <1>2
    <3> QED BY ONLY <1>5, <3>1
  <2>3. a.output \in Seq(RecordSet)
    <3>1. a.output = <<>> BY <1>2
    <3> QED BY ONLY <3>1
  <2> QED BY <2>1, <2>2, <2>3 DEF Contents
<1>7. InHand(a.op, a.miss) BY <1>2, <1>5 DEF InHand, Accumulator!NoOperation, Accumulator!NoMiss
<1>8. Shaped(a)
  <2>1. {a.presented, a.accepted, a.last} \subseteq [Accumulator!Stream -> Accumulator!Batch]
    BY <1>2, <1>4
  <2>2. a.done \in [Accumulator!Stream -> BOOLEAN]
    <3>1. a.done = [st \in Accumulator!Stream |-> FALSE] BY <1>2
    <3>2. FALSE \in BOOLEAN OBVIOUS
    <3> QED BY ONLY <3>1, <3>2
  <2>3. {a.rr, a.age, a.outSeq, a.taken, a.retired, a.aborted, a.generation} \subseteq Nat
    BY <1>1, <1>2
  <2> QED BY <1>1, <1>3, <1>6, <1>7, <2>1, <2>2, <2>3 DEF Shaped
<1>9. Accumulator!HeldPlaces(a) = {}
  <2>1. Accumulator!LiveSlots(a) = {} BY <1>2 DEF Accumulator!LiveSlots, Accumulator!FreeEntry
  <2>2. \A what, f : (\A d \in DOMAIN f : f[d] = 0) => Accumulator!Places(what, f) = {}
    BY DEF Accumulator!Places
  <2>3. Accumulator!Places("queue", QueueLengths(a)) = {}
    BY <1>2, <2>2 DEF QueueLengths
  <2>4. Accumulator!Places("accepted", AcceptedLengths(a)) = {}
    BY <1>2, <2>2 DEF AcceptedLengths, Accumulator!NoBatch
  <2>5. Accumulator!Places("entry", EntryLengths(a)) = {}
    BY <2>1, <2>2 DEF EntryLengths
  <2>6. Accumulator!Places("output", OutputLengths(a)) = {}
    BY <1>2, <2>2 DEF OutputLengths
  <2>7. /\ Accumulator!Places("operation", [n \in {0} |-> IF a.op # Accumulator!NoOperation THEN 1 ELSE 0]) = {}
        /\ Accumulator!Places("miss", [n \in {0} |-> IF a.miss.active THEN 1 ELSE 0]) = {}
    BY <1>2, <2>2 DEF Accumulator!NoMiss
  <2>8. OtherPlaces(a) = {} BY <2>3, <2>5, <2>6, <2>7 DEF OtherPlaces
  <2> QED BY <1>8, <2>4, <2>8, LiveFinite
<1>10. Accumulator!LiveContributionCount(a) = 0 BY <1>8, <1>9, LiveFinite, FS_EmptySet
<1>11. Accumulator!ConservationInvariant(a) /\ a.aborted = 0
  BY <1>2, <1>10 DEF Accumulator!ConservationInvariant
<1>12. /\ a.presented[0] = NoBatch /\ a.last[0].sequence + 1 = e.nextBatch /\ ~a.done[0]
       /\ a.taken = e.accepted
  BY <1>2, <1>4, OneStream DEF NoBatch
<1>13. a.retired + Leaving(a) = Len(FlattenSeq(<<>>)) /\ <<>> \in Seq(Seq(Accumulator!Contribution))
  BY <1>2, <1>3 DEF Leaving, FlattenSeq
<1> QED BY <1>1, <1>8, <1>11, <1>12, <1>13 DEF BatchFits

-----------------------------------------------------------------------------
(* The steps, as far as batches are concerned                              *)

\* An engine that offers nothing and ends nothing keeps what it knows of batches.
LEMMA TickKeepsBatches ==
  ASSUME ReadsInv, NEW bg \in LocalBGs, NEW accepted, Enabled, engines[bg].busy,
         TickEngineAndBGA(bg, accepted)
  PROVE  \/ /\ UNCHANGED accumulators
            /\ \E t : /\ engines' = [engines EXCEPT ![bg] = t] /\ SameBatches(engines[bg], t)
                      /\ engines[bg].state \in Over => t.state \in Over
         \/ engines[bg].state = "EMIT_PARTIALS" /\ SubmitBatch(bg)
         \/ engines[bg].state = "COMPLETE_PRODUCER" /\ EndBankGroup(bg)
<1> DEFINE e == engines[bg]
           c == policy.consumer
           Kept == \E t : /\ engines' = [engines EXCEPT ![bg] = t] /\ SameBatches(e, t)
                          /\ e.state \in Over => t.state \in Over
<1>1. EngineInv(e, bg, c) /\ engines = [engines EXCEPT ![bg] = e] BY DEF ReadsInv
<1>2. e.state \in EngineStates \ {"IDLE", "DONE", "ERROR"} BY <1>1 DEF EngineInv, EngineTyped
<1>3. ASSUME NEW t, engines' = [engines EXCEPT ![bg] = t], Goes(e, t, bg, c), SameBatches(e, t)
      PROVE  Kept
  BY <1>3 DEF Goes
<1>4. ASSUME UNCHANGED engines
      PROVE  Kept
  BY <1>1, GoesOn, <1>3, <1>4
<1> HIDE DEF Kept
<1>5. ASSUME e.state \in Requesting, RequestOperand(bg, accepted)
      PROVE  Kept
  <2> DEFINE t == IF e.state = "WAIT_OPERANDS" THEN WaitOperands(e, accepted)
                  ELSE FetchOperand(e, accepted)
  <2>1. engines' = [engines EXCEPT ![bg] = t] BY <1>5 DEF RequestOperand, Put
  <2>2. Goes(e, t, bg, c) /\ SameBatches(e, t) BY <1>1, <1>5, OperandGoes
  <2> HIDE DEF t
  <2> QED BY <1>3, <2>1, <2>2
<1>6. ASSUME e.state = "SIMD_MUL", SubmitTarget(bg)
      PROVE  Kept
  <2> DEFINE b == BuildOperation(e)
  <2>1. Goes(e, b, bg, c) /\ SameBatches(e, b) /\ b.state = "SIMD_MUL" /\ EngineInv(b, bg, c)
    BY <1>1, <1>6, BuildGoes DEF Goes
  <2>2. \/ UNCHANGED engines
        \/ engines' = [engines EXCEPT ![bg] = b]
        \/ engines' = [engines EXCEPT ![bg] = TargetSubmitted(b)]
    BY <1>6 DEF SubmitTarget, Throw, Put
  <2> HIDE DEF b
  <2>3. Goes(b, TargetSubmitted(b), bg, c) /\ SameBatches(b, TargetSubmitted(b))
    BY <2>1, TargetGoes
  <2>4. Goes(e, TargetSubmitted(b), bg, c) /\ SameBatches(e, TargetSubmitted(b))
    BY <2>1, <2>3, GoesChain DEF SameBatches
  <2> QED BY <1>3, <1>4, <2>1, <2>2, <2>4
<1>7. ASSUME e.state = "WAIT_TARGET_GRANT", AskGrant(bg)
      PROVE  Kept
  BY <1>7, <1>1, TargetGoes, <1>3, <1>4 DEF AskGrant, Step, Put, Throw
<1>8. ASSUME e.state = "WAIT_TARGET_COMPLETION", PollTarget(bg)
      PROVE  Kept
  BY <1>8, <1>1, TargetGoes, <1>3, <1>4 DEF PollTarget, Step, Put
<1>9. ASSUME e.state \in {"FETCH_DESCRIPTOR", "ADVANCE_CHUNK", "NEXT_DESCRIPTOR", "FLUSHING"},
             Step(bg, LocalStep(bg))
      PROVE  Kept
  BY <1>9, LocalGoes, <1>3 DEF Step, Put
<1>10. LET state == e.state
       IN  \/ state \in Requesting /\ RequestOperand(bg, accepted) /\ UNCHANGED accumulators
           \/ state = "SIMD_MUL" /\ SubmitTarget(bg) /\ UNCHANGED accumulators
           \/ state = "WAIT_TARGET_GRANT" /\ AskGrant(bg) /\ UNCHANGED accumulators
           \/ state = "WAIT_TARGET_COMPLETION" /\ PollTarget(bg) /\ UNCHANGED accumulators
           \/ state = "EMIT_PARTIALS" /\ ~Enabled /\ Emit(bg) /\ UNCHANGED accumulators
           \/ state = "EMIT_PARTIALS" /\ Enabled /\ SubmitBatch(bg)
           \/ state = "COMPLETE_PRODUCER" /\ EndBankGroup(bg)
           \/ /\ state \in {"FETCH_DESCRIPTOR", "ADVANCE_CHUNK", "NEXT_DESCRIPTOR", "FLUSHING"}
              /\ Step(bg, LocalStep(bg)) /\ UNCHANGED accumulators
  BY <1>2, TickCases
<1> QED BY <1>5, <1>6, <1>7, <1>8, <1>9, <1>10 DEF Kept

\* An engine that acts in its turn, with its accumulator.
LEMMA TurnBatches ==
  ASSUME BatchInv, BatchLive, ReadsInv, turn \in LocalBGs,
         NEW t, engines' = [engines EXCEPT ![turn] = t],
         NEW u, accumulators' = [accumulators EXCEPT ![turn] = u],
         BatchFits(t, u, output.handed[turn], FALSE),
         output' = output, turn' \in Nat, turn' > turn
  PROVE  BatchInv'
<1>1. /\ accumulators = [bg \in LocalBGs |-> accumulators[bg]]
      /\ DOMAIN output.handed = LocalBGs
      /\ \A bg \in LocalBGs : BatchFits(engines[bg], accumulators[bg], output.handed[bg], Due(bg))
      /\ engines = [bg \in LocalBGs |-> engines[bg]]
  BY DEF BatchInv, ReadsInv
<1>2. accumulators' = [bg \in LocalBGs |-> accumulators'[bg]] BY <1>1
<1>3. /\ engines'[turn] = t /\ accumulators'[turn] = u
      /\ \A bg \in LocalBGs \ {turn} : engines'[bg] = engines[bg] /\ accumulators'[bg] = accumulators[bg]
  BY <1>1
<1>4. turn \in Nat /\ turn # Idle /\ \A bg \in LocalBGs : bg \in Nat
  BY TurnNumbers, IntegrationAssumption
<1> SUFFICES ASSUME NEW bg \in LocalBGs
             PROVE  BatchFits(engines'[bg], accumulators'[bg], output'.handed[bg], Due(bg)')
  BY <1>1, <1>2 DEF BatchInv
<1>5. CASE bg = turn
  BY <1>4, <1>5, <1>3 DEF Due, BatchFits
<1>6. CASE bg # turn
  <2>1. Due(bg)' => Due(bg) BY <1>4 DEF Due
  <2>2. BatchFits(engines[bg], accumulators[bg], output.handed[bg], Due(bg)) BY <1>1
  <2>3. SameBatches(engines[bg], engines[bg]) BY DEF SameBatches
  <2>4. BatchFits(engines[bg], accumulators[bg], output.handed[bg], Due(bg)')
    BY <2>1, <2>2, <2>3, FitsStill
  <2> QED BY <1>3, <1>6, <2>4
<1> QED BY <1>5, <1>6

\* One engine's turn.
LEMMA VisitBatches ==
  ASSUME ReadsInv, BatchInv, NEW accepted \in BOOLEAN, Visit(accepted)
  PROVE  BatchInv'
<1> DEFINE e == engines[turn]
           a == accumulators[turn]
           h == output.handed[turn]
           c == policy.consumer
<1>1. /\ turn \in LocalBGs /\ turn # Idle /\ turn' \in Nat /\ turn' > turn /\ turn' # Idle
      /\ policy' = policy /\ output' = output /\ ~exec.threw
  BY IntegrationAssumption, TurnNumbers DEF Visit, ReadsInv
<1>2. SUFFICES ASSUME BatchLive'
               PROVE  BatchInv'
  BY DEF BatchInv
<1>3. BatchLive /\ ~exec'.threw
  BY VisitReads, <1>1, <1>2 DEF ExecStays, BatchLive, Enabled
<1>4. /\ BatchFits(e, a, h, Due(turn)) /\ EngineInv(e, turn, c) /\ Len(e.batch.rows) \in Nat
      /\ engines = [engines EXCEPT ![turn] = e] /\ accumulators = [accumulators EXCEPT ![turn] = a]
      /\ c # "RAW" /\ Enabled
  BY <1>1, <1>3 DEF BatchInv, BatchLive, ReadsInv, Enabled
<1>5. BatchFits(e, a, h, TRUE)
  <2>1. Due(turn)
    BY <1>1, TurnNumbers, IntegrationAssumption DEF Due
  <2> QED BY <1>4, <2>1 DEF BatchFits
<1>6. ASSUME NEW t, engines' = [engines EXCEPT ![turn] = t], SameBatches(e, t),
             e.state \in Over => t.state \in Over, UNCHANGED accumulators
      PROVE  BatchInv'
  BY <1>5, <1>6, FitsStill, <1>4, <1>1, <1>3, TurnBatches
<1>7. CASE UNCHANGED <<engines, accumulators>>
  BY <1>4, <1>7, <1>6 DEF SameBatches
<1>8. ASSUME e.state = "EMIT_PARTIALS", SubmitBatch(turn)
      PROVE  BatchInv'
  <2> DEFINE built == BuildBatch(e, NumRows)
             t == BatchAnswered(built, SubmitResult(a, built.batch))
             u == Submit(a, built.batch)
  <2>1. IF HasFailed(built) THEN BatchFits(built, a, h, FALSE) ELSE BatchFits(t, u, h, FALSE)
    BY <1>4, <1>5, <1>8, OfferFits
  <2>2. IF HasFailed(built)
        THEN engines' = [engines EXCEPT ![turn] = built] /\ UNCHANGED accumulators
        ELSE engines' = [engines EXCEPT ![turn] = t] /\ accumulators' = [accumulators EXCEPT ![turn] = u]
    BY <1>8 DEF SubmitBatch, Step, Put
  <2> HIDE DEF built, t, u
  <2>3. CASE HasFailed(built)
    BY <1>4, <2>2, <2>3, <1>1, <1>3, <2>1, TurnBatches
  <2>4. CASE ~HasFailed(built) BY <1>1, <1>3, <2>1, <2>2, <2>4, TurnBatches
  <2> QED BY <2>3, <2>4
<1>9. ASSUME e.state = "COMPLETE_PRODUCER", EndBankGroup(turn)
      PROVE  BatchInv'
  <2> DEFINE u == IF MayCompleteProducer(e) THEN EndProducer(a) ELSE a
             t == CompleteProducer(e, u.draining)
  <2>1. engines' = [engines EXCEPT ![turn] = t] /\ accumulators' = [accumulators EXCEPT ![turn] = u]
    BY <1>9 DEF EndBankGroup, Step, Put
  <2>2. u \in {a, EndProducer(a)} OBVIOUS
  <2> HIDE DEF u
  <2>3. BatchFits(t, u, h, FALSE)
    <3>1. /\ EngineInv(e, turn, c) /\ e.state = "COMPLETE_PRODUCER" /\ BatchFits(e, a, h, TRUE)
      BY <1>4, <1>5, <1>9
    <3> HIDE DEF e, a, h, c
    <3>2. \A drains : BatchFits(CompleteProducer(e, drains), u, h, FALSE) BY <2>2, <3>1, EndFits
    <3> QED BY <3>2
  <2> HIDE DEF t
  <2> QED BY <1>1, <1>3, <2>1, <2>3, TurnBatches
<1>10. CASE e.busy /\ TickEngineAndBGA(turn, accepted)
  BY <1>1, <1>4, <1>10, TickKeepsBatches, <1>6, <1>8, <1>9
<1> QED BY <1>7, <1>10 DEF Visit

\* The cycle: every accumulator makes its step, unless one of them throws.
LEMMA CycleBatches ==
  ASSUME ReadsInv, BatchInv, NEW done \in {{}} \cup OneRead, NEW busBusy, Cycle(done, busBusy)
  PROVE  BatchInv'
<1>1. /\ turn = Idle /\ turn' = 0 /\ 0 # Idle /\ exec.launched /\ ~exec.threw /\ policy' = policy
      /\ accumulators' = IF Enabled THEN StepAccumulators(accumulators) ELSE accumulators
      /\ exec'.threw = StepThrew(accumulators')
  <2>1. /\ turn = Idle /\ turn' = 0 /\ exec.launched /\ ~exec.threw /\ policy' = policy
        /\ accumulators' = IF Enabled THEN StepAccumulators(accumulators) ELSE accumulators
    BY DEF Cycle
  <2>2. 0 # Idle BY TurnNumbers, IntegrationAssumption
  <2>3. PICK failed : exec' = [exec EXCEPT !.outstanding = @ \ done, !.failed = failed \/ path'.error,
                                           !.threw = StepThrew(accumulators')]
    BY DEF Cycle
  <2>4. exec'.threw = StepThrew(accumulators')
    BY <2>3 DEF ReadsInv, ExecTyped, ExecFields, ExecInit
  <2> QED BY <2>1, <2>2, <2>4
<1>2. SUFFICES ASSUME BatchLive'
               PROVE  BatchInv'
  BY DEF BatchInv
<1>3. BatchLive /\ ~exec'.threw /\ Enabled BY <1>1, <1>2 DEF BatchLive, Enabled
<1>4. output'.handed = output.handed
  BY DEF Cycle, ReadsInv, OutputTyped, OutputInit
<1>5. /\ accumulators' = [bg \in LocalBGs |-> accumulators'[bg]]
      /\ \A bg \in LocalBGs : /\ accumulators'[bg] = CHOOSE t \in Accumulator!Stepped(accumulators[bg]) : TRUE
                              /\ accumulators'[bg].fault = "none"
  <2>1. accumulators' = StepAccumulators(accumulators) /\ ~StepThrew(accumulators')
    BY <1>1, <1>3
  <2>2. \A bg \in LocalBGs : accumulators'[bg].fault = "none" BY <2>1 DEF StepThrew
  <2>3. accumulators' = [bg \in LocalBGs |-> CHOOSE t \in Accumulator!Stepped(accumulators[bg]) : TRUE]
    BY <2>1 DEF StepAccumulators
  <2>4. \A bg \in LocalBGs : accumulators'[bg] = CHOOSE t \in Accumulator!Stepped(accumulators[bg]) : TRUE
    BY <2>3
  <2>5. accumulators' = [bg \in LocalBGs |-> accumulators'[bg]] BY <2>3, <2>4, Zenon
  <2> QED BY <2>2, <2>4, <2>5
<1> SUFFICES ASSUME NEW bg \in LocalBGs
             PROVE  BatchFits(engines'[bg], accumulators'[bg], output'.handed[bg], Due(bg)')
  BY <1>3, <1>4, <1>5 DEF BatchInv
<1> DEFINE e == engines[bg]
           a == accumulators[bg]
           t == accumulators'[bg]
           h == output.handed[bg]
<1>6. BatchFits(e, a, h, FALSE)
  BY <1>1, <1>3 DEF BatchInv, Due, BatchFits
<1>7. Advanced(a, t)
  BY <1>6, <1>5, StepShaped DEF BatchFits
<1>8. BatchFits(e, t, h, TRUE) BY <1>6, <1>7, StepFits
<1>9. SameBatches(e, engines'[bg]) /\ (e.state \in Over => engines'[bg].state \in Over)
  BY CycleEngines DEF Goes
<1>10. BatchFits(engines'[bg], t, h, Due(bg)') BY <1>8, <1>9, FitsStill
<1> QED BY <1>4, <1>10

\* A record handed over: it stays at the front until the next step retires it.
LEMMA TakeFits ==
  ASSUME NEW e, NEW a, NEW h, BatchFits(e, a, h, FALSE), a.output # <<>>, ~a.retiring
  PROVE  BatchFits(e, Accumulator!AcceptOutput(a), Append(h, Head(a.output).value), FALSE)
<1> DEFINE u == Accumulator!AcceptOutput(a)
           v == Head(a.output).value
<1>1. /\ Shaped(a) /\ DOMAIN a = AccFields /\ a.output \in Seq(RecordSet) /\ a.retired \in Nat
      /\ h \in Seq(Seq(Accumulator!Contribution))
  BY DEF BatchFits, Shaped, Contents
<1>2. v \in Seq(Accumulator!Contribution) /\ Len(v) \in Nat
  <2>1. Head(a.output) \in RecordSet BY <1>1
  <2>2. v \in Seq(Accumulator!Contribution) BY <2>1 DEF RecordSet
  <2> QED BY <2>2
<1>3. u = [a EXCEPT !.retiring = TRUE] BY DEF Accumulator!AcceptOutput
<1> HIDE DEF u
<1>4. DOMAIN u = AccFields /\ \A f \in AccFields \ {"retiring"} : u[f] = a[f]
  BY <1>1, <1>3 DEF AccFields, Accumulator!BGAInit
<1>5. u.retiring = TRUE BY <1>1, <1>3 DEF AccFields, Accumulator!BGAInit
<1>6. /\ u.presented = a.presented /\ u.last = a.last /\ u.taken = a.taken
      /\ u.accepted = a.accepted /\ u.done = a.done /\ u.draining = a.draining
  BY <1>4 DEF AccFields, Accumulator!BGAInit
<1>7. /\ Shaped(u) /\ u.queue = a.queue /\ u.acc = a.acc /\ u.output = a.output /\ u.op = a.op
      /\ u.miss = a.miss /\ u.retired = a.retired /\ u.aborted = a.aborted
      /\ u.generation = a.generation
  <2>1. \A f \in AccFields \ OuterFields : u[f] = a[f] BY <1>4 DEF OuterFields
  <2>2. u.done \in [Accumulator!Stream -> BOOLEAN] BY <1>1, <1>6 DEF Shaped
  <2>3. /\ {u.presented, u.accepted, u.last} \subseteq [Accumulator!Stream -> Accumulator!Batch]
        /\ u.taken \in Nat
    BY <1>1, <1>6 DEF Shaped
  <2>4. u.draining \in BOOLEAN BY <1>1, <1>6 DEF Shaped
  <2>5. u.retiring \in BOOLEAN BY <1>5
  <2>6. u.retiring => a.output # <<>> OBVIOUS
  <2> QED BY <1>1, <1>4, <2>1, <2>2, <2>3, <2>4, <2>5, <2>6, OuterShaped
<1>8. Accumulator!LiveContributionCount(u) = Accumulator!LiveContributionCount(a)
  BY <1>6, <1>7, SameHeld
<1>9. Accumulator!ConservationInvariant(u)
  BY <1>6, <1>7, <1>8 DEF BatchFits, Accumulator!ConservationInvariant
<1>10. u.retired + Leaving(u) = Len(FlattenSeq(Append(h, v)))
  <2>1. Leaving(u) = Len(v) /\ Leaving(a) = 0 BY <1>5, <1>7 DEF Leaving
  <2>2. a.retired = Len(FlattenSeq(h)) BY <1>1, <2>1 DEF BatchFits
  <2>3. Len(FlattenSeq(Append(h, v))) = Len(FlattenSeq(h)) + Len(v) BY <1>1, <1>2, FlattenAppend
  <2> QED BY <1>7, <2>1, <2>2, <2>3
<1>11. Append(h, v) \in Seq(Seq(Accumulator!Contribution)) BY <1>1, <1>2
<1> HIDE DEF v
<1>12. e.batch # NoBatch =>
         e.batch = [stream |-> 0, generation |-> e.bgaGeneration,
                    sequence |-> e.nextBatch, rows |-> e.batch.rows] /\ Presentable(u, e.batch)
  BY <1>6, <1>7 DEF BatchFits, Presentable
<1>13. BatchFits(e, u, Append(h, v), FALSE)
  BY <1>6, <1>7, <1>9, <1>10, <1>11, <1>12 DEF BatchFits
<1> QED BY <1>13 DEF u, v

\* A service in progress, for the engines E.
ServedFits(E, s) ==
  /\ DOMAIN s = ServingFields /\ OutputTyped(s.output)
  /\ s.accumulators = [bg \in LocalBGs |-> s.accumulators[bg]]
  /\ DOMAIN s.output.handed = LocalBGs
  /\ \A bg \in LocalBGs : BatchFits(E[bg], s.accumulators[bg], s.output.handed[bg], FALSE)

\* Every record that is taken is one the accumulator held.
LEMMA TakeServedFits ==
  ASSUME NEW E, NEW s, ServedFits(E, s), NEW bg \in LocalBGs, NEW w \in BOOLEAN,
         s.accumulators[bg].output # <<>>
  PROVE  ServedFits(E, TakeOutput(s, bg, w))
<1> DEFINE a == s.accumulators[bg]
           h == s.output.handed[bg]
           u == Accumulator!AcceptOutput(a)
           g == Append(h, Head(a.output).value)
           x == [s EXCEPT !.failed = TRUE]
           y == [s EXCEPT !.failed = ~w, !.threw = w]
           z == [s EXCEPT !.accumulators[bg] = Accumulator!AcceptOutput(@),
                     !.path = IF w THEN Path!CommitReserved(@, bg) ELSE @,
                     !.output.handed[bg] = Append(@, Head(a.output).value),
                     !.output.cursor = (bg + 1) % NumBGs,
                     !.served = @ + 1]
           t == TakeOutput(s, bg, w)
<1>1. t \in {x, y} \/ (t = z /\ ~a.retiring) BY DEF TakeOutput
<1>2. DOMAIN t = ServingFields /\ OutputTyped(t.output)
  <2>1. DOMAIN s = ServingFields /\ OutputTyped(s.output) BY DEF ServedFits
  <2> HIDE DEF t
  <2>2. DOMAIN TakeOutput(s, bg, w) = ServingFields /\ OutputTyped(TakeOutput(s, bg, w).output)
    BY <2>1, TakeOutputFields
  <2> QED BY <2>2 DEF t
<1>3. ASSUME t \in {x, y}
      PROVE  ServedFits(E, t)
  <2>1. DOMAIN x = ServingFields /\ x.output = s.output /\ x.accumulators = s.accumulators
    BY DEF ServingFields, ServedFits
  <2>2. DOMAIN y = ServingFields /\ y.output = s.output /\ y.accumulators = s.accumulators
    BY DEF ServingFields, ServedFits
  <2> HIDE DEF x, y, t
  <2>3. t.output = s.output /\ t.accumulators = s.accumulators BY <1>3, <2>1, <2>2
  <2> QED BY <1>2, <2>3 DEF ServedFits
<1>4. ASSUME t = z, ~a.retiring
      PROVE  ServedFits(E, t)
  <2>1. z.accumulators = [s.accumulators EXCEPT ![bg] = u] BY DEF ServingFields, ServedFits
  <2>2. z.output = [s.output EXCEPT !.handed[bg] = g, !.cursor = (bg + 1) % NumBGs]
    BY DEF ServingFields, ServedFits
  <2>3. DOMAIN s.output = {"cursor", "handed", "valid", "reduced"}
    BY DEF ServedFits, OutputTyped, OutputInit
  <2>4. BatchFits(E[bg], a, h, FALSE) BY DEF ServedFits
  <2>5. BatchFits(E[bg], u, g, FALSE) BY <1>4, <2>4, TakeFits
  <2> HIDE DEF z, t, u, g
  <2>6. t.accumulators = [s.accumulators EXCEPT ![bg] = u] BY <1>4, <2>1
  <2>7. t.output.handed = [s.output.handed EXCEPT ![bg] = g] BY <1>4, <2>2, <2>3
  <2>8. /\ s.accumulators = [b \in LocalBGs |-> s.accumulators[b]] /\ DOMAIN s.output.handed = LocalBGs
        /\ \A b \in LocalBGs : BatchFits(E[b], s.accumulators[b], s.output.handed[b], FALSE)
    BY DEF ServedFits
  <2>9. t.accumulators = [b \in LocalBGs |-> t.accumulators[b]] /\ DOMAIN t.output.handed = LocalBGs
    BY <2>6, <2>7, <2>8
  <2>10. \A b \in LocalBGs : BatchFits(E[b], t.accumulators[b], t.output.handed[b], FALSE)
    BY <2>5, <2>6, <2>7, <2>8
  <2> QED BY <1>2, <2>9, <2>10 DEF ServedFits
<1> QED BY <1>1, <1>3, <1>4

\* A sweep leaves every bank group's batches in agreement.
LEMMA SweepFits ==
  ASSUME NEW E, NEW a, NEW p, NEW o, ServedFits(E, Serving(a, p, o)), NEW w \in BOOLEAN
  PROVE  ServedFits(E, Service(a, p, o, w))
<1>0. PICK f : Sweep(f, a, p, o, w) /\ Service(a, p, o, w) = f[NumBGs] BY ServiceRuns
<1>1. /\ f[0] = Serving(a, p, o)
      /\ \A n \in 1 .. NumBGs : f[n] = Serve(f[n - 1], (o.cursor + n - 1) % NumBGs, w)
      /\ Service(a, p, o, w) = f[NumBGs] /\ o.cursor \in LocalBGs
  BY <1>0 DEF Sweep, ServedFits, Serving, OutputTyped
<1> DEFINE S == {n \in Nat : n <= NumBGs => ServedFits(E, f[n])}
<1>2. 0 \in S BY <1>1
<1>3. ASSUME NEW n \in Nat, n \in S
      PROVE  n + 1 \in S
  <2>1. CASE ~(n + 1 <= NumBGs) BY <2>1
  <2>2. CASE n + 1 <= NumBGs
    <3> DEFINE bg == (o.cursor + n) % NumBGs
    <3>1. NumBGs \in Nat /\ n <= NumBGs /\ n + 1 \in 1 .. NumBGs /\ (n + 1) - 1 = n /\ o.cursor \in Nat
      BY <1>1, <2>2, IntegrationAssumption DEF LocalBGs
    <3>2. ServedFits(E, f[n]) BY <1>3, <3>1
    <3>3. f[n + 1] = Serve(f[n], bg, w)
      BY <3>1, <1>1
    <3>4. bg \in LocalBGs BY <3>1, WrapsAround
    <3> HIDE DEF bg
    <3>5. \/ f[n + 1] = f[n]
          \/ f[n + 1] = [f[n] EXCEPT !.refused = TRUE]
          \/ f[n].accumulators[bg].output # <<>> /\ f[n + 1] = TakeOutput(f[n], bg, w)
      BY <3>3 DEF Serve
    <3>6. ServedFits(E, [f[n] EXCEPT !.refused = TRUE])
      <4> DEFINE t == [f[n] EXCEPT !.refused = TRUE]
      <4>1. DOMAIN t = ServingFields /\ t.output = f[n].output /\ t.accumulators = f[n].accumulators
        BY <3>2 DEF ServedFits, ServingFields
      <4> HIDE DEF t
      <4>2. ServedFits(E, t) BY <3>2, <4>1 DEF ServedFits
      <4> QED BY <4>2 DEF t
    <3>7. f[n].accumulators[bg].output # <<>> => ServedFits(E, TakeOutput(f[n], bg, w))
      BY <3>2, <3>4, TakeServedFits
    <3>8. ServedFits(E, f[n + 1]) BY <3>2, <3>5, <3>6, <3>7
    <3> QED BY <3>8
  <2> QED BY <2>1, <2>2
<1>4. NumBGs \in S
  BY <1>2, <1>3, NatSetInduction, IntegrationAssumption
<1> QED BY <1>1, <1>4, IntegrationAssumption

\* The end of a tick: the outputs are taken.
LEMMA FinishBatches ==
  ASSUME ReadsInv, BatchInv, Finish
  PROVE  BatchInv'
<1> DEFINE s == Served
<1>1. /\ UNCHANGED <<engines, policy>> /\ turn' = Idle /\ turn = NumBGs /\ ~exec.threw
      /\ accumulators' = s.accumulators
      /\ \E valid : output' = [s.output EXCEPT !.valid = valid, !.reduced = FALSE]
  BY Zenon DEF Finish
<1>2. NumBGs # Idle /\ \A bg \in LocalBGs : ~(bg >= NumBGs)
  BY TurnNumbers, IntegrationAssumption DEF Idle
<1> SUFFICES ASSUME BatchLive'
             PROVE  BatchInv'
  BY DEF BatchInv
<1>3. BatchLive
  BY FinishReads, <1>1 DEF ExecStays, BatchLive, Enabled
<1>4. /\ accumulators = [bg \in LocalBGs |-> accumulators[bg]]
      /\ DOMAIN output.handed = LocalBGs /\ OutputTyped(output)
      /\ \A bg \in LocalBGs : BatchFits(engines[bg], accumulators[bg], output.handed[bg], FALSE)
  BY <1>1, <1>2, <1>3 DEF BatchInv, ReadsInv, Due
<1>5. ServedFits(engines, Serving(accumulators, path, output))
  <2> DEFINE t == Serving(accumulators, path, output)
  <2>1. DOMAIN t = ServingFields /\ t.output = output /\ t.accumulators = accumulators
    BY DEF Serving, ServingFields
  <2> HIDE DEF t
  <2>2. ServedFits(engines, t) BY <1>4, <2>1 DEF ServedFits
  <2> QED BY <2>2 DEF t
<1>6. ServedFits(engines, s)
  <2>1. CASE Enabled /\ ~exec.failed
    <3>1. s = Service(accumulators, path, output, Writeback) BY <2>1 DEF Served
    <3>2. Writeback \in BOOLEAN BY DEF Writeback
    <3> HIDE DEF s
    <3>3. ServedFits(engines, Service(accumulators, path, output, Writeback))
      BY <1>5, <3>2, SweepFits
    <3>4. ServedFits(engines, s) BY <3>1, <3>3
    <3> QED BY <3>4 DEF s
  <2>2. CASE ~(Enabled /\ ~exec.failed) BY <1>5, <2>2 DEF Served
  <2> QED BY <2>1, <2>2
<1> HIDE DEF s
<1>7. output'.handed = s.output.handed
  BY <1>6, <1>1 DEF ServedFits, OutputTyped, OutputInit
<1>8. \A bg \in LocalBGs : Due(bg)' = FALSE BY <1>1 DEF Due, Idle
<1> QED BY <1>1, <1>6, <1>7, <1>8 DEF BatchInv, ServedFits

\* A host call that leaves accumulators and outputs alone.
LEMMA HostBatches ==
  ASSUME BatchInv, turn = Idle, UNCHANGED <<accumulators, output, tickVars>>,
         BatchLive' => BatchLive,
         \A bg \in LocalBGs : /\ SameBatches(engines[bg], engines'[bg])
                              /\ engines[bg].state \in Over => engines'[bg].state \in Over
  PROVE  BatchInv'
<1> SUFFICES ASSUME BatchLive, NEW bg \in LocalBGs
             PROVE  BatchFits(engines'[bg], accumulators[bg], output.handed[bg], Due(bg)')
  BY DEF BatchInv
<1>1. BatchFits(engines[bg], accumulators[bg], output.handed[bg], Due(bg)) BY DEF BatchInv
<1>2. Due(bg)' => Due(bg) BY DEF Due, tickVars, Idle
<1> QED BY <1>1, <1>2, FitsStill

\* A flush stops engines, not accumulators.
LEMMA FlushBatches ==
  ASSUME ReadsInv, BatchInv, FlushAll \/ \E bg \in LocalBGs : FlushBG(bg)
  PROVE  BatchInv'
<1>1. CASE FlushAll
  BY <1>1, FlushAllReads, FlushedGoes, HostBatches DEF FlushAll, HostCall, bgaVars, BatchLive,
    Enabled, tickVars, Idle, Goes
<1>2. ASSUME NEW bg \in LocalBGs, FlushBG(bg)
      PROVE  BatchInv'
  <2>1. /\ turn = Idle /\ UNCHANGED <<accumulators, output, tickVars>>
        /\ engines' = [engines EXCEPT ![bg] = FlushIncomplete(engines[bg])]
    BY <1>2 DEF FlushBG, HostCall, bgaVars
  <2>2. BatchLive' => BatchLive
    BY <1>2, <2>1, FlushBGReads DEF BatchLive, Enabled, tickVars, Idle
  <2>3. Goes(engines[bg], FlushIncomplete(engines[bg]), bg, policy.consumer)
        /\ SameBatches(engines[bg], FlushIncomplete(engines[bg]))
    BY IncompleteGoes DEF ReadsInv
  <2>4. \A b \in LocalBGs : engines'[b] = IF b = bg THEN FlushIncomplete(engines[bg]) ELSE engines[b]
    BY <2>1 DEF ReadsInv
  <2>5. \A b \in LocalBGs : /\ SameBatches(engines[b], engines'[b])
                            /\ engines[b].state \in Over => engines'[b].state \in Over
    BY <2>3, <2>4 DEF Goes, SameBatches
  <2> QED BY <2>1, <2>2, <2>5, HostBatches
<1> QED BY <1>1, <1>2

\* A bank group is reset at work only in policies that say so; reset ends the execution.
LEMMA ResetBatches ==
  ASSUME ReadsInv, BatchInv, Reset \/ \E bg \in LocalBGs : ResetBG(bg)
  PROVE  BatchInv'
<1>1. CASE Reset BY <1>1, ResetReads DEF BatchInv, BatchLive
<1>2. ASSUME NEW bg \in LocalBGs, ResetBG(bg)
      PROVE  BatchInv'
  BY <1>2, ResetBGReads DEF ResetBG, HostCall, tickVars, BatchInv, BatchLive
<1> QED BY <1>1, <1>2

\* A launch with accumulators makes new ones.
LEMMA LaunchBatches ==
  ASSUME ReadsInv, Launch
  PROVE  BatchInv'
<1> SUFFICES ASSUME BatchLive'
             PROVE  BatchInv'
  BY DEF BatchInv
<1> DEFINE g == exec.generation + 1
<1>1. /\ turn' = Idle /\ policy' = policy
      /\ accumulators' = IF Enabled THEN NewAccumulators(g) ELSE accumulators
      /\ output' = [OutputInit EXCEPT !.valid = output.valid]
  BY DEF Launch, tickVars, Idle
<1>2. Enabled /\ g \in Nat BY <1>1 DEF BatchLive, Enabled, ReadsInv
<1>3. output'.handed = [bg \in LocalBGs |-> <<>>] BY <1>1 DEF OutputInit
<1> HIDE DEF g
<1>4. accumulators' = [bg \in LocalBGs |-> [Accumulator!BGAInit EXCEPT !.generation = g]]
  BY <1>1, <1>2 DEF NewAccumulators
<1> SUFFICES ASSUME NEW bg \in LocalBGs
             PROVE  BatchFits(engines'[bg], accumulators'[bg], output'.handed[bg], Due(bg)')
  BY <1>3, <1>4 DEF BatchInv
<1>5. LET t == engines'[bg]
      IN  t.batch = NoBatch /\ t.nextBatch = 1 /\ t.accepted = 0 /\ t.bgaGeneration = g
  BY <1>2, LaunchReads DEF g
<1>6. BatchFits(engines'[bg], [Accumulator!BGAInit EXCEPT !.generation = g], <<>>, FALSE)
  BY <1>2, <1>5, FreshFits
<1>7. Due(bg)' = FALSE BY <1>1 DEF Due, Idle
<1> QED BY <1>3, <1>4, <1>6, <1>7

\* Every step keeps the batches in agreement.
LEMMA NextBatches ==
  ASSUME ReadsInv, BatchInv, [Next]_vars
  PROVE  BatchInv'
<1>1. ASSUME NEW done \in {{}} \cup OneRead, NEW busBusy, Cycle(done, busBusy)
      PROVE  BatchInv'
  BY <1>1, CycleBatches
<1>2. ASSUME NEW accepted \in BOOLEAN, Visit(accepted)
      PROVE  BatchInv'
  BY <1>2, VisitBatches
<1>3. ASSUME UNCHANGED vars
      PROVE  BatchInv'
  BY <1>3 DEF vars, bgaVars, BatchInv, BatchLive, Enabled, Due, Idle
<1> QED BY <1>1, <1>2, <1>3, FinishBatches, LaunchBatches, FlushBatches, ResetBatches DEF Next

\* Between two ticks, whatever flushes and failures came, every field keeps its type, the
\* reads and the rank's operations are those the engines wait for, and every product an
\* engine counts as accepted is in its accumulator or in a record taken from it, as long
\* as no bank group is reset at work (submitBGA, acceptBGAOutput, stepCSCBGAs).
THEOREM NativeSafety == Spec => []("resetBG" \notin policy.calls => SafeState)
<1>1. Init => NativeInv /\ BatchInv BY InitNative DEF Init, ExecInit, BatchInv, BatchLive
<1>2. NativeInv /\ BatchInv /\ [Next]_vars => (NativeInv /\ BatchInv)'
  BY NextNative, NextBatches DEF NativeInv
<1>3. NativeInv /\ BatchInv /\ "resetBG" \notin policy.calls => SafeState
  BY ReadsInvAgrees, RankInvAgrees, BatchInvAgrees DEF NativeInv, SafeState, ViewsAgree
<1> QED BY <1>1, <1>2, <1>3, PTL DEF Spec
=============================================================================
