# TLA+ models and proofs for PIMSimulator

PIMSimulator is a cycle simulator of HBM with processing in memory, derived
from DRAMSim2, extended by a pipeline that multiplies a sparse matrix in CSC
form by a vector: a preprocessor lays the matrix out, descriptor engines fetch
operands from memory, multipliers form products, one accumulator per bank group
(BGA) merges partial sums, and a path writes the results back, reads them into
the host and reduces them.  This directory models that pipeline in its FP32 and
FP16 forms, the images it starts from, the memory channel under it and the older
rank-wide PIM with its host kernels in TLA+, checks them with TLC and proves the
safety of seven components with TLAPS.

Paths below are relative to the repository; `csc/` is `src/csc/`.

## 1. Inventory

| Component (code) | State | Operations | Correct when |
|---|---|---|---|
| Bank-group accumulator (`csc/CSCBankGroupAccumulator`) | per-stream input queues, presented/accepted batches, accumulator slots, operation in the datapath, waiting miss, output queue, counters | `offerBatch`, `markProducerDone`, `requestFinalDrain`, `abortReset`, `peekOutput`/`acceptOutput`, `step` | every product leaves exactly once, in the row it belongs to; an evicted slot is not touched until its output retires; a drain ends |
| Transport contract (`csc/CSCBGAIntegration.h`) | none | `transferCSCBGAOutput` (peek, validate, reserve, accept, commit) | a record moves whole or not at all |
| Partial-result path (`csc/CSCPartialResultPath`) | per bank group: packer, pending and in-flight writes, resident buffer, reads; per rank and channel: round-robin cursors; host return queue, reduction queue and batch | `reserve`/`commitReserved`, `step` (complete writes, flush tails, issue writes, read back, reduce) | no place promised twice, no record lost or added twice, completion reported only at the end |
| BG-targeted execution (`PIMRank`, `BGTargetedOperation.h`) | per bank group: pending slot, active operation, completion, lifecycle, generation; per rank: mode, busy mask of PIM blocks, round-robin cursor | `submitBGTargetedOperation`, `serviceBGTargeted`, `pollBGTargetedCompletion`, `flushBG`, `resetBG`, `requestTargetedModeExit`, `controlPIM` | one grant a cycle, fair; PIM blocks owned once; legacy and targeted work exclude each other; drains end |
| Request tracker (`csc/CSCRequestTracker`) | live entries, history, statistics, generation | `create`, `recordAccepted`, `complete`, `retire`, `abandonWaiting`, `reset` | one completion per request, exact accounting |
| Descriptor engine (`csc/CSCDescriptorEngine`) | FSM, operand slots, tracker, current operation | `launch`, `tick`, `onRequestComplete`, `flush`, `flushIncomplete`, `reset` | every chunk emitted once; failure and flush end in a terminal state |
| Native execution (same files, `CSCNativeExecution`) | engines, outstanding reads, failure latch, result status per bank group; the collector or the path behind the accumulators, with a round-robin cursor each | `launch`, `tick`, `flush`, `flushBG`, `resetBG`, `reset`, `resultValid`, `endToEndSpMVComplete` | views of engine, tracker and rank agree; a valid result is complete; it always ends |
| FP16 pipeline (`csc/CSCFp16*`) | per bank group: engine with operand registers and requests, ingress adapter, accumulator with one input queue, consumer; per channel: write and read cursors; the host's position in the reduction | `launch`, `tick`, the modes of the mode table | a product has its own operands; a row is handed over once; the sum is in one canonical order; done means complete |
| Image exporter and loader (`csc/CSCFp16Image`) | a directory, its files, a manifest | `exportCSCFp16ImageV2`, `loadCSCFp16ImageV2` | whole or not at all; a published image stays; what is loaded is canonical |
| Preprocessor (`tools/csc_light_preprocess`) | loads of the bank groups, the mapping | `preprocess` (units, candidates, scores), `reorder`, `verify`, `align`, `validate_aligned`, `export_aligned` | every column once, aligned streams, balance |
| Legacy PIM sequencer (`PIMRank::doPIM`, `PIMCmd`, `PIMBlock`, mode switching in `Rank`) | mode, CRF program and counter, jump and repeat counters, registers | `controlPIM`, `doPIM`, `readHab`, `writeHab`, mode switches | in step with the column accesses |
| Host kernels (`tests/PIMKernel`, `tests/PIMCmdGen.h`, `tests/KernelAddrGen`) | the list of transactions and barriers | `executeEltwise`, `executeGemv` | the banks hold the result |
| Address mapping (`AddressMapping`, `tests/KernelAddrGen`) | none | `addressMapping`, `findChannelNumber`, `addrGen` | one-to-one; host and memory agree |
| Memory controller, command queue (`MemoryController`, `CommandQueue`) | transaction queue, command queue per rank, book of every bank, command and data bus, pending reads, refresh timers | `addTransaction`, `addBarrier`, `update`, `receiveFromBus`, `enqueue`, `pop` | every request answered once with the right value, a barrier holds back later requests of the rank whose transaction it tags, no starvation, refreshes happen |
| Ranks, banks (`Rank`, `BankState`, `Bank`) | own book of every bank, reads in flight, data burst, stored values | `receiveFromBus`, `update` | no command refused, no burst over another |
| Memory system and channels (`MemorySystem`, `MultiChannelMemorySystem`, `ClockDomain`) | transactions held back, number on the fly | `addTransaction`, `addBarrier`, `update` | the order of calls in a cycle, an exact count of what is owed, the right channel |
| Configuration, number formats, cost studies, RTL, vendored code | – | – | outside the protocol |

How they interact in one cycle (`MemorySystem::update`, `CSCNativeExecution::tick`):
the ranks update, the memory controller issues a command and returns at most one
read, which calls back the owning engine synchronously; then every rank runs
`serviceBGTargeted` and steps its accumulators; then `tick` steps the result
path and visits the engines in the order of their bank groups.  An engine calls
down into the memory system (submit) and the rank (submit, query, poll).  The
FP16 pipeline has the same stages in another order: reads, accumulators, engines,
outputs, path.  There are no threads in the simulator; the preprocessor's
parallel loops write disjoint elements.  What is hard is the order of calls: host
calls between any two cycles, results and completions that arrive while a flush,
reset or failure is in progress, reservations made in one phase and used in
another, commands and answers that overtake each other, queues at their limit,
liveness of drains and barriers, and exporters that fail, die or meet in one
directory.  `PROJECT.json` lists these hazards at their lines with the property
that covers each.

## 2. Modules

| Module | Models | State and actions |
|---|---|---|
| `BGAState` | the operations of one FP32 accumulator as operators on its record, each phase of `step()` under its own name (`RetireOutput`, `CommitOperation`, `UpdateEvictionOrDrain`, `StartService`, `CommitAcceptedBatches`, `CheckStep`) | a product is its identity (stream, sequence, position); the value of a slot is the sequence of products added to it, so an order of additions can be told from another |
| `CSCBankGroupAccumulator` | the accumulator under its owner and producers | `bga`, and the history `handed` of accepted records; actions `Offer`, `ProducerDone`, `RequestDrain`, `Accept`, `Abort`, `Tick` |
| `ContributionLedger` | what an accumulator promises: products are held, handed out whole row by row, or discarded | refined by `CSCBankGroupAccumulator` (`ImplementsLedger`) |
| `CSCPartialResultPath` | the path, one `Tick` per `step()`, with the phases of the code in order; `Transfer` is the hand-over from an accumulator, `Drain` its end | `path` (everything of the class), `drained` (the vector `step` is given) |
| `ResultDelivery` | records sent are added exactly once, per bank group in order, and completion is reported only then | refined by the path (`ImplementsDelivery`) |
| `PIMRankTargeted` | the targeted half of `PIMRank`, as operators on a rank record and as a machine | actions `Submit`, `Service`, `Poll`, `Flush`, `Reset`, `ModeExit`, `ControlPIM`, two injected faults |
| `TargetedExecution` | an operation goes idle, waiting, executing, completed and is handed over; the rank is owned by legacy or targeted work, never both | refined by `PIMRankTargeted` (`ImplementsTargetedExecution`) |
| `CSCRequestTracker` | the tracker, as operators and as a machine with duplicate, stale and wrong completions | `tracker`, `network` (reads the memory owes), `allocated` |
| `RequestLifecycle` | the legal life of a request | refined by the tracker (`ImplementsRequestLifecycle`) |
| `CSCDescriptorEngine` | one FP32 engine: pure operators, one per FSM state and call | – |
| `CSCBGAIntegration` | what stands between engines, accumulators and path: a batch and its envelope's checks, the producer's end, the two consumers with their round robin, and the conservation of products end to end | operators, on the records of `BGAState` and `CSCPartialResultPath` |
| `CSCNativeExecution` | composes the engines, the operators of `PIMRankTargeted`, `CSCRequestTracker` and `CSCBGAIntegration`, and the memory as a set of owed reads; `policy` chooses the host's sink, the accumulators with the collector, or the accumulators with write-back and host reduction | one `tick()` is `Cycle`, one `Visit` per engine, `Finish`; host calls `Launch`, `FlushAll`, `FlushBG`, `ResetBG`, `Reset` come between ticks |
| `Fp16BGAState`, `CSCFp16DescriptorEngine`, `CSCFp16PartialResultPath` | the stages of the FP16 pipeline as operators on their states | an operand register holds the descriptor and chunk it was loaded for, so a stale one shows; a sum is the sequence of its products |
| `CSCFp16NativeExecution` | composes them, with the ingress adapters, consumers, mode table and driver, and the memory as reads owed | `Launch`, `Tick` (one `tick()`, all stages), `Stop` |
| `CSCImageStreams` | the layout both exporters share: columns padded to 32 bytes in the streams of each bank group | operators |
| `CSCLightPreprocess` | the preprocessor: units and segments, three policies, order, reordered copy, aligned image, its validations | one `Assign` per iteration of the mapping loop |
| `CSCFp16Image` | the FP16 image: conversion count, streams, manifest, every check of the loader, what it rebuilds | operators |
| `CSCImageExport` | the two exporters as processes over a directory, one file call at a time, with refused calls, lost ends of files and deaths; other writers' images before the loader | `files`, the phase of each exporter; composes the previous two |
| `BankState` | the timing delays and the two books kept of a bank, as operators: what the controller writes down when it issues a command (`ControllerAfter`), what the rank writes down when it arrives (`RankAfter`) and demands of it (`RankAccepts`) | a bank holds the cycles still to wait instead of absolute cycles |
| `CommandQueue` | `enqueue`, its room, `pop` and its three stages (`ProcessRefresh`, `ProcessCommand`, `ProcessPrecharge`) | operators on the channel's record |
| `MemoryController` | one channel: `MemorySystem`, `MemoryController` and its ranks in the mode SB | `sys` (the channel), `refresh` (its timers) and `client` (what it was promised); actions `Submit`, `Barrier` and `Tick` (one `MemorySystem::update`, its phases in the order of the code) |
| `MemoryService` | a memory: requests take effect in the order submitted and are answered once, in any order | refined by `MemoryController` (`ImplementsMemoryService`) |
| `AddressMapping` | the eight mapping schemes, the channel of an address, the host's `addrGen` | operators |
| `LegacyRank` | what a command does to a rank in all its modes: open rows, mode switches, the reserved rows, the CRF program counter, the registers | operators on the rank's record |
| `PIMKernel` | the CRF programs and transaction lists of the host's kernels, and what the banks must hold afterwards (`Expected`) | operators |
| `LegacyPIM` | one kernel on one channel: host list, routing, reordering command queue, refresh, rank | `sent`, `queue`, `open`, `refresh`, `rank`; actions `Enqueue`, `ColumnAccess`, `Activate`, `Precharge`, `NeedRefresh`, `Refresh` |
| `..._proofs` | theorems and proofs of the module they are named after | – |
| `MemoryTiming_proofs` | what `MemoryController_proofs` extends: the calls of `update`, the books and the data bus | – |
| `MC...` | small instances for TLC | – |

Names follow the source.  An operator of the form `F(x)` returns the new record;
phases of one call are composed in the order in which the code calls them, and
are never actions of their own.  An exception that ends the simulation is a
state component (`bga.fault`, `path.error`, `exec.threw`, `sys.fault`,
`rank.fault`), after which nothing happens.  Definitions named `X_Something`
before `X` are plausible bugs used to confirm that the properties can fail;
nothing else refers to them.

Abstractions.
- Numbers: rows, products and operations are identities; sums are sequences (or,
  in the legacy sequencer, bags) of products. Statistics, peaks, traces, byte
  counts and messages are left out.
- Time: a completion cycle is a count of cycles left. A latency of zero counts
  as the code counts it (at least one cycle for path transfers).
- Path: host reduction on, one write per rank and one read per channel and
  cycle (the defaults); `RecordsPerBurst` is a constant (4 in the code, 2 in
  the runs). `peekHostReturnedBurst`/`acceptHostReturnedBurst`, which are for
  reduction off, are not modelled. The code uses cycle 0 as "not yet" in its
  completion times; the model has booleans and starts at cycle one.
- Rank: bus contention is a nondeterministic argument of `Service`; operand
  contexts are left out; a fatal error and a corrupted busy bit are injected,
  bounded by `MaxInjections`.
- Native execution: one rank with two bank groups; a descriptor is the rows of
  its chunks, whether it is valid, and whether the packed vector still holds
  its operand when the read returns. Memory accepts or refuses each read freely
  and answers at most one per cycle, in any order. A consumer outside the library
  and the injected submit rejects, which tests use, are left out. Two rules bind
  the modelled host where the accumulators are on. It launches once: a second
  `launch` destroys the first result and then throws, because `configureBGAIntegration`
  of the engines is locked (`csc/CSCDescriptorEngine.cpp:63`, 76). And it does not
  call `flush` before the first launch: the output ports are not set yet, and the
  next `tick` would call them (113).
- FP16: memory accepts or refuses each read freely, holds what it accepted for
  any time and returns at most one of a channel per cycle; one rank per channel,
  which `validateConfig` demands; the order of the reduction is kept, its rounding
  is not.
- Images: a checksum identifies its content (no collisions), a hash is an arbitrary choice of distinct
  candidates and a row sketch the exact set of rows; several FP32 preprocessors
  never run on one directory at once, since the claim of that directory is a
  check (`output directory already exists`) and not the creation; `remove_all`
  of a failed FP16 export does not fail.  The host's use of an FP32 image is the
  native execution's.
- Memory channel: a request names a place (rank, bank, row, column);
  a value is one of three, written in turn. `AL` is 0 and `tCMD` is 1, as in the
  repository's device; `tXAWCountdown` never gets an element and `powerDown` has
  no caller, so both are left out; ranks stay in the mode `SB` and rows are not
  reserved ones (these skip the rank's check). Scheduling is rank_then_bank over
  one queue per rank, as in every configuration of the repository.
- Legacy PIM: the controller is the command queue's choice without its delays;
  `BooksAgree` and `NoFault` are about rows and modes, `MemoryController` is about
  the delays. One rank; the other channels get the same list. With fewer registers
  than the code's eight, a row keeps its 32 bursts and only `ColsPerRow` of them
  hold data. `preloadNoReplacement` and `readData`, which use linear addresses, and
  the host's final adder tree are left out: an input value is where the kernel
  expects it and `Expected` says where the results must be.
- Barriers of the channel: `addBarrier` tags the youngest transaction, and the
  command queue of a rank knows only its own transactions, so a barrier holds back
  later requests of that one rank. `BarrierOrder` says no more: what a barrier
  fences are the requests of the rank of the tagged transaction (`TaggedRank`).
- Client of the channel: `InOrder` lets it submit only while nothing is held
  back or the controller is still full. Hosts that add a batch between two
  updates do so; one that adds later lets the new request overtake the held
  ones, and no order between the two is kept by the code. A request with a
  token is refused instead of held (`MayAdd`).
- Host: `launch` and `reset` have preconditions that the code does not check
  and the tests observe: no operation of an earlier launch in the rank
  (`HostSeesIdleRank`) and no bank group left flushed (`HostResetFlushed`).
  They are conjuncts of these host actions.

## 3. Runs

All runs finish; each bound is a constant of the configuration.

| Run (configuration) | Instance | Distinct states | Shows |
|---|---|---|---|
| `bga` (`MCBankGroupAccumulator`) | 2 streams, 2 slots, 3 rows, input queue 2, output queue 1, add latency 2, two generations: two batches per stream, one each after a reset, `abortReset` at any moment | 275,780 | types and no self-check fails (`SafeState`), order of additions, eviction excludes the datapath, exactly-once ledger, drains and back-pressure end (`Progress`) |
| `path` (`MCPartialResultPath`) | 2 channels of 2 bank groups with 5, 2, 3 and 0 records, bursts of 2, return queue of 2 | 62,702 | no self-check fails and no place is claimed twice (`SafeState`), delivery and its liveness |
| `rank` (`MCPIMRankTargeted`) | 2 bank groups, 2 operations, generation change, one fault | 55,772 | ownership, generations, nothing left behind, abstract execution; no starvation and drains settle (`Progress`) |
| `rank_mode_exit` (`MCPIMRankModeExit`) | 2 bank groups | – | violation, see section 6 |
| `tracker` (`MCRequestTracker`) | 4 ids, 2 kinds, 2 generations, 2 wrong completions | 13,650 | accounting and the life of a request |
| `native` (`MCNativeExecution`) | 3 policies with the host's sink: two launches (imbalanced, empty and failing images, then another); 3 with accumulators of one entry: validation, and write-back through a path of one burst in flight; `flush`, `flushBG`, `reset` | 117,306 | lockstep, types and agreement of views (`SafeState`), no good image fails, a valid result is complete and each row summed once and in order, termination and flushes (`Progress`) |
| `native_reset_bg` (`MCNativeExecutionResetBG`) | the production policy, one launch, `resetBG` | – | violation, see section 6 |
| `fp16` (`MCFp16NativeExecution`) | 2 channels of 2 bank groups, half-chunks of 2, 2 entries, 6 modes, 4 images, one rejected write and read | 138,465 | no check fails and the regions suffice (`SafeState`), operands belong together, rows handed over in order and once, canonical reduction, done is complete, completion |
| `images` (`MCImageExport`) | 4 bank groups; empty, short, exactly one burst and longer columns; 3 policies, segments, two exporters of one directory, 2 faults, 1 death | 52,709 | layout, balance, round trips, all or nothing, the loader accepts only canonical images, published images stay |
| `memory` (`MCMemoryController`) | 2 ranks of 2 banks and 2 rows, queues of 1 and 2, 3 requests out of 5 kinds, 1 barrier | 156,571 | no command refused and the data bus exclusive (`SafeState`), barriers, exact count, a memory; every request answered, refreshes served (`Progress`) |
| `memory_row_hits` (`MCMemoryControllerRowHits`) | the same channel, a client that repeats one write and reads another row once | – | violation, see section 6 |
| `legacy_pim` (`MCLegacyPIM`) | 3 PIM blocks, 6 banks in 3 groups, 2 registers, 4 channels, command queue 4, one refresh, 6 kernels, 3 sets of open rows | 322,052 | no command refused and the books agree (`SafeState`), the result is right, every kernel ends; by assumption evaluated at the start, all eight mapping schemes are one-to-one and `addrGen` is the way back |

Why the bounds are enough.
- Accumulator: three rows on two slots force capacity misses and evictions while
  the other stream still hits; an add latency above one leaves cycles in which
  the target of a merge could be disturbed; two products in a batch against a
  queue of two give partial room; output depth one makes an eviction wait for
  the consumer.
- Path: bank groups share each port and channels the return queue, which is
  smaller than the reads in flight; buffers hold fewer bursts than the records
  fill, an odd number of records leaves tails, and one bank group has none.
- Rank: two bank groups with two operation identities, reused as often as the
  client likes, let one bank group run, complete and be resubmitted while the
  other waits, is flushed or reset.
- Native: engines share only the rank's grant, the channel's read slot and the
  failure latch, so two meet every pairwise race; the second launch meets the
  engines, flags and rank state a flushed, failed or finished first one left.
  With accumulators, two rows alternate on one entry, so products merge, miss and
  evict; writes take longer than a chunk does, so that the path refuses an output, the
  output queue fills, the accumulator refuses a batch, and the engine offers it again
  (a search for each of these states, and for outputs of both bank groups at once, found it).
- FP16: the first image has more rows than entries and more than the packer, the
  pending queue and the slow writes take, so every queue up to the ingress adapter
  fills; the others have work in two bank groups of one channel and of two.
- Images: column lengths around the 16 values and 8 indices of a burst; as many
  candidates as bank groups, and fewer; two exporters meet each other in every
  phase, and two faults let one fail while it cleans up after another's fault.
- Memory: the timings are small (a refresh every 10 cycles) but keep the order of
  the real ones: a write holds its row longer than the gap to the next write, a
  refresh lasts longer than a row cycle, two ranks are refreshed in turn.  Three
  requests to at most two rows of one bank, a second bank and a second rank meet
  every pair of commands whose delay depends on bank, group or rank, and fill the
  transaction queue of one, so that some are held back; a search for the states in
  question confirmed that two are held, a barrier waits behind others, a refresh
  finds open rows, a queue is full and replies come out of order.  With a refresh
  this frequent the timer of the next rank can run out while one still waits,
  which `RefreshServed` allows for.
- Legacy PIM: three blocks tell "the first", "the pair of a switch command" and
  "another" apart; six kernels cover every program generator, odd tile counts,
  two output tiles, a batch of two and the program that jumps back to its start; a
  command queue of four reorders across every row change; the refresh can fall at
  any point of a kernel.  The addresses have more channels, and groups that are
  not a power of two, so that every field matters.

Actions are deterministic where the code is; the only nondeterminism is input
(calls, batches, images, kernels, policies), bus contention, memory acceptance
and order, the file system and the injected faults.

## 4. Fairness

- Accumulator: `WF(Tick)`, because `MemorySystem::update` steps every
  accumulator every cycle; `WF(Accept)`, because the consumer looks at every
  output every cycle; `WF` of presenting a back-pressured batch again, because
  an engine with a pending batch offers it on each of its ticks.
- Path: `WF(Tick)`; the native execution steps it every cycle.
- Rank: `WF(Service)` with free buses, since no modelled client keeps both
  buses busy for ever, and `WF(Poll)`, since an engine polls in every tick.
- Memory channel: a `Tick` always comes, because hosts call `update` as long as
  anything is on the fly (`PIMKernel::runPIM`). It is written as weak fairness of
  `CountDown`, the part of `Tick` that no other action takes and that is always
  possible; the client is not fair.
- Native execution (the accumulators and the path are steps of `tick`): weak fairness of each step of `tick`; strong fairness of a
  cycle in which memory answers an owed read and the buses are free, and of a
  visit in which memory accepts a request. Memory that refuses for ever, or a
  bus that is busy for ever, is excluded; host calls are never fair.
- FP16: the driver launches and calls `tick` again and again (`WF(Start)`), and
  again and again the memory accepts what the engines ask for and answers
  something it owes.  `beat` marks such ticks, and `WF_beat(Beat)` asks for them.
- Legacy PIM: weak fairness of moving a transaction into the command queue, of
  issuing some command of the queue, of opening the row of its head, of closing a
  bank that is to be closed and of the refresh once its banks are closed: timing
  only delays these.  Each is stated for the part of the step that makes the
  choice.  A row opened for the head is accessed before a refresh closes it
  (`fresh`), because the delay from activate to access is shorter than that from
  activate to precharge in `ini/HBM2_samsung_2M_16B_x64.ini` (tRAS 33).
- Images: none; an exporter may stop at any point.

## 5. Proofs

`CSCBankGroupAccumulator_proofs` proves, for every number of streams, slots and
rows, every queue depth, latency and set of offers:

- `TypeCorrect`: `Spec => []TypeOK`;
- `NoDatapathThrow`: the checks of the datapath in `step()` never throw
  (duplicate tags, lost reserved slots, a merge into a vanished target, an output
  queue overflow, the slot validation);
- `QueuesStayBounded`: input and output queues never exceed their depth;
- `EvictionExclusion`: `Spec => []EvictionExcludesDatapath`.

The assumptions are those of the modules: the configuration is positive
(`BGAConfigAssumption`, as the constructor checks) and offers are well typed.

Neither type correctness nor the exclusion is inductive.  That a merge still
finds its row depends on no eviction having reserved the slot since the lookup,
which depends on when outputs can exist at all.  The invariant `DatapathInv`
closes the circle with five named parts: `SlotOwnership` (a slot is reserved
exactly when one output owns it), `UniqueTags` (no row in two live slots),
`OperationReady` (while an operation runs there are no outputs and no waiting
miss, and its target is what it was at lookup), `MissProgress` (a waiting miss
is in one of three stages: victim chosen, record pushed, slot freed) and
`OutputExclusion` (other outputs exist only in a drain with no input left),
beside `InputsBounded`.  The proof shows that each phase of `step()` and each
call preserves it, and composes the phases into `Tick`; choices (`Lowest`,
`Oldest`) get their own lemmas from well-foundedness of the naturals.

Its second part adds the one check those leave, the conservation count
at the end of `step()`: `Conservation` (the count is right in every reachable
state) and with it `NothingThrows` (`[]SafeState`).  The count is a sum over five
containers, each of a variable length; it is written as the size of a set of
places (`Places`), so that a product that moves renames one place.  The
invariant `ConservingInv` is `DatapathInv` and the balance of that set with the
counters; for every phase a lemma says which containers grow and which shrink.

The third part proves `LedgerImplemented` (`ImplementsLedger`) and
`AdditionsInOrder` (`[]AdditionOrder`) from `LedgerInv`.  Neither follows from
counting: the count does not tell one product from another.  The invariant
says where products are relative to each other.  `StreamInv`: in the FIFO of a
stream the products come in the order in which they were sent, and everything further
along (operation, pending miss, entry, record, handed out) precedes them.
`ValueInv`: the sum of an entry or record is of one row, in order stream by
stream, and no two of those inside are of the same row; what is handed out
precedes what is handed out later and what is still inside of its row and stream.  From it every `Tick` maps to a
step of the ledger: the products it takes in are new, and the record an `Accept`
hands out is a whole sum.

`PIMRankTargeted_proofs` proves `TypeCorrect`, `Ownership`
(`[]OwnershipExact`), `GenerationsCurrent` (`[]OutstandingIsCurrent`) and
`NoneLeftBehind` (`[]NothingLeftBehind`) for every number of bank groups, set of
masks and of generations.  Besides `RankAssumption` it uses `NoneAssumption`:
the value that marks an empty slot is no operation.  The invariant `Consistent`
joins the types, `busy = Owned`, what holds of each bank group between two calls
(`BGConsistent`: never active and completed at once, whatever is outstanding has
the current generation, a settled lifecycle has nothing outstanding) and
`QuietMode` (a rank that is idle, legacy or in error has nothing outstanding);
none of the four properties is inductive without the others, because `resetBG`
and the mode exit decide from lifecycles and slots what the mask must be.  One
lemma per operator shows that it preserves `Consistent`; `CancelConsistent` is
shared by flush, bank-group error and rank error, which cancel alike.
`PromiseKept` proves `ImplementsTargetedExecution`.  It needs one more fact,
`Apart`: an operation that waits is not also the one that runs or has completed,
so that an operation has one phase.  `PhasesShape` and the lemmas after it
then show, operator by operator, which phases change and that the abstract rank
allows it, the owner of the rank included.

`CSCRequestTracker_proofs` proves `TypeCorrect`, `AccountingExact`
(`[]AccountingBalances`) and `Refinement` (`ImplementsRequestLifecycle`) for
every set of ids and kinds.  The invariant adds to
the balance of the counters that the live entries are finitely many (otherwise a
count means nothing), that every known id was allocated, that no two live entries
share an id and that every live entry has the current generation; from these a completion the memory owes never fails
and a wrong one changes nothing but the error flag.  For the refinement, every
action is shown to advance one request (`OneStep`), to let waiting and completed
ones leave (`LeaveStep`), or to leave every phase as it was.

`CSCImageExport_proofs` proves `ExportsAllOrNothing` (`[]AllOrNothing`) and
`PublishedForGood` (`PublishedStays`) for every set of exporters and jobs, every
number of faults and of deaths.  The argument is that one exporter at a time
holds the directory.  A FP16 exporter gets hold of it by creating it, and
another's creation then fails; an FP32 exporter by finding nothing there, which
is enough because nobody else exports FP32 at that moment.  The invariant says
that at most one exporter is in a phase that holds the directory (`Holding`,
`OneHolder`), what the holder knows of it in each phase (`HolderSees`: which files
have been compared, and that there is no manifest before its last step), and that
an FP16 directory has a holder or one that died in it (`LeftBehind`).
`AllOrNothing` follows, and a step that changes a directory with a whole manifest is
impossible, because whoever may write or remove holds a directory that has none.

`CSCNativeExecution_proofs` proves `LockstepHolds` (`[]Lockstep`) for any number of
bank groups, any images, policies and host calls: with the lockstep policy no
engine that takes part is more than one chunk ahead of another.  `tick` takes the
minimum of the chunks done once and then visits the engines one by one, and
while it visits them other engines finish, fail or are flushed, so the minimum is
stale when it is used.  `LockstepInv` says why that is harmless (`BarrierHolds`): the
minimum of this cycle is above no engine that takes part, so one that is let past
the barrier is at or below all others.  A visit moves an engine by at most one
chunk (`Moves`), everything else moves none (`Stays`), and no step lets an engine
join those that take part but a launch, which starts them all at zero.

It also proves `SafeState` for hosts that do not use `resetBG` (`NativeSafety`), from the
inductive invariants `NativeInv` (`NativeInvariance`) and `BatchInv`. Of its parts,
`ReadsAgreement` (`[](TypeOK /\ ReadsAgree)`) needs no such host; `RankAgreement`
(`RankAgrees`) does, and with `resetBG` at work it is false, see section 6.
`NativeAssumption` says of the images that a valid descriptor has products, as
`descriptorValid` checks, and that with accumulators no chunk is longer than their FIFO
(`WellFormedFor`: a batch that can never fit is refused as malformed); `NoOpAssumption`
says that the mark of a missing operation is no operation, and `IntegrationAssumption` that
bank groups, entries, rows and queue depths are positive.
`ReadsInv` says of one engine that its place in the image fits its state
(`WalkSound`), that its three operand slots and the entries of its tracker are the
same requests in the same phases (`EntriesInSlots`, `SlotsFit`), that all of its
request ids are its own and older than the next, and that the tracker's counters balance; of all of
them together, that the reads owed are those the trackers have accepted. Ids carry
the bank group, so a completion changes one engine only.
`RankInv` says what the rank holds for an engine in each state (`RankFits`), also within
a `tick`, where a grant can be due that the engine has not yet asked for (`Due`); that an
engine granted in this cycle is not behind the barrier is why `GrantsFirst` is part of it.
It says nothing once an engine has failed, nor does the code (section 6).
`BatchInv` says of every engine and its accumulator (`BatchFits`) that the batch
presented there is the one the engine will offer again, with the sequence
after the last one taken, that both count the same products as taken, that the
accumulator has answered nothing before the engine's turn in a cycle, and that the
products it has retired, with those of a record just leaving, are the products of the
records the consumer took. Of a step of the accumulator the proof uses only that one that
does not throw keeps its shape, its counts and the engine's side of it (`Advanced`),
and that a batch that fits is accepted or meets backpressure (`OfferAnswers`).

`CSCPartialResultPath_proofs` proves `PathSafe` (`[]SafeState`) and
`DeliveryImplemented` (`ImplementsDelivery`) for any number of channels, ranks and
bank groups, every capacity, issue and reduction width, latency and number of
records.  It assumes what the constructor checks (`PathConfigAssumption`).  None
of the self-checks follows from the phase that makes it: a write
finds its slot because of a reservation some cycles old, a returned burst its place
for the same reason, and the three conservation checks compare counters that
different phases advance.  `PathInvariant` states where everything is.  The
bursts of a bank group have numbers, and `Group` says of it: the packer holds
the latest records and every earlier one is in a burst (`Packing`); the bursts not
yet written are in flight or pending, in order, and the writes in flight end in
different cycles (`Sending`); the buffer holds those written and not yet read, once
each, and those below `nextRead` are being read (`Holding`); every write has a slot
of its own reserved (`Claims`).  `Reading`, `Returned` and `Host` follow a burst and
its records through the queues that several bank groups share: a queue is a `Line`,
which holds of each bank group consecutive numbers in order, and a line that goes on
where another ends makes a longer one (`LineConcat`).  The numbers at which one
queue ends and the next begins, bursts read and bursts delivered per bank
group, are no variables of the path; the invariant says that there are such
numbers.  With them every counter is a sum over bank groups (`CountsHold`), and the
conservation checks are equalities of sums; `Total` is written as the size of a set,
so that sums are proved about without induction.  One lemma per phase of `step()`
shows that it keeps the invariant (`NextCycleKeeps` to
`UpdateHostCompletionKeeps`), and `StepKeeps` composes them in the order of
the code.  The latencies matter to it: a write or read issued in this cycle waits
longer than all before it, so the oldest of a bank group, or of a channel, is the
only one that can be due.  For the refinement, the records added are the front of
a line, so each is the next one of its bank group (`AddedInOrder`), and when
completion is reported nothing is behind them (`AllIsAdded`).

`MemoryController_proofs` proves `Safety` (`[]SafeState`), `BarriersHold`
(`[]BarrierOrder`), `OnTheFlyCounts` (`[]OnTheFlyExact`) and `ServiceImplemented`
(`ImplementsMemoryService`) for any number of ranks, banks and rows, every depth
of the queues, every set of requests and every timing.  Of the timing it assumes what the
ini files give (`TimingAssumption`): that some delays are not zero, that a write can
be issued no earlier after an activate than a burst is long (`tRCDWR + 1 >= BL2`), so
that its data meets none sent to another rank, and two more orders.  `NoneAssumption`
says that the mark of a missing value is none of the records it stands in for.
The invariant `IInv` has a part about time and a part about requests.

About time (`MemoryTiming_proofs`): the controller issues by its own book of the banks and never asks the
ranks.  `BooksAgree` says why no rank refuses: the rank's book, once the command in
flight has arrived, is in the same state and waits at most one cycle longer than the
controller's, and that cycle is what a command spends on the bus.  `Bus` says why no two data meet:
`ReadBus`, `WriteBus` and `TurnAround` keep the bursts of a rank, the data of the writes
and the two of them a burst apart, and bound each by the column timers of the open
banks, so that whatever these timers let through comes after.  `Timers` keeps the refreshes apart.
No part is inductive alone, since a command may be issued because the books agree,
and they agree because it was the last.

About requests (`MemoryController_proofs`): a request is in turn in a list, a queue,
on the command bus, in a rank, in a burst, among the returns, and each of these knows
its id and little else.  The invariant says that there is a ledger (`Sound`): for every id what was asked
(`g`, with a stamp that gives the order of submission), where it is now
(`loc`) and which ids carry a barrier (`bars`).  Each container holds exactly
the ids whose place it is, with what was asked; `Ordered` says that of two
requests to the same place the earlier is never behind; and `Chain` that the stored
values, with the writes still on their way, make up what the client was promised:
a read of a place gets what the last write before it leaves.  A read that returns finds
a pending read because the ledger has one, and by the order the oldest that matches
is its own although tokenless reads are matched by address.  `Fence` relates the barriers to the requests that were
submitted behind them.  One lemma per phase of `update` shows that a ledger before it gives one after
it (`Passed`: what is issued leaves behind nothing that must come first), and
`TicksKept` composes them in the order of the code.

This proof found two errors in the model, which the run's bounds had hidden:
`BarrierOrder` promised an order between ranks that the code does not keep,
and without the assumption about `tRCDWR` data of two ranks can meet.

Only model-checked: of the path that a reduction completes
(`ResultsDelivered`); of the native execution the failures
(`FailsOnlyOnBadImage`) and the completeness of a valid result; the FP16 pipeline
and the legacy PIM; the layout, balance, round trip and acceptance of images, which are about recursively computed data; and all
liveness, which the prover does not reach.

## 6. Where code and documents disagree

- Mode exit.  `docs/csc/M6_BG_DECOUPLED_EXECUTION_DESIGN.md` says that "Rank
  mode exit drains all participating BGs."  `requestTargetedModeExit` only sets
  `DRAINING`, in which `serviceBGTargeted` returns before it arbitrates; an
  operation that waits for its grant is neither granted nor dropped, and the
  rank drains for ever.  It takes `flushBG` of every waiting bank group to get
  out, which is what the repository's own test does.  Run `rank_mode_exit`.
- `resetBG` of a running bank group.  The same document says that reset during
  `RUNNING` flushes and drains first, and that flushed work is
  `INCOMPLETE_FLUSHED`.  `CSCNativeExecution::resetBG` consults only the rank's
  slots: called between two operations it drops the engine's remaining work and
  marks it `RUNNING`; a later `flush()` then makes `resultValid()` true for an
  incomplete result.  No test calls `resetBG`.  Run `native_reset_bg`.
- Open rows.  `system_hbm.ini` describes `TOTAL_ROW_ACCESSES` as the number of
  requests to one row "before forcing a row close (to prevent starvation)".
  `CommandQueue` compares its `rowAccessCounters` with it but never increments
  them: a stream of writes to an open row keeps a read of another row, and the
  refresh of the rank, waiting for ever.  Run `memory_row_hits`.

Not disagreements with a document, but worth knowing:
- `validateConfig` accepts BATCH8 with an `input_queue_depth` below 8, with which
  no batch ever fits (`csc/CSCFp16BankGroupAccumulator.cpp:95`).
- A GEMV with one input tile gives a JUMP the count −1, which is 2^17−1 in its
  field (`tests/PIMKernel.cpp:404`); the modelled kernels have at least two.
  With two output tiles and an odd number of input tiles the columns read by
  `computeGemv` (472) are not those `preloadGemv` fills; with two output tiles and a
  batch of two, result columns collide (419).
- More `--choices` than bank groups make the preprocessor search for distinct
  candidates for ever (`csc_light_preprocess.cpp:227`).
- A failed FP32 export leaves its directory, which blocks the next attempt; both
  exporters leave a manifest whose own `close` failed.
- A flush stops an engine before `completeProducer` (`csc/CSCDescriptorEngine.cpp:59`,
  60): with accumulators its bank group never drains, so the execution never
  becomes terminal, `busy()` stays true and `flush_completed_` is never set. In the
  model such an execution is `Abandoned`, and `Progress` promises nothing for it.
- After a failure of one FP32 engine another's operation can stay pending in the
  rank and block `reset()`.

## 7. Not modelled, and the plan

Left for later:
1. Native execution: a consumer outside the library (`EXTERNAL`), which takes
   outputs between two calls of `tick`; more than one rank.
2. `acceptHostReturnedBurst` (reduction off) and issue limits above one.
3. `LegacyRank` and `MemoryController` together: the delays in the modes HAB and
   HAB_PIM.
4. `ClockDomain`: nobody calls `setCPUClockSpeed`, so its ratio is one, at which it
   only calls through.
5. Proofs: the native failures and the completeness of a valid result; the FP16
   pipeline.

Left out for good: bank_then_rank scheduling, per-bank refresh and power-down,
which no configuration or caller uses; FP16 and FP32 arithmetic (only its order is
modelled); parsing of parameters and matrices, statistics, reports and other
output; cost models (`tests/Spmv*`), RTL, tests and vendored code.

## 8. Running

    tlc -workers 2 -config MCPIMRankTargeted.cfg MCPIMRankTargeted
    tlapm CSCBankGroupAccumulator_proofs.tla
