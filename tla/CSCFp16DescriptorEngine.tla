----------------------- MODULE CSCFp16DescriptorEngine -----------------------
(***************************************************************************)
(* csc_descriptor::CSCFp16DescriptorEngine, as operators on the state of   *)
(* one engine.  It walks over the descriptors of its bank group, each the  *)
(* non-zeros of one matrix column, a chunk of up to two half-chunks at a   *)
(* time: request the operands, multiply, and emit the products lane by     *)
(* lane to a sink that may not be ready.                                   *)
(*                                                                         *)
(* A descriptor is the sequence of the rows of its non-zeros.  An operand  *)
(* register is represented by the descriptor and chunk it was loaded for:  *)
(* an emitted event names the value, the vector element (factor) and the   *)
(* row the registers give, so a stale register shows.  A request is named  *)
(* by bank group, descriptor, chunk and kind, which its id encodes once.   *)
(***************************************************************************)
EXTENDS Integers, Sequences, FiniteSets, FiniteSetsExt

CONSTANT Half   \* the row indices of one 32-byte burst, 8 in the code

Lanes == 2 * Half
Kinds == <<"X", "VALUE", "INDEX_LOW", "INDEX_HIGH">>
KindSet == {Kinds[i] : i \in DOMAIN Kinds}

NoRequests == [k \in KindSet |-> "none"]
NothingStaged == [k \in KindSet |-> <<0, 0>>]

EngineInit ==
  [state |-> "IDLE", d |-> 1, c |-> 0, left |-> 0, lane |-> 0,
   requests |-> NoRequests, staged |-> NothingStaged]

\* launch: a bank group without work is done at once.
LaunchEngine(e, image) ==
  [e EXCEPT !.state = IF image = <<>> THEN "DONE" ELSE "FETCH_DESCRIPTOR"]

ValidCount(e) == Min({e.left, Lanes})

\* prepareChunk: X with the first chunk of a descriptor only, the second burst
\* of row indices only when the first does not hold them all.
Required(e) ==
  {"VALUE", "INDEX_LOW"}
  \cup (IF e.c = 0 THEN {"X"} ELSE {})
  \cup (IF ValidCount(e) > Half THEN {"INDEX_HIGH"} ELSE {})

PrepareChunk(e) ==
  [e EXCEPT !.state = "ISSUE_REQUESTS",
            !.requests = [k \in KindSet |-> IF k \in Required(e) THEN "needed" ELSE "none"]]

\* beginDescriptor: the loader has validated the descriptors.
BeginDescriptor(e, image) ==
  LET begun == [e EXCEPT !.left = Len(image[e.d]), !.c = 0]
  IN  IF image[e.d] = <<>> THEN [e EXCEPT !.state = "ERROR"] ELSE PrepareChunk(begun)

Needed(e) == {i \in DOMAIN Kinds : e.requests[Kinds[i]] = "needed"}

\* ISSUE_REQUESTS: one attempt per tick, in the order of the kinds.
Attempts(e) == e.state = "ISSUE_REQUESTS" /\ Needed(e) # {}
Attempted(e) == Kinds[Min(Needed(e))]
RequestOf(bg, e) == [bg |-> bg, d |-> e.d, c |-> e.c, kind |-> Attempted(e)]

IssueRequests(e, accepted) ==
  IF Needed(e) = {} THEN [e EXCEPT !.state = "WAIT_OPERANDS"]
  ELSE IF accepted THEN [e EXCEPT !.requests[Attempted(e)] = "accepted"]
  ELSE e

\* complete: the operand goes to its register; anything else is an error.
Complete(e, request) ==
  IF /\ e.requests[request.kind] = "accepted"
     /\ request.d = e.d /\ request.c = e.c
     /\ e.state \notin {"DONE", "ERROR"}
  THEN [e EXCEPT !.requests[request.kind] = "ready",
                 !.staged[request.kind] = <<request.d, request.c>>]
  ELSE [e EXCEPT !.state = "ERROR"]

\* Mutant: the matrix values are all the multiplication waits for.
AllOperandsReady_ValueOnly(e) == e.requests["VALUE"] = "ready"

AllOperandsReady(e) == \A k \in KindSet : e.requests[k] \in {"none", "ready"}

\* The row register of a lane, as it was loaded last.
RowRegister(e, image) ==
  LET from == e.staged[IF e.lane < Half THEN "INDEX_LOW" ELSE "INDEX_HIGH"]
      k == from[2] * Lanes + e.lane + 1
  IN  IF from[1] \in DOMAIN image /\ k \in DOMAIN image[from[1]] THEN image[from[1]][k] ELSE 0

\* The product of the lane: value and factor are those in the registers.
EventOf(e, image) ==
  [row |-> RowRegister(e, image), d |-> e.staged["VALUE"][1], c |-> e.staged["VALUE"][2],
   lane |-> e.lane, factor |-> e.staged["X"][1]]

EmitPartial(e) ==
  IF e.lane + 1 = ValidCount(e) THEN [e EXCEPT !.state = "ADVANCE_CHUNK", !.lane = @ + 1]
  ELSE [e EXCEPT !.lane = @ + 1]

AdvanceChunk(e) ==
  LET moved == [e EXCEPT !.left = @ - ValidCount(e), !.c = @ + 1]
  IN  IF moved.left > 0 THEN PrepareChunk(moved) ELSE [moved EXCEPT !.state = "NEXT_DESCRIPTOR"]

NextDescriptor(e, image) ==
  [e EXCEPT !.d = @ + 1,
            !.state = IF e.d = Len(image) THEN "DONE" ELSE "FETCH_DESCRIPTOR"]

\* tick, given the memory's answer and whether the sink is ready.
TickEngine(e, image, accepted, ready) ==
  CASE e.state = "FETCH_DESCRIPTOR" -> BeginDescriptor(e, image)
    [] e.state = "ISSUE_REQUESTS"   -> IssueRequests(e, accepted)
    [] e.state = "WAIT_OPERANDS"    -> IF AllOperandsReady(e) THEN [e EXCEPT !.state = "SIMD_MUL"] ELSE e
    [] e.state = "SIMD_MUL"         -> [e EXCEPT !.state = "EMIT_PARTIALS", !.lane = 0]
    [] e.state = "EMIT_PARTIALS"    -> IF ready THEN EmitPartial(e) ELSE e
    [] e.state = "ADVANCE_CHUNK"    -> AdvanceChunk(e)
    [] e.state = "NEXT_DESCRIPTOR"  -> NextDescriptor(e, image)
    [] OTHER                        -> e
=============================================================================
