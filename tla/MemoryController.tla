-------------------------- MODULE MemoryController --------------------------
(***************************************************************************)
(* One channel: MemorySystem (the transactions it holds back while the     *)
(* controller is full), MemoryController (transaction queue, command and   *)
(* data bus, refresh timers, reads in flight) with its CommandQueue, and   *)
(* the Ranks.  Tick is one MemorySystem::update; between two of them the   *)
(* client submits transactions and barriers.                               *)
(*                                                                         *)
(* A transaction carries the client's id for it, whether it is tokenized   *)
(* (matched by request id when it returns, else by address), its place and *)
(* the value it writes.  A place is (rank, bank, row, column), which the   *)
(* address mapping gives one to one.  Targeted operations, energy and      *)
(* statistics are left out.  An exit or abort of the source is a fault,    *)
(* after which nothing happens.                                            *)
(***************************************************************************)
EXTENDS CommandQueue, Integers

CONSTANTS TransQueueDepth,
          Requests,        \* what the client may ask: [write, token, place]
          Streams,         \* the requests it may repeat for ever
          MaxSubmissions,  \* bound: requests that are not of Streams
          MaxBarriers,     \* bound: barriers
          MaxIds           \* bound: requests outstanding at once

VARIABLES sys,      \* the channel
          refresh,  \* its refresh timers: refreshCountdown and refreshRank
          client    \* the client, and what it was promised

vars == <<sys, refresh, client>>

Ids == 1 .. MaxIds
Values == 0 .. 2
Unwritten == 0
Places == {q.place : q \in Requests}

ASSUME ControllerAssumption ==
  /\ TransQueueDepth \in Nat \ {0}
  /\ Requests # {}
  /\ Requests \subseteq [write : BOOLEAN, token : BOOLEAN,
                         place : [rank : Ranks, bank : Banks, row : Rows, column : Nat]]
  /\ Streams \subseteq Requests
  /\ MaxSubmissions \in Nat /\ MaxBarriers \in Nat /\ MaxIds \in Nat

\* The records that may be missing: a command on the bus, the data of a write, a
\* burst read from a rank.  (The numbers count down to 0, and are never asked below.)
ColumnCommand == [kind : {"READ", "WRITE"}, rank : Ranks, bank : Banks, row : Rows, column : Nat,
                  id : Ids, token : BOOLEAN, value : Values, bar : BOOLEAN]
BareCommand == [kind : {"REF", "ACTIVATE", "PRECHARGE"}, rank : Ranks, bank : Banks, row : Rows,
                id : {None}]
WriteData == [id : Ids, rank : Ranks, value : Values, left : Int]
Returned == [id : Ids, token : BOOLEAN, place : Places]
Burst == [read : Returned, left : Int]

ASSUME NoneAssumption ==
  None \notin Ranks \cup Ids \cup ColumnCommand \cup BareCommand \cup WriteData \cup Burst

RankInit == [banks |-> [b \in Banks |-> BankInit], reads |-> <<>>, out |-> None]

SysInit == [held         |-> <<>>,     \* MemorySystem::pendingTransactions
            transactions |-> <<>>,     \* transactionQueue
            onTheFly     |-> 0,        \* numOnTheFlyTransactions
            queues       |-> [r \in Ranks |-> <<>>],
            banks        |-> [r \in Ranks |-> [b \in Banks |-> BankInit]],
            waiting      |-> None,
            nextRank     |-> 0,
            nextPre      |-> 0,
            rowAccesses  |-> [r \in Ranks |-> [b \in Banks |-> 0]],
            command      |-> None,     \* outgoingCmdPacket
            data         |-> None,     \* outgoingDataPacket and dataCyclesLeft
            writes       |-> <<>>,     \* writeDataToSend and writeDataCountdown
            reads        |-> <<>>,     \* pendingReadTransactions, pendingTokenizedReadsById
            returns      |-> <<>>,     \* returnTransaction
            ranks        |-> [r \in Ranks |-> RankInit],
            store        |-> [p \in Places |-> Unwritten],
            replies      |-> {},       \* the callbacks of the latest update
            fault        |-> {}]       \* the errors that ended the program

\* The ranks are due for a refresh in turn.
RefreshInit == [left |-> [r \in Ranks |-> (Timing.tREFI \div NumRanks) * (r + 1)], rank |-> 0]

Init == /\ sys = SysInit
        /\ refresh = RefreshInit
        /\ client = [memory    |-> [p \in Places |-> Unwritten],
                     promised  |-> [id \in {} |-> Unwritten],
                     fenced    |-> {},
                     rankOf    |-> [id \in {} |-> 0],
                     behind    |-> [id \in {} |-> {}],
                     submitted |-> 0,
                     barriers  |-> 0]

-----------------------------------------------------------------------------
(* The client's calls.                                                      *)

WillAcceptTransaction(s) == Len(s.transactions) < TransQueueDepth

\* MemoryController::addTransaction, once it has room.
AddTransaction(s, t) == [s EXCEPT !.transactions = Append(@, t), !.onTheFly = @ + 1]

\* MemorySystem::addTransaction.
Accept(s, t) == IF WillAcceptTransaction(s) THEN AddTransaction(s, t)
                ELSE [s EXCEPT !.held = Append(@, t)]

\* A request with a token is refused instead of held back; its caller tries again.
MayAdd(s, q) == q.token => WillAcceptTransaction(s)

WithBarrier(q) == [q EXCEPT ![Len(q)].bar = TRUE]

\* MemorySystem::addBarrier tags the youngest transaction where it looks for it, and
\* changes nothing when there is none.
BarrierTaken(s) == IF WillAcceptTransaction(s) THEN s.transactions # <<>> ELSE s.held # <<>>
TaggedRank(s) == IF WillAcceptTransaction(s) THEN s.transactions[Len(s.transactions)].place.rank
                 ELSE s.held[Len(s.held)].place.rank
AddBarrier(s) == IF WillAcceptTransaction(s)
                 THEN [s EXCEPT !.transactions = WithBarrier(@)]
                 ELSE [s EXCEPT !.held = WithBarrier(@)]

-----------------------------------------------------------------------------
(* MemorySystem::update: the ranks, the held transactions, the controller.  *)

Refuse(s, why) == [s EXCEPT !.fault = @ \cup {why}]
Check(s, ok, why) == IF ok THEN s ELSE Refuse(s, why)

\* Rank::update: the burst on the bus ends; the oldest read starts its own when RL old.
Goes(x) == [x EXCEPT !.left = @ - 1]
Aged(q) == [i \in DOMAIN q |-> Goes(q[i])]
BurstEnds(k) == k.out # None /\ k.out.left = 1
BurstStarts(k) == k.reads # <<>> /\ Head(k.reads).left = 1
UpdateRank(k) ==
  [k EXCEPT !.reads = IF BurstStarts(k) THEN Tail(Aged(@)) ELSE Aged(@),
            !.out = IF BurstStarts(k) THEN [read |-> Head(k.reads).read, left |-> Timing.BL2]
                    ELSE IF @ = None \/ BurstEnds(k) THEN None
                    ELSE Goes(@)]

\* receiveFromBus: the reads whose burst ends, in the order of the ranks.
Ascending(S) == CHOOSE q \in [1 .. Cardinality(S) -> S] :
                  \A i, j \in 1 .. Cardinality(S) : i < j => q[i] < q[j]
Ending(s) == {r \in Ranks : BurstEnds(s.ranks[r])}
Returning(s) == LET order == Ascending(Ending(s))
                IN  [i \in 1 .. Cardinality(Ending(s)) |-> s.ranks[order[i]].out.read]

UpdateRanks(s) == [s EXCEPT !.returns = @ \o Returning(s),
                            !.ranks = [r \in Ranks |-> UpdateRank(@[r])]]

\* Mutant: a transaction that was held back is not counted.
MoveHeld_Uncounted(s) ==
  IF s.held # <<>> /\ WillAcceptTransaction(s)
  THEN [s EXCEPT !.transactions = Append(@, Head(s.held)), !.held = Tail(@)]
  ELSE s

MoveHeld(s) == IF s.held # <<>> /\ WillAcceptTransaction(s)
               THEN [AddTransaction(s, Head(s.held)) EXCEPT !.held = Tail(@)]
               ELSE s

UpdateBankState(s) ==
  [s EXCEPT !.banks = [r \in Ranks |-> [b \in Banks |-> Settled(@[r][b])]]]

PlaceOf(c) == [rank |-> c.rank, bank |-> c.bank, row |-> c.row, column |-> c.column]

\* A read fills the client's buffer, a write changes the bank.
ReadSb(s, c) ==
  [s EXCEPT !.reads = [i \in DOMAIN @ |-> IF @[i].id = c.id
                                          THEN [@[i] EXCEPT !.value = s.store[PlaceOf(c)]]
                                          ELSE @[i]]]
WriteSb(s, c) == [s EXCEPT !.store[PlaceOf(c)] = c.value]

\* sendToBank: what was read returns after the read latency.
Access(s, c) ==
  CASE c.kind = "READ" ->
         [ReadSb(s, c) EXCEPT !.ranks[c.rank].reads =
            Append(@, [read |-> [id |-> c.id, token |-> c.token, place |-> PlaceOf(c)],
                       left |-> Timing.RL])]
    [] c.kind = "WRITE" -> WriteSb(s, c)
    [] OTHER -> s

\* Rank::receiveFromBus: check, updateState, sendToBank; the command bus is free.
DeliverCommand(s) ==
  LET c == s.command
      checked == Check(s, RankAccepts(s.ranks[c.rank].banks, c), "refused")
  IN  IF c = None THEN s
      ELSE [Access(checked, c) EXCEPT !.command = None,
                                      !.ranks[c.rank].banks = RankAfter(@, c)]

\* The write burst on the bus; when it ends the write is answered.
DeliverData(s) ==
  IF s.data = None THEN s
  ELSE IF s.data.left > 1 THEN [s EXCEPT !.data.left = @ - 1]
  ELSE [s EXCEPT !.data = None, !.onTheFly = @ - 1,
                 !.replies = @ \cup {[id |-> s.data.id, value |-> s.data.value]}]

\* The oldest write, WL after its command, takes the data bus.
SendData(s) ==
  LET aged == Aged(s.writes)
      ready == aged # <<>> /\ Head(aged).left = 0
  IN  IF ready THEN [Check(s, s.data = None, "data bus collision") EXCEPT
                       !.data = [Head(aged) EXCEPT !.left = Timing.BL2],
                       !.writes = Tail(aged)]
      ELSE [s EXCEPT !.writes = aged]

\* updateRefresh: the rank whose turn it is asks for its refresh when its timer ends.
RefreshDue == refresh.left[refresh.rank] = 0
UpdateRefresh(s) == IF RefreshDue THEN NeedRefresh(s, refresh.rank) ELSE s

\* The timer starts again, and every update takes one from each.
CountDown ==
  LET left == IF RefreshDue THEN [refresh.left EXCEPT ![refresh.rank] = Timing.tREFI]
              ELSE refresh.left
  IN  refresh' = [left |-> [r \in Ranks |-> left[r] - 1],
                  rank |-> IF RefreshDue THEN (refresh.rank + 1) % NumRanks ELSE refresh.rank]

\* updateCommandQueue: the controller's book, the data a write sends, the command bus.
SendCommand(s, c) ==
  [Check(s, s.command = None, "command bus collision") EXCEPT
     !.banks = ControllerAfter(@, c),
     !.writes = IF c.kind = "WRITE"
                THEN Append(@, [id |-> c.id, rank |-> c.rank, value |-> c.value, left |-> Timing.WL])
                ELSE @,
     !.command = c]

\* p is what the command queue gave.
IssueCommand(p) == IF p.command = None THEN p.queue ELSE SendCommand(p.queue, p.command)

CommandOf(t) == [kind |-> IF t.write THEN "WRITE" ELSE "READ", rank |-> t.place.rank,
                 bank |-> t.place.bank, row |-> t.place.row, column |-> t.place.column,
                 id |-> t.id, token |-> t.token, value |-> t.value, bar |-> t.bar]

\* addPendingRead, with its check of tokenized ids.
AddPendingRead(s, t) ==
  LET duplicate == t.token /\ \E i \in DOMAIN s.reads : s.reads[i].token /\ s.reads[i].id = t.id
  IN  [Check(s, ~duplicate, "duplicate request id") EXCEPT
         !.reads = Append(@, [id |-> t.id, token |-> t.token, place |-> t.place,
                              value |-> Unwritten])]

\* updateTransactionQueue: the first transaction whose rank has room, one a cycle.
UpdateTransactionQueue(s) ==
  LET fits == {i \in DOMAIN s.transactions : HasRoomFor(s, s.transactions[i].place.rank)}
      i == Least(fits)
      t == s.transactions[i]
      taken == Enqueue([s EXCEPT !.transactions = Without(@, i)], CommandOf(t))
  IN  IF fits = {} THEN s ELSE IF t.write THEN taken ELSE AddPendingRead(taken, t)

\* The pending reads a returning burst may complete: by id, or by address.
Matches(s, x) == {i \in DOMAIN s.reads :
                    IF x.token THEN s.reads[i].token /\ s.reads[i].id = x.id
                    ELSE ~s.reads[i].token /\ s.reads[i].place = x.place}

\* The answer to the client, by address or by token.
ReturnReadData(s, read) ==
  [s EXCEPT !.onTheFly = @ - 1, !.replies = @ \cup {[id |-> read.id, value |-> read.value]}]

\* One returned burst a cycle answers the first pending read it matches.
ReturnRead(s) ==
  LET matches == Matches(s, Head(s.returns))
      i == Least(matches)
  IN  IF s.returns = <<>> THEN s
      ELSE IF matches = {} THEN Refuse(s, "unknown read")
      ELSE ReturnReadData([s EXCEPT !.returns = Tail(@), !.reads = Without(@, i)], s.reads[i])

\* The clocks of both books.
WaitedRank(k) == [k EXCEPT !.banks = [b \in Banks |-> Waited(@[b])]]
Step(s) == [s EXCEPT !.banks = [r \in Ranks |-> [b \in Banks |-> Waited(@[r][b])]],
                     !.ranks = [r \in Ranks |-> WaitedRank(@[r])]]

\* MemoryController::update: u is what it makes of s.
\* (Each phase is bound to its value, so that TLC computes it once.)
UpdateController(s, u) ==
  \E b \in {UpdateBankState(s)} :
    \E c \in {DeliverCommand(b)} :
      \E d \in {DeliverData(c)} :
        \E w \in {SendData(d)} :
          \E f \in {UpdateRefresh(w)} :
            \E p \in {Pop(f)} :
              \E i \in {IssueCommand(p)} :
                \E q \in {UpdateTransactionQueue(i)} :
                  \E r \in {ReturnRead(q)} : u = Step(r)

\* MemorySystem::update.
Update(s, u) ==
  \E q \in {[s EXCEPT !.replies = {}]} :
    \E r \in {UpdateRanks(q)} : \E h \in {MoveHeld(r)} : UpdateController(h, u)

-----------------------------------------------------------------------------
(* The actions.  client keeps what the client was promised: the memory in   *)
(* the order of its requests, the value owed to each, and for each the      *)
(* requests to its rank that a barrier put before it and that have not been *)
(* issued.  The command queues are one per rank, so a barrier fences only   *)
(* the rank of the transaction that it tags.                                *)

IdsOf(q) == {q[i].id : i \in DOMAIN q}
Unissued(s) == IdsOf(s.held) \cup IdsOf(s.transactions) \cup UNION {IdsOf(s.queues[r]) : r \in Ranks}

\* Callers submit only when nothing older is held back, or in one go: with room
\* again while transactions are held back a new one would overtake them.
InOrder == sys.held = <<>> \/ ~WillAcceptTransaction(sys)

Extended(f, x, v) == [y \in DOMAIN f \cup {x} |-> IF y = x THEN v ELSE f[y]]

Submit(q) ==
  LET id == Least(Ids \ DOMAIN client.promised)
      old == client.memory[q.place]
      new == IF q.write THEN (old + 1) % 3 ELSE old
      before == {x \in client.fenced : client.rankOf[x] = q.place.rank}
  IN  /\ Ids \ DOMAIN client.promised # {}
      /\ q \in Streams \/ client.submitted < MaxSubmissions
      /\ InOrder
      /\ MayAdd(sys, q)
      /\ sys' = [Accept(sys, [id |-> id, write |-> q.write, token |-> q.token,
                              place |-> q.place, value |-> new, bar |-> FALSE])
                 EXCEPT !.replies = {}]
      /\ client' = [client EXCEPT !.memory[q.place] = new,
                                  !.promised = Extended(@, id, new),
                                  !.rankOf = Extended(@, id, q.place.rank),
                                  !.behind = Extended(@, id, before),
                                  !.submitted = IF q \in Streams THEN @ ELSE @ + 1]
      /\ UNCHANGED refresh

Barrier ==
  /\ client.barriers < MaxBarriers
  /\ InOrder
  /\ BarrierTaken(sys)
  /\ sys' = AddBarrier(sys)
  /\ client' = [client EXCEPT
                  !.fenced = @ \cup {id \in Unissued(sys) : client.rankOf[id] = TaggedRank(sys)},
                  !.barriers = @ + 1]
  /\ UNCHANGED refresh

Tick ==
  /\ sys.fault = {}
  /\ Update(sys, sys')
  /\ CountDown
  /\ LET left == DOMAIN client.promised \ {a.id : a \in sys'.replies}
         waiting == Unissued(sys')
     IN  client' = [client EXCEPT
                      !.promised = [id \in left |-> @[id]],
                      !.rankOf = [id \in left |-> @[id]],
                      !.fenced = @ \cap waiting,
                      !.behind = [id \in left |-> @[id] \cap waiting]]

Next == (\E q \in Requests : Submit(q)) \/ Barrier \/ Tick

Spec == Init /\ [][Next]_vars

\* The host loops of the source call update as long as anything is on the fly.  Only
\* Tick counts the timers down, and always: this is weak fairness of Tick.
FairSpec == Spec /\ WF_refresh(sys.fault = {} /\ CountDown)

-----------------------------------------------------------------------------
(* Properties.                                                              *)

\* Queues within their depth, timers within their periods, every id known.
TypeOK ==
  /\ Len(sys.transactions) <= TransQueueDepth
  /\ \A r \in Ranks : Len(sys.queues[r]) <= CmdQueueDepth /\ refresh.left[r] \in 0 .. Timing.tREFI
  /\ \A r \in Ranks, b \in Banks : sys.banks[r][b] \in Bank /\ sys.ranks[r].banks[b] \in Bank
  /\ sys.waiting \in Ranks \cup {None}
  /\ sys.nextRank \in Ranks /\ sys.nextPre \in 0 .. NumRanks * NumBanks - 1
  /\ refresh.rank \in Ranks
  /\ DOMAIN client.promised \subseteq Ids
  /\ DOMAIN client.behind = DOMAIN client.promised

\* The rank refuses no command the controller issues, no bus is driven twice and
\* every returning read finds its transaction: none of the exits is taken.
NoFault == sys.fault = {}

\* The controller does not send a rank data while the rank sends a burst of its
\* own, and no burst of a rank starts over another (READ_TO_WRITE_DELAY, the column
\* gaps: Rank::update overwrites outgoingDataPacket without looking).
DataBusExclusive ==
  \A r \in Ranks :
    /\ sys.data # None /\ sys.data.rank = r => sys.ranks[r].out = None
    /\ BurstStarts(sys.ranks[r]) /\ sys.ranks[r].out # None => BurstEnds(sys.ranks[r])

\* Whatever the mix of requests, row conflicts and refreshes: queues in their bounds,
\* no command out of its time, no bus driven twice.
SafeState == TypeOK /\ NoFault /\ DataBusExclusive

\* A barrier that was accepted holds: of the requests to the rank whose youngest
\* transaction it tagged, none after it is issued before one submitted up to it
\* (tag BAR through held, transaction queue and command queue).
BarrierOrder == \A id \in DOMAIN client.behind : id \notin Unissued(sys) => client.behind[id] = {}

\* numOnTheFlyTransactions counts what the controller owes, and when it is 0,
\* which ends every host's wait, nothing is owed at all, held back or not.
OnTheFlyExact ==
  /\ sys.onTheFly + Len(sys.held) = Cardinality(DOMAIN client.promised)
  /\ sys.onTheFly = 0 => DOMAIN client.promised = {}

\* Reordering, row conflicts, refreshes and held transactions are invisible: the
\* channel is a memory that answers each request once, with the right value.
Service == INSTANCE MemoryService WITH memory <- client.memory, owed <- client.promised,
                                       answered <- sys.replies
ImplementsMemoryService == Service!Spec

\* Every request is answered: no row conflict, barrier or refresh holds one for ever.
AllAnswered == \A id \in Ids : id \in DOMAIN client.promised ~> id \notin DOMAIN client.promised

\* A rank whose refresh is due gets it: open rows get closed and the wait ends, with
\* the REF, unless the timer of the next rank runs out first: needRefresh keeps one
\* rank only, so that one takes the place of a rank still waiting.
RefreshServed ==
  /\ [][\A r \in Ranks :
          sys.waiting = r /\ sys'.waiting # r /\ ~RefreshDue =>
            sys'.command # None /\ sys'.command.kind = "REF" /\ sys'.command.rank = r]_vars
  /\ \A r \in Ranks : sys.waiting = r ~> sys.waiting # r

\* Nobody waits for ever: neither a request nor a rank that is due a refresh.
Progress == AllAnswered /\ RefreshServed

=============================================================================
