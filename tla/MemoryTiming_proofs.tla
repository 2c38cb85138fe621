------------------------ MODULE MemoryTiming_proofs ------------------------
(***************************************************************************)
(* The timing side of MemoryController, for every number of ranks, banks   *)
(* and rows, every depth and every timing in the order of the ini files':  *)
(* what each call of update() changes, the types it keeps, the books the   *)
(* controller keeps of the banks (never earlier than the ranks', so that no*)
(* command is refused) and the data bus (two bursts never meet).           *)
(* MemoryController_proofs builds the invariant of the specification on it.*)
(***************************************************************************)
EXTENDS MemoryController, FiniteSetTheorems, SequenceTheorems, WellFoundedInduction, TLAPS

-----------------------------------------------------------------------------
(* The fields of a channel and their types                                 *)

Fields == {"held", "transactions", "onTheFly", "queues", "banks", "waiting", "nextRank", "nextPre",
           "rowAccesses", "command", "data", "writes", "reads", "returns", "ranks", "store",
           "replies", "fault"}

IsChannel(s) == DOMAIN s = Fields

Transaction == [id : Ids, write : BOOLEAN, token : BOOLEAN, place : Places, value : Values,
                bar : BOOLEAN]
Pending == [id : Ids, token : BOOLEAN, place : Places, value : Values]
Reply == [id : Ids, value : Values]
RankState == [banks : [Banks -> Bank], reads : Seq(Burst), out : Burst \cup {None}]
\* The column commands to the places in use.
Located == {c \in ColumnCommand : PlaceOf(c) \in Places}
Command == Located \cup BareCommand

\* Transactions and commands: held back, queued, on the command bus.
QueuesTyped(s) ==
  /\ s.held \in Seq(Transaction)
  /\ s.transactions \in Seq(Transaction) /\ Len(s.transactions) <= TransQueueDepth
  /\ s.queues \in [Ranks -> Seq(Located)]
  /\ \A r \in Ranks : /\ Len(s.queues[r]) <= CmdQueueDepth
                      /\ \A i \in DOMAIN s.queues[r] : s.queues[r][i].rank = r
  /\ s.command \in Command \cup {None}
  /\ s.waiting \in Ranks \cup {None} /\ s.nextRank \in Ranks
  /\ s.nextPre \in 0 .. NumRanks * NumBanks - 1
  /\ s.banks \in [Ranks -> [Banks -> Bank]]

\* Data: written, read, on its way.
DataTyped(s) ==
  /\ s.data \in WriteData \cup {None} /\ s.writes \in Seq(WriteData)
  /\ s.reads \in Seq(Pending) /\ s.returns \in Seq(Returned)
  /\ s.ranks \in [Ranks -> RankState]
  /\ \A r \in Ranks : /\ \A i \in DOMAIN s.ranks[r].reads : s.ranks[r].reads[i].read.place.rank = r
                      /\ s.ranks[r].out # None => s.ranks[r].out.read.place.rank = r
  /\ s.store \in [Places -> Values]
  /\ s.onTheFly \in Int /\ s.replies \subseteq Reply

Typed(s) == IsChannel(s) /\ QueuesTyped(s) /\ DataTyped(s)

\* What is known of the constants.
LEMMA PlaceType == Places \subseteq [rank : Ranks, bank : Banks, row : Rows, column : Nat]
BY ControllerAssumption DEF Places

\* None is no rank, no id, and none of the records that may be missing.
LEMMA NoneApart ==
  /\ None \notin Ranks /\ None \notin Ids /\ None \notin ColumnCommand /\ None \notin BareCommand
  /\ None \notin Located /\ None \notin Command /\ None \notin WriteData /\ None \notin Burst
BY NoneAssumption DEF Command, Located

\* The sizes of the instance are numbers, and there is a rank, a bank and a row.
LEMMA ConstantTypes ==
  /\ NumRanks \in Nat \ {0} /\ NumBanks \in Nat \ {0} /\ NumRows \in Nat \ {0}
  /\ CmdQueueDepth \in Nat \ {0} /\ TransQueueDepth \in Nat \ {0} /\ MaxIds \in Nat
  /\ 0 \in Ranks /\ 0 \in Banks /\ 0 \in Rows /\ Ranks \subseteq Nat
BY BankAssumption, QueueAssumption, ControllerAssumption DEF Ranks, Banks, Rows

\* The timings of the ini file are numbers; those the data bus depends on are ordered.
LEMMA TimingTypes ==
  /\ Timing.BL2 \in Nat /\ Timing.RL \in Nat /\ Timing.WL \in Nat /\ Timing.tCCDS \in Nat
  /\ Timing.tCCDL \in Nat /\ Timing.tRCDRD \in Nat /\ Timing.tRCDWR \in Nat /\ Timing.tRAS \in Nat
  /\ Timing.tRC \in Nat /\ Timing.tRP \in Nat /\ Timing.tRRDS \in Nat /\ Timing.tRRDL \in Nat
  /\ Timing.tRTPL \in Nat /\ Timing.tWR \in Nat /\ Timing.tWTRS \in Nat /\ Timing.tWTRL \in Nat
  /\ Timing.tRTRS \in Nat /\ Timing.tREFI \in Nat /\ Timing.tRFC \in Nat
  /\ Timing.BL2 > 0 /\ Timing.RL > 0 /\ Timing.WL > 0 /\ Timing.tRP > 0 /\ Timing.tRFC > 0
  /\ Timing.tRTRS > 0 /\ Timing.tWTRL >= Timing.tWTRS
  /\ Timing.RL + Timing.BL2 + Timing.tRTRS >= Timing.WL
  /\ Timing.tREFI >= NumRanks /\ Timing.tRCDWR + 1 >= Timing.BL2
<1>1. \A n \in TimingNames : Timing[n] \in Nat BY BankAssumption
<1>2. \A n \in {"BL2", "RL", "WL", "tRP", "tRFC", "tRCDRD", "tRCDWR", "tRTRS"} : Timing[n] > 0
  BY TimingAssumption
<1> QED BY <1>1, <1>2, TimingAssumption DEF TimingNames

\* The delays derived from them.
LEMMA DelayTypes ==
  /\ READ_TO_PRE \in Nat /\ WRITE_TO_PRE \in Nat /\ READ_TO_WRITE \in Nat
  /\ WRITE_TO_READ_LONG \in Nat /\ WRITE_TO_READ_SHORT \in Nat /\ WRITE_TO_READ_RANK \in Nat
  /\ SwitchRank \in Nat /\ SwitchRank >= Timing.BL2
  /\ WRITE_TO_READ_LONG >= WRITE_TO_READ_SHORT /\ WRITE_TO_READ_LONG >= Timing.WL + Timing.BL2
  /\ READ_TO_WRITE + Timing.WL = Timing.RL + Timing.BL2 + Timing.tRTRS
  /\ \A a, b \in Banks : /\ ColumnGap(a, b) \in Nat /\ ColumnGap(a, b) >= Timing.BL2
                         /\ ActivateGap(a, b) \in Nat
BY TimingTypes DEF READ_TO_PRE, WRITE_TO_PRE, READ_TO_WRITE, WRITE_TO_READ_LONG, WRITE_TO_READ_SHORT,
   WRITE_TO_READ_RANK, SwitchRank, ColumnGap, ActivateGap, Later

-----------------------------------------------------------------------------
(* What each phase of an update changes                                    *)

LEMMA ClearedFields ==
  ASSUME NEW s, IsChannel(s)
  PROVE  LET t == [s EXCEPT !.replies = {}]
         IN  /\ IsChannel(t) /\ t.replies = {}
             /\ t.held = s.held /\ t.transactions = s.transactions /\ t.onTheFly = s.onTheFly
             /\ t.queues = s.queues /\ t.banks = s.banks /\ t.waiting = s.waiting
             /\ t.nextRank = s.nextRank /\ t.nextPre = s.nextPre /\ t.command = s.command
             /\ t.data = s.data /\ t.writes = s.writes /\ t.reads = s.reads /\ t.returns = s.returns
             /\ t.ranks = s.ranks /\ t.store = s.store /\ t.fault = s.fault
BY DEF IsChannel, Fields

\* Rank::update changes the ranks, and puts the bursts that end on the list of the returns.
LEMMA UpdateRanksFields ==
  ASSUME NEW s, IsChannel(s)
  PROVE  LET t == UpdateRanks(s)
         IN  /\ IsChannel(t)
             /\ t.returns = s.returns \o Returning(s)
             /\ t.ranks = [r \in Ranks |-> UpdateRank(s.ranks[r])]
             /\ t.held = s.held /\ t.transactions = s.transactions /\ t.onTheFly = s.onTheFly
             /\ t.queues = s.queues /\ t.banks = s.banks /\ t.waiting = s.waiting
             /\ t.nextRank = s.nextRank /\ t.nextPre = s.nextPre /\ t.command = s.command
             /\ t.data = s.data /\ t.writes = s.writes /\ t.reads = s.reads
             /\ t.store = s.store /\ t.fault = s.fault /\ t.replies = s.replies
BY DEF IsChannel, Fields, UpdateRanks

\* MemorySystem::update moves the oldest held transaction when the controller has room.
LEMMA MoveHeldFields ==
  ASSUME NEW s, IsChannel(s)
  PROVE  LET t == MoveHeld(s)
             moves == s.held # <<>> /\ Len(s.transactions) < TransQueueDepth
         IN  /\ IsChannel(t)
             /\ t.held = IF moves THEN Tail(s.held) ELSE s.held
             /\ t.transactions = IF moves THEN Append(s.transactions, Head(s.held)) ELSE s.transactions
             /\ t.onTheFly = IF moves THEN s.onTheFly + 1 ELSE s.onTheFly
             /\ t.queues = s.queues /\ t.banks = s.banks /\ t.waiting = s.waiting
             /\ t.nextRank = s.nextRank /\ t.nextPre = s.nextPre /\ t.command = s.command
             /\ t.data = s.data /\ t.writes = s.writes /\ t.reads = s.reads /\ t.returns = s.returns
             /\ t.ranks = s.ranks /\ t.store = s.store /\ t.fault = s.fault /\ t.replies = s.replies
BY DEF IsChannel, Fields, MoveHeld, WillAcceptTransaction, AddTransaction

\* updateBankState changes the controller's banks and nothing else.
LEMMA UpdateBankStateFields ==
  ASSUME NEW s, IsChannel(s)
  PROVE  LET t == UpdateBankState(s)
         IN  /\ IsChannel(t)
             /\ t.banks = [r \in Ranks |-> [b \in Banks |-> Settled(s.banks[r][b])]]
             /\ t.held = s.held /\ t.transactions = s.transactions /\ t.onTheFly = s.onTheFly
             /\ t.queues = s.queues /\ t.waiting = s.waiting
             /\ t.nextRank = s.nextRank /\ t.nextPre = s.nextPre /\ t.command = s.command
             /\ t.data = s.data /\ t.writes = s.writes /\ t.reads = s.reads /\ t.returns = s.returns
             /\ t.ranks = s.ranks /\ t.store = s.store /\ t.fault = s.fault /\ t.replies = s.replies
BY DEF IsChannel, Fields, UpdateBankState

\* The pending reads once the read command c has been performed.
Filled(s, c) == [i \in DOMAIN s.reads |-> IF s.reads[i].id = c.id
                                          THEN [s.reads[i] EXCEPT !.value = s.store[PlaceOf(c)]]
                                          ELSE s.reads[i]]
BurstOf(c) == [read |-> [id |-> c.id, token |-> c.token, place |-> PlaceOf(c)], left |-> Timing.RL]

\* A command that reaches its rank leaves the bus; a read records its value, a write stores its
\* own.
LEMMA DeliverCommandFields ==
  ASSUME NEW s, IsChannel(s), s.command # None
  PROVE  LET t == DeliverCommand(s)
             c == s.command
             isRead == c.kind = "READ"
         IN  /\ IsChannel(t)
             /\ t.command = None
             /\ t.fault = IF RankAccepts(s.ranks[c.rank].banks, c) THEN s.fault
                          ELSE s.fault \cup {"refused"}
             /\ t.reads = IF isRead THEN Filled(s, c) ELSE s.reads
             /\ t.store = IF c.kind = "WRITE" THEN [s.store EXCEPT ![PlaceOf(c)] = c.value] ELSE s.store
             /\ t.held = s.held /\ t.transactions = s.transactions /\ t.onTheFly = s.onTheFly
             /\ t.queues = s.queues /\ t.banks = s.banks /\ t.waiting = s.waiting
             /\ t.nextRank = s.nextRank /\ t.nextPre = s.nextPre
             /\ t.data = s.data /\ t.writes = s.writes /\ t.returns = s.returns
             /\ t.replies = s.replies
<1> DEFINE c == s.command
           k == IF RankAccepts(s.ranks[c.rank].banks, c) THEN s ELSE Refuse(s, "refused")
           a == Access(k, c)
<1>1. DeliverCommand(s) = [a EXCEPT !.command = None, !.ranks[c.rank].banks = RankAfter(@, c)]
  BY Zenon DEF DeliverCommand, Check
<1>2. /\ IsChannel(k) /\ k.fault = IF RankAccepts(s.ranks[c.rank].banks, c) THEN s.fault
                                   ELSE s.fault \cup {"refused"}
      /\ k.reads = s.reads /\ k.store = s.store /\ k.held = s.held /\ k.transactions = s.transactions
      /\ k.onTheFly = s.onTheFly /\ k.queues = s.queues /\ k.banks = s.banks /\ k.waiting = s.waiting
      /\ k.nextRank = s.nextRank /\ k.nextPre = s.nextPre /\ k.data = s.data /\ k.writes = s.writes
      /\ k.returns = s.returns /\ k.replies = s.replies /\ k.ranks = s.ranks
  BY DEF IsChannel, Fields, Refuse
<1> HIDE DEF k
<1>3. /\ IsChannel(a) /\ a.fault = k.fault
      /\ a.reads = IF c.kind = "READ" THEN Filled(s, c) ELSE s.reads
      /\ a.store = IF c.kind = "WRITE" THEN [s.store EXCEPT ![PlaceOf(c)] = c.value] ELSE s.store
      /\ a.held = s.held /\ a.transactions = s.transactions /\ a.onTheFly = s.onTheFly
      /\ a.queues = s.queues /\ a.banks = s.banks /\ a.waiting = s.waiting
      /\ a.nextRank = s.nextRank /\ a.nextPre = s.nextPre /\ a.data = s.data /\ a.writes = s.writes
      /\ a.returns = s.returns /\ a.replies = s.replies
  BY <1>2 DEF IsChannel, Fields, Access, ReadSb, WriteSb, Filled
<1> HIDE DEF a
<1> QED BY <1>1, <1>2, <1>3 DEF IsChannel, Fields

\* The rank's banks once the command on the bus has arrived.
Arrived(banks, r, c) == IF c # None /\ c.rank = r THEN RankAfter(banks, c) ELSE banks

\* Only the rank of the command on the bus changes: its banks, and the reads it has to send.
LEMMA DeliverCommandRanks ==
  ASSUME NEW s, IsChannel(s), s.command # None, s.command.rank \in Ranks,
         s.ranks \in [Ranks -> RankState]
  PROVE  LET t == DeliverCommand(s)
             c == s.command
         IN  /\ DOMAIN t.ranks = Ranks /\ t.ranks = [r \in Ranks |-> t.ranks[r]]
             /\ \A r \in Ranks :
                  /\ t.ranks[r].banks = Arrived(s.ranks[r].banks, r, c)
                  /\ t.ranks[r].out = s.ranks[r].out
                  /\ t.ranks[r].reads = IF c.kind = "READ" /\ r = c.rank
                                        THEN Append(s.ranks[r].reads, BurstOf(c))
                                        ELSE s.ranks[r].reads
                  /\ t.ranks[r] = [banks |-> t.ranks[r].banks, reads |-> t.ranks[r].reads,
                                   out |-> t.ranks[r].out]
<1> DEFINE c == s.command
           k == IF RankAccepts(s.ranks[c.rank].banks, c) THEN s ELSE Refuse(s, "refused")
           a == Access(k, c)
<1>1. DeliverCommand(s) = [a EXCEPT !.command = None, !.ranks[c.rank].banks = RankAfter(@, c)]
  BY Zenon DEF DeliverCommand, Check
<1>2. IsChannel(k) /\ k.ranks = s.ranks BY DEF IsChannel, Fields, Refuse
<1> HIDE DEF k
<1>3. /\ IsChannel(a)
      /\ a.ranks = IF c.kind = "READ" THEN [s.ranks EXCEPT ![c.rank].reads = Append(@, BurstOf(c))]
                   ELSE s.ranks
  BY <1>2 DEF IsChannel, Fields, Access, ReadSb, WriteSb, BurstOf
<1> HIDE DEF a
<1>4. DeliverCommand(s).ranks = [a.ranks EXCEPT ![c.rank].banks = RankAfter(@, c)]
  BY <1>1, <1>3 DEF IsChannel, Fields
<1> DEFINE u == DeliverCommand(s).ranks
<1>5. DOMAIN u = Ranks /\ u = [r \in Ranks |-> u[r]] BY <1>3, <1>4
<1>6. ASSUME NEW r \in Ranks
      PROVE  u[r] = [banks |-> Arrived(s.ranks[r].banks, r, c),
                     reads |-> IF c.kind = "READ" /\ r = c.rank
                               THEN Append(s.ranks[r].reads, BurstOf(c)) ELSE s.ranks[r].reads,
                     out |-> s.ranks[r].out]
  <2>1. s.ranks[r] \in RankState OBVIOUS
  <2>2. a.ranks[r] = IF c.kind = "READ" /\ r = c.rank
                     THEN [s.ranks[r] EXCEPT !.reads = Append(@, BurstOf(c))] ELSE s.ranks[r]
    BY <1>3
  <2>3. u[r] = IF r = c.rank THEN [a.ranks[r] EXCEPT !.banks = RankAfter(@, c)] ELSE a.ranks[r]
    BY <1>3, <1>4
  <2> QED BY <2>1, <2>2, <2>3 DEF RankState, Arrived
<1> HIDE DEF u
<1>7. \A r \in Ranks : /\ u[r].banks = Arrived(s.ranks[r].banks, r, c) /\ u[r].out = s.ranks[r].out
                       /\ u[r].reads = IF c.kind = "READ" /\ r = c.rank
                                       THEN Append(s.ranks[r].reads, BurstOf(c)) ELSE s.ranks[r].reads
                       /\ u[r] = [banks |-> u[r].banks, reads |-> u[r].reads, out |-> u[r].out]
  <2> SUFFICES ASSUME NEW r \in Ranks
               PROVE  /\ u[r].banks = Arrived(s.ranks[r].banks, r, c) /\ u[r].out = s.ranks[r].out
                      /\ u[r].reads = IF c.kind = "READ" /\ r = c.rank
                                      THEN Append(s.ranks[r].reads, BurstOf(c)) ELSE s.ranks[r].reads
                      /\ u[r] = [banks |-> u[r].banks, reads |-> u[r].reads, out |-> u[r].out]
    OBVIOUS
  <2> DEFINE x == Arrived(s.ranks[r].banks, r, c)
             y == IF c.kind = "READ" /\ r = c.rank
                  THEN Append(s.ranks[r].reads, BurstOf(c)) ELSE s.ranks[r].reads
             z == s.ranks[r].out
  <2>1. u[r] = [banks |-> x, reads |-> y, out |-> z] BY <1>6
  <2>2. x = Arrived(s.ranks[r].banks, r, c) /\ z = s.ranks[r].out
        /\ y = IF c.kind = "READ" /\ r = c.rank
               THEN Append(s.ranks[r].reads, BurstOf(c)) ELSE s.ranks[r].reads
    OBVIOUS
  <2> HIDE DEF x, y, z
  <2>3. u[r].banks = x /\ u[r].reads = y /\ u[r].out = z
        /\ u[r] = [banks |-> u[r].banks, reads |-> u[r].reads, out |-> u[r].out]
    BY <2>1
  <2> QED BY <2>2, <2>3
<1> QED BY <1>5, <1>7 DEF u

\* With nothing on the bus no rank changes.
LEMMA NoCommandToDeliver ==
  ASSUME NEW s, s.command = None PROVE DeliverCommand(s) = s
BY DEF DeliverCommand

\* The data of a write is answered in the cycle its last burst half has been sent.
LEMMA DeliverDataFields ==
  ASSUME NEW s, IsChannel(s)
  PROVE  LET t == DeliverData(s)
             ends == s.data # None /\ ~(s.data.left > 1)
         IN  /\ IsChannel(t)
             /\ t.data = IF s.data = None \/ ends THEN None ELSE [s.data EXCEPT !.left = @ - 1]
             /\ t.onTheFly = IF ends THEN s.onTheFly - 1 ELSE s.onTheFly
             /\ t.replies = IF ends THEN s.replies \cup {[id |-> s.data.id, value |-> s.data.value]}
                            ELSE s.replies
             /\ t.held = s.held /\ t.transactions = s.transactions
             /\ t.queues = s.queues /\ t.banks = s.banks /\ t.waiting = s.waiting
             /\ t.nextRank = s.nextRank /\ t.nextPre = s.nextPre /\ t.command = s.command
             /\ t.writes = s.writes /\ t.reads = s.reads /\ t.returns = s.returns
             /\ t.ranks = s.ranks /\ t.store = s.store /\ t.fault = s.fault
<1>1. CASE s.data = None BY <1>1 DEF DeliverData
<1>2. CASE s.data # None /\ s.data.left > 1 BY <1>2 DEF DeliverData, IsChannel, Fields
<1>3. CASE s.data # None /\ ~(s.data.left > 1) BY <1>3 DEF DeliverData, IsChannel, Fields
<1> QED BY <1>1, <1>2, <1>3

\* The data of the oldest write goes on the data bus when its delay is over.
LEMMA SendDataFields ==
  ASSUME NEW s, IsChannel(s)
  PROVE  LET t == SendData(s)
             ready == Aged(s.writes) # <<>> /\ Head(Aged(s.writes)).left = 0
         IN  /\ IsChannel(t)
             /\ t.data = IF ready THEN [Head(Aged(s.writes)) EXCEPT !.left = Timing.BL2] ELSE s.data
             /\ t.writes = IF ready THEN Tail(Aged(s.writes)) ELSE Aged(s.writes)
             /\ t.fault = IF ready /\ s.data # None THEN s.fault \cup {"data bus collision"} ELSE s.fault
             /\ t.held = s.held /\ t.transactions = s.transactions /\ t.onTheFly = s.onTheFly
             /\ t.queues = s.queues /\ t.banks = s.banks /\ t.waiting = s.waiting
             /\ t.nextRank = s.nextRank /\ t.nextPre = s.nextPre /\ t.command = s.command
             /\ t.reads = s.reads /\ t.returns = s.returns
             /\ t.ranks = s.ranks /\ t.store = s.store /\ t.replies = s.replies
BY DEF SendData, IsChannel, Fields, Check, Refuse

\* A refresh that is due only names the rank that waits for it.
LEMMA UpdateRefreshFields ==
  ASSUME NEW s, IsChannel(s)
  PROVE  LET t == UpdateRefresh(s)
         IN  /\ IsChannel(t)
             /\ t.waiting \in {s.waiting, refresh.rank}
             /\ t.held = s.held /\ t.transactions = s.transactions /\ t.onTheFly = s.onTheFly
             /\ t.queues = s.queues /\ t.banks = s.banks
             /\ t.nextRank = s.nextRank /\ t.nextPre = s.nextPre /\ t.command = s.command
             /\ t.data = s.data /\ t.writes = s.writes /\ t.reads = s.reads /\ t.returns = s.returns
             /\ t.ranks = s.ranks /\ t.store = s.store /\ t.fault = s.fault /\ t.replies = s.replies
BY DEF IsChannel, Fields, UpdateRefresh, NeedRefresh

\* An issued command goes on the bus, into the controller's banks and, for a write, into its data
\* list.
LEMMA IssueCommandFields ==
  ASSUME NEW s, IsChannel(s), NEW c, c # None, s.command = None
  PROVE  LET t == IssueCommand([command |-> c, queue |-> s])
         IN  /\ IsChannel(t)
             /\ t.command = c
             /\ t.banks = ControllerAfter(s.banks, c)
             /\ t.writes = IF c.kind = "WRITE"
                           THEN Append(s.writes, [id |-> c.id, rank |-> c.rank, value |-> c.value,
                                                  left |-> Timing.WL])
                           ELSE s.writes
             /\ t.held = s.held /\ t.transactions = s.transactions /\ t.onTheFly = s.onTheFly
             /\ t.queues = s.queues /\ t.waiting = s.waiting
             /\ t.nextRank = s.nextRank /\ t.nextPre = s.nextPre
             /\ t.data = s.data /\ t.reads = s.reads /\ t.returns = s.returns
             /\ t.ranks = s.ranks /\ t.store = s.store /\ t.fault = s.fault /\ t.replies = s.replies
BY DEF IsChannel, Fields, IssueCommand, SendCommand, Check

\* A command that finds room is appended to the queue of its rank, and nothing else changes.
LEMMA EnqueueFields ==
  ASSUME NEW s, IsChannel(s), NEW c, c.rank \in Ranks, s.queues \in [Ranks -> Seq(Located)],
         c \in Located, HasRoomFor(s, c.rank)
  PROVE  LET t == Enqueue(s, c)
         IN  /\ IsChannel(t)
             /\ t.queues = [s.queues EXCEPT ![c.rank] = Append(@, c)]
             /\ t.held = s.held /\ t.transactions = s.transactions /\ t.onTheFly = s.onTheFly
             /\ t.banks = s.banks /\ t.waiting = s.waiting
             /\ t.nextRank = s.nextRank /\ t.nextPre = s.nextPre /\ t.command = s.command
             /\ t.data = s.data /\ t.writes = s.writes /\ t.reads = s.reads /\ t.returns = s.returns
             /\ t.ranks = s.ranks /\ t.store = s.store /\ t.fault = s.fault /\ t.replies = s.replies
<1> DEFINE grown == [s EXCEPT !.queues[c.rank] = Append(@, c)]
<1>1. Len(Append(s.queues[c.rank], c)) <= CmdQueueDepth BY ConstantTypes DEF HasRoomFor
<1>2. /\ grown.queues = [s.queues EXCEPT ![c.rank] = Append(@, c)] /\ IsChannel(grown)
      /\ grown.held = s.held /\ grown.transactions = s.transactions /\ grown.onTheFly = s.onTheFly
      /\ grown.banks = s.banks /\ grown.waiting = s.waiting
      /\ grown.nextRank = s.nextRank /\ grown.nextPre = s.nextPre /\ grown.command = s.command
      /\ grown.data = s.data /\ grown.writes = s.writes /\ grown.reads = s.reads
      /\ grown.returns = s.returns /\ grown.ranks = s.ranks /\ grown.store = s.store
      /\ grown.fault = s.fault /\ grown.replies = s.replies
  BY DEF IsChannel, Fields
<1>3. grown.queues[c.rank] = Append(s.queues[c.rank], c) BY <1>2
<1>4. Enqueue(s, c) = grown
  <2> HIDE DEF grown
  <2> QED BY <1>1, <1>3 DEF Enqueue, grown
<1> HIDE DEF grown
<1> QED BY <1>2, <1>4

\* CommandQueue::step and the ranks' step count the timers of the banks down.
LEMMA StepFields ==
  ASSUME NEW s, IsChannel(s)
  PROVE  LET t == Step(s)
         IN  /\ IsChannel(t)
             /\ t.banks = [r \in Ranks |-> [b \in Banks |-> Waited(s.banks[r][b])]]
             /\ t.ranks = [r \in Ranks |-> WaitedRank(s.ranks[r])]
             /\ t.held = s.held /\ t.transactions = s.transactions /\ t.onTheFly = s.onTheFly
             /\ t.queues = s.queues /\ t.waiting = s.waiting
             /\ t.nextRank = s.nextRank /\ t.nextPre = s.nextPre /\ t.command = s.command
             /\ t.data = s.data /\ t.writes = s.writes /\ t.reads = s.reads /\ t.returns = s.returns
             /\ t.store = s.store /\ t.fault = s.fault /\ t.replies = s.replies
BY DEF IsChannel, Fields, Step

\* A returned burst answers the oldest pending read that matches it, and removes that one.
LEMMA ReturnReadFields ==
  ASSUME NEW s, IsChannel(s), s.returns # <<>>, Matches(s, Head(s.returns)) # {}
  PROVE  LET t == ReturnRead(s)
             i == Least(Matches(s, Head(s.returns)))
         IN  /\ IsChannel(t)
             /\ t.returns = Tail(s.returns)
             /\ t.reads = Without(s.reads, i)
             /\ t.onTheFly = s.onTheFly - 1
             /\ t.replies = s.replies \cup {[id |-> s.reads[i].id, value |-> s.reads[i].value]}
             /\ t.held = s.held /\ t.transactions = s.transactions
             /\ t.queues = s.queues /\ t.banks = s.banks /\ t.waiting = s.waiting
             /\ t.nextRank = s.nextRank /\ t.nextPre = s.nextPre /\ t.command = s.command
             /\ t.data = s.data /\ t.writes = s.writes
             /\ t.ranks = s.ranks /\ t.store = s.store /\ t.fault = s.fault
BY DEF IsChannel, Fields, ReturnRead, ReturnReadData

\* addPendingRead appends the read when its token is not pending already.
LEMMA AddPendingReadFields ==
  ASSUME NEW s, IsChannel(s), NEW x,
         ~ (x.token /\ \E i \in DOMAIN s.reads : s.reads[i].token /\ s.reads[i].id = x.id)
  PROVE  LET t == AddPendingRead(s, x)
         IN  /\ IsChannel(t)
             /\ t.reads = Append(s.reads, [id |-> x.id, token |-> x.token, place |-> x.place,
                                           value |-> Unwritten])
             /\ t.held = s.held /\ t.transactions = s.transactions /\ t.onTheFly = s.onTheFly
             /\ t.queues = s.queues /\ t.banks = s.banks /\ t.waiting = s.waiting
             /\ t.nextRank = s.nextRank /\ t.nextPre = s.nextPre /\ t.command = s.command
             /\ t.data = s.data /\ t.writes = s.writes /\ t.returns = s.returns
             /\ t.ranks = s.ranks /\ t.store = s.store /\ t.fault = s.fault /\ t.replies = s.replies
BY DEF IsChannel, Fields, AddPendingRead, Check

-----------------------------------------------------------------------------
(* Choices and sequences                                                   *)

\* A set of numbers that is not empty has a least member.
LEMMA LeastExists ==
  ASSUME NEW N \in SUBSET Nat, N # {}
  PROVE  Least(N) \in N /\ \A m \in N : Least(N) <= m
<1>1. PICK n \in N : \A m \in N : <<m, n>> \notin OpToRel(<, Nat)
  BY NatLessThanWellFounded, WFMin
<1>2. ASSUME NEW m \in N PROVE n <= m
  <2>1. m \in Nat /\ n \in Nat OBVIOUS
  <2>2. ~(m < n) BY <1>1, <2>1 DEF OpToRel
  <2> QED BY <2>1, <2>2
<1>3. \E x \in N : \A m \in N : x <= m BY <1>2
<1> QED BY <1>3 DEF Least

\* A sequence without its i-th member.
LEMMA WithoutMembers ==
  ASSUME NEW S, NEW q \in Seq(S), NEW i \in DOMAIN q
  PROVE  /\ Without(q, i) \in Seq(S) /\ Len(Without(q, i)) = Len(q) - 1
         /\ \A j \in 1 .. Len(q) - 1 : Without(q, i)[j] = IF j < i THEN q[j] ELSE q[j + 1]
<1>1. Len(q) \in Nat /\ i \in 1 .. Len(q) /\ i \in Nat OBVIOUS
<1> DEFINE a == SubSeq(q, 1, i - 1)
           z == SubSeq(q, i + 1, Len(q))
<1>2. a \in Seq(S) /\ Len(a) = i - 1 /\ \A j \in 1 .. i - 1 : a[j] = q[j] BY <1>1
<1>3. z \in Seq(S) /\ Len(z) = Len(q) - i /\ \A j \in 1 .. Len(q) - i : z[j] = q[i + j] BY <1>1
<1> HIDE DEF a, z
<1>4. /\ a \o z \in Seq(S) /\ Len(a \o z) = Len(q) - 1
      /\ \A j \in 1 .. Len(q) - 1 : (a \o z)[j] = IF j <= Len(a) THEN a[j] ELSE z[j - Len(a)]
  <2>1. a \o z \in Seq(S) /\ Len(a \o z) = Len(a) + Len(z) BY <1>2, <1>3, ConcatProperties
  <2>2. \A j \in 1 .. Len(a) + Len(z) : (a \o z)[j] = IF j <= Len(a) THEN a[j] ELSE z[j - Len(a)]
    BY <1>2, <1>3, ConcatProperties
  <2>3. Len(a) + Len(z) = Len(q) - 1 BY <1>1, <1>2, <1>3
  <2> QED BY <2>1, <2>2, <2>3
<1>5. ASSUME NEW j \in 1 .. Len(q) - 1
      PROVE  (a \o z)[j] = IF j < i THEN q[j] ELSE q[j + 1]
  <2>1. CASE j < i BY <1>1, <1>2, <1>4, <2>1
  <2>2. CASE ~(j < i)
    <3>1. (a \o z)[j] = z[j - (i - 1)] /\ j - (i - 1) \in 1 .. Len(q) - i
      BY <1>1, <1>2, <1>4, <2>2
    <3> QED BY <1>1, <1>3, <2>2, <3>1
  <2> QED BY <2>1, <2>2
<1> QED BY <1>4, <1>5 DEF Without, a, z

\* Its members are the others, in the same order: j of it was at Back(i, j).
Back(i, j) == IF j < i THEN j ELSE j + 1

\* Erasing the i-th member keeps the others, in their order.
LEMMA WithoutKeeps ==
  ASSUME NEW S, NEW q \in Seq(S), NEW i \in DOMAIN q
  PROVE  /\ \A j \in DOMAIN Without(q, i) :
              /\ Back(i, j) \in DOMAIN q /\ Back(i, j) # i
              /\ Without(q, i)[j] = q[Back(i, j)]
         /\ \A j, k \in DOMAIN Without(q, i) : j < k => Back(i, j) < Back(i, k)
         /\ \A j \in DOMAIN q : j # i => \E k \in DOMAIN Without(q, i) : Back(i, k) = j
<1>1. DOMAIN Without(q, i) = 1 .. Len(q) - 1 /\ Len(q) \in Nat /\ i \in 1 .. Len(q)
  BY WithoutMembers
<1>2. ASSUME NEW j \in DOMAIN q, j # i
      PROVE  \E k \in DOMAIN Without(q, i) : Back(i, k) = j
  <2>1. CASE j < i
    <3>1. j \in DOMAIN Without(q, i) /\ Back(i, j) = j BY <1>1, <1>2, <2>1 DEF Back
    <3> QED BY <3>1
  <2>2. CASE ~(j < i)
    <3>1. j - 1 \in DOMAIN Without(q, i) /\ Back(i, j - 1) = j BY <1>1, <1>2, <2>2 DEF Back
    <3> QED BY <3>1
  <2> QED BY <2>1, <2>2
<1>3. ASSUME NEW j \in DOMAIN Without(q, i)
      PROVE  /\ Back(i, j) \in DOMAIN q /\ Back(i, j) # i
             /\ Without(q, i)[j] = q[Back(i, j)]
  <2>1. j \in 1 .. Len(q) - 1 /\ Without(q, i)[j] = IF j < i THEN q[j] ELSE q[j + 1]
    BY <1>1, WithoutMembers
  <2> QED BY <1>1, <2>1 DEF Back
<1>4. \A j, k \in DOMAIN Without(q, i) : j < k => Back(i, j) < Back(i, k) BY <1>1 DEF Back
<1> QED BY <1>2, <1>3, <1>4

\* The ids of a sequence that loses or gains a member.
LEMMA WithoutIds ==
  ASSUME NEW S, NEW q \in Seq(S), NEW i \in DOMAIN q,
         \A j \in DOMAIN q : j # i => q[j].id # q[i].id
  PROVE  IdsOf(Without(q, i)) = IdsOf(q) \ {q[i].id}
<1> DEFINE w == Without(q, i)
<1>1. \A j \in DOMAIN w : \E k \in DOMAIN q : k # i /\ w[j] = q[k] BY WithoutKeeps
<1>2. \A k \in DOMAIN q : k # i => \E j \in DOMAIN w : w[j] = q[k] BY WithoutKeeps
<1> HIDE DEF w
<1>3. IdsOf(w) = IdsOf(q) \ {q[i].id} BY <1>1, <1>2 DEF IdsOf
<1> QED BY <1>3 DEF w

\* Appending adds the id of the new member.
LEMMA AppendIds ==
  ASSUME NEW S, NEW q \in Seq(S), NEW x
  PROVE  IdsOf(Append(q, x)) = IdsOf(q) \cup {x.id}
<1>1. /\ DOMAIN Append(q, x) = 1 .. Len(q) + 1 /\ Append(q, x)[Len(q) + 1] = x /\ Len(q) \in Nat
      /\ \A i \in DOMAIN q : Append(q, x)[i] = q[i] /\ i \in DOMAIN Append(q, x)
      /\ \A i \in DOMAIN Append(q, x) : i \in DOMAIN q \/ i = Len(q) + 1
  OBVIOUS
<1> QED BY <1>1 DEF IdsOf

\* Popping the front keeps the others, one place nearer to the front.
LEMMA TailMembers ==
  ASSUME NEW S, NEW q \in Seq(S), q # <<>>
  PROVE  /\ Tail(q) \in Seq(S) /\ Len(Tail(q)) = Len(q) - 1 /\ Head(q) = q[1] /\ Head(q) \in S
         /\ 1 \in DOMAIN q
         /\ \A j \in DOMAIN Tail(q) : j + 1 \in DOMAIN q /\ Tail(q)[j] = q[j + 1]
         /\ \A j \in DOMAIN q : j # 1 => j - 1 \in DOMAIN Tail(q) /\ Tail(q)[j - 1] = q[j]
OBVIOUS

\* Popping the front removes the id of the front when no other member has it.
LEMMA TailIds ==
  ASSUME NEW S, NEW q \in Seq(S), q # <<>>, \A j \in DOMAIN q : j # 1 => q[j].id # q[1].id
  PROVE  IdsOf(Tail(q)) = IdsOf(q) \ {q[1].id}
<1>1. ASSUME NEW j \in DOMAIN q, j # 1 PROVE \E k \in DOMAIN Tail(q) : Tail(q)[k] = q[j]
  BY <1>1, TailMembers
<1>2. \A j \in DOMAIN Tail(q) : \E k \in DOMAIN q : k # 1 /\ Tail(q)[j] = q[k]
  <2> TAKE j \in DOMAIN Tail(q)
  <2>1. j + 1 \in DOMAIN q /\ Tail(q)[j] = q[j + 1] /\ j \in Nat BY TailMembers
  <2>2. j + 1 # 1 BY <2>1, TailMembers
  <2> QED BY <2>1, <2>2
<1>3. IdsOf(Tail(q)) \subseteq IdsOf(q) \ {q[1].id} BY <1>2 DEF IdsOf
<1>4. IdsOf(q) \ {q[1].id} \subseteq IdsOf(Tail(q)) BY <1>1 DEF IdsOf
<1> QED BY <1>3, <1>4

-----------------------------------------------------------------------------
(* What the command queue gives                                            *)

\* The controller's book allows command c.
Allowed(books, c) ==
  LET k == books[c.rank][c.bank]
  IN  CASE c.kind = "REF"       -> \A b \in Banks : books[c.rank][b].state # "RowActive"
        [] c.kind = "ACTIVATE"  -> k.state = "Idle" /\ k.act = 0
        [] c.kind = "WRITE"     -> k.state = "RowActive" /\ k.row = c.row /\ k.write = 0
        [] c.kind = "READ"      -> k.state = "RowActive" /\ k.row = c.row /\ k.read = 0
        [] c.kind = "PRECHARGE" -> k.state = "RowActive" /\ k.pre = 0

\* p keeps s but for the choices of the command queue itself, and q are its queues.
Popped(s, p, q) ==
  /\ IsChannel(p) /\ p.queues = q
  /\ p.waiting \in {s.waiting, None} /\ p.nextRank \in Ranks
  /\ p.nextPre \in 0 .. NumRanks * NumBanks - 1
  /\ p.held = s.held /\ p.transactions = s.transactions /\ p.onTheFly = s.onTheFly
  /\ p.banks = s.banks /\ p.command = s.command
  /\ p.data = s.data /\ p.writes = s.writes /\ p.reads = s.reads /\ p.returns = s.returns
  /\ p.ranks = s.ranks /\ p.store = s.store /\ p.fault = s.fault /\ p.replies = s.replies

\* Nothing; a command that is no access; or the i-th access of the queue of rank r.
PopsNothing(s, p) == p.command = None /\ Popped(s, p.queue, s.queues)
PopsBare(s, p) == p.command \in BareCommand /\ Allowed(s.banks, p.command) /\ Popped(s, p.queue, s.queues)
PopsColumn(s, p, r, i) ==
  /\ i \in DOMAIN s.queues[r] /\ p.command = s.queues[r][i] /\ Allowed(s.banks, p.command)
  /\ i = 1 \/ ~s.queues[r][i].bar
  /\ ~Depends(s.queues[r], i)
  /\ Popped(s, p.queue, [s.queues EXCEPT ![r] = Without(s.queues[r], i)])

Pops(s, p) == \/ PopsNothing(s, p) \/ PopsBare(s, p)
              \/ \E r \in Ranks, i \in Nat : PopsColumn(s, p, r, i)

\* A channel whose queues are well formed, with nothing on the command bus.
\* The entries of the queues, and the banks of the book.
LEMMA QueueMembers ==
  ASSUME NEW s, QueuesTyped(s), NEW r \in Ranks
  PROVE  /\ s.queues[r] \in Seq(Located) /\ DOMAIN s.queues[r] \subseteq Nat
         /\ \A i \in DOMAIN s.queues[r] :
              /\ s.queues[r][i] \in Located /\ s.queues[r][i] \in ColumnCommand
              /\ s.queues[r][i].rank = r /\ s.queues[r][i].bank \in Banks
              /\ s.queues[r][i].row \in Rows /\ s.queues[r][i].kind \in {"READ", "WRITE"}
         /\ \A b \in Banks : s.banks[r][b] \in Bank /\ s.banks[r][b].row \in Rows
<1>1. s.queues[r] \in Seq(Located) /\ \A i \in DOMAIN s.queues[r] : s.queues[r][i].rank = r
  BY DEF QueuesTyped
<1>2. ASSUME NEW i \in DOMAIN s.queues[r]
      PROVE  s.queues[r][i] \in Located /\ s.queues[r][i] \in ColumnCommand
  BY <1>1 DEF Located
<1>3. \A c \in ColumnCommand : c.bank \in Banks /\ c.row \in Rows /\ c.kind \in {"READ", "WRITE"}
  BY DEF ColumnCommand
<1>4. ASSUME NEW b \in Banks PROVE s.banks[r][b] \in Bank /\ s.banks[r][b].row \in Rows
  BY DEF QueuesTyped, Bank
<1> QED BY <1>1, <1>2, <1>3, <1>4

\* A precharge that isIssuable allows is a command the controller's banks allow.
LEMMA PrechargeAllowed ==
  ASSUME NEW s, NEW r \in Ranks, NEW b \in Banks, s.banks[r][b].row \in Rows,
         IsIssuable(s, PrechargeOf(s, r, b))
  PROVE  PrechargeOf(s, r, b) \in BareCommand /\ Allowed(s.banks, PrechargeOf(s, r, b))
<1> DEFINE c == PrechargeOf(s, r, b)
<1>1. c \in BareCommand /\ c.kind = "PRECHARGE" /\ c.rank = r /\ c.bank = b
  BY DEF PrechargeOf, Bare, BareCommand
<1> HIDE DEF c
<1>2. IsIssuable(s, c) BY DEF c
<1>3. Allowed(s.banks, c) BY <1>1, <1>2 DEF Allowed, IsIssuable
<1> QED BY <1>1, <1>3 DEF c

\* What the refresh part of CommandQueue::pop gives is an allowed command and leaves the queues
\* typed.
LEMMA RefreshPops ==
  ASSUME NEW s, IsChannel(s), QueuesTyped(s), ProcessRefresh(s).command # None
  PROVE  Pops(s, ProcessRefresh(s))
<1> DEFINE r == s.waiting
           open == {b \in Banks : s.banks[r][b].state = "RowActive"}
           closable == {b \in open : IsIssuable(s, PrechargeOf(s, r, b))}
<1>1. r # None /\ r \in Ranks BY DEF ProcessRefresh, Nothing, QueuesTyped
<1>2. CASE open = {}
  <2>1. ProcessRefresh(s) = Issue(Bare("REF", r, 0, 0), [s EXCEPT !.waiting = None])
    BY <1>1, <1>2 DEF ProcessRefresh
  <2>2. Popped(s, [s EXCEPT !.waiting = None], s.queues)
    BY DEF Popped, IsChannel, Fields, QueuesTyped
  <2> DEFINE c == Bare("REF", r, 0, 0)
  <2>3. c \in BareCommand /\ c.kind = "REF" /\ c.rank = r
    BY <1>1, ConstantTypes DEF Bare, BareCommand
  <2> HIDE DEF c
  <2>4. \A b \in Banks : s.banks[c.rank][b].state # "RowActive" BY <1>2, <2>3
  <2>5. Allowed(s.banks, c) BY <2>3, <2>4 DEF Allowed
  <2> QED BY <2>1, <2>2, <2>3, <2>5 DEF Issue, Pops, PopsBare, c
<1>3. CASE open # {} /\ closable # {}
  <2>1. ProcessRefresh(s) = Issue(PrechargeOf(s, r, Least(closable)), s)
    BY <1>1, <1>3 DEF ProcessRefresh
  <2>2. closable \in SUBSET Nat BY DEF Banks
  <2>3. Least(closable) \in closable BY <1>3, <2>2, LeastExists
  <2> DEFINE b == Least(closable)
  <2>4. b \in Banks /\ IsIssuable(s, PrechargeOf(s, r, b)) BY <2>3
  <2> HIDE DEF b
  <2>5. s.banks[r][b].row \in Rows BY <1>1, <2>4 DEF QueuesTyped, Bank
  <2>6. PrechargeOf(s, r, b) \in BareCommand /\ Allowed(s.banks, PrechargeOf(s, r, b))
    BY <1>1, <2>4, <2>5, PrechargeAllowed
  <2>7. Popped(s, s, s.queues) BY DEF Popped, QueuesTyped
  <2> QED BY <2>1, <2>6, <2>7 DEF Issue, Pops, PopsBare, b
<1>4. CASE open # {} /\ closable = {} BY <1>1, <1>4 DEF ProcessRefresh, Nothing
<1> QED BY <1>2, <1>3, <1>4

\* A remainder, and a quotient, within bounds.
LEMMA RemainderType ==
  ASSUME NEW a \in Nat, NEW n \in Nat \ {0}
  PROVE  a % n \in 0 .. n - 1
OBVIOUS

\* The rank of the nextRankPRE counter is a rank.
LEMMA QuotientType ==
  ASSUME NEW m \in Nat \ {0}, NEW n \in Nat \ {0}, NEW a \in 0 .. n * m - 1
  PROVE  a \div n \in 0 .. m - 1
OBVIOUS

\* A chosen column command leaves its queue, and the controller's banks allow it.
LEMMA ColumnPops ==
  ASSUME NEW s, IsChannel(s), QueuesTyped(s), NEW r \in Ranks, NEW i \in ColumnChoices(s, r),
         NEW p, p = Issue(s.queues[r][i],
                          [s EXCEPT !.nextRank = r, !.queues[r] = Without(s.queues[r], i)])
  PROVE  PopsColumn(s, p, r, i)
<1> DEFINE q == s.queues[r]
<1>1. i \in DOMAIN q /\ IsIssuable(s, q[i]) /\ (i = 1 \/ ~q[i].bar) /\ ~Depends(q, i)
  BY DEF ColumnChoices
<1>3. Allowed(s.banks, q[i])
  <2> DEFINE c == q[i]
  <2>1. c.kind \in {"READ", "WRITE"} BY <1>1, QueueMembers
  <2>2. IsIssuable(s, c) BY <1>1
  <2> HIDE DEF c
  <2>3. Allowed(s.banks, c) BY <2>1, <2>2 DEF Allowed, IsIssuable
  <2> QED BY <2>3 DEF c
<1>4. Popped(s, p.queue, [s.queues EXCEPT ![r] = Without(s.queues[r], i)])
  BY DEF Popped, IsChannel, Fields, QueuesTyped, Issue
<1>5. p.command = q[i] BY DEF Issue
<1> QED BY <1>1, <1>3, <1>4, <1>5 DEF PopsColumn

\* An activate is made from a queued command, which stays queued; the banks allow it.
LEMMA ActivatePops ==
  ASSUME NEW s, IsChannel(s), QueuesTyped(s), NEW r \in Ranks, NEW i \in ActivateChoices(s, r),
         NEW p, p = Issue(ActivateOf(s.queues[r][i]), [s EXCEPT !.nextRank = r])
  PROVE  PopsBare(s, p)
<1> DEFINE q == s.queues[r]
           c == ActivateOf(q[i])
<1>1. i \in DOMAIN q /\ s.banks[r][q[i].bank].state = "Idle" /\ IsIssuable(s, c)
  BY DEF ActivateChoices
<1>2. q[i].rank = r /\ q[i].bank \in Banks /\ q[i].row \in Rows BY <1>1, QueueMembers
<1>3. c \in BareCommand /\ c.kind = "ACTIVATE" /\ c.rank = r /\ c.bank = q[i].bank
  BY <1>2 DEF ActivateOf, Bare, BareCommand
<1> HIDE DEF c
<1>4. Allowed(s.banks, c) BY <1>1, <1>3 DEF Allowed, IsIssuable
<1>5. Popped(s, p.queue, s.queues) /\ p.command = c
  BY DEF Popped, IsChannel, Fields, QueuesTyped, Issue, c
<1> QED BY <1>3, <1>4, <1>5 DEF PopsBare

\* What the queue scan of CommandQueue::pop gives is a column command or an activate.
LEMMA CommandPops ==
  ASSUME NEW s, IsChannel(s), QueuesTyped(s), ProcessCommand(s).command # None
  PROVE  Pops(s, ProcessCommand(s))
<1> DEFINE turn(n) == (s.nextRank + n) % NumRanks
           ready == {n \in Ranks : ColumnChoices(s, turn(n)) # {} \/ ActivateChoices(s, turn(n)) # {}}
           r == turn(Least(ready))
           column == ColumnChoices(s, r)
           active == ActivateChoices(s, r)
<1>1. ready # {} BY DEF ProcessCommand, Nothing
<1>2. Least(ready) \in ready
  <2>1. ready \in SUBSET Nat BY DEF Ranks
  <2> HIDE DEF ready
  <2> QED BY <1>1, <2>1, LeastExists
<1>3. r \in Ranks /\ (column # {} \/ active # {})
  <2>1. \A n \in Ranks : turn(n) \in Ranks
    <3> TAKE n \in Ranks
    <3>1. s.nextRank \in Ranks BY DEF QueuesTyped
    <3>2. s.nextRank + n \in Nat BY <3>1 DEF Ranks
    <3> QED BY <3>2, RemainderType, ConstantTypes DEF Ranks
  <2> QED BY <1>2, <2>1
<1>4. /\ column # {} => ProcessCommand(s) = Issue(s.queues[r][Least(column)],
                          [s EXCEPT !.nextRank = r, !.queues[r] = Without(s.queues[r], Least(column))])
      /\ column = {} => ProcessCommand(s) = Issue(ActivateOf(s.queues[r][Least(active)]),
                                                 [s EXCEPT !.nextRank = r])
  BY <1>1, Zenon DEF ProcessCommand
<1> HIDE DEF r
<1>5. CASE column # {}
  <2>1. column \in SUBSET Nat BY <1>3, QueueMembers DEF ColumnChoices
  <2>2. Least(column) \in ColumnChoices(s, r) /\ Least(column) \in Nat
    BY <1>5, <2>1, LeastExists
  <2>3. PopsColumn(s, ProcessCommand(s), r, Least(column)) BY <1>3, <1>4, <1>5, <2>2, ColumnPops
  <2> HIDE DEF column
  <2> QED BY <1>3, <2>2, <2>3 DEF Pops
<1>6. CASE column = {}
  <2>1. active \in SUBSET Nat BY <1>3, QueueMembers DEF ActivateChoices
  <2>2. Least(active) \in ActivateChoices(s, r) BY <1>3, <1>6, <2>1, LeastExists
  <2>3. PopsBare(s, ProcessCommand(s)) BY <1>3, <1>4, <1>6, <2>2, ActivatePops
  <2> QED BY <2>3 DEF Pops
<1> QED BY <1>5, <1>6

\* What the closing scan of CommandQueue::pop gives is a precharge, or nothing.
LEMMA PrechargePops ==
  ASSUME NEW s, IsChannel(s), QueuesTyped(s)
  PROVE  Pops(s, ProcessPrecharge(s))
<1> DEFINE places == NumRanks * NumBanks
           turn(n) == (s.nextPre + n) % places
           rank(p) == p % NumRanks
           bank(p) == p \div NumRanks
           ready == {n \in 0 .. places - 1 :
                       /\ ~RowNeeded(s, rank(turn(n)), bank(turn(n)))
                       /\ IsIssuable(s, PrechargeOf(s, rank(turn(n)), bank(turn(n))))}
           p == turn(Least(ready))
<1>1. CASE ready = {}
  <2>1. ProcessPrecharge(s) = Nothing(s) BY <1>1 DEF ProcessPrecharge
  <2>2. Popped(s, s, s.queues) BY DEF Popped, QueuesTyped
  <2> QED BY <2>1, <2>2 DEF Pops, PopsNothing, Nothing
<1>2. CASE ready # {}
  <2>1. Least(ready) \in ready
    <3>1. ready \in SUBSET Nat OBVIOUS
    <3> HIDE DEF ready
    <3> QED BY <1>2, <3>1, LeastExists
  <2>2. ProcessPrecharge(s) = Issue(PrechargeOf(s, rank(p), bank(p)), [s EXCEPT !.nextPre = p])
    BY <1>2, Zenon DEF ProcessPrecharge
  <2>3. IsIssuable(s, PrechargeOf(s, rank(p), bank(p))) /\ Least(ready) \in Nat
    <3>1. \A n \in ready : n \in Nat /\ IsIssuable(s, PrechargeOf(s, rank(turn(n)), bank(turn(n))))
      OBVIOUS
    <3> HIDE DEF ready
    <3> QED BY <2>1, <3>1
  <2>4. places \in Nat \ {0} /\ s.nextPre \in Nat BY ConstantTypes DEF QueuesTyped
  <2>5. p \in 0 .. places - 1
    <3> DEFINE a == s.nextPre + Least(ready)
    <3>1. a \in Nat BY <2>3, <2>4
    <3>2. p = a % places OBVIOUS
    <3> HIDE DEF places, a, p
    <3> QED BY <2>4, <3>1, <3>2, RemainderType
  <2> HIDE DEF p
  <2>6. rank(p) \in Ranks /\ bank(p) \in Banks
    <3>1. p \in Nat BY <2>4, <2>5
    <3>2. p % NumRanks \in 0 .. NumRanks - 1 BY <3>1, ConstantTypes, RemainderType
    <3>3. p \div NumRanks \in 0 .. NumBanks - 1 BY <2>5, ConstantTypes, QuotientType
    <3> QED BY <3>2, <3>3 DEF Ranks, Banks
  <2> DEFINE r == rank(p)
             b == bank(p)
  <2>7. s.banks[r][b].row \in Rows
    <3> HIDE DEF r, b
    <3>1. r \in Ranks /\ b \in Banks BY <2>6 DEF r, b
    <3> QED BY <3>1 DEF QueuesTyped, Bank
  <2>8. PrechargeOf(s, r, b) \in BareCommand /\ Allowed(s.banks, PrechargeOf(s, r, b))
    <3> HIDE DEF r, b
    <3>1. r \in Ranks /\ b \in Banks /\ IsIssuable(s, PrechargeOf(s, r, b))
      BY <2>3, <2>6 DEF r, b, p
    <3> QED BY <2>7, <3>1, PrechargeAllowed
  <2>9. Popped(s, [s EXCEPT !.nextPre = p], s.queues)
    BY <2>5 DEF Popped, IsChannel, Fields, QueuesTyped
  <2> QED BY <2>2, <2>8, <2>9 DEF Pops, PopsBare, Issue
<1> QED BY <1>1, <1>2

\* CommandQueue::pop gives one allowed command or none, and changes no more than the queues.
LEMMA PopGives ==
  ASSUME NEW s, IsChannel(s), QueuesTyped(s)
  PROVE  Pops(s, Pop(s))
BY RefreshPops, CommandPops, PrechargePops DEF Pop

-----------------------------------------------------------------------------
(* The two books of a bank                                                 *)

\* The rank's bank m is at most one cycle behind the controller's bank k of it.
Behind(m, k) ==
  /\ m.read <= k.read + 1 /\ m.write <= k.write + 1 /\ m.act <= k.act + 1 /\ m.pre <= k.pre + 1
  /\ IF k.state = "RowActive" THEN m.state = "RowActive" /\ m.row = k.row ELSE m.state = "Idle"
  /\ k.settle # 0 => k.state \in {"Precharging", "Refreshing"}

\* So is every bank once the command on the bus has arrived, and the rank accepts it.
BooksAgree(books, ranks, c) ==
  /\ \A r \in Ranks, b \in Banks : Behind(Arrived(ranks[r].banks, r, c)[b], books[r][b])
  /\ c # None => RankAccepts(ranks[c.rank].banks, c)

\* The fields of a bank.
LEMMA BankFields ==
  ASSUME NEW k \in Bank
  PROVE  /\ k.state \in States /\ k.row \in Rows /\ k.read \in Nat /\ k.write \in Nat
         /\ k.act \in Nat /\ k.pre \in Nat /\ k.settle \in Nat
BY DEF Bank

\* A timer that counts down stays a number.
LEMMA LessType ==
  ASSUME NEW n \in Nat
  PROVE  Less(n) \in Nat /\ Less(n) = IF n > 0 THEN n - 1 ELSE 0
BY DEF Less

\* A cycle counts the four timers of a bank down and changes neither its state nor its row.
LEMMA WaitedFields ==
  ASSUME NEW k \in Bank
  PROVE  /\ Waited(k) \in Bank /\ Waited(k).state = k.state /\ Waited(k).row = k.row
         /\ Waited(k).settle = k.settle /\ Waited(k).read = Less(k.read)
         /\ Waited(k).write = Less(k.write) /\ Waited(k).act = Less(k.act)
         /\ Waited(k).pre = Less(k.pre)
BY LessType, BankFields DEF Waited, Bank

\* A bank that settles in the controller's books stays behind its real one.
LEMMA SettledBehind ==
  ASSUME NEW m \in Bank, NEW k \in Bank, Behind(m, k)
  PROVE  Behind(m, Settled(k))
<1>1. /\ Settled(k).read = k.read /\ Settled(k).write = k.write /\ Settled(k).act = k.act
      /\ Settled(k).pre = k.pre /\ Settled(k).row = k.row /\ Settled(k).settle = Less(k.settle)
      /\ Settled(k).state = IF k.settle = 1 THEN "Idle" ELSE k.state
  BY DEF Settled, Bank
<1> QED BY <1>1, BankFields DEF Behind, Less, States

\* updateBankState keeps the type of a bank.
LEMMA SettledType ==
  ASSUME NEW k \in Bank PROVE Settled(k) \in Bank
<1>1. Less(k.settle) \in Nat /\ (IF k.settle = 1 THEN "Idle" ELSE k.state) \in States
  BY LessType, BankFields DEF States
<1> QED BY <1>1 DEF Settled, Bank

\* The later of two cycles is a number, no smaller than either.
LEMMA LaterType ==
  ASSUME NEW a \in Nat, NEW b \in Nat
  PROVE  Later(a, b) \in Nat /\ Later(a, b) >= a /\ Later(a, b) >= b
BY DEF Later

\* A command for which Allowed makes sense.
LEMMA CommandFields ==
  ASSUME NEW c \in Command
  PROVE  /\ c # None /\ c.rank \in Ranks /\ c.bank \in Banks /\ c.row \in Rows
         /\ c.kind \in {"READ", "WRITE", "REF", "ACTIVATE", "PRECHARGE"}
<1>1. CASE c \in ColumnCommand BY <1>1, NoneApart DEF ColumnCommand
<1>2. CASE c \in BareCommand BY <1>2, NoneApart DEF BareCommand
<1> QED BY <1>1, <1>2 DEF Command, Located

\* A column command moves the two column timers of a bank and keeps the rest.
LEMMA ColumnFields ==
  ASSUME NEW k \in Bank, NEW x \in Nat, NEW y \in Nat
  PROVE  LET n == Column(k, x, y)
         IN  /\ n \in Bank /\ n.state = k.state /\ n.row = k.row /\ n.settle = k.settle
             /\ n.act = k.act /\ n.pre = k.pre /\ n.read = Later(k.read, x) /\ n.write = Later(k.write, y)
             /\ n.read >= k.read /\ n.write >= k.write
<1>1. Later(k.read, x) \in Nat /\ Later(k.write, y) \in Nat
      /\ Later(k.read, x) >= k.read /\ Later(k.write, y) >= k.write
  BY BankFields, LaterType
<1> QED BY <1>1 DEF Column, Bank

\* The books after a command of each kind, by fields.
LEMMA ControllerReadFields ==
  ASSUME NEW k \in Bank, NEW r \in Ranks, NEW b \in Banks, NEW c \in Command
  PROVE  LET n == ControllerRead(k, r, b, c)
         IN  /\ n \in Bank /\ n.state = k.state /\ n.row = k.row /\ n.settle = k.settle /\ n.act = k.act
             /\ n.read >= k.read /\ n.write >= k.write /\ n.pre >= k.pre
             /\ r = c.rank => /\ n.read = Later(k.read, ColumnGap(b, c.bank))
                              /\ n.write = Later(k.write, READ_TO_WRITE)
                              /\ n.pre = IF b = c.bank THEN Later(k.pre, READ_TO_PRE) ELSE k.pre
<1>1. c.bank \in Banks BY CommandFields
<1>2. ColumnGap(b, c.bank) \in Nat BY <1>1, DelayTypes
<1> DEFINE own == [k EXCEPT !.pre = IF b = c.bank THEN Later(@, READ_TO_PRE) ELSE @]
<1>3. /\ own \in Bank /\ own.state = k.state /\ own.row = k.row /\ own.settle = k.settle
      /\ own.act = k.act /\ own.read = k.read /\ own.write = k.write
      /\ own.pre = (IF b = c.bank THEN Later(k.pre, READ_TO_PRE) ELSE k.pre) /\ own.pre >= k.pre
  <2>1. READ_TO_PRE \in Nat /\ k.pre \in Nat BY DelayTypes, BankFields
  <2>2. Later(k.pre, READ_TO_PRE) \in Nat /\ Later(k.pre, READ_TO_PRE) >= k.pre
    BY <2>1, LaterType
  <2> QED BY <2>1, <2>2 DEF Bank
<1> HIDE DEF own
<1>7. READ_TO_WRITE \in Nat /\ SwitchRank \in Nat /\ WRITE_TO_READ_LONG \in Nat
      /\ WRITE_TO_READ_RANK \in Nat
  BY DelayTypes
<1>4. CASE r = c.rank
  <2>1. ControllerRead(k, r, b, c) = Column(own, ColumnGap(b, c.bank), READ_TO_WRITE)
    BY <1>4 DEF ControllerRead, own
  <2> DEFINE n == Column(own, ColumnGap(b, c.bank), READ_TO_WRITE)
  <2>2. /\ n \in Bank /\ n.state = own.state /\ n.row = own.row /\ n.settle = own.settle
        /\ n.act = own.act /\ n.pre = own.pre /\ n.read = Later(own.read, ColumnGap(b, c.bank))
        /\ n.write = Later(own.write, READ_TO_WRITE) /\ n.read >= own.read /\ n.write >= own.write
    <3>1. own.read \in Nat /\ own.write \in Nat BY <1>3, BankFields
    <3>2. /\ Later(own.read, ColumnGap(b, c.bank)) \in Nat /\ Later(own.read, ColumnGap(b, c.bank)) >= own.read
          /\ Later(own.write, READ_TO_WRITE) \in Nat /\ Later(own.write, READ_TO_WRITE) >= own.write
      BY <1>2, <1>7, <3>1, LaterType
    <3> QED BY <1>3, <3>2 DEF Column, Bank
  <2> HIDE DEF n
  <2> QED BY <1>3, <1>4, <2>1, <2>2 DEF n
<1>5. CASE r # c.rank /\ k.state = "RowActive"
  <2>1. ControllerRead(k, r, b, c) = Column(k, SwitchRank, READ_TO_WRITE)
    BY <1>5 DEF ControllerRead
  <2> DEFINE n == Column(k, SwitchRank, READ_TO_WRITE)
  <2>2. /\ n \in Bank /\ n.state = k.state /\ n.row = k.row /\ n.settle = k.settle
        /\ n.act = k.act /\ n.pre = k.pre /\ n.write = Later(k.write, READ_TO_WRITE)
        /\ n.read >= k.read /\ n.write >= k.write
    BY <1>7, ColumnFields
  <2> HIDE DEF n
  <2> QED BY <1>5, <2>1, <2>2, BankFields DEF n
<1>6. CASE r # c.rank /\ k.state # "RowActive" BY <1>6, BankFields DEF ControllerRead
<1> QED BY <1>4, <1>5, <1>6

\* What a write does to the controller's record of each bank, by rank and bank (sameRank,
\* sameBank).
LEMMA ControllerWriteFields ==
  ASSUME NEW k \in Bank, NEW r \in Ranks, NEW b \in Banks, NEW c \in Command
  PROVE  LET n == ControllerWrite(k, r, b, c)
         IN  /\ n \in Bank /\ n.state = k.state /\ n.row = k.row /\ n.settle = k.settle /\ n.act = k.act
             /\ n.read >= k.read /\ n.write >= k.write /\ n.pre >= k.pre
             /\ r = c.rank => /\ n.read = Later(k.read, WRITE_TO_READ_LONG)
                              /\ n.write = Later(k.write, ColumnGap(b, c.bank))
                              /\ n.pre = IF b = c.bank THEN Later(k.pre, WRITE_TO_PRE) ELSE k.pre
             /\ r # c.rank /\ k.state = "RowActive" => n.write = Later(k.write, SwitchRank)
<1>1. c.bank \in Banks BY CommandFields
<1>2. ColumnGap(b, c.bank) \in Nat BY <1>1, DelayTypes
<1> DEFINE own == [k EXCEPT !.pre = IF b = c.bank THEN Later(@, WRITE_TO_PRE) ELSE @]
<1>3. /\ own \in Bank /\ own.state = k.state /\ own.row = k.row /\ own.settle = k.settle
      /\ own.act = k.act /\ own.read = k.read /\ own.write = k.write
      /\ own.pre = (IF b = c.bank THEN Later(k.pre, WRITE_TO_PRE) ELSE k.pre) /\ own.pre >= k.pre
  <2>1. WRITE_TO_PRE \in Nat /\ k.pre \in Nat BY DelayTypes, BankFields
  <2>2. Later(k.pre, WRITE_TO_PRE) \in Nat /\ Later(k.pre, WRITE_TO_PRE) >= k.pre
    BY <2>1, LaterType
  <2> QED BY <2>1, <2>2 DEF Bank
<1> HIDE DEF own
<1>7. READ_TO_WRITE \in Nat /\ SwitchRank \in Nat /\ WRITE_TO_READ_LONG \in Nat
      /\ WRITE_TO_READ_RANK \in Nat
  BY DelayTypes
<1>4. CASE r = c.rank
  <2>1. ControllerWrite(k, r, b, c) = Column(own, WRITE_TO_READ_LONG, ColumnGap(b, c.bank))
    BY <1>4 DEF ControllerWrite, own
  <2> DEFINE n == Column(own, WRITE_TO_READ_LONG, ColumnGap(b, c.bank))
  <2>2. /\ n \in Bank /\ n.state = own.state /\ n.row = own.row /\ n.settle = own.settle
        /\ n.act = own.act /\ n.pre = own.pre /\ n.read = Later(own.read, WRITE_TO_READ_LONG)
        /\ n.write = Later(own.write, ColumnGap(b, c.bank)) /\ n.read >= own.read /\ n.write >= own.write
    <3>1. own.read \in Nat /\ own.write \in Nat BY <1>3, BankFields
    <3>2. /\ Later(own.read, WRITE_TO_READ_LONG) \in Nat /\ Later(own.read, WRITE_TO_READ_LONG) >= own.read
          /\ Later(own.write, ColumnGap(b, c.bank)) \in Nat /\ Later(own.write, ColumnGap(b, c.bank)) >= own.write
      BY <1>2, <1>7, <3>1, LaterType
    <3> QED BY <1>3, <3>2 DEF Column, Bank
  <2> HIDE DEF n
  <2> QED BY <1>3, <1>4, <2>1, <2>2 DEF n
<1>5. CASE r # c.rank /\ k.state = "RowActive"
  <2>1. ControllerWrite(k, r, b, c) = Column(k, WRITE_TO_READ_RANK, SwitchRank)
    BY <1>5 DEF ControllerWrite
  <2> DEFINE n == Column(k, WRITE_TO_READ_RANK, SwitchRank)
  <2>2. /\ n \in Bank /\ n.state = k.state /\ n.row = k.row /\ n.settle = k.settle
        /\ n.act = k.act /\ n.pre = k.pre /\ n.write = Later(k.write, SwitchRank)
        /\ n.read >= k.read /\ n.write >= k.write
    BY <1>7, ColumnFields
  <2> HIDE DEF n
  <2> QED BY <1>5, <2>1, <2>2, BankFields DEF n
<1>6. CASE r # c.rank /\ k.state # "RowActive" BY <1>6, BankFields DEF ControllerWrite
<1> QED BY <1>4, <1>5, <1>6

\* What an activate does to the controller's record of each bank.
LEMMA ControllerActivateFields ==
  ASSUME NEW k \in Bank, NEW r \in Ranks, NEW b \in Banks, NEW c \in Command
  PROVE  LET n == ControllerActivate(k, r, b, c)
             own == r = c.rank /\ b = c.bank
         IN  /\ n \in Bank /\ n.settle = k.settle
             /\ n.state = IF own THEN "RowActive" ELSE k.state
             /\ n.row = IF own THEN c.row ELSE k.row
             /\ n.read = IF own THEN Later(k.read, Timing.tRCDRD) ELSE k.read
             /\ n.write = IF own THEN Later(k.write, Timing.tRCDWR) ELSE k.write
             /\ n.act = IF own THEN Later(k.act, Timing.tRC)
                        ELSE IF r = c.rank THEN Later(k.act, ActivateGap(b, c.bank)) ELSE k.act
             /\ n.pre = IF own THEN Later(k.pre, Timing.tRAS) ELSE k.pre
<1>1. c.bank \in Banks /\ c.row \in Rows BY CommandFields
<1>2. ActivateGap(b, c.bank) \in Nat BY <1>1, DelayTypes
<1>3. CASE r = c.rank /\ b = c.bank
  <2> DEFINE read == Later(k.read, Timing.tRCDRD)
             write == Later(k.write, Timing.tRCDWR)
             act == Later(k.act, Timing.tRC)
             pre == Later(k.pre, Timing.tRAS)
  <2>1. read \in Nat /\ write \in Nat /\ act \in Nat /\ pre \in Nat
    BY BankFields, TimingTypes, LaterType
  <2>2. ControllerActivate(k, r, b, c) = [k EXCEPT !.state = "RowActive", !.row = c.row, !.read = read,
                                                   !.write = write, !.act = act, !.pre = pre]
    BY <1>3 DEF ControllerActivate, Column, Bank
  <2> HIDE DEF read, write, act, pre
  <2>3. LET n == ControllerActivate(k, r, b, c)
        IN  /\ n \in Bank /\ n.settle = k.settle /\ n.state = "RowActive" /\ n.row = c.row
            /\ n.read = read /\ n.write = write /\ n.act = act /\ n.pre = pre
    BY <1>1, <2>1, <2>2 DEF Bank, States
  <2> QED BY <1>3, <2>3 DEF read, write, act, pre
<1>4. CASE r = c.rank /\ b # c.bank
  BY <1>2, <1>4, BankFields, LaterType DEF ControllerActivate, Bank
<1>5. CASE r # c.rank BY <1>5 DEF ControllerActivate
<1> QED BY <1>3, <1>4, <1>5

\* What a precharge does to the controller's record of each bank.
LEMMA ControllerPrechargeFields ==
  ASSUME NEW k \in Bank, NEW r \in Ranks, NEW b \in Banks, NEW c \in Command
  PROVE  LET n == ControllerPrecharge(k, r, b, c)
             own == r = c.rank /\ b = c.bank
         IN  /\ n \in Bank /\ n.row = k.row /\ n.read = k.read /\ n.write = k.write /\ n.pre = k.pre
             /\ n.state = IF own THEN "Precharging" ELSE k.state
             /\ n.settle = IF own THEN Timing.tRP ELSE k.settle
             /\ n.act = IF own THEN Later(k.act, Timing.tRP) ELSE k.act
BY BankFields, TimingTypes, LaterType DEF ControllerPrecharge, Bank, States

\* What a refresh does to the controller's record of each bank.
LEMMA ControllerRefreshFields ==
  ASSUME NEW k \in Bank, NEW r \in Ranks, NEW b \in Banks, NEW c \in Command
  PROVE  LET n == ControllerRefresh(k, r, b, c)
             own == r = c.rank
         IN  /\ n \in Bank /\ n.row = k.row /\ n.read = k.read /\ n.write = k.write /\ n.pre = k.pre
             /\ n.state = IF own THEN "Refreshing" ELSE k.state
             /\ n.settle = IF own THEN Timing.tRFC ELSE k.settle
             /\ n.act = IF own THEN Timing.tRFC ELSE k.act
BY BankFields, TimingTypes DEF ControllerRefresh, Bank, States

\* Every command keeps the type of the controller's banks.
LEMMA ControllerBankType ==
  ASSUME NEW k \in Bank, NEW r \in Ranks, NEW b \in Banks, NEW c \in Command
  PROVE  ControllerBank(k, r, b, c) \in Bank
BY CommandFields, ControllerReadFields, ControllerWriteFields, ControllerActivateFields,
   ControllerPrechargeFields, ControllerRefreshFields DEF ControllerBank

\* What a command does to a bank in Rank::receiveFromBus.
LEMMA RankBankFields ==
  ASSUME NEW k \in Bank, NEW b \in Banks, NEW c \in Command
  PROVE  LET n == RankBank(k, b, c)
             own == b = c.bank
         IN  /\ n \in Bank
             /\ c.kind \in {"READ", "WRITE"} =>
                  n.state = k.state /\ n.row = k.row /\ n.act = k.act
             /\ c.kind = "READ" =>
                  /\ n.read = Later(k.read, ColumnGap(b, c.bank)) /\ n.write = Later(k.write, READ_TO_WRITE)
                  /\ n.pre = IF own THEN Later(k.pre, READ_TO_PRE) ELSE k.pre
             /\ c.kind = "WRITE" =>
                  /\ n.read <= Later(k.read, WRITE_TO_READ_LONG) /\ n.write = Later(k.write, ColumnGap(b, c.bank))
                  /\ n.pre = IF own THEN Later(k.pre, WRITE_TO_PRE) ELSE k.pre
             /\ c.kind = "ACTIVATE" =>
                  /\ n.state = IF own THEN "RowActive" ELSE k.state
                  /\ n.row = IF own THEN c.row ELSE k.row
                  /\ n.read = IF own THEN Timing.tRCDRD ELSE k.read
                  /\ n.write = IF own THEN Timing.tRCDWR ELSE k.write
                  /\ n.act = IF own THEN Timing.tRC ELSE Later(k.act, ActivateGap(b, c.bank))
                  /\ n.pre = IF own THEN Timing.tRAS ELSE k.pre
             /\ c.kind = "PRECHARGE" =>
                  /\ n.state = IF own THEN "Idle" ELSE k.state
                  /\ n.row = k.row /\ n.read = k.read /\ n.write = k.write /\ n.pre = k.pre
                  /\ n.act = IF own THEN Later(k.act, Timing.tRP) ELSE k.act
             /\ c.kind = "REF" =>
                  /\ n.state = k.state /\ n.row = k.row /\ n.read = k.read /\ n.write = k.write
                  /\ n.pre = k.pre /\ n.act = Timing.tRFC
<1> DEFINE n == RankBank(k, b, c)
<1>1. c.bank \in Banks /\ c.row \in Rows
      /\ c.kind \in {"READ", "WRITE", "REF", "ACTIVATE", "PRECHARGE"}
  BY CommandFields
<1>2. ColumnGap(b, c.bank) \in Nat /\ ActivateGap(b, c.bank) \in Nat BY <1>1, DelayTypes
<1>3. CASE c.kind = "READ"
  <2>1. n = Column([k EXCEPT !.pre = IF b = c.bank THEN Later(@, READ_TO_PRE) ELSE @],
                   ColumnGap(b, c.bank), READ_TO_WRITE)
    BY <1>3 DEF RankBank
  <2> HIDE DEF n
  <2>2. n \in Bank /\ n.state = k.state /\ n.row = k.row /\ n.act = k.act
        /\ n.read = Later(k.read, ColumnGap(b, c.bank)) /\ n.write = Later(k.write, READ_TO_WRITE)
        /\ n.pre = IF b = c.bank THEN Later(k.pre, READ_TO_PRE) ELSE k.pre
    BY <1>2, <2>1, BankFields, DelayTypes, LaterType DEF Column, Bank
  <2> QED BY <1>3, <2>2 DEF n
<1>4. CASE c.kind = "WRITE"
  <2> DEFINE turn == IF SameBankGroup(b, c.bank) THEN WRITE_TO_READ_LONG ELSE WRITE_TO_READ_SHORT
  <2>1. n = Column([k EXCEPT !.pre = IF b = c.bank THEN Later(@, WRITE_TO_PRE) ELSE @],
                   turn, ColumnGap(b, c.bank))
    BY <1>4 DEF RankBank
  <2>2. turn \in Nat /\ turn <= WRITE_TO_READ_LONG BY DelayTypes
  <2> HIDE DEF n, turn
  <2>3. n \in Bank /\ n.state = k.state /\ n.row = k.row /\ n.act = k.act
        /\ n.read = Later(k.read, turn) /\ n.write = Later(k.write, ColumnGap(b, c.bank))
        /\ n.pre = IF b = c.bank THEN Later(k.pre, WRITE_TO_PRE) ELSE k.pre
    BY <1>2, <2>1, <2>2, BankFields, DelayTypes, LaterType DEF Column, Bank
  <2>4. Later(k.read, turn) <= Later(k.read, WRITE_TO_READ_LONG)
    BY <2>2, BankFields, DelayTypes DEF Later
  <2> QED BY <1>4, <2>3, <2>4 DEF n
<1>5. CASE c.kind = "ACTIVATE"
  <2>1. n = RankActivate(k, b, c) BY <1>5 DEF RankBank
  <2> HIDE DEF n
  <2>2. /\ n \in Bank
        /\ n.state = IF b = c.bank THEN "RowActive" ELSE k.state
        /\ n.row = IF b = c.bank THEN c.row ELSE k.row
        /\ n.read = IF b = c.bank THEN Timing.tRCDRD ELSE k.read
        /\ n.write = IF b = c.bank THEN Timing.tRCDWR ELSE k.write
        /\ n.act = IF b = c.bank THEN Timing.tRC ELSE Later(k.act, ActivateGap(b, c.bank))
        /\ n.pre = IF b = c.bank THEN Timing.tRAS ELSE k.pre
    BY <1>1, <1>2, <2>1, BankFields, TimingTypes, LaterType DEF RankActivate, Bank, States
  <2> QED BY <1>5, <2>2 DEF n
<1>6. CASE c.kind = "PRECHARGE"
  <2>1. n = IF b = c.bank THEN [k EXCEPT !.state = "Idle", !.act = Later(@, Timing.tRP)] ELSE k
    BY <1>6 DEF RankBank
  <2> HIDE DEF n
  <2>2. /\ n \in Bank /\ n.state = IF b = c.bank THEN "Idle" ELSE k.state
        /\ n.row = k.row /\ n.read = k.read /\ n.write = k.write /\ n.pre = k.pre
        /\ n.act = IF b = c.bank THEN Later(k.act, Timing.tRP) ELSE k.act
    BY <2>1, BankFields, TimingTypes, LaterType DEF Bank, States
  <2> QED BY <1>6, <2>2 DEF n
<1>7. CASE c.kind = "REF"
  <2>1. n = [k EXCEPT !.act = Timing.tRFC] BY <1>7 DEF RankBank
  <2> HIDE DEF n
  <2>2. /\ n \in Bank /\ n.state = k.state /\ n.row = k.row /\ n.read = k.read /\ n.write = k.write
        /\ n.pre = k.pre /\ n.act = Timing.tRFC
    BY <2>1, TimingTypes DEF Bank
  <2> QED BY <1>7, <2>2 DEF n
<1> QED BY <1>1, <1>3, <1>4, <1>5, <1>6, <1>7

\* What a cycle, and a delay d set in both books, leave of one book a cycle behind the other.
LEMMA StillBehind ==
  ASSUME NEW m \in Nat, NEW k \in Nat, m <= k + 1, NEW d \in Nat
  PROVE  /\ Less(m) <= Less(k) + 1
         /\ Later(Less(m), d) <= Less(Later(k, d)) + 1
         /\ d <= Less(Later(k, d)) + 1
BY DEF Less, Later

\* A command that the controller allows keeps the banks of its rank in step, a cycle on.
LEMMA OwnRankBehind ==
  ASSUME NEW m \in Bank, NEW k \in Bank, Behind(m, k), NEW b \in Banks, NEW c \in Command,
         c.kind = "REF" => k.state # "RowActive",
         c.kind = "ACTIVATE" /\ b = c.bank => k.state = "Idle"
  PROVE  Behind(RankBank(Waited(m), b, c), Waited(ControllerBank(k, c.rank, b, c)))
<1> DEFINE w == Waited(m)
           x == RankBank(w, b, c)
           n == ControllerBank(k, c.rank, b, c)
           y == Waited(n)
<1>1. /\ w \in Bank /\ w.state = m.state /\ w.row = m.row
      /\ w.read = Less(m.read) /\ w.write = Less(m.write) /\ w.act = Less(m.act) /\ w.pre = Less(m.pre)
  BY WaitedFields
<1>2. /\ c.rank \in Ranks /\ c.bank \in Banks /\ c.row \in Rows
      /\ c.kind \in {"READ", "WRITE", "REF", "ACTIVATE", "PRECHARGE"}
  BY CommandFields
<1>3. n \in Bank BY <1>2, ControllerBankType
<1> HIDE DEF n
<1>4. /\ y.state = n.state /\ y.row = n.row /\ y.settle = n.settle
      /\ y.read = Less(n.read) /\ y.write = Less(n.write) /\ y.act = Less(n.act) /\ y.pre = Less(n.pre)
  BY <1>3, WaitedFields
<1>5. /\ n.read \in Nat /\ n.write \in Nat /\ n.act \in Nat /\ n.pre \in Nat
      /\ k.read \in Nat /\ k.write \in Nat /\ k.act \in Nat /\ k.pre \in Nat
      /\ m.read \in Nat /\ m.write \in Nat /\ m.act \in Nat /\ m.pre \in Nat
  BY <1>3, BankFields
<1>6. ColumnGap(b, c.bank) \in Nat /\ ActivateGap(b, c.bank) \in Nat BY <1>2, DelayTypes
<1>12. /\ m.read <= k.read + 1 /\ m.write <= k.write + 1 /\ m.act <= k.act + 1 /\ m.pre <= k.pre + 1
       /\ Less(m.read) <= Less(k.read) + 1 /\ Less(m.write) <= Less(k.write) + 1
       /\ Less(m.act) <= Less(k.act) + 1 /\ Less(m.pre) <= Less(k.pre) + 1
  BY <1>5, StillBehind, Zenon DEF Behind
<1>13. /\ IF k.state = "RowActive" THEN m.state = "RowActive" /\ m.row = k.row ELSE m.state = "Idle"
       /\ k.settle # 0 => k.state \in {"Precharging", "Refreshing"}
  BY DEF Behind
<1> HIDE DEF w, y
<1>7. CASE c.kind = "READ"
  <2>1. n = ControllerRead(k, c.rank, b, c) BY <1>7 DEF n, ControllerBank
  <2>2. /\ n.state = k.state /\ n.row = k.row /\ n.settle = k.settle /\ n.act = k.act
        /\ n.read = Later(k.read, ColumnGap(b, c.bank)) /\ n.write = Later(k.write, READ_TO_WRITE)
        /\ n.pre = IF b = c.bank THEN Later(k.pre, READ_TO_PRE) ELSE k.pre
    BY <1>2, <2>1, ControllerReadFields
  <2>3. /\ x.state = w.state /\ x.row = w.row /\ x.act = w.act
        /\ x.read = Later(w.read, ColumnGap(b, c.bank)) /\ x.write = Later(w.write, READ_TO_WRITE)
        /\ x.pre = IF b = c.bank THEN Later(w.pre, READ_TO_PRE) ELSE w.pre
    BY <1>1, <1>7, RankBankFields
  <2>4. /\ Later(Less(m.read), ColumnGap(b, c.bank)) <= Less(Later(k.read, ColumnGap(b, c.bank))) + 1
        /\ Later(Less(m.write), READ_TO_WRITE) <= Less(Later(k.write, READ_TO_WRITE)) + 1
        /\ Later(Less(m.pre), READ_TO_PRE) <= Less(Later(k.pre, READ_TO_PRE)) + 1
    BY <1>5, <1>6, <1>12, StillBehind, DelayTypes
  <2> HIDE DEF x
  <2>5. x.read <= y.read + 1 /\ x.write <= y.write + 1 /\ x.act <= y.act + 1 /\ x.pre <= y.pre + 1
    BY <1>1, <1>4, <1>12, <2>2, <2>3, <2>4
  <2>6. Behind(x, y) BY <1>1, <1>4, <1>13, <2>2, <2>3, <2>5 DEF Behind
  <2> QED BY <2>6 DEF x, y, w, n
<1>8. CASE c.kind = "WRITE"
  <2>1. n = ControllerWrite(k, c.rank, b, c) BY <1>8 DEF n, ControllerBank
  <2>2. /\ n.state = k.state /\ n.row = k.row /\ n.settle = k.settle /\ n.act = k.act
        /\ n.read = Later(k.read, WRITE_TO_READ_LONG) /\ n.write = Later(k.write, ColumnGap(b, c.bank))
        /\ n.pre = IF b = c.bank THEN Later(k.pre, WRITE_TO_PRE) ELSE k.pre
    BY <1>2, <2>1, ControllerWriteFields
  <2>3. /\ x.state = w.state /\ x.row = w.row /\ x.act = w.act /\ x \in Bank
        /\ x.read <= Later(w.read, WRITE_TO_READ_LONG) /\ x.write = Later(w.write, ColumnGap(b, c.bank))
        /\ x.pre = IF b = c.bank THEN Later(w.pre, WRITE_TO_PRE) ELSE w.pre
    BY <1>1, <1>8, RankBankFields
  <2>4. x.read \in Nat BY <2>3, BankFields
  <2>5. /\ Later(Less(m.read), WRITE_TO_READ_LONG) <= Less(Later(k.read, WRITE_TO_READ_LONG)) + 1
        /\ Later(Less(m.write), ColumnGap(b, c.bank)) <= Less(Later(k.write, ColumnGap(b, c.bank))) + 1
        /\ Later(Less(m.pre), WRITE_TO_PRE) <= Less(Later(k.pre, WRITE_TO_PRE)) + 1
    BY <1>5, <1>6, <1>12, StillBehind, DelayTypes
  <2>6. /\ Later(w.read, WRITE_TO_READ_LONG) \in Nat /\ Less(Later(k.read, WRITE_TO_READ_LONG)) \in Nat
    BY <1>1, <1>5, LaterType, LessType, DelayTypes
  <2> HIDE DEF x
  <2>7. x.read <= y.read + 1 BY <1>1, <1>4, <2>2, <2>3, <2>4, <2>5, <2>6
  <2>8. x.write <= y.write + 1 /\ x.act <= y.act + 1 /\ x.pre <= y.pre + 1
    BY <1>1, <1>4, <1>12, <2>2, <2>3, <2>5
  <2>9. Behind(x, y) BY <1>1, <1>4, <1>13, <2>2, <2>3, <2>7, <2>8 DEF Behind
  <2> QED BY <2>9 DEF x, y, w, n
<1>9. CASE c.kind = "ACTIVATE"
  <2>1. n = ControllerActivate(k, c.rank, b, c) BY <1>9 DEF n, ControllerBank
  <2>2. /\ n.settle = k.settle
        /\ n.state = IF b = c.bank THEN "RowActive" ELSE k.state
        /\ n.row = IF b = c.bank THEN c.row ELSE k.row
        /\ n.read = IF b = c.bank THEN Later(k.read, Timing.tRCDRD) ELSE k.read
        /\ n.write = IF b = c.bank THEN Later(k.write, Timing.tRCDWR) ELSE k.write
        /\ n.act = IF b = c.bank THEN Later(k.act, Timing.tRC) ELSE Later(k.act, ActivateGap(b, c.bank))
        /\ n.pre = IF b = c.bank THEN Later(k.pre, Timing.tRAS) ELSE k.pre
    BY <1>2, <2>1, ControllerActivateFields
  <2>3. /\ x.state = IF b = c.bank THEN "RowActive" ELSE w.state
        /\ x.row = IF b = c.bank THEN c.row ELSE w.row
        /\ x.read = IF b = c.bank THEN Timing.tRCDRD ELSE w.read
        /\ x.write = IF b = c.bank THEN Timing.tRCDWR ELSE w.write
        /\ x.act = IF b = c.bank THEN Timing.tRC ELSE Later(w.act, ActivateGap(b, c.bank))
        /\ x.pre = IF b = c.bank THEN Timing.tRAS ELSE w.pre
    BY <1>1, <1>9, RankBankFields
  <2>4. /\ Timing.tRCDRD <= Less(Later(k.read, Timing.tRCDRD)) + 1
        /\ Timing.tRCDWR <= Less(Later(k.write, Timing.tRCDWR)) + 1
        /\ Timing.tRC <= Less(Later(k.act, Timing.tRC)) + 1
        /\ Timing.tRAS <= Less(Later(k.pre, Timing.tRAS)) + 1
        /\ Later(Less(m.act), ActivateGap(b, c.bank)) <= Less(Later(k.act, ActivateGap(b, c.bank))) + 1
    BY <1>5, <1>6, <1>12, StillBehind, TimingTypes
  <2> HIDE DEF x
  <2>5. x.read <= y.read + 1 /\ x.write <= y.write + 1 /\ x.act <= y.act + 1 /\ x.pre <= y.pre + 1
    BY <1>1, <1>4, <1>12, <2>2, <2>3, <2>4
  <2>6. CASE b = c.bank
    <3>1. k.settle = 0 BY <1>9, <1>13, <2>6
    <3>2. Behind(x, y) BY <1>1, <1>4, <2>2, <2>3, <2>5, <2>6, <3>1 DEF Behind
    <3> QED BY <3>2 DEF x, y, w, n
  <2>7. CASE b # c.bank
    <3>2. Behind(x, y) BY <1>1, <1>4, <1>13, <2>2, <2>3, <2>5, <2>7 DEF Behind
    <3> QED BY <3>2 DEF x, y, w, n
  <2> QED BY <2>6, <2>7
<1>10. CASE c.kind = "PRECHARGE"
  <2>1. n = ControllerPrecharge(k, c.rank, b, c) BY <1>10 DEF n, ControllerBank
  <2>2. /\ n.row = k.row /\ n.read = k.read /\ n.write = k.write /\ n.pre = k.pre
        /\ n.state = IF b = c.bank THEN "Precharging" ELSE k.state
        /\ n.settle = IF b = c.bank THEN Timing.tRP ELSE k.settle
        /\ n.act = IF b = c.bank THEN Later(k.act, Timing.tRP) ELSE k.act
    BY <1>2, <2>1, ControllerPrechargeFields
  <2>3. /\ x.state = IF b = c.bank THEN "Idle" ELSE w.state
        /\ x.row = w.row /\ x.read = w.read /\ x.write = w.write /\ x.pre = w.pre
        /\ x.act = IF b = c.bank THEN Later(w.act, Timing.tRP) ELSE w.act
    BY <1>1, <1>10, RankBankFields
  <2>4. Later(Less(m.act), Timing.tRP) <= Less(Later(k.act, Timing.tRP)) + 1
    BY <1>5, <1>12, StillBehind, TimingTypes
  <2> HIDE DEF x
  <2>5. x.read <= y.read + 1 /\ x.write <= y.write + 1 /\ x.act <= y.act + 1 /\ x.pre <= y.pre + 1
    BY <1>1, <1>4, <1>12, <2>2, <2>3, <2>4
  <2>6. Behind(x, y) BY <1>1, <1>4, <1>13, <2>2, <2>3, <2>5 DEF Behind
  <2> QED BY <2>6 DEF x, y, w, n
<1>11. CASE c.kind = "REF"
  <2>1. n = ControllerRefresh(k, c.rank, b, c) BY <1>11 DEF n, ControllerBank
  <2>2. /\ n.row = k.row /\ n.read = k.read /\ n.write = k.write /\ n.pre = k.pre
        /\ n.state = "Refreshing" /\ n.act = Timing.tRFC
    BY <1>2, <2>1, ControllerRefreshFields
  <2>3. /\ x.state = w.state /\ x.row = w.row /\ x.read = w.read /\ x.write = w.write
        /\ x.pre = w.pre /\ x.act = Timing.tRFC
    BY <1>1, <1>11, RankBankFields
  <2>4. Timing.tRFC <= Less(Timing.tRFC) + 1 BY TimingTypes DEF Less
  <2> HIDE DEF x
  <2>5. x.read <= y.read + 1 /\ x.write <= y.write + 1 /\ x.act <= y.act + 1 /\ x.pre <= y.pre + 1
    BY <1>1, <1>4, <1>12, <2>2, <2>3, <2>4
  <2>6. Behind(x, y) BY <1>1, <1>4, <1>11, <1>13, <2>2, <2>3, <2>5 DEF Behind
  <2> QED BY <2>6 DEF x, y, w, n
<1> QED BY <1>2, <1>7, <1>8, <1>9, <1>10, <1>11

\* A bank of another rank, or no command: the wait goes on.
LEMMA OtherRankBehind ==
  ASSUME NEW m \in Bank, NEW k \in Bank, Behind(m, k), NEW n \in Bank,
         n.state = k.state, n.row = k.row, n.settle = k.settle,
         n.read >= k.read, n.write >= k.write, n.act >= k.act, n.pre >= k.pre
  PROVE  Behind(Waited(m), Waited(n))
BY WaitedFields, BankFields DEF Behind, Less

\* A command changes at most the column timers of the other ranks' banks, and only upwards.
LEMMA OtherRankUntouched ==
  ASSUME NEW k \in Bank, NEW r \in Ranks, NEW b \in Banks, NEW c \in Command, r # c.rank
  PROVE  LET n == ControllerBank(k, r, b, c)
         IN  /\ n \in Bank /\ n.state = k.state /\ n.row = k.row /\ n.settle = k.settle
             /\ n.read >= k.read /\ n.write >= k.write /\ n.act >= k.act /\ n.pre >= k.pre
<1> DEFINE n == ControllerBank(k, r, b, c)
<1>1. c.kind \in {"READ", "WRITE", "REF", "ACTIVATE", "PRECHARGE"} BY CommandFields
<1>2. n \in Bank /\ k.read \in Nat /\ k.write \in Nat /\ k.act \in Nat /\ k.pre \in Nat
  BY ControllerBankType, BankFields
<1>3. CASE c.kind = "READ"
  <2>1. n = ControllerRead(k, r, b, c) BY <1>3 DEF ControllerBank
  <2> QED BY <1>2, <2>1, ControllerReadFields
<1>4. CASE c.kind = "WRITE"
  <2>1. n = ControllerWrite(k, r, b, c) BY <1>4 DEF ControllerBank
  <2> QED BY <1>2, <2>1, ControllerWriteFields
<1>5. CASE c.kind \in {"ACTIVATE", "PRECHARGE", "REF"}
  <2>1. n = k
    BY <1>5 DEF ControllerBank, ControllerActivate, ControllerPrecharge, ControllerRefresh
  <2> QED BY <1>2, <2>1
<1> QED BY <1>1, <1>3, <1>4, <1>5

-----------------------------------------------------------------------------
(* The books through an update                                             *)

RankBanks(ranks) == \A r \in Ranks : ranks[r].banks \in [Banks -> Bank]

\* The controller's banks settle, and the command on the bus arrives.
LEMMA BooksArrive ==
  ASSUME NEW books \in [Ranks -> [Banks -> Bank]], NEW ranks, RankBanks(ranks),
         NEW c \in Command \cup {None}, BooksAgree(books, ranks, c),
         NEW ranks2, \A r \in Ranks : ranks2[r].banks = Arrived(ranks[r].banks, r, c)
  PROVE  LET books2 == [r \in Ranks |-> [b \in Banks |-> Settled(books[r][b])]]
         IN  /\ books2 \in [Ranks -> [Banks -> Bank]] /\ RankBanks(ranks2)
             /\ BooksAgree(books2, ranks2, None)
<1> DEFINE books2 == [r \in Ranks |-> [b \in Banks |-> Settled(books[r][b])]]
<1>1. ASSUME NEW r \in Ranks, NEW b \in Banks
      PROVE  books[r][b] \in Bank /\ books2[r][b] = Settled(books[r][b]) /\ books2[r][b] \in Bank
  BY SettledType
<1>2. books2 \in [Ranks -> [Banks -> Bank]] BY <1>1
<1>3. ASSUME NEW r \in Ranks
      PROVE  ranks2[r].banks \in [Banks -> Bank]
  <2>1. CASE c # None /\ c.rank = r
    <3>1. ranks2[r].banks = [b \in Banks |-> RankBank(ranks[r].banks[b], b, c)]
      BY <2>1 DEF Arrived, RankAfter
    <3>2. \A b \in Banks : RankBank(ranks[r].banks[b], b, c) \in Bank
      <4> TAKE b \in Banks
      <4>1. ranks[r].banks[b] \in Bank /\ c \in Command BY <2>1 DEF RankBanks
      <4> QED BY <4>1, RankBankFields
    <3> QED BY <3>1, <3>2
  <2>2. CASE ~(c # None /\ c.rank = r) BY <2>2 DEF Arrived, RankBanks
  <2> QED BY <2>1, <2>2
<1>4. ASSUME NEW r \in Ranks, NEW b \in Banks
      PROVE  Behind(ranks2[r].banks[b], books2[r][b])
  <2>1. Behind(ranks2[r].banks[b], books[r][b]) BY DEF BooksAgree
  <2>2. ranks2[r].banks[b] \in Bank BY <1>3
  <2> QED BY <1>1, <2>1, <2>2, SettledBehind
<1> HIDE DEF books2
<1>5. BooksAgree(books2, ranks2, None) BY <1>4 DEF BooksAgree, Arrived
<1> QED BY <1>2, <1>3, <1>5 DEF books2, RankBanks

\* A command the controller allows is issued, and a cycle goes by: the rank will accept it.
\* The banks of the ranks a cycle on.
RanksWait(ranks, ranks2) ==
  \A r \in Ranks : ranks2[r].banks = [b \in Banks |-> Waited(ranks[r].banks[b])]

\* Issuing a command the books allow keeps them no earlier than the ranks, a command on the bus
\* counted in.
LEMMA BooksIssue ==
  ASSUME NEW books \in [Ranks -> [Banks -> Bank]], NEW ranks, RankBanks(ranks),
         BooksAgree(books, ranks, None), NEW c \in Command, Allowed(books, c),
         NEW ranks2, RanksWait(ranks, ranks2)
  PROVE  LET books2 == [r \in Ranks |-> [b \in Banks |-> Waited(ControllerAfter(books, c)[r][b])]]
         IN  /\ ControllerAfter(books, c) \in [Ranks -> [Banks -> Bank]]
             /\ books2 \in [Ranks -> [Banks -> Bank]] /\ RankBanks(ranks2)
             /\ BooksAgree(books2, ranks2, c)
<1> USE DEF RanksWait
<1> DEFINE books1 == ControllerAfter(books, c)
           books2 == [r \in Ranks |-> [b \in Banks |-> Waited(books1[r][b])]]
<1>1. \A r \in Ranks, b \in Banks : books1[r][b] = ControllerBank(books[r][b], r, b, c)
  BY DEF ControllerAfter
<1>2. books1 \in [Ranks -> [Banks -> Bank]]
  <2>1. \A r \in Ranks, b \in Banks : ControllerBank(books[r][b], r, b, c) \in Bank
    BY ControllerBankType
  <2> QED BY <2>1 DEF ControllerAfter
<1> HIDE DEF books1
<1>3. \A r \in Ranks, b \in Banks : books2[r][b] = Waited(books1[r][b]) /\ books2[r][b] \in Bank
  BY <1>2, WaitedFields
<1>4. books2 \in [Ranks -> [Banks -> Bank]] BY <1>3
<1>5. \A r \in Ranks, b \in Banks :
        /\ ranks[r].banks[b] \in Bank /\ Behind(ranks[r].banks[b], books[r][b])
        /\ ranks2[r].banks[b] = Waited(ranks[r].banks[b]) /\ ranks2[r].banks[b] \in Bank
  <2> TAKE r \in Ranks, b \in Banks
  <2>1. ranks[r].banks[b] \in Bank BY DEF RankBanks
  <2>2. Behind(ranks[r].banks[b], books[r][b]) BY DEF BooksAgree, Arrived
  <2>3. ranks2[r].banks[b] = Waited(ranks[r].banks[b]) OBVIOUS
  <2>4. Waited(ranks[r].banks[b]) \in Bank BY <2>1, WaitedFields
  <2> QED BY <2>1, <2>2, <2>3, <2>4
<1>6. RankBanks(ranks2) BY <1>5, WaitedFields DEF RankBanks
<1>7. /\ c # None /\ c.rank \in Ranks /\ c.bank \in Banks
      /\ c.kind \in {"READ", "WRITE", "REF", "ACTIVATE", "PRECHARGE"}
  BY CommandFields
<1> HIDE DEF books2
<1>8. ASSUME NEW r \in Ranks, NEW b \in Banks
      PROVE  Behind(Arrived(ranks2[r].banks, r, c)[b], books2[r][b])
  <2> DEFINE m == ranks[r].banks[b]
             k == books[r][b]
  <2>1. m \in Bank /\ k \in Bank /\ Behind(m, k) BY <1>5
  <2>2. books2[r][b] = Waited(ControllerBank(k, r, b, c)) BY <1>1, <1>3
  <2>3. CASE r = c.rank
    <3>1. Arrived(ranks2[r].banks, r, c)[b] = RankBank(Waited(m), b, c)
      BY <1>5, <1>7, <2>3 DEF Arrived, RankAfter
    <3>2. c.kind = "REF" => k.state # "RowActive" BY <2>3 DEF Allowed
    <3>3. c.kind = "ACTIVATE" /\ b = c.bank => k.state = "Idle" BY <2>3 DEF Allowed
    <3> HIDE DEF m, k
    <3> QED BY <2>1, <2>2, <2>3, <3>1, <3>2, <3>3, OwnRankBehind
  <2>4. CASE r # c.rank
    <3>1. Arrived(ranks2[r].banks, r, c)[b] = Waited(m) BY <1>5, <1>7, <2>4 DEF Arrived
    <3> HIDE DEF m, k
    <3>2. LET n == ControllerBank(k, r, b, c)
          IN  /\ n \in Bank /\ n.state = k.state /\ n.row = k.row /\ n.settle = k.settle
              /\ n.read >= k.read /\ n.write >= k.write /\ n.act >= k.act /\ n.pre >= k.pre
      BY <2>1, <2>4, OtherRankUntouched
    <3> QED BY <2>1, <2>2, <3>1, <3>2, OtherRankBehind
  <2> QED BY <2>3, <2>4
<1>9. RankAccepts(ranks2[c.rank].banks, c)
  <2> DEFINE m(b) == ranks[c.rank].banks[b]
             k(b) == books[c.rank][b]
             w(b) == ranks2[c.rank].banks[b]
  <2>1. \A b \in Banks : /\ Behind(m(b), k(b)) /\ k(b) \in Bank /\ m(b) \in Bank
                         /\ w(b).state = m(b).state /\ w(b).row = m(b).row
                         /\ w(b).read = Less(m(b).read) /\ w(b).write = Less(m(b).write)
                         /\ w(b).act = Less(m(b).act) /\ w(b).pre = Less(m(b).pre)
    BY <1>5, <1>7, WaitedFields
  <2>2. Allowed(books, c) OBVIOUS
  <2> DEFINE b0 == c.bank
             m0 == m(b0)
             k0 == k(b0)
             w0 == w(b0)
  <2>3. /\ Behind(m0, k0) /\ w0.state = m0.state /\ w0.row = m0.row
        /\ w0.read = Less(m0.read) /\ w0.write = Less(m0.write)
        /\ w0.act = Less(m0.act) /\ w0.pre = Less(m0.pre)
        /\ m0.read \in Nat /\ m0.write \in Nat /\ m0.act \in Nat /\ m0.pre \in Nat
    BY <1>7, <2>1, BankFields
  <2>4. CASE c.kind = "REF"
    <3>1. \A b \in Banks : k(b).state # "RowActive" BY <2>4 DEF Allowed
    <3>2. \A b \in Banks : w(b).state = "Idle" BY <2>1, <3>1 DEF Behind
    <3> QED BY <2>4, <3>2 DEF RankAccepts
  <2>5. CASE c.kind = "READ"
    <3>1. k0.state = "RowActive" /\ k0.row = c.row /\ k0.read = 0 BY <2>5 DEF Allowed
    <3> HIDE DEF m0, k0
    <3>2. w0.state = "RowActive" /\ w0.row = c.row /\ w0.read = 0 BY <2>3, <3>1 DEF Behind, Less
    <3> QED BY <2>5, <3>2 DEF RankAccepts
  <2>6. CASE c.kind = "WRITE"
    <3>1. k0.state = "RowActive" /\ k0.row = c.row /\ k0.write = 0 BY <2>6 DEF Allowed
    <3> HIDE DEF m0, k0
    <3>2. w0.state = "RowActive" /\ w0.row = c.row /\ w0.write = 0
      BY <2>3, <3>1 DEF Behind, Less
    <3> QED BY <2>6, <3>2 DEF RankAccepts
  <2>7. CASE c.kind = "ACTIVATE"
    <3>1. k0.state = "Idle" /\ k0.act = 0 BY <2>7 DEF Allowed
    <3> HIDE DEF m0, k0
    <3>2. w0.state = "Idle" /\ w0.act = 0 BY <2>3, <3>1 DEF Behind, Less
    <3> QED BY <2>7, <3>2 DEF RankAccepts
  <2>8. CASE c.kind = "PRECHARGE"
    <3>1. k0.state = "RowActive" /\ k0.pre = 0 BY <2>8 DEF Allowed
    <3> HIDE DEF m0, k0
    <3>2. w0.state = "RowActive" /\ w0.pre = 0 BY <2>3, <3>1 DEF Behind, Less
    <3> QED BY <2>8, <3>2 DEF RankAccepts
  <2> QED BY <1>7, <2>4, <2>5, <2>6, <2>7, <2>8
<1>10. BooksAgree(books2, ranks2, c) BY <1>8, <1>9 DEF BooksAgree
<1> QED BY <1>2, <1>4, <1>6, <1>10 DEF books1, books2

\* Nothing is issued, and a cycle goes by.
LEMMA BooksWait ==
  ASSUME NEW books \in [Ranks -> [Banks -> Bank]], NEW ranks, RankBanks(ranks),
         BooksAgree(books, ranks, None),
         NEW ranks2, RanksWait(ranks, ranks2)
  PROVE  LET books2 == [r \in Ranks |-> [b \in Banks |-> Waited(books[r][b])]]
         IN  /\ books2 \in [Ranks -> [Banks -> Bank]] /\ RankBanks(ranks2)
             /\ BooksAgree(books2, ranks2, None)
<1> USE DEF RanksWait
<1> DEFINE books2 == [r \in Ranks |-> [b \in Banks |-> Waited(books[r][b])]]
<1>1. ASSUME NEW r \in Ranks, NEW b \in Banks
      PROVE  /\ books2[r][b] \in Bank /\ ranks2[r].banks[b] \in Bank
             /\ Behind(ranks2[r].banks[b], books2[r][b])
  <2>1. books[r][b] \in Bank /\ ranks[r].banks[b] \in Bank BY DEF RankBanks
  <2>2. Behind(ranks[r].banks[b], books[r][b]) BY DEF BooksAgree, Arrived
  <2>3. books2[r][b] = Waited(books[r][b]) /\ ranks2[r].banks[b] = Waited(ranks[r].banks[b])
    OBVIOUS
  <2>4. books[r][b].read \in Nat /\ books[r][b].write \in Nat /\ books[r][b].act \in Nat
        /\ books[r][b].pre \in Nat
    BY <2>1, BankFields
  <2>5. Behind(Waited(ranks[r].banks[b]), Waited(books[r][b]))
    BY <2>1, <2>2, <2>4, OtherRankBehind
  <2> QED BY <2>1, <2>3, <2>5, WaitedFields
<1>2. books2 \in [Ranks -> [Banks -> Bank]] BY <1>1
<1>3. \A r \in Ranks : ranks2[r].banks \in [Banks -> Bank] BY <1>1
<1> HIDE DEF books2
<1>4. BooksAgree(books2, ranks2, None) BY <1>1 DEF BooksAgree, Arrived
<1> QED BY <1>2, <1>3, <1>4 DEF RankBanks, books2

-----------------------------------------------------------------------------
(* The bursts that end, and the types through an update                    *)

\* Numbers below n can be listed in ascending order.
LEMMA AscendingExists ==
  ASSUME NEW N \in Nat, NEW S \in SUBSET (0 .. N - 1)
  PROVE  /\ Cardinality(S) \in Nat
         /\ \E q \in [1 .. Cardinality(S) -> S] :
              \A i, j \in 1 .. Cardinality(S) : i < j => q[i] < q[j]
<1> DEFINE Below(n) == S \cap (0 .. n - 1)
           Listed(n) == /\ IsFiniteSet(Below(n))
                        /\ \E q \in [1 .. Cardinality(Below(n)) -> Below(n)] :
                             \A i, j \in 1 .. Cardinality(Below(n)) : i < j => q[i] < q[j]
           Bad == {n \in 0 .. N : ~Listed(n)}
<1>4. Bad \in SUBSET Nat /\ \A n \in 0 .. N : n \in Bad <=> ~Listed(n)
  <2> HIDE DEF Listed
  <2> QED OBVIOUS
<1>5. Bad \subseteq 0 .. N OBVIOUS
<1> HIDE DEF Bad
<1>1. ASSUME Bad # {} PROVE FALSE
  <2> DEFINE n == Least(Bad)
  <2>1. n \in Bad /\ \A m \in Bad : n <= m BY <1>1, <1>4, LeastExists
  <2> HIDE DEF n
  <2>2. n \in 0 .. N /\ ~Listed(n) BY <1>4, <1>5, <2>1
  <2>3. CASE n = 0
    <3>1. Below(0) = {} OBVIOUS
    <3>2. IsFiniteSet({}) /\ Cardinality({}) = 0 BY FS_EmptySet
    <3>3. \E q \in [1 .. 0 -> {}] : \A i, j \in 1 .. 0 : i < j => q[i] < q[j]
      <4>1. 1 .. 0 = {} OBVIOUS
      <4>2. [x \in {} |-> x] \in [{} -> {}] OBVIOUS
      <4> QED BY <4>1, <4>2
    <3>4. Listed(0) BY <3>1, <3>2, <3>3
    <3> QED BY <2>2, <2>3, <3>4
  <2>4. CASE n # 0
    <3> DEFINE m == n - 1
               B == Below(m)
               k == Cardinality(B)
    <3>1. m \in 0 .. N /\ m \notin Bad /\ n = m + 1
      <4>1. m \in 0 .. N /\ n = m + 1 /\ m \in Nat /\ n \in Nat BY <2>2, <2>4
      <4>2. ~(n <= m) BY <4>1
      <4> QED BY <2>1, <4>1, <4>2
    <3>2. Listed(m) BY <1>4, <3>1
    <3>3. IsFiniteSet(B) /\ k \in Nat BY <3>2, FS_CardinalityType
    <3>4. PICK q \in [1 .. k -> B] : \A i, j \in 1 .. k : i < j => q[i] < q[j] BY <3>2
    <3>5. CASE m \in S
      <4>1. Below(n) = B \cup {m} /\ m \notin B BY <3>1, <3>5
      <4>2. IsFiniteSet(Below(n)) /\ Cardinality(Below(n)) = k + 1
        <5>1. IsFiniteSet(B \cup {m}) /\ Cardinality(B \cup {m}) = Cardinality(B) + 1
          BY <3>3, <4>1, FS_AddElement, Zenon
        <5> QED BY <4>1, <5>1
      <4> DEFINE p == [i \in 1 .. k + 1 |-> IF i = k + 1 THEN m ELSE q[i]]
      <4>3. \A i \in 1 .. k : q[i] \in 0 .. m - 1 /\ q[i] \in B BY <3>4
      <4>4. p \in [1 .. k + 1 -> Below(n)]
        <5>1. \A i \in 1 .. k + 1 : (IF i = k + 1 THEN m ELSE q[i]) \in Below(n)
          <6> TAKE i \in 1 .. k + 1
          <6>1. i = k + 1 \/ i \in 1 .. k BY <3>3
          <6>2. m \in Below(n) /\ B \subseteq Below(n) BY <4>1
          <6> HIDE DEF Below, B
          <6> QED BY <4>3, <6>1, <6>2
        <5> HIDE DEF Below
        <5> QED BY <5>1
      <4>5. \A i, j \in 1 .. k + 1 : i < j => p[i] < p[j]
        <5> SUFFICES ASSUME NEW i \in 1 .. k + 1, NEW j \in 1 .. k + 1, i < j
                     PROVE  p[i] < p[j]
          OBVIOUS
        <5>1. i \in 1 .. k /\ p[i] = q[i] BY <3>3
        <5>2. CASE j = k + 1
          <6>1. q[i] \in 0 .. m - 1 /\ m \in Nat
            <7>1. m \in Nat BY <3>1
            <7> HIDE DEF m, B, k, Below
            <7> QED BY <4>3, <5>1, <7>1
          <6>2. q[i] < m BY <6>1
          <6>3. p[j] = m BY <5>2
          <6> QED BY <5>1, <6>2, <6>3
        <5>3. CASE j # k + 1
          <6>1. j \in 1 .. k /\ p[j] = q[j] BY <3>3, <5>3
          <6> QED BY <3>4, <5>1, <6>1
        <5> QED BY <5>2, <5>3
      <4> HIDE DEF p
      <4>6. \E f \in [1 .. k + 1 -> Below(n)] : \A i, j \in 1 .. k + 1 : i < j => f[i] < f[j]
        BY <4>4, <4>5
      <4> QED BY <2>2, <4>2, <4>6
    <3>6. CASE m \notin S
      <4>1. Below(n) = B BY <3>1, <3>6
      <4> QED BY <2>2, <3>2, <4>1
    <3> QED BY <3>5, <3>6
  <2> QED BY <2>3, <2>4
<1>2. Listed(N)
  <2>1. Bad = {} /\ N \in 0 .. N BY <1>1
  <2> QED BY <1>4, <2>1
<1>3. Below(N) = S OBVIOUS
<1> QED BY <1>2, <1>3, FS_CardinalityType

\* Ascending lists the set: every member once.
LEMMA AscendingLists ==
  ASSUME NEW N \in Nat, NEW S \in SUBSET (0 .. N - 1)
  PROVE  LET n == Cardinality(S)
             q == Ascending(S)
         IN  /\ n \in Nat /\ q \in [1 .. n -> S]
             /\ \A i, j \in 1 .. n : i # j => q[i] # q[j]
             /\ \A r \in S : \E i \in 1 .. n : q[i] = r
<1> DEFINE n == Cardinality(S)
           q == Ascending(S)
<1>1. n \in Nat /\ \E f \in [1 .. n -> S] : \A i, j \in 1 .. n : i < j => f[i] < f[j]
  BY AscendingExists
<1>2. q \in [1 .. n -> S] /\ \A i, j \in 1 .. n : i < j => q[i] < q[j]
  BY <1>1, Zenon DEF Ascending
<1> HIDE DEF q
<1>3. \A i, j \in 1 .. n : i # j => q[i] # q[j]
  <2> SUFFICES ASSUME NEW i \in 1 .. n, NEW j \in 1 .. n, i # j
               PROVE  q[i] # q[j]
    OBVIOUS
  <2>1. q[i] \in S /\ q[j] \in S BY <1>2
  <2>2. q[i] \in 0 .. N - 1 /\ q[j] \in 0 .. N - 1 BY <2>1
  <2>3. i < j \/ j < i BY <1>1
  <2> QED BY <1>2, <2>2, <2>3
<1>4. \A r \in S : \E i \in 1 .. n : q[i] = r
  <2>1. IsFiniteSet(0 .. N - 1) BY FS_Interval
  <2>2. IsFiniteSet(S) BY <2>1, FS_Subset
  <2>3. q \in Injection(1 .. n, S)
    <3>1. \A i, j \in 1 .. n : q[i] = q[j] => i = j BY <1>3
    <3> HIDE DEF n
    <3> QED BY <1>2, <3>1 DEF Injection, IsInjective
  <2>4. Cardinality(1 .. n) = n BY <1>1, FS_Interval
  <2>5. q \in Surjection(1 .. n, S) BY <2>2, <2>3, <2>4, FS_Injection
  <2> QED BY <2>5 DEF Surjection
<1> QED BY <1>1, <1>2, <1>3, <1>4 DEF q

\* The reads that return: one of every rank whose burst ends.
\* Each rank whose burst ends gives one entry of v.
EachOnce(v, s) == \E order \in [DOMAIN v -> Ending(s)] :
                    /\ \A i \in DOMAIN v : v[i] = s.ranks[order[i]].out.read
                    /\ \A i, j \in DOMAIN v : i # j => order[i] # order[j]

\* The bursts returned in a cycle are those of the ranks whose burst ends, each once.
LEMMA ReturningLists ==
  ASSUME NEW s, s.ranks \in [Ranks -> RankState]
  PROVE  LET v == Returning(s)
         IN  /\ v \in Seq(Returned)
             /\ \A i \in DOMAIN v : \E r \in Ending(s) : v[i] = s.ranks[r].out.read
             /\ \A r \in Ending(s) : \E i \in DOMAIN v : v[i] = s.ranks[r].out.read
             /\ EachOnce(v, s)
<1> DEFINE n == Cardinality(Ending(s))
           order == Ascending(Ending(s))
           v == Returning(s)
<1>1. NumRanks \in Nat /\ Ending(s) \in SUBSET (0 .. NumRanks - 1)
  BY ConstantTypes DEF Ending, Ranks
<1>2. /\ n \in Nat /\ order \in [1 .. n -> Ending(s)]
      /\ \A i, j \in 1 .. n : i # j => order[i] # order[j]
      /\ \A r \in Ending(s) : \E i \in 1 .. n : order[i] = r
  BY <1>1, AscendingLists
<1>3. v = [i \in 1 .. n |-> s.ranks[order[i]].out.read] BY DEF Returning
<1>4. \A r \in Ending(s) : r \in Ranks /\ s.ranks[r].out.read \in Returned
  <2> TAKE r \in Ending(s)
  <2>1. r \in Ranks /\ s.ranks[r].out # None BY DEF Ending, BurstEnds
  <2>2. s.ranks[r].out \in Burst BY <2>1 DEF RankState
  <2> QED BY <2>1, <2>2 DEF Burst
<1> HIDE DEF n, order, v
<1>5. v \in [1 .. n -> Returned] BY <1>2, <1>3, <1>4
<1>6. v \in Seq(Returned) /\ DOMAIN v = 1 .. n BY <1>2, <1>5, SeqDef
<1>7. EachOnce(v, s) BY <1>2, <1>3, <1>6 DEF EachOnce
<1> QED BY <1>2, <1>3, <1>6, <1>7 DEF v

\* A cycle counts the delays of a rank's reads down and keeps the reads.
LEMMA BurstsAged ==
  ASSUME NEW q \in Seq(Burst)
  PROVE  /\ Aged(q) \in Seq(Burst) /\ Len(Aged(q)) = Len(q) /\ DOMAIN Aged(q) = DOMAIN q
         /\ \A i \in DOMAIN q : /\ q[i] \in Burst /\ Aged(q)[i] \in Burst
                                /\ Aged(q)[i].read = q[i].read /\ Aged(q)[i].left = q[i].left - 1
<1>1. \A i \in DOMAIN q : q[i] \in Burst OBVIOUS
<1>2. \A x \in Burst : Goes(x) \in Burst /\ Goes(x).read = x.read /\ Goes(x).left = x.left - 1
  BY DEF Burst, Goes
<1>3. Aged(q) = [i \in 1 .. Len(q) |-> Goes(q[i])] /\ Len(q) \in Nat /\ DOMAIN q = 1 .. Len(q)
  BY DEF Aged
<1>4. Aged(q) \in [1 .. Len(q) -> Burst] BY <1>1, <1>2, <1>3
<1>5. Aged(q) \in Seq(Burst) BY <1>3, <1>4, SeqDef
<1> QED BY <1>1, <1>2, <1>3, <1>5

\* A cycle counts the delays of the write data down and keeps the data.
LEMMA WritesAged ==
  ASSUME NEW q \in Seq(WriteData)
  PROVE  /\ Aged(q) \in Seq(WriteData) /\ Len(Aged(q)) = Len(q) /\ DOMAIN Aged(q) = DOMAIN q
         /\ \A i \in DOMAIN q : /\ q[i] \in WriteData /\ Aged(q)[i] \in WriteData
                                /\ Aged(q)[i].id = q[i].id /\ Aged(q)[i].rank = q[i].rank
                                /\ Aged(q)[i].value = q[i].value /\ Aged(q)[i].left = q[i].left - 1
<1>1. \A i \in DOMAIN q : q[i] \in WriteData OBVIOUS
<1>2. \A x \in WriteData : /\ Goes(x) \in WriteData /\ Goes(x).id = x.id /\ Goes(x).rank = x.rank
                           /\ Goes(x).value = x.value /\ Goes(x).left = x.left - 1
  BY DEF WriteData, Goes
<1>3. Aged(q) = [i \in 1 .. Len(q) |-> Goes(q[i])] /\ Len(q) \in Nat /\ DOMAIN q = 1 .. Len(q)
  BY DEF Aged
<1>4. Aged(q) \in [1 .. Len(q) -> WriteData] BY <1>1, <1>2, <1>3
<1>5. Aged(q) \in Seq(WriteData) BY <1>3, <1>4, SeqDef
<1> QED BY <1>1, <1>2, <1>3, <1>5

\* A rank k whose reads are all of rank r.
OfRank(k, r) == /\ \A i \in DOMAIN k.reads : k.reads[i].read.place.rank = r
                /\ k.out # None => k.out.read.place.rank = r

\* A rank a cycle on.  Its reads are those of before, but for the one whose burst starts.
LEMMA UpdateRankFields ==
  ASSUME NEW k \in RankState
  PROVE  LET t == UpdateRank(k)
             a == Aged(k.reads)
         IN  /\ t \in RankState /\ t.banks = k.banks
             /\ t.reads = IF BurstStarts(k) THEN Tail(a) ELSE a
             /\ BurstStarts(k) => t.out = [read |-> Head(k.reads).read, left |-> Timing.BL2]
             /\ ~BurstStarts(k) => t.out = IF k.out = None \/ BurstEnds(k) THEN None ELSE Goes(k.out)
             /\ \A r \in Ranks : OfRank(k, r) => OfRank(t, r)
<1> DEFINE a == Aged(k.reads)
           t == UpdateRank(k)
<1>1. /\ k.reads \in Seq(Burst) /\ k.out \in Burst \cup {None} /\ k.banks \in [Banks -> Bank]
      /\ DOMAIN k = {"banks", "reads", "out"}
  BY DEF RankState
<1>2. /\ a \in Seq(Burst) /\ Len(a) = Len(k.reads) /\ DOMAIN a = DOMAIN k.reads
      /\ \A i \in DOMAIN k.reads : k.reads[i] \in Burst /\ a[i] \in Burst /\ a[i].read = k.reads[i].read
  BY <1>1, BurstsAged
<1>3. \A x \in Burst : Goes(x) \in Burst /\ Goes(x).read = x.read BY DEF Burst, Goes
<1> DEFINE reads == IF BurstStarts(k) THEN Tail(a) ELSE a
           out == IF BurstStarts(k) THEN [read |-> Head(k.reads).read, left |-> Timing.BL2]
                  ELSE IF k.out = None \/ BurstEnds(k) THEN None ELSE Goes(k.out)
<1>4. t = [k EXCEPT !.reads = reads, !.out = out] BY DEF UpdateRank
<1>5. BurstStarts(k) => k.reads # <<>> /\ a # <<>> /\ Head(k.reads) = k.reads[1] /\ 1 \in DOMAIN k.reads
  BY <1>1, <1>2 DEF BurstStarts
<1> HIDE DEF a
<1>6. reads \in Seq(Burst) BY <1>2, <1>5
<1>7. out \in Burst \cup {None}
  <2>1. CASE BurstStarts(k)
    <3>1. Head(k.reads).read \in Returned BY <1>2, <1>5, <2>1 DEF Burst
    <3> QED BY <2>1, <3>1, TimingTypes DEF Burst
  <2>2. CASE ~BurstStarts(k) BY <1>1, <1>3, <2>2
  <2> QED BY <2>1, <2>2
<1>8. ASSUME NEW r \in Ranks, OfRank(k, r)
      PROVE  /\ \A i \in DOMAIN reads : reads[i].read.place.rank = r
             /\ out # None => out.read.place.rank = r
  <2>1. CASE BurstStarts(k)
    <3>1. \A i \in DOMAIN Tail(a) : i + 1 \in DOMAIN a /\ Tail(a)[i] = a[i + 1]
      BY <1>2, <1>5, <2>1, TailMembers
    <3>2. \A i \in DOMAIN Tail(a) : Tail(a)[i].read.place.rank = r
      BY <1>2, <1>8, <3>1 DEF OfRank
    <3> QED BY <1>5, <1>8, <2>1, <3>2 DEF OfRank
  <2>2. CASE ~BurstStarts(k) BY <1>1, <1>2, <1>3, <1>8, <2>2 DEF OfRank
  <2> QED BY <2>1, <2>2
<1> HIDE DEF reads, out
<1>9. t.reads = reads /\ t.out = out /\ t.banks = k.banks /\ t \in RankState
  BY <1>1, <1>4, <1>6, <1>7 DEF RankState
<1> HIDE DEF t
<1>10. \A r \in Ranks : OfRank(k, r) => OfRank(t, r) BY <1>8, <1>9 DEF OfRank
<1> QED BY <1>9, <1>10 DEF t, reads, out, a

\* Rank::update keeps the types.
LEMMA UpdateRanksTyped ==
  ASSUME NEW s, Typed(s)
  PROVE  Typed(UpdateRanks(s))
<1> DEFINE t == UpdateRanks(s)
<1>1. IsChannel(s) /\ QueuesTyped(s) /\ DataTyped(s) BY DEF Typed
<1>2. s.ranks \in [Ranks -> RankState] /\ s.returns \in Seq(Returned)
      /\ \A r \in Ranks : OfRank(s.ranks[r], r)
  BY <1>1 DEF DataTyped, OfRank
<1>3. /\ IsChannel(t)
      /\ t.returns = s.returns \o Returning(s)
      /\ t.ranks = [r \in Ranks |-> UpdateRank(s.ranks[r])]
      /\ t.held = s.held /\ t.transactions = s.transactions /\ t.onTheFly = s.onTheFly
      /\ t.queues = s.queues /\ t.banks = s.banks /\ t.waiting = s.waiting
      /\ t.nextRank = s.nextRank /\ t.nextPre = s.nextPre /\ t.command = s.command
      /\ t.data = s.data /\ t.writes = s.writes /\ t.reads = s.reads
      /\ t.store = s.store /\ t.fault = s.fault /\ t.replies = s.replies
  BY <1>1, UpdateRanksFields
<1> HIDE DEF t
<1>4. Returning(s) \in Seq(Returned) BY <1>2, ReturningLists
<1>5. t.returns \in Seq(Returned) BY <1>2, <1>3, <1>4
<1>6. \A r \in Ranks : UpdateRank(s.ranks[r]) \in RankState /\ OfRank(UpdateRank(s.ranks[r]), r)
  BY <1>2, UpdateRankFields
<1>7. t.ranks \in [Ranks -> RankState] /\ \A r \in Ranks : OfRank(t.ranks[r], r) BY <1>3, <1>6
<1>8. QueuesTyped(t) BY <1>1, <1>3 DEF QueuesTyped
<1>9. DataTyped(t) BY <1>1, <1>3, <1>5, <1>7 DEF DataTyped, OfRank
<1> QED BY <1>3, <1>8, <1>9 DEF t, Typed

\* Clearing the replies of the last cycle keeps the types.
LEMMA ClearedTyped ==
  ASSUME NEW s, Typed(s)
  PROVE  Typed([s EXCEPT !.replies = {}])
<1>1. IsChannel(s) /\ QueuesTyped(s) /\ DataTyped(s) BY DEF Typed
<1> DEFINE t == [s EXCEPT !.replies = {}]
<1>2. /\ IsChannel(t) /\ t.replies = {}
      /\ t.held = s.held /\ t.transactions = s.transactions /\ t.onTheFly = s.onTheFly
      /\ t.queues = s.queues /\ t.banks = s.banks /\ t.waiting = s.waiting
      /\ t.nextRank = s.nextRank /\ t.nextPre = s.nextPre /\ t.command = s.command
      /\ t.data = s.data /\ t.writes = s.writes /\ t.reads = s.reads /\ t.returns = s.returns
      /\ t.ranks = s.ranks /\ t.store = s.store /\ t.fault = s.fault
  BY <1>1, ClearedFields
<1> HIDE DEF t
<1>3. QueuesTyped(t) BY <1>1, <1>2 DEF QueuesTyped
<1>4. DataTyped(t) BY <1>1, <1>2 DEF DataTyped
<1> QED BY <1>2, <1>3, <1>4 DEF t, Typed

\* Moving a held transaction keeps the types, and the depth of the transaction queue.
LEMMA MoveHeldTyped ==
  ASSUME NEW s, Typed(s)
  PROVE  Typed(MoveHeld(s))
<1>1. IsChannel(s) /\ QueuesTyped(s) /\ DataTyped(s) BY DEF Typed
<1> DEFINE t == MoveHeld(s)
           moves == s.held # <<>> /\ Len(s.transactions) < TransQueueDepth
<1>2. /\ IsChannel(t)
      /\ t.held = IF moves THEN Tail(s.held) ELSE s.held
      /\ t.transactions = IF moves THEN Append(s.transactions, Head(s.held)) ELSE s.transactions
      /\ t.onTheFly = IF moves THEN s.onTheFly + 1 ELSE s.onTheFly
      /\ t.queues = s.queues /\ t.banks = s.banks /\ t.waiting = s.waiting
      /\ t.nextRank = s.nextRank /\ t.nextPre = s.nextPre /\ t.command = s.command
      /\ t.data = s.data /\ t.writes = s.writes /\ t.reads = s.reads /\ t.returns = s.returns
      /\ t.ranks = s.ranks /\ t.store = s.store /\ t.fault = s.fault /\ t.replies = s.replies
  BY <1>1, MoveHeldFields
<1> HIDE DEF t
<1>3. s.held \in Seq(Transaction) /\ s.transactions \in Seq(Transaction)
      /\ Len(s.transactions) <= TransQueueDepth
  BY <1>1 DEF QueuesTyped
<1>4. moves => Tail(s.held) \in Seq(Transaction) /\ Head(s.held) \in Transaction
  BY <1>3, TailMembers
<1>5. t.held \in Seq(Transaction) /\ t.transactions \in Seq(Transaction)
      /\ Len(t.transactions) <= TransQueueDepth
  BY <1>2, <1>3, <1>4, ConstantTypes
<1>6. QueuesTyped(t) BY <1>1, <1>2, <1>5 DEF QueuesTyped
<1>7. DataTyped(t) BY <1>1, <1>2 DEF DataTyped
<1> QED BY <1>2, <1>6, <1>7 DEF t, Typed

\* updateBankState keeps the types.
LEMMA UpdateBankStateTyped ==
  ASSUME NEW s, Typed(s)
  PROVE  Typed(UpdateBankState(s))
<1>1. IsChannel(s) /\ QueuesTyped(s) /\ DataTyped(s) BY DEF Typed
<1> DEFINE t == UpdateBankState(s)
<1>2. /\ IsChannel(t)
      /\ t.banks = [r \in Ranks |-> [b \in Banks |-> Settled(s.banks[r][b])]]
      /\ t.held = s.held /\ t.transactions = s.transactions /\ t.onTheFly = s.onTheFly
      /\ t.queues = s.queues /\ t.waiting = s.waiting
      /\ t.nextRank = s.nextRank /\ t.nextPre = s.nextPre /\ t.command = s.command
      /\ t.data = s.data /\ t.writes = s.writes /\ t.reads = s.reads /\ t.returns = s.returns
      /\ t.ranks = s.ranks /\ t.store = s.store /\ t.fault = s.fault /\ t.replies = s.replies
  BY <1>1, UpdateBankStateFields
<1> HIDE DEF t
<1>3. \A r \in Ranks, b \in Banks : Settled(s.banks[r][b]) \in Bank
  BY <1>1, SettledType DEF QueuesTyped
<1>4. t.banks \in [Ranks -> [Banks -> Bank]] BY <1>2, <1>3
<1>5. QueuesTyped(t) BY <1>1, <1>2, <1>4 DEF QueuesTyped
<1>6. DataTyped(t) BY <1>1, <1>2 DEF DataTyped
<1> QED BY <1>2, <1>5, <1>6 DEF t, Typed

-----------------------------------------------------------------------------
(* What is issued and what is taken                                        *)

\* t is s with the command c issued, which leaves the queues q.
Issued(s, t, c, q) ==
  /\ IsChannel(t) /\ t.command = c /\ t.queues = q /\ t.banks = ControllerAfter(s.banks, c)
  /\ t.writes = IF c.kind = "WRITE"
                THEN Append(s.writes, [id |-> c.id, rank |-> c.rank, value |-> c.value,
                                       left |-> Timing.WL])
                ELSE s.writes
  /\ t.waiting \in {s.waiting, None} /\ t.nextRank \in Ranks
  /\ t.nextPre \in 0 .. NumRanks * NumBanks - 1
  /\ t.held = s.held /\ t.transactions = s.transactions /\ t.onTheFly = s.onTheFly
  /\ t.data = s.data /\ t.reads = s.reads /\ t.returns = s.returns
  /\ t.ranks = s.ranks /\ t.store = s.store /\ t.fault = s.fault /\ t.replies = s.replies

IssuesBare(s, t) == \E c \in BareCommand : Allowed(s.banks, c) /\ Issued(s, t, c, s.queues)
IssuesColumn(s, t, r, i) ==
  /\ i \in DOMAIN s.queues[r] /\ Allowed(s.banks, s.queues[r][i])
  /\ i = 1 \/ ~s.queues[r][i].bar
  /\ ~Depends(s.queues[r], i)
  /\ Issued(s, t, s.queues[r][i], [s.queues EXCEPT ![r] = Without(s.queues[r], i)])
Issues(s, t) == \/ Popped(s, t, s.queues) \/ IssuesBare(s, t)
                \/ \E r \in Ranks, i \in Nat : IssuesColumn(s, t, r, i)

\* A popped command is issued from the queues that are left.
LEMMA IssuedFrom ==
  ASSUME NEW s, NEW x, NEW q, Popped(s, x, q), s.command = None, NEW c, c # None
  PROVE  Issued(s, IssueCommand([command |-> c, queue |-> x]), c, q)
<1> DEFINE t == IssueCommand([command |-> c, queue |-> x])
<1>1. IsChannel(x) /\ x.command = None BY DEF Popped
<1>2. /\ IsChannel(t)
      /\ t.command = c
      /\ t.banks = ControllerAfter(x.banks, c)
      /\ t.writes = IF c.kind = "WRITE"
                    THEN Append(x.writes, [id |-> c.id, rank |-> c.rank, value |-> c.value,
                                           left |-> Timing.WL])
                    ELSE x.writes
      /\ t.held = x.held /\ t.transactions = x.transactions /\ t.onTheFly = x.onTheFly
      /\ t.queues = x.queues /\ t.waiting = x.waiting
      /\ t.nextRank = x.nextRank /\ t.nextPre = x.nextPre
      /\ t.data = x.data /\ t.reads = x.reads /\ t.returns = x.returns
      /\ t.ranks = x.ranks /\ t.store = x.store /\ t.fault = x.fault /\ t.replies = x.replies
  BY <1>1, IssueCommandFields
<1> HIDE DEF t
<1>3. Issued(s, t, c, q) BY <1>2 DEF Issued, Popped
<1> QED BY <1>3 DEF t

\* Issuing what CommandQueue::pop gives is one of the steps Issues names.
LEMMA IssueGives ==
  ASSUME NEW s, IsChannel(s), QueuesTyped(s), s.command = None
  PROVE  Issues(s, IssueCommand(Pop(s)))
<1> DEFINE p == Pop(s)
           t == IssueCommand(p)
           x == p.queue
           c == p.command
<1>1. Pops(s, p) BY PopGives
<1>2. c # None => t = IssueCommand([command |-> c, queue |-> x]) BY DEF IssueCommand
<1>3. c = None => t = x BY DEF IssueCommand
<1> HIDE DEF p, t
<1>4. ASSUME PopsNothing(s, p) PROVE Issues(s, t)
  <2>1. Popped(s, t, s.queues) BY <1>3, <1>4 DEF PopsNothing
  <2> QED BY <2>1, Zenon DEF Issues
<1>5. ASSUME PopsBare(s, p) PROVE Issues(s, t)
  <2>1. c \in BareCommand /\ Allowed(s.banks, c) /\ Popped(s, x, s.queues) /\ c # None
    BY <1>5, NoneApart DEF PopsBare
  <2> HIDE DEF c, x
  <2>2. Issued(s, t, c, s.queues) BY <1>2, <2>1, IssuedFrom
  <2>3. IssuesBare(s, t) BY <2>1, <2>2, Zenon DEF IssuesBare
  <2> QED BY <2>3, Zenon DEF Issues
<1>6. ASSUME NEW r \in Ranks, NEW i \in Nat, PopsColumn(s, p, r, i)
      PROVE  Issues(s, t)
  <2>1. /\ i \in DOMAIN s.queues[r] /\ c = s.queues[r][i] /\ Allowed(s.banks, c)
        /\ i = 1 \/ ~s.queues[r][i].bar
        /\ ~Depends(s.queues[r], i)
        /\ Popped(s, x, [s.queues EXCEPT ![r] = Without(s.queues[r], i)])
    BY <1>6 DEF PopsColumn
  <2>2. c # None BY <2>1, NoneApart, QueueMembers
  <2> HIDE DEF c, x
  <2>3. Issued(s, t, c, [s.queues EXCEPT ![r] = Without(s.queues[r], i)])
    BY <1>2, <2>1, <2>2, IssuedFrom
  <2>4. IssuesColumn(s, t, r, i) BY <2>1, <2>3 DEF IssuesColumn
  <2> QED BY <2>4, Zenon DEF Issues
<1>7. Issues(s, t)
  <2>1. CASE \E r \in Ranks, i \in Nat : PopsColumn(s, p, r, i) BY <1>6, <2>1, Zenon
  <2> QED BY <1>1, <1>4, <1>5, <2>1, Zenon DEF Pops
<1> QED BY <1>7 DEF t, p

\* t is s with its i-th transaction moved to the queue of its rank, and, if it is a read,
\* known as pending.
Taken(s, t, i) ==
  LET x == s.transactions[i]
      r == x.place.rank
  IN  /\ i \in DOMAIN s.transactions /\ Len(s.queues[r]) < CmdQueueDepth
      /\ \A j \in DOMAIN s.transactions : j < i => s.transactions[j].place.rank # r
      /\ IsChannel(t) /\ t.transactions = Without(s.transactions, i)
      /\ t.queues = [s.queues EXCEPT ![r] = Append(s.queues[r], CommandOf(x))]
      /\ t.reads = IF x.write THEN s.reads
                   ELSE Append(s.reads, [id |-> x.id, token |-> x.token, place |-> x.place,
                                         value |-> Unwritten])
      /\ t.held = s.held /\ t.onTheFly = s.onTheFly /\ t.banks = s.banks /\ t.waiting = s.waiting
      /\ t.nextRank = s.nextRank /\ t.nextPre = s.nextPre /\ t.command = s.command
      /\ t.data = s.data /\ t.writes = s.writes /\ t.returns = s.returns
      /\ t.ranks = s.ranks /\ t.store = s.store /\ t.fault = s.fault /\ t.replies = s.replies

\* The command of a transaction.
LEMMA TransactionFields ==
  ASSUME NEW x \in Transaction
  PROVE  /\ x.id \in Ids /\ x.write \in BOOLEAN /\ x.token \in BOOLEAN /\ x.place \in Places
         /\ x.value \in Values /\ x.bar \in BOOLEAN /\ x.place.rank \in Ranks
         /\ LET c == CommandOf(x)
            IN  /\ c \in Located /\ c.rank = x.place.rank /\ PlaceOf(c) = x.place /\ c.id = x.id
                /\ c.token = x.token /\ c.value = x.value /\ c.bar = x.bar
                /\ c.kind = IF x.write THEN "WRITE" ELSE "READ"
<1>1. /\ x.id \in Ids /\ x.write \in BOOLEAN /\ x.token \in BOOLEAN /\ x.place \in Places
      /\ x.value \in Values /\ x.bar \in BOOLEAN
  BY DEF Transaction
<1>2. x.place \in [rank : Ranks, bank : Banks, row : Rows, column : Nat] BY <1>1, PlaceType
<1>3. /\ x.place.rank \in Ranks /\ x.place.bank \in Banks /\ x.place.row \in Rows
      /\ x.place.column \in Nat
      /\ x.place = [rank |-> x.place.rank, bank |-> x.place.bank, row |-> x.place.row,
                    column |-> x.place.column]
  BY <1>2
<1> DEFINE c == CommandOf(x)
<1>4. /\ c.rank = x.place.rank /\ c.bank = x.place.bank /\ c.row = x.place.row
      /\ c.column = x.place.column /\ c.id = x.id
      /\ c.token = x.token /\ c.value = x.value /\ c.bar = x.bar
      /\ c.kind = IF x.write THEN "WRITE" ELSE "READ"
  BY DEF CommandOf
<1>5. PlaceOf(c) = x.place
  <2> HIDE DEF c
  <2> QED BY <1>3, <1>4 DEF PlaceOf
<1>6. c \in ColumnCommand BY <1>1, <1>3 DEF CommandOf, ColumnCommand
<1> QED BY <1>1, <1>3, <1>4, <1>5, <1>6 DEF Located

\* updateTransactionQueue takes one transaction into the command queues, or changes nothing.
LEMMA TransactionTaken ==
  ASSUME NEW s, Typed(s), IdsOf(s.transactions) \cap IdsOf(s.reads) = {}
  PROVE  LET t == UpdateTransactionQueue(s)
         IN  t = s \/ \E i \in DOMAIN s.transactions : Taken(s, t, i)
<1>1. /\ IsChannel(s) /\ s.transactions \in Seq(Transaction) /\ s.queues \in [Ranks -> Seq(Located)]
  BY DEF Typed, QueuesTyped
<1> DEFINE fits == {i \in DOMAIN s.transactions : HasRoomFor(s, s.transactions[i].place.rank)}
           i == Least(fits)
           x == s.transactions[i]
           r == x.place.rank
           t == UpdateTransactionQueue(s)
<1>2. CASE fits = {} BY <1>2 DEF UpdateTransactionQueue
<1>3. CASE fits # {}
  <2>1. fits \in SUBSET Nat BY <1>1
  <2>2. i \in fits /\ \A j \in fits : i <= j
    <3> HIDE DEF fits
    <3> QED BY <1>3, <2>1, LeastExists
  <2>3. i \in DOMAIN s.transactions /\ HasRoomFor(s, r) /\ DOMAIN s.transactions \subseteq Nat
    BY <1>1, <2>2
  <2>4. \A j \in DOMAIN s.transactions : j < i => s.transactions[j].place.rank # r
    <3> SUFFICES ASSUME NEW j \in DOMAIN s.transactions, j < i, s.transactions[j].place.rank = r
                 PROVE  FALSE
      OBVIOUS
    <3>1. j \in fits BY <2>3
    <3>2. j \in Nat /\ i \in Nat BY <2>3
    <3> HIDE DEF fits, i
    <3> QED BY <2>2, <3>1, <3>2
  <2> HIDE DEF i
  <2>5. x \in Transaction BY <1>1, <2>3
  <2> DEFINE c == CommandOf(x)
             taken == Enqueue([s EXCEPT !.transactions = Without(@, i)], c)
             y == [s EXCEPT !.transactions = Without(@, i)]
  <2>6. t = IF x.write THEN taken ELSE AddPendingRead(taken, x)
    BY <1>3 DEF UpdateTransactionQueue, i
  <2> HIDE DEF t, x
  <2>7. c \in Located /\ c.rank = r /\ r \in Ranks BY <2>5, TransactionFields
  <2> HIDE DEF r, c
  <2>8. /\ IsChannel(y) /\ y.transactions = Without(s.transactions, i)
        /\ y.held = s.held /\ y.onTheFly = s.onTheFly /\ y.queues = s.queues
        /\ y.banks = s.banks /\ y.waiting = s.waiting
        /\ y.nextRank = s.nextRank /\ y.nextPre = s.nextPre /\ y.command = s.command
        /\ y.data = s.data /\ y.writes = s.writes /\ y.reads = s.reads /\ y.returns = s.returns
        /\ y.ranks = s.ranks /\ y.store = s.store /\ y.fault = s.fault /\ y.replies = s.replies
    BY <1>1 DEF IsChannel, Fields
  <2>9. taken = Enqueue(y, c) OBVIOUS
  <2> HIDE DEF y, taken
  <2>10. HasRoomFor(y, c.rank) BY <2>3, <2>7, <2>8 DEF HasRoomFor
  <2>11. /\ IsChannel(taken)
         /\ taken.queues = [y.queues EXCEPT ![c.rank] = Append(@, c)]
         /\ taken.held = y.held /\ taken.transactions = y.transactions /\ taken.onTheFly = y.onTheFly
         /\ taken.banks = y.banks /\ taken.waiting = y.waiting
         /\ taken.nextRank = y.nextRank /\ taken.nextPre = y.nextPre /\ taken.command = y.command
         /\ taken.data = y.data /\ taken.writes = y.writes /\ taken.reads = y.reads
         /\ taken.returns = y.returns /\ taken.ranks = y.ranks /\ taken.store = y.store
         /\ taken.fault = y.fault /\ taken.replies = y.replies
    <3>1. y.queues \in [Ranks -> Seq(Located)] /\ c.rank \in Ranks BY <1>1, <2>7, <2>8
    <3> QED BY ZenonT(60), <2>7, <2>8, <2>9, <2>10, <3>1, EnqueueFields
  <2>12. taken.queues = [s.queues EXCEPT ![r] = Append(s.queues[r], c)]
    BY <1>1, <2>7, <2>8, <2>11
  <2>13. Len(s.queues[r]) < CmdQueueDepth BY <2>3 DEF HasRoomFor
  <2>14. CASE x.write
    <3>1. Taken(s, t, i)
      BY <2>3, <2>4, <2>6, <2>8, <2>11, <2>12, <2>13, <2>14 DEF Taken, x, r, c
    <3> QED BY <2>3, <3>1 DEF t
  <2>15. CASE ~x.write
    <3>1. x.id \in IdsOf(s.transactions) BY <2>3 DEF IdsOf, x
    <3>2. \A j \in DOMAIN s.reads : s.reads[j].id # x.id BY <3>1 DEF IdsOf
    <3>3. ~(x.token /\ \E j \in DOMAIN taken.reads : taken.reads[j].token /\ taken.reads[j].id = x.id)
      BY <2>8, <2>11, <3>2
    <3>4. /\ IsChannel(t)
          /\ t.reads = Append(taken.reads, [id |-> x.id, token |-> x.token, place |-> x.place,
                                            value |-> Unwritten])
          /\ t.held = taken.held /\ t.transactions = taken.transactions
          /\ t.onTheFly = taken.onTheFly
          /\ t.queues = taken.queues /\ t.banks = taken.banks /\ t.waiting = taken.waiting
          /\ t.nextRank = taken.nextRank /\ t.nextPre = taken.nextPre /\ t.command = taken.command
          /\ t.data = taken.data /\ t.writes = taken.writes /\ t.returns = taken.returns
          /\ t.ranks = taken.ranks /\ t.store = taken.store /\ t.fault = taken.fault
          /\ t.replies = taken.replies
      BY <2>6, <2>11, <2>15, <3>3, AddPendingReadFields
    <3>5. /\ t.held = s.held /\ t.onTheFly = s.onTheFly /\ t.banks = s.banks /\ t.waiting = s.waiting
          /\ t.nextRank = s.nextRank /\ t.nextPre = s.nextPre /\ t.command = s.command
          /\ t.data = s.data /\ t.writes = s.writes /\ t.returns = s.returns
          /\ t.ranks = s.ranks /\ t.store = s.store /\ t.fault = s.fault /\ t.replies = s.replies
      BY <2>8, <2>11, <3>4
    <3>6. /\ t.transactions = Without(s.transactions, i)
          /\ t.queues = [s.queues EXCEPT ![r] = Append(s.queues[r], c)]
          /\ t.reads = Append(s.reads, [id |-> x.id, token |-> x.token, place |-> x.place,
                                        value |-> Unwritten])
      BY <2>8, <2>11, <2>12, <3>4
    <3>7. Taken(s, t, i) BY <2>3, <2>4, <2>13, <2>15, <3>4, <3>5, <3>6 DEF Taken, x, r, c
    <3> QED BY <2>3, <3>7 DEF t
  <2> QED BY <2>14, <2>15
<1> QED BY <1>2, <1>3

-----------------------------------------------------------------------------
(* Types, from the delivery of the command on                              *)

\* A column command.
LEMMA ColumnCommandFields ==
  ASSUME NEW c \in Command, c.kind \in {"READ", "WRITE"}
  PROVE  /\ c \in Located /\ c.id \in Ids /\ c.token \in BOOLEAN /\ c.value \in Values
         /\ c.bar \in BOOLEAN /\ c.rank \in Ranks /\ PlaceOf(c) \in Places /\ PlaceOf(c).rank = c.rank
         /\ BurstOf(c) \in Burst /\ BurstOf(c).read.place.rank = c.rank
         /\ BurstOf(c).read.id = c.id /\ BurstOf(c).left = Timing.RL
<1>1. c \in Located BY DEF Command, BareCommand
<1>2. /\ c.id \in Ids /\ c.token \in BOOLEAN /\ c.value \in Values
      /\ c.bar \in BOOLEAN /\ c.rank \in Ranks /\ PlaceOf(c) \in Places
  BY <1>1 DEF Located, ColumnCommand
<1>3. PlaceOf(c).rank = c.rank BY DEF PlaceOf
<1>4. Timing.RL \in Int BY TimingTypes
<1>5. BurstOf(c) \in Burst /\ BurstOf(c).read.place.rank = c.rank /\ BurstOf(c).read.id = c.id
      /\ BurstOf(c).left = Timing.RL
  <2> DEFINE p == PlaceOf(c)
  <2>1. p \in Places /\ p.rank = c.rank BY <1>2, <1>3
  <2> HIDE DEF p
  <2>2. BurstOf(c) = [read |-> [id |-> c.id, token |-> c.token, place |-> p], left |-> Timing.RL]
    BY DEF BurstOf, p
  <2> QED BY <1>2, <1>4, <2>1, <2>2 DEF Burst, Returned
<1> QED BY <1>1, <1>2, <1>3, <1>5

\* A read on its way records the stored value in the pending entry of its id, and nothing else.
LEMMA FilledTyped ==
  ASSUME NEW s, s.reads \in Seq(Pending), s.store \in [Places -> Values], NEW c,
         PlaceOf(c) \in Places
  PROVE  /\ Filled(s, c) \in Seq(Pending) /\ Len(Filled(s, c)) = Len(s.reads)
         /\ DOMAIN Filled(s, c) = DOMAIN s.reads
         /\ \A i \in DOMAIN s.reads :
              /\ Filled(s, c)[i].id = s.reads[i].id /\ Filled(s, c)[i].token = s.reads[i].token
              /\ Filled(s, c)[i].place = s.reads[i].place
              /\ Filled(s, c)[i].value = IF s.reads[i].id = c.id THEN s.store[PlaceOf(c)]
                                         ELSE s.reads[i].value
<1> DEFINE f == Filled(s, c)
           v == s.store[PlaceOf(c)]
<1>1. v \in Values /\ DOMAIN s.reads = 1 .. Len(s.reads) /\ Len(s.reads) \in Nat OBVIOUS
<1>2. ASSUME NEW i \in DOMAIN s.reads
      PROVE  /\ f[i] \in Pending /\ f[i].id = s.reads[i].id /\ f[i].token = s.reads[i].token
             /\ f[i].place = s.reads[i].place
             /\ f[i].value = IF s.reads[i].id = c.id THEN v ELSE s.reads[i].value
  <2>1. s.reads[i] \in Pending OBVIOUS
  <2>2. f[i] = IF s.reads[i].id = c.id THEN [s.reads[i] EXCEPT !.value = v] ELSE s.reads[i]
    BY DEF Filled
  <2> HIDE DEF f, v
  <2> QED BY <1>1, <2>1, <2>2 DEF Pending
<1>3. f = [i \in 1 .. Len(s.reads) |-> f[i]] BY <1>1 DEF Filled
<1> HIDE DEF f
<1>4. f \in [1 .. Len(s.reads) -> Pending] BY <1>1, <1>2, <1>3
<1>5. f \in Seq(Pending) /\ Len(f) = Len(s.reads) /\ DOMAIN f = DOMAIN s.reads
  BY <1>1, <1>4, SeqDef
<1> QED BY <1>2, <1>5 DEF f, v

\* Delivering the command keeps the types and empties the command bus.
LEMMA DeliverCommandTyped ==
  ASSUME NEW s, Typed(s)
  PROVE  Typed(DeliverCommand(s)) /\ DeliverCommand(s).command = None
<1>1. IsChannel(s) /\ QueuesTyped(s) /\ DataTyped(s) BY DEF Typed
<1> DEFINE t == DeliverCommand(s)
           c == s.command
<1>2. CASE c = None BY <1>2, NoCommandToDeliver
<1>3. CASE c # None
  <2>1. /\ IsChannel(t)
        /\ t.command = None
        /\ t.reads = IF c.kind = "READ" THEN Filled(s, c) ELSE s.reads
        /\ t.store = IF c.kind = "WRITE" THEN [s.store EXCEPT ![PlaceOf(c)] = c.value] ELSE s.store
        /\ t.held = s.held /\ t.transactions = s.transactions /\ t.onTheFly = s.onTheFly
        /\ t.queues = s.queues /\ t.banks = s.banks /\ t.waiting = s.waiting
        /\ t.nextRank = s.nextRank /\ t.nextPre = s.nextPre
        /\ t.data = s.data /\ t.writes = s.writes /\ t.returns = s.returns
        /\ t.replies = s.replies
    BY <1>1, <1>3, DeliverCommandFields
  <2>2. c \in Command /\ c.rank \in Ranks /\ s.ranks \in [Ranks -> RankState]
    BY <1>1, <1>3, CommandFields DEF QueuesTyped, DataTyped
  <2>3. /\ DOMAIN t.ranks = Ranks /\ t.ranks = [r \in Ranks |-> t.ranks[r]]
        /\ \A r \in Ranks :
             /\ t.ranks[r].banks = Arrived(s.ranks[r].banks, r, c)
             /\ t.ranks[r].out = s.ranks[r].out
             /\ t.ranks[r].reads = IF c.kind = "READ" /\ r = c.rank
                                   THEN Append(s.ranks[r].reads, BurstOf(c))
                                   ELSE s.ranks[r].reads
             /\ t.ranks[r] = [banks |-> t.ranks[r].banks, reads |-> t.ranks[r].reads,
                              out |-> t.ranks[r].out]
    BY <1>1, <1>3, <2>2, DeliverCommandRanks
  <2> HIDE DEF t, c
  <2>4. ASSUME NEW r \in Ranks
        PROVE  /\ t.ranks[r] \in RankState /\ OfRank(t.ranks[r], r)
    <3>1. /\ s.ranks[r] \in RankState /\ s.ranks[r].banks \in [Banks -> Bank]
          /\ s.ranks[r].reads \in Seq(Burst) /\ s.ranks[r].out \in Burst \cup {None}
          /\ OfRank(s.ranks[r], r)
      BY <1>1, <2>2 DEF DataTyped, RankState, OfRank
    <3>2. t.ranks[r].banks \in [Banks -> Bank]
      <4>1. CASE c # None /\ c.rank = r
        <5>1. t.ranks[r].banks = [b \in Banks |-> RankBank(s.ranks[r].banks[b], b, c)]
          BY <2>3, <4>1 DEF Arrived, RankAfter
        <5>2. \A b \in Banks : RankBank(s.ranks[r].banks[b], b, c) \in Bank
          BY <2>2, <3>1, RankBankFields
        <5> QED BY <5>1, <5>2
      <4>2. CASE ~(c # None /\ c.rank = r) BY <2>3, <3>1, <4>2 DEF Arrived
      <4> QED BY <4>1, <4>2
    <3>3. /\ t.ranks[r].reads \in Seq(Burst)
          /\ \A i \in DOMAIN t.ranks[r].reads : t.ranks[r].reads[i].read.place.rank = r
      <4>1. CASE c.kind = "READ" /\ r = c.rank
        <5>1. BurstOf(c) \in Burst /\ BurstOf(c).read.place.rank = r
          BY <2>2, <4>1, ColumnCommandFields
        <5>2. t.ranks[r].reads = Append(s.ranks[r].reads, BurstOf(c)) BY <2>3, <4>1
        <5> DEFINE y == BurstOf(c)
                   z == s.ranks[r].reads
        <5>3. z \in Seq(Burst) /\ \A i \in DOMAIN z : z[i].read.place.rank = r
          BY <3>1 DEF OfRank
        <5>4. y \in Burst /\ y.read.place.rank = r /\ t.ranks[r].reads = Append(z, y)
          BY <5>1, <5>2
        <5> HIDE DEF y, z
        <5> QED BY <5>3, <5>4
      <4>2. CASE ~(c.kind = "READ" /\ r = c.rank) BY <2>3, <3>1, <4>2 DEF OfRank
      <4> QED BY <4>1, <4>2
    <3>4. t.ranks[r].out \in Burst \cup {None} /\ (t.ranks[r].out # None => t.ranks[r].out.read.place.rank = r)
      BY <2>3, <3>1 DEF OfRank
    <3> DEFINE x == t.ranks[r]
    <3>5. x = [banks |-> x.banks, reads |-> x.reads, out |-> x.out] BY <2>3
    <3> HIDE DEF x
    <3>6. x \in RankState BY <3>2, <3>3, <3>4, <3>5 DEF RankState, x
    <3> QED BY <3>3, <3>4, <3>6 DEF OfRank, x
  <2>5. t.ranks \in [Ranks -> RankState]
    <3>1. t.ranks = [r \in Ranks |-> t.ranks[r]] BY <2>3
    <3> QED BY <2>4, <3>1
  <2>6. t.reads \in Seq(Pending)
    BY <1>1, <2>1, <2>2, FilledTyped, ColumnCommandFields DEF DataTyped
  <2>7. t.store \in [Places -> Values] BY <1>1, <2>1, <2>2, ColumnCommandFields DEF DataTyped
  <2>8. QueuesTyped(t) BY <1>1, <2>1 DEF QueuesTyped
  <2>9. DataTyped(t) BY <1>1, <2>1, <2>4, <2>5, <2>6, <2>7 DEF DataTyped, OfRank
  <2> QED BY <2>1, <2>8, <2>9 DEF t, Typed
<1> QED BY <1>2, <1>3

\* Delivering write data keeps the types.
LEMMA DeliverDataTyped ==
  ASSUME NEW s, Typed(s)
  PROVE  Typed(DeliverData(s))
<1>1. IsChannel(s) /\ QueuesTyped(s) /\ DataTyped(s) BY DEF Typed
<1> DEFINE t == DeliverData(s)
           ends == s.data # None /\ ~(s.data.left > 1)
<1>2. /\ IsChannel(t)
      /\ t.data = IF s.data = None \/ ends THEN None ELSE [s.data EXCEPT !.left = @ - 1]
      /\ t.onTheFly = IF ends THEN s.onTheFly - 1 ELSE s.onTheFly
      /\ t.replies = IF ends THEN s.replies \cup {[id |-> s.data.id, value |-> s.data.value]}
                     ELSE s.replies
      /\ t.held = s.held /\ t.transactions = s.transactions
      /\ t.queues = s.queues /\ t.banks = s.banks /\ t.waiting = s.waiting
      /\ t.nextRank = s.nextRank /\ t.nextPre = s.nextPre /\ t.command = s.command
      /\ t.writes = s.writes /\ t.reads = s.reads /\ t.returns = s.returns
      /\ t.ranks = s.ranks /\ t.store = s.store /\ t.fault = s.fault
  BY <1>1, DeliverDataFields
<1> HIDE DEF t
<1>3. s.data # None => /\ s.data \in WriteData /\ s.data.id \in Ids /\ s.data.value \in Values
                       /\ [s.data EXCEPT !.left = @ - 1] \in WriteData
  <2>1. s.data \in WriteData \cup {None} BY <1>1 DEF DataTyped
  <2>2. \A x \in WriteData : /\ x.id \in Ids /\ x.value \in Values
                             /\ [x EXCEPT !.left = @ - 1] \in WriteData
    BY DEF WriteData
  <2> QED BY <2>1, <2>2
<1>4. t.data \in WriteData \cup {None} BY <1>2, <1>3
<1>5. t.replies \subseteq Reply BY <1>1, <1>2, <1>3 DEF DataTyped, Reply
<1>6. t.onTheFly \in Int BY <1>1, <1>2 DEF DataTyped
<1>7. QueuesTyped(t) BY <1>1, <1>2 DEF QueuesTyped
<1>8. DataTyped(t) BY <1>1, <1>2, <1>4, <1>5, <1>6 DEF DataTyped
<1> QED BY <1>2, <1>7, <1>8 DEF t, Typed

\* Sending write data keeps the types.
LEMMA SendDataTyped ==
  ASSUME NEW s, Typed(s)
  PROVE  Typed(SendData(s))
<1>1. IsChannel(s) /\ QueuesTyped(s) /\ DataTyped(s) BY DEF Typed
<1> DEFINE t == SendData(s)
           a == Aged(s.writes)
           ready == a # <<>> /\ Head(a).left = 0
<1>2. /\ IsChannel(t)
      /\ t.data = IF ready THEN [Head(a) EXCEPT !.left = Timing.BL2] ELSE s.data
      /\ t.writes = IF ready THEN Tail(a) ELSE a
      /\ t.held = s.held /\ t.transactions = s.transactions /\ t.onTheFly = s.onTheFly
      /\ t.queues = s.queues /\ t.banks = s.banks /\ t.waiting = s.waiting
      /\ t.nextRank = s.nextRank /\ t.nextPre = s.nextPre /\ t.command = s.command
      /\ t.reads = s.reads /\ t.returns = s.returns
      /\ t.ranks = s.ranks /\ t.store = s.store /\ t.replies = s.replies
  BY <1>1, SendDataFields
<1> HIDE DEF t
<1>3. a \in Seq(WriteData) BY <1>1, WritesAged DEF DataTyped
<1> HIDE DEF a
<1>4. ready => Head(a) \in WriteData /\ Tail(a) \in Seq(WriteData) BY <1>3, TailMembers
<1>5. \A x \in WriteData : [x EXCEPT !.left = Timing.BL2] \in WriteData
  BY TimingTypes DEF WriteData
<1>6. t.data \in WriteData \cup {None} /\ t.writes \in Seq(WriteData)
  BY <1>1, <1>2, <1>3, <1>4, <1>5 DEF DataTyped
<1>7. QueuesTyped(t) BY <1>1, <1>2 DEF QueuesTyped
<1>8. DataTyped(t) BY <1>1, <1>2, <1>6 DEF DataTyped
<1> QED BY <1>2, <1>7, <1>8 DEF t, Typed

\* A refresh that becomes due keeps the types.
LEMMA UpdateRefreshTyped ==
  ASSUME NEW s, Typed(s), refresh.rank \in Ranks
  PROVE  Typed(UpdateRefresh(s))
<1>1. IsChannel(s) /\ QueuesTyped(s) /\ DataTyped(s) BY DEF Typed
<1> DEFINE t == UpdateRefresh(s)
<1>2. /\ IsChannel(t)
      /\ t.waiting \in {s.waiting, refresh.rank}
      /\ t.held = s.held /\ t.transactions = s.transactions /\ t.onTheFly = s.onTheFly
      /\ t.queues = s.queues /\ t.banks = s.banks
      /\ t.nextRank = s.nextRank /\ t.nextPre = s.nextPre /\ t.command = s.command
      /\ t.data = s.data /\ t.writes = s.writes /\ t.reads = s.reads /\ t.returns = s.returns
      /\ t.ranks = s.ranks /\ t.store = s.store /\ t.fault = s.fault /\ t.replies = s.replies
  BY <1>1, UpdateRefreshFields
<1> HIDE DEF t
<1>3. QueuesTyped(t) BY <1>1, <1>2 DEF QueuesTyped
<1>4. DataTyped(t) BY <1>1, <1>2 DEF DataTyped
<1> QED BY <1>2, <1>3, <1>4 DEF t, Typed

\* Every command keeps the type of the controller's books.
LEMMA ControllerAfterTyped ==
  ASSUME NEW books \in [Ranks -> [Banks -> Bank]], NEW c \in Command
  PROVE  ControllerAfter(books, c) \in [Ranks -> [Banks -> Bank]]
<1>1. \A r \in Ranks, b \in Banks : ControllerBank(books[r][b], r, b, c) \in Bank
  BY ControllerBankType
<1> QED BY <1>1 DEF ControllerAfter

\* What is issued, by its kind.
LEMMA IssuedTyped ==
  ASSUME NEW s, Typed(s), NEW t, NEW c \in Command, NEW q, Issued(s, t, c, q),
         q \in [Ranks -> Seq(Located)],
         \A r \in Ranks : Len(q[r]) <= CmdQueueDepth /\ \A i \in DOMAIN q[r] : q[r][i].rank = r
  PROVE  Typed(t)
<1>1. IsChannel(s) /\ QueuesTyped(s) /\ DataTyped(s) BY DEF Typed
<1>2. /\ IsChannel(t) /\ t.command = c /\ t.queues = q /\ t.banks = ControllerAfter(s.banks, c)
      /\ t.writes = IF c.kind = "WRITE"
                    THEN Append(s.writes, [id |-> c.id, rank |-> c.rank, value |-> c.value,
                                           left |-> Timing.WL])
                    ELSE s.writes
      /\ t.waiting \in {s.waiting, None} /\ t.nextRank \in Ranks
      /\ t.nextPre \in 0 .. NumRanks * NumBanks - 1
      /\ t.held = s.held /\ t.transactions = s.transactions /\ t.onTheFly = s.onTheFly
      /\ t.data = s.data /\ t.reads = s.reads /\ t.returns = s.returns
      /\ t.ranks = s.ranks /\ t.store = s.store /\ t.fault = s.fault /\ t.replies = s.replies
  BY DEF Issued
<1>3. t.banks \in [Ranks -> [Banks -> Bank]]
  <2>1. s.banks \in [Ranks -> [Banks -> Bank]] BY <1>1 DEF QueuesTyped
  <2>2. ControllerAfter(s.banks, c) \in [Ranks -> [Banks -> Bank]] BY <2>1, ControllerAfterTyped
  <2> QED BY <1>2, <2>2
<1>4. t.writes \in Seq(WriteData)
  <2>1. s.writes \in Seq(WriteData) BY <1>1 DEF DataTyped
  <2>2. CASE c.kind = "WRITE"
    <3> DEFINE x == [id |-> c.id, rank |-> c.rank, value |-> c.value, left |-> Timing.WL]
    <3>1. x \in WriteData
      <4>1. c.id \in Ids /\ c.rank \in Ranks /\ c.value \in Values BY <2>2, ColumnCommandFields
      <4>2. Timing.WL \in Int BY TimingTypes
      <4> QED BY <4>1, <4>2 DEF WriteData
    <3>2. t.writes = Append(s.writes, x) BY <1>2, <2>2
    <3> HIDE DEF x
    <3> QED BY <2>1, <3>1, <3>2
  <2>3. CASE c.kind # "WRITE" BY <1>2, <2>1, <2>3
  <2> QED BY <2>2, <2>3
<1>5. QueuesTyped(t) BY <1>1, <1>2, <1>3 DEF QueuesTyped
<1>6. DataTyped(t) BY <1>1, <1>2, <1>4 DEF DataTyped
<1> QED BY <1>2, <1>5, <1>6 DEF Typed

\* Issuing a command keeps the types.
LEMMA IssuesTyped ==
  ASSUME NEW s, Typed(s), NEW t, Issues(s, t)
  PROVE  Typed(t)
<1>1. IsChannel(s) /\ QueuesTyped(s) /\ DataTyped(s) BY DEF Typed
<1>2. /\ s.queues \in [Ranks -> Seq(Located)]
      /\ \A r \in Ranks : /\ Len(s.queues[r]) <= CmdQueueDepth
                          /\ \A i \in DOMAIN s.queues[r] : s.queues[r][i].rank = r
  BY <1>1 DEF QueuesTyped
<1>3. CASE Popped(s, t, s.queues)
  <2>1. QueuesTyped(t) BY <1>1, <1>3 DEF QueuesTyped, Popped
  <2>2. DataTyped(t) BY <1>1, <1>3 DEF DataTyped, Popped
  <2> QED BY <1>3, <2>1, <2>2 DEF Typed, Popped
<1>4. ASSUME NEW c \in BareCommand, Issued(s, t, c, s.queues)
      PROVE  Typed(t)
  <2>1. c \in Command BY DEF Command
  <2> QED BY <1>2, <1>4, <2>1, IssuedTyped
<1>5. ASSUME NEW r \in Ranks, NEW i \in Nat, IssuesColumn(s, t, r, i)
      PROVE  Typed(t)
  <2> DEFINE z == s.queues[r]
             w == Without(z, i)
             q == [s.queues EXCEPT ![r] = w]
  <2>1. z \in Seq(Located) /\ i \in DOMAIN z BY <1>2, <1>5 DEF IssuesColumn
  <2>2. z[i] \in Command /\ Issued(s, t, z[i], q) BY <1>5, <2>1 DEF IssuesColumn, Command
  <2>3. /\ w \in Seq(Located) /\ Len(w) = Len(z) - 1
        /\ \A j \in DOMAIN w : Back(i, j) \in DOMAIN z /\ w[j] = z[Back(i, j)]
    <3> HIDE DEF z
    <3> QED BY <2>1, WithoutMembers, WithoutKeeps
  <2>4. \A j \in DOMAIN w : w[j].rank = r BY <1>2, <2>3
  <2>5. Len(w) <= CmdQueueDepth
    <3>1. Len(z) <= CmdQueueDepth /\ Len(z) \in Nat /\ CmdQueueDepth \in Nat
      BY <1>2, <2>1, ConstantTypes
    <3> HIDE DEF z, w
    <3> QED BY <2>3, <3>1
  <2> HIDE DEF w
  <2>6. q \in [Ranks -> Seq(Located)] BY <1>2, <2>3
  <2>7. \A p \in Ranks : Len(q[p]) <= CmdQueueDepth /\ \A j \in DOMAIN q[p] : q[p][j].rank = p
    BY <1>2, <2>4, <2>5
  <2> HIDE DEF q, z
  <2> QED BY <2>2, <2>6, <2>7, IssuedTyped
<1>6. CASE IssuesBare(s, t) BY <1>4, <1>6 DEF IssuesBare
<1> QED BY <1>3, <1>5, <1>6 DEF Issues

\* Taking a transaction into the command queues keeps the types and the depth of the queues.
LEMMA TakenTyped ==
  ASSUME NEW s, Typed(s), NEW t, NEW i, Taken(s, t, i)
  PROVE  Typed(t)
<1>1. IsChannel(s) /\ QueuesTyped(s) /\ DataTyped(s) BY DEF Typed
<1> DEFINE x == s.transactions[i]
           r == x.place.rank
           c == CommandOf(x)
           w == Without(s.transactions, i)
           p == [id |-> x.id, token |-> x.token, place |-> x.place, value |-> Unwritten]
<1>2. /\ i \in DOMAIN s.transactions /\ Len(s.queues[r]) < CmdQueueDepth
      /\ IsChannel(t) /\ t.transactions = w
      /\ t.queues = [s.queues EXCEPT ![r] = Append(s.queues[r], c)]
      /\ t.reads = IF x.write THEN s.reads ELSE Append(s.reads, p)
      /\ t.held = s.held /\ t.onTheFly = s.onTheFly /\ t.banks = s.banks /\ t.waiting = s.waiting
      /\ t.nextRank = s.nextRank /\ t.nextPre = s.nextPre /\ t.command = s.command
      /\ t.data = s.data /\ t.writes = s.writes /\ t.returns = s.returns
      /\ t.ranks = s.ranks /\ t.store = s.store /\ t.fault = s.fault /\ t.replies = s.replies
  BY DEF Taken
<1>3. s.transactions \in Seq(Transaction) /\ Len(s.transactions) <= TransQueueDepth
  BY <1>1 DEF QueuesTyped
<1>4. x \in Transaction BY <1>2, <1>3
<1>5. w \in Seq(Transaction) /\ Len(w) <= TransQueueDepth
  <2>1. w \in Seq(Transaction) /\ Len(w) = Len(s.transactions) - 1
    BY SMTT(20), <1>2, <1>3, WithoutMembers
  <2> HIDE DEF w
  <2> QED BY <1>3, <2>1, ConstantTypes
<1> HIDE DEF w, x
<1>6. c \in Located /\ c.rank = r /\ r \in Ranks /\ x.id \in Ids /\ x.token \in BOOLEAN /\ x.place \in Places
  BY <1>4, TransactionFields
<1>7. p \in Pending BY <1>6 DEF Pending, Unwritten, Values
<1> HIDE DEF c, r, p
<1>8. /\ s.queues \in [Ranks -> Seq(Located)]
      /\ \A a \in Ranks : /\ Len(s.queues[a]) <= CmdQueueDepth
                          /\ \A j \in DOMAIN s.queues[a] : s.queues[a][j].rank = a
  BY <1>1 DEF QueuesTyped
<1>9. /\ Append(s.queues[r], c) \in Seq(Located) /\ Len(Append(s.queues[r], c)) <= CmdQueueDepth
      /\ \A j \in DOMAIN Append(s.queues[r], c) : Append(s.queues[r], c)[j].rank = r
  <2> DEFINE z == s.queues[r]
  <2>1. z \in Seq(Located) /\ Len(z) < CmdQueueDepth /\ \A j \in DOMAIN z : z[j].rank = r
    BY <1>2, <1>6, <1>8
  <2> HIDE DEF z
  <2>2. /\ Append(z, c) \in Seq(Located) /\ Len(Append(z, c)) <= CmdQueueDepth
        /\ \A j \in DOMAIN Append(z, c) : Append(z, c)[j].rank = r
    BY <1>6, <2>1, ConstantTypes
  <2> QED BY <2>2 DEF z
<1>10. /\ t.queues \in [Ranks -> Seq(Located)]
       /\ \A a \in Ranks : /\ Len(t.queues[a]) <= CmdQueueDepth
                           /\ \A j \in DOMAIN t.queues[a] : t.queues[a][j].rank = a
  BY <1>2, <1>6, <1>8, <1>9
<1>11. t.reads \in Seq(Pending) BY <1>1, <1>2, <1>7 DEF DataTyped
<1>12. QueuesTyped(t) BY <1>1, <1>2, <1>5, <1>10 DEF QueuesTyped
<1>13. DataTyped(t) BY <1>1, <1>2, <1>11 DEF DataTyped
<1> QED BY <1>2, <1>12, <1>13 DEF Typed

\* Returning a read keeps the types when some pending read matches.
LEMMA ReturnReadTyped ==
  ASSUME NEW s, Typed(s), s.returns # <<>> => Matches(s, Head(s.returns)) # {}
  PROVE  Typed(ReturnRead(s))
<1>1. IsChannel(s) /\ QueuesTyped(s) /\ DataTyped(s) BY DEF Typed
<1>2. CASE s.returns = <<>> BY <1>2 DEF ReturnRead
<1>3. CASE s.returns # <<>>
  <2> DEFINE t == ReturnRead(s)
             matches == Matches(s, Head(s.returns))
             i == Least(matches)
  <2>1. /\ IsChannel(t)
        /\ t.returns = Tail(s.returns)
        /\ t.reads = Without(s.reads, i)
        /\ t.onTheFly = s.onTheFly - 1
        /\ t.replies = s.replies \cup {[id |-> s.reads[i].id, value |-> s.reads[i].value]}
        /\ t.held = s.held /\ t.transactions = s.transactions
        /\ t.queues = s.queues /\ t.banks = s.banks /\ t.waiting = s.waiting
        /\ t.nextRank = s.nextRank /\ t.nextPre = s.nextPre /\ t.command = s.command
        /\ t.data = s.data /\ t.writes = s.writes
        /\ t.ranks = s.ranks /\ t.store = s.store /\ t.fault = s.fault
    BY <1>1, <1>3, ReturnReadFields
  <2> HIDE DEF t
  <2>2. s.reads \in Seq(Pending) /\ s.returns \in Seq(Returned) /\ s.replies \subseteq Reply
        /\ s.onTheFly \in Int
    BY <1>1 DEF DataTyped
  <2>3. matches \in SUBSET Nat /\ matches # {} /\ matches \subseteq DOMAIN s.reads
    BY <1>3, <2>2 DEF Matches
  <2> HIDE DEF matches
  <2>4. i \in DOMAIN s.reads BY <2>3, LeastExists
  <2> HIDE DEF i
  <2>5. t.reads \in Seq(Pending) /\ t.returns \in Seq(Returned)
    BY <1>3, <2>1, <2>2, <2>4, WithoutMembers, TailMembers
  <2>6. s.reads[i].id \in Ids /\ s.reads[i].value \in Values
    <3>1. s.reads[i] \in Pending BY <2>2, <2>4
    <3> QED BY <3>1 DEF Pending
  <2>7. t.replies \subseteq Reply /\ t.onTheFly \in Int BY <2>1, <2>2, <2>6 DEF Reply
  <2>8. QueuesTyped(t) BY <1>1, <2>1 DEF QueuesTyped
  <2>9. DataTyped(t) BY <1>1, <2>1, <2>5, <2>7 DEF DataTyped
  <2> QED BY <2>1, <2>8, <2>9 DEF t, Typed
<1> QED BY <1>2, <1>3

\* A cycle counts a rank's timers down and keeps its reads.
LEMMA WaitedRankFields ==
  ASSUME NEW k \in RankState
  PROVE  LET w == WaitedRank(k)
         IN  /\ w \in RankState /\ w.reads = k.reads /\ w.out = k.out
             /\ w.banks = [b \in Banks |-> Waited(k.banks[b])]
             /\ \A r \in Ranks : OfRank(k, r) => OfRank(w, r)
<1> DEFINE w == WaitedRank(k)
<1>1. k.banks \in [Banks -> Bank] /\ k.reads \in Seq(Burst) /\ k.out \in Burst \cup {None}
  BY DEF RankState
<1>2. \A b \in Banks : Waited(k.banks[b]) \in Bank BY <1>1, WaitedFields
<1>3. w.reads = k.reads /\ w.out = k.out /\ w.banks = [b \in Banks |-> Waited(k.banks[b])]
      /\ w \in RankState
  BY <1>1, <1>2 DEF WaitedRank, RankState
<1> HIDE DEF w
<1>4. \A r \in Ranks : OfRank(k, r) => OfRank(w, r) BY <1>3 DEF OfRank
<1> QED BY <1>3, <1>4 DEF w

\* The end of the cycle keeps the types.
LEMMA StepTyped ==
  ASSUME NEW s, Typed(s)
  PROVE  Typed(Step(s))
<1>1. IsChannel(s) /\ QueuesTyped(s) /\ DataTyped(s) BY DEF Typed
<1> DEFINE t == Step(s)
<1>2. /\ IsChannel(t)
      /\ t.banks = [r \in Ranks |-> [b \in Banks |-> Waited(s.banks[r][b])]]
      /\ t.ranks = [r \in Ranks |-> WaitedRank(s.ranks[r])]
      /\ t.held = s.held /\ t.transactions = s.transactions /\ t.onTheFly = s.onTheFly
      /\ t.queues = s.queues /\ t.waiting = s.waiting
      /\ t.nextRank = s.nextRank /\ t.nextPre = s.nextPre /\ t.command = s.command
      /\ t.data = s.data /\ t.writes = s.writes /\ t.reads = s.reads /\ t.returns = s.returns
      /\ t.store = s.store /\ t.fault = s.fault /\ t.replies = s.replies
  BY <1>1, StepFields
<1> HIDE DEF t
<1>3. \A r \in Ranks, b \in Banks : Waited(s.banks[r][b]) \in Bank
  BY <1>1, WaitedFields DEF QueuesTyped
<1>4. t.banks \in [Ranks -> [Banks -> Bank]] BY <1>2, <1>3
<1>5. \A r \in Ranks : WaitedRank(s.ranks[r]) \in RankState /\ OfRank(WaitedRank(s.ranks[r]), r)
  BY <1>1, WaitedRankFields DEF DataTyped, OfRank
<1>6. t.ranks \in [Ranks -> RankState] /\ \A r \in Ranks : OfRank(t.ranks[r], r) BY <1>2, <1>5
<1>7. QueuesTyped(t) BY <1>1, <1>2, <1>4 DEF QueuesTyped
<1>8. DataTyped(t) BY <1>1, <1>2, <1>6 DEF DataTyped, OfRank
<1> QED BY <1>2, <1>7, <1>8 DEF t, Typed

-----------------------------------------------------------------------------
(* The data bus.  e is 1 between two updates, and 0 within one, once its   *)
(* data phases are over and before a command is issued.                    *)

\* The bursts that a rank has still to start, that of the command on the bus included.
Coming(k, r, c) == IF c # None /\ c.kind = "READ" /\ c.rank = r
                   THEN Append(k.reads, [BurstOf(c) EXCEPT !.left = Timing.RL + 1])
                   ELSE k.reads

\* The bursts w of the controller do not meet, nor d, nor one that may still be asked for.
WriteBus(w, d, books, e) ==
  /\ \A i \in DOMAIN w : w[i].left >= 1 /\ w[i].left + 1 <= Timing.WL + e
  /\ \A i, j \in DOMAIN w : i < j => w[i].left + Timing.BL2 <= w[j].left
  /\ d # None => /\ d.left >= 1 /\ d.left <= Timing.BL2
                 /\ \A i \in DOMAIN w : d.left <= w[i].left
  /\ \A r \in Ranks, b \in Banks :
       books[r][b].state = "RowActive" =>
         /\ \A i \in DOMAIN w : w[i].left + Timing.BL2 <= Timing.WL + books[r][b].write + e
         /\ d # None => d.left <= Timing.WL + books[r][b].write + e

\* Nor do the bursts v of a rank.
ReadBus(v, out, banks, e) ==
  /\ \A i \in DOMAIN v : v[i].left >= 1
  /\ \A i, j \in DOMAIN v : i < j => v[i].left + Timing.BL2 <= v[j].left
  /\ out # None => out.left >= 1 /\ \A i \in DOMAIN v : out.left <= v[i].left
  /\ \A b \in Banks :
       /\ \A i \in DOMAIN v : /\ v[i].left + Timing.BL2 <= Timing.RL + banks[b].read + 1 + e
                              /\ v[i].left + Timing.BL2 <= Timing.WL + banks[b].write + e
       /\ out # None => /\ out.left <= Timing.RL + banks[b].read + 1 + e
                        /\ out.left <= Timing.WL + banks[b].write + e

\* Nor do those of a rank r and those the controller sends it.
TurnAround(v, out, w, d, banks, r, e) ==
  /\ \A i \in DOMAIN w : w[i].rank = r =>
       /\ \A j \in DOMAIN v : \/ v[j].left + Timing.BL2 <= w[i].left
                              \/ w[i].left + Timing.BL2 <= v[j].left
       /\ out # None => out.left <= w[i].left
       /\ \A b \in Banks : w[i].left + Timing.BL2 <= Timing.RL + banks[b].read + 1 + e
  /\ d # None /\ d.rank = r =>
       /\ out = None
       /\ \A j \in DOMAIN v : d.left <= v[j].left
       /\ \A b \in Banks : d.left <= Timing.RL + banks[b].read + 1 + e

Bus(s, e) ==
  /\ WriteBus(s.writes, s.data, s.banks, e)
  /\ \A r \in Ranks :
       LET v == Coming(s.ranks[r], r, s.command)
       IN  /\ ReadBus(v, s.ranks[r].out, s.banks[r], e)
           /\ TurnAround(v, s.ranks[r].out, s.writes, s.data, s.banks[r], r, e)

\* A queue v a cycle on: its first member is gone (d = 1) when its time has come.
Shifted(v, v2, d) ==
  /\ d \in {0, 1}
  /\ \A i \in DOMAIN v2 : i + d \in DOMAIN v /\ v2[i].left = v[i + d].left - 1
  /\ d = 1 => 1 \in DOMAIN v /\ v[1].left = 1
  /\ d = 0 => \A i \in DOMAIN v : v[i].left # 1

\* What drives the bus a cycle on.
Driven(v, out, out2, d) ==
  IF d = 1 THEN out2 # None /\ out2.left = Timing.BL2
  ELSE IF out = None THEN out2 = None
  ELSE IF out.left <= 1 THEN out2 = None
  ELSE out2 # None /\ out2.left = out.left - 1

\* The banks a and z have the same waits for column accesses.
SameWaits(a, z) == \A b \in Banks : /\ z[b].read = a[b].read /\ z[b].write = a[b].write
                                    /\ a[b].read \in Nat /\ a[b].write \in Nat

\* Counting a delay down by one cycle tightens its bound by one.
LEMMA OneLess ==
  ASSUME NEW x \in Int, NEW B \in Nat, NEW L \in Nat, NEW n \in Nat
  PROVE  /\ x + B <= L + n + 2 => (x - 1) + B <= L + n + 1
         /\ x + B <= L + n + 1 => (x - 1) + B <= L + n
OBVIOUS

\* The spacing of a rank's read bursts survives a cycle of Rank::update.
LEMMA ReadBusAged ==
  ASSUME NEW v \in Seq(Burst), NEW v2 \in Seq(Burst), NEW d, Shifted(v, v2, d),
         NEW out \in Burst \cup {None}, NEW out2 \in Burst \cup {None}, Driven(v, out, out2, d),
         NEW a, NEW z, SameWaits(a, z), ReadBus(v, out, a, 1)
  PROVE  ReadBus(v2, out2, z, 0)
<1>1. /\ \A i \in DOMAIN v : v[i].left \in Int
      /\ \A i \in DOMAIN v2 : v2[i].left \in Int /\ i \in Nat /\ i >= 1
      /\ out # None => out.left \in Int
      /\ out2 # None => out2.left \in Int
  <2>1. \A x \in Burst : x.left \in Int BY DEF Burst
  <2>2. /\ \A i \in DOMAIN v : v[i] \in Burst
        /\ \A i \in DOMAIN v2 : v2[i] \in Burst /\ i \in Nat /\ i >= 1
    OBVIOUS
  <2> QED BY <2>1, <2>2
<1>2. d \in {0, 1} /\ \A i \in DOMAIN v2 : i + d \in DOMAIN v /\ v2[i].left = v[i + d].left - 1
  BY DEF Shifted
<1>3. /\ Timing.BL2 \in Nat /\ Timing.BL2 >= 1 /\ Timing.RL \in Nat /\ Timing.WL \in Nat
  BY TimingTypes
<1>4. /\ \A i \in DOMAIN v : v[i].left >= 1
      /\ \A i, j \in DOMAIN v : i < j => v[i].left + Timing.BL2 <= v[j].left
      /\ out # None => out.left >= 1 /\ \A i \in DOMAIN v : out.left <= v[i].left
      /\ \A b \in Banks :
           /\ \A i \in DOMAIN v : /\ v[i].left + Timing.BL2 <= Timing.RL + a[b].read + 2
                                  /\ v[i].left + Timing.BL2 <= Timing.WL + a[b].write + 1
           /\ out # None => /\ out.left <= Timing.RL + a[b].read + 2
                            /\ out.left <= Timing.WL + a[b].write + 1
  <2>1. \A b \in Banks : a[b].read \in Nat /\ a[b].write \in Nat BY DEF SameWaits
  <2> QED BY <1>3, <2>1 DEF ReadBus
<1>5. \A i \in DOMAIN v2 : v2[i].left >= 1
  <2> TAKE i \in DOMAIN v2
  <2>1. i + d \in DOMAIN v /\ v2[i].left = v[i + d].left - 1 /\ v[i + d].left >= 1
        /\ v[i + d].left \in Int
    BY <1>1, <1>2, <1>4
  <2>2. CASE d = 0 BY <2>1, <2>2 DEF Shifted
  <2>3. CASE d = 1
    <3>1. 1 \in DOMAIN v /\ v[1].left = 1 /\ 1 < i + d BY <1>1, <2>3 DEF Shifted
    <3>2. v[1].left + Timing.BL2 <= v[i + d].left BY <1>4, <2>1, <3>1
    <3> QED BY <1>3, <2>1, <3>1, <3>2
  <2> QED BY <1>2, <2>2, <2>3
<1>6. \A i, j \in DOMAIN v2 : i < j => v2[i].left + Timing.BL2 <= v2[j].left
  <2> TAKE i, j \in DOMAIN v2
  <2> HAVE i < j
  <2>1. i + d \in DOMAIN v /\ j + d \in DOMAIN v /\ i + d < j + d BY <1>1, <1>2
  <2>2. v[i + d].left + Timing.BL2 <= v[j + d].left BY <1>4, <2>1
  <2>3. /\ v2[i].left = v[i + d].left - 1 /\ v2[j].left = v[j + d].left - 1
        /\ v[i + d].left \in Int /\ v[j + d].left \in Int
    BY <1>1, <1>2, <2>1
  <2> QED BY SMTT(20), <1>3, <2>2, <2>3
<1>7. out2 # None => out2.left >= 1 /\ \A i \in DOMAIN v2 : out2.left <= v2[i].left
  <2> SUFFICES ASSUME out2 # None
               PROVE  out2.left >= 1 /\ \A i \in DOMAIN v2 : out2.left <= v2[i].left
    OBVIOUS
  <2>1. CASE d = 1
    <3>1. out2.left = Timing.BL2 /\ 1 \in DOMAIN v /\ v[1].left = 1 BY <2>1 DEF Driven, Shifted
    <3>2. ASSUME NEW i \in DOMAIN v2 PROVE Timing.BL2 <= v2[i].left
      <4>1. i + d \in DOMAIN v /\ 1 < i + d /\ v2[i].left = v[i + d].left - 1
        BY <1>1, <1>2, <2>1
      <4>2. v[1].left + Timing.BL2 <= v[i + d].left BY <1>4, <3>1, <4>1
      <4> QED BY <1>1, <1>3, <3>1, <4>1, <4>2
    <3> QED BY <1>3, <3>1, <3>2
  <2>2. CASE d = 0
    <3>1. out # None /\ out.left > 1 /\ out2.left = out.left - 1 BY <1>1, <1>2, <2>2 DEF Driven
    <3>2. ASSUME NEW i \in DOMAIN v2 PROVE out2.left <= v2[i].left
      <4>1. i + d \in DOMAIN v /\ v2[i].left = v[i + d].left - 1 BY <1>2
      <4>2. out.left <= v[i + d].left BY <1>4, <3>1, <4>1
      <4> QED BY <1>1, <3>1, <4>1, <4>2
    <3> QED BY <1>1, <3>1, <3>2
  <2> QED BY <1>2, <2>1, <2>2
<1>8. ASSUME NEW b \in Banks
      PROVE  /\ \A i \in DOMAIN v2 : /\ v2[i].left + Timing.BL2 <= Timing.RL + z[b].read + 1 + 0
                                     /\ v2[i].left + Timing.BL2 <= Timing.WL + z[b].write + 0
             /\ out2 # None => /\ out2.left <= Timing.RL + z[b].read + 1 + 0
                               /\ out2.left <= Timing.WL + z[b].write + 0
  <2> DEFINE rd == a[b].read
             wr == a[b].write
  <2>1. z[b].read = rd /\ z[b].write = wr /\ rd \in Nat /\ wr \in Nat BY DEF SameWaits
  <2>2. /\ \A i \in DOMAIN v : /\ v[i].left + Timing.BL2 <= Timing.RL + rd + 2
                               /\ v[i].left + Timing.BL2 <= Timing.WL + wr + 1
        /\ out # None => out.left <= Timing.RL + rd + 2 /\ out.left <= Timing.WL + wr + 1
    BY <1>4
  <2> HIDE DEF rd, wr
  <2>3. ASSUME NEW i \in DOMAIN v2
        PROVE  /\ v2[i].left + Timing.BL2 <= Timing.RL + rd + 1
               /\ v2[i].left + Timing.BL2 <= Timing.WL + wr
    <3>1. i + d \in DOMAIN v /\ v2[i].left = v[i + d].left - 1 /\ v[i + d].left \in Int
      BY <1>1, <1>2
    <3>2. /\ v[i + d].left + Timing.BL2 <= Timing.RL + rd + 2
          /\ v[i + d].left + Timing.BL2 <= Timing.WL + wr + 1
      BY <2>2, <3>1
    <3> DEFINE x == v[i + d].left
    <3>3. /\ v2[i].left = x - 1 /\ x \in Int
          /\ x + Timing.BL2 <= Timing.RL + rd + 2 /\ x + Timing.BL2 <= Timing.WL + wr + 1
      BY <3>1, <3>2
    <3> HIDE DEF x
    <3>4. (x - 1) + Timing.BL2 <= Timing.RL + rd + 1 /\ (x - 1) + Timing.BL2 <= Timing.WL + wr
      <4>1. x \in Int /\ rd \in Nat /\ wr \in Nat BY <2>1, <3>3
      <4>2. x + Timing.BL2 <= Timing.RL + rd + 2 /\ x + Timing.BL2 <= Timing.WL + wr + 1 BY <3>3
      <4>3. Timing.BL2 \in Nat /\ Timing.RL \in Nat /\ Timing.WL \in Nat BY <1>3
      <4>4. (x - 1) + Timing.BL2 <= Timing.RL + rd + 1 BY <4>1, <4>2, <4>3, OneLess
      <4>5. (x - 1) + Timing.BL2 <= Timing.WL + wr BY <4>1, <4>2, <4>3, OneLess
      <4> QED BY <4>4, <4>5
    <3> QED BY <3>3, <3>4
  <2>4. ASSUME out2 # None PROVE out2.left <= Timing.RL + rd + 1 /\ out2.left <= Timing.WL + wr
    <3>1. CASE d = 1
      <4>1. out2.left = Timing.BL2 /\ 1 \in DOMAIN v /\ v[1].left = 1
        BY <3>1 DEF Driven, Shifted
      <4>2. 1 + Timing.BL2 <= Timing.RL + rd + 2 /\ 1 + Timing.BL2 <= Timing.WL + wr + 1
        BY <2>2, <4>1
      <4> QED BY SMTT(20), <1>3, <2>1, <4>1, <4>2
    <3>2. CASE d = 0
      <4>1. out # None /\ out.left > 1 /\ out2.left = out.left - 1
        BY <1>1, <1>2, <2>4, <3>2 DEF Driven
      <4> QED BY SMTT(20), <1>1, <1>3, <2>1, <2>2, <4>1
    <3> QED BY <1>2, <3>1, <3>2
  <2> QED BY <1>1, <1>3, <2>1, <2>3, <2>4
<1> QED BY <1>5, <1>6, <1>7, <1>8 DEF ReadBus

\* A queue a cycle on keeps its distances.
LEMMA ShiftedApart ==
  ASSUME NEW w, NEW w2, NEW d, Shifted(w, w2, d), DOMAIN w2 \subseteq Nat \ {0},
         \A i \in DOMAIN w : w[i].left \in Int /\ w[i].left >= 1,
         \A i, j \in DOMAIN w : i < j => w[i].left + Timing.BL2 <= w[j].left
  PROVE  /\ \A i \in DOMAIN w2 : w2[i].left \in Int /\ w2[i].left >= 1
         /\ \A i, j \in DOMAIN w2 : i < j => w2[i].left + Timing.BL2 <= w2[j].left
         /\ d = 1 => \A i \in DOMAIN w2 : Timing.BL2 <= w2[i].left
<1>1. d \in {0, 1} /\ \A i \in DOMAIN w2 : i + d \in DOMAIN w /\ w2[i].left = w[i + d].left - 1
  BY DEF Shifted
<1>2. Timing.BL2 \in Nat /\ Timing.BL2 >= 1 BY TimingTypes
<1>3. ASSUME NEW i \in DOMAIN w2
      PROVE  /\ i + d \in DOMAIN w /\ w2[i].left = w[i + d].left - 1 /\ w[i + d].left \in Int
             /\ w[i + d].left >= 1 /\ i \in Nat /\ i >= 1
  BY <1>1
<1>4. d = 1 => \A i \in DOMAIN w2 : Timing.BL2 <= w2[i].left
  <2> SUFFICES ASSUME d = 1, NEW i \in DOMAIN w2 PROVE Timing.BL2 <= w2[i].left OBVIOUS
  <2>1. 1 \in DOMAIN w /\ w[1].left = 1 BY DEF Shifted
  <2>2. w[1].left + Timing.BL2 <= w[i + d].left
    <3>1. 1 < i + d BY <1>3
    <3> QED BY <1>3, <2>1, <3>1
  <2> QED BY <1>2, <1>3, <2>1, <2>2
<1>5. \A i \in DOMAIN w2 : w2[i].left \in Int /\ w2[i].left >= 1
  <2> TAKE i \in DOMAIN w2
  <2>1. CASE d = 1 BY <1>2, <1>3, <1>4, <2>1
  <2>2. CASE d = 0
    <3>1. w[i + d].left # 1 BY <1>3, <2>2 DEF Shifted
    <3> QED BY <1>3, <3>1
  <2> QED BY <1>1, <2>1, <2>2
<1>6. \A i, j \in DOMAIN w2 : i < j => w2[i].left + Timing.BL2 <= w2[j].left
  <2> TAKE i, j \in DOMAIN w2
  <2> HAVE i < j
  <2>1. i + d < j + d BY <1>1, <1>3
  <2>2. w[i + d].left + Timing.BL2 <= w[j + d].left BY <1>3, <2>1
  <2> QED BY <1>2, <1>3, <2>2
<1> QED BY <1>4, <1>5, <1>6

\* The spacing of the write data survives a cycle of the data bus.
LEMMA WriteBusAged ==
  ASSUME NEW w \in Seq(WriteData), NEW w2 \in Seq(WriteData), NEW e, Shifted(w, w2, e),
         NEW d \in WriteData \cup {None}, NEW d2 \in WriteData \cup {None}, Driven(w, d, d2, e),
         NEW a, NEW z, WriteBus(w, d, a, 1),
         \A r \in Ranks, b \in Banks :
           /\ z[r][b].state = "RowActive" => a[r][b].state = "RowActive"
           /\ z[r][b].write = a[r][b].write /\ a[r][b].write \in Nat
  PROVE  WriteBus(w2, d2, z, 0)
<1>1. /\ \A i \in DOMAIN w : w[i].left \in Int
      /\ \A i \in DOMAIN w2 : i \in Nat /\ i >= 1
      /\ d # None => d.left \in Int
      /\ d2 # None => d2.left \in Int
  <2>1. \A x \in WriteData : x.left \in Int BY DEF WriteData
  <2>2. /\ \A i \in DOMAIN w : w[i] \in WriteData
        /\ \A i \in DOMAIN w2 : i \in Nat /\ i >= 1
    OBVIOUS
  <2> QED BY <2>1, <2>2
<1>2. e \in {0, 1} /\ \A i \in DOMAIN w2 : i + e \in DOMAIN w /\ w2[i].left = w[i + e].left - 1
  BY DEF Shifted
<1>3. /\ Timing.BL2 \in Nat /\ Timing.BL2 >= 1 /\ Timing.WL \in Nat BY TimingTypes
<1>4. /\ \A i \in DOMAIN w : w[i].left >= 1 /\ w[i].left + 1 <= Timing.WL + 1
      /\ \A i, j \in DOMAIN w : i < j => w[i].left + Timing.BL2 <= w[j].left
      /\ d # None => d.left <= Timing.BL2 /\ \A i \in DOMAIN w : d.left <= w[i].left
      /\ \A r \in Ranks, b \in Banks :
           a[r][b].state = "RowActive" =>
             /\ \A i \in DOMAIN w : w[i].left + Timing.BL2 <= Timing.WL + a[r][b].write + 1
             /\ d # None => d.left <= Timing.WL + a[r][b].write + 1
  BY DEF WriteBus
<1>5. /\ \A i \in DOMAIN w2 : w2[i].left \in Int /\ w2[i].left >= 1
      /\ \A i, j \in DOMAIN w2 : i < j => w2[i].left + Timing.BL2 <= w2[j].left
      /\ e = 1 => \A i \in DOMAIN w2 : Timing.BL2 <= w2[i].left
  <2>1. DOMAIN w2 \subseteq Nat \ {0} BY <1>1
  <2> QED BY <1>1, <1>4, <2>1, ShiftedApart
<1>6. \A i \in DOMAIN w2 : w2[i].left + 1 <= Timing.WL + 0 BY <1>1, <1>2, <1>3, <1>4
<1>7. ASSUME d2 # None
      PROVE  \/ e = 1 /\ d2.left = Timing.BL2 /\ 1 \in DOMAIN w /\ w[1].left = 1
             \/ e = 0 /\ d # None /\ d.left > 1 /\ d2.left = d.left - 1
  BY <1>1, <1>2, <1>7 DEF Driven, Shifted
<1>8. d2 # None => /\ d2.left >= 1 /\ d2.left <= Timing.BL2
                   /\ \A i \in DOMAIN w2 : d2.left <= w2[i].left
  <2> SUFFICES ASSUME d2 # None
               PROVE  d2.left >= 1 /\ d2.left <= Timing.BL2 /\ \A i \in DOMAIN w2 : d2.left <= w2[i].left
    OBVIOUS
  <2>1. CASE e = 1 /\ d2.left = Timing.BL2 BY <1>3, <1>5, <2>1
  <2>2. CASE e = 0 /\ d # None /\ d.left > 1 /\ d2.left = d.left - 1
    <3>1. d.left \in Int /\ d.left <= Timing.BL2 BY <1>1, <1>4, <2>2
    <3>2. ASSUME NEW i \in DOMAIN w2 PROVE d2.left <= w2[i].left
      <4>1. i + e \in DOMAIN w /\ w2[i].left = w[i + e].left - 1 BY <1>2
      <4>2. d.left <= w[i + e].left BY <1>4, <2>2, <4>1
      <4> QED BY <1>1, <2>2, <3>1, <4>1, <4>2
    <3> QED BY <1>3, <2>2, <3>1, <3>2
  <2> QED BY <1>7, <2>1, <2>2
<1>9. ASSUME NEW r \in Ranks, NEW b \in Banks, z[r][b].state = "RowActive"
      PROVE  /\ \A i \in DOMAIN w2 : w2[i].left + Timing.BL2 <= Timing.WL + z[r][b].write + 0
             /\ d2 # None => d2.left <= Timing.WL + z[r][b].write + 0
  <2> DEFINE n == a[r][b].write
  <2>1. z[r][b].write = n /\ n \in Nat /\ a[r][b].state = "RowActive" BY <1>9
  <2>2. /\ \A i \in DOMAIN w : w[i].left + Timing.BL2 <= Timing.WL + n + 1
        /\ d # None => d.left <= Timing.WL + n + 1
    BY <1>4, <2>1
  <2> HIDE DEF n
  <2>3. ASSUME NEW i \in DOMAIN w2 PROVE w2[i].left + Timing.BL2 <= Timing.WL + n
    <3>1. i + e \in DOMAIN w /\ w2[i].left = w[i + e].left - 1 /\ w[i + e].left \in Int
      BY <1>1, <1>2
    <3> DEFINE x == w[i + e].left
    <3>2. x \in Int /\ x + Timing.BL2 <= Timing.WL + n + 1 /\ w2[i].left = x - 1 BY <2>2, <3>1
    <3> HIDE DEF x
    <3>3. (x - 1) + Timing.BL2 <= Timing.WL + n BY <1>3, <2>1, <3>2, OneLess
    <3> QED BY <3>2, <3>3
  <2>4. ASSUME d2 # None PROVE d2.left <= Timing.WL + n
    <3>1. CASE e = 1 /\ d2.left = Timing.BL2 /\ 1 \in DOMAIN w /\ w[1].left = 1
      <4>1. 1 + Timing.BL2 <= Timing.WL + n + 1 BY <2>2, <3>1
      <4> QED BY <1>3, <2>1, <3>1, <4>1
    <3>2. CASE e = 0 /\ d # None /\ d.left > 1 /\ d2.left = d.left - 1
      <4>1. d.left \in Int /\ d.left <= Timing.WL + n + 1 BY <1>1, <2>2, <3>2
      <4> QED BY <1>3, <2>1, <3>2, <4>1
    <3> QED BY <1>7, <2>4, <3>1, <3>2
  <2>5. Timing.WL + z[r][b].write + 0 = Timing.WL + n BY <1>3, <2>1
  <2> QED BY <2>3, <2>4, <2>5
<1> QED BY <1>5, <1>6, <1>8, <1>9 DEF WriteBus

\* The gap between the reads of a rank and its writes survives a cycle.
LEMMA TurnAroundAged ==
  ASSUME NEW v \in Seq(Burst), NEW v2 \in Seq(Burst), NEW d, Shifted(v, v2, d),
         NEW out \in Burst \cup {None}, NEW out2 \in Burst \cup {None}, Driven(v, out, out2, d),
         NEW w \in Seq(WriteData), NEW w2 \in Seq(WriteData), NEW e, Shifted(w, w2, e),
         \A i \in DOMAIN w2 : w2[i].rank = w[i + e].rank,
         NEW data \in WriteData \cup {None}, NEW data2 \in WriteData \cup {None},
         Driven(w, data, data2, e),
         data2 # None => data2.rank = IF e = 1 THEN w[1].rank ELSE data.rank,
         NEW a, NEW z, SameWaits(a, z), NEW books, NEW r,
         ReadBus(v, out, a, 1), WriteBus(w, data, books, 1), TurnAround(v, out, w, data, a, r, 1)
  PROVE  TurnAround(v2, out2, w2, data2, z, r, 0)
<1>1. /\ \A i \in DOMAIN v : v[i].left \in Int
      /\ \A i \in DOMAIN v2 : i \in Nat /\ i >= 1
      /\ \A i \in DOMAIN w : w[i].left \in Int
      /\ \A i \in DOMAIN w2 : i \in Nat /\ i >= 1
      /\ out # None => out.left \in Int
      /\ data # None => data.left \in Int
  <2>1. (\A x \in Burst : x.left \in Int) /\ \A x \in WriteData : x.left \in Int
    BY DEF Burst, WriteData
  <2>2. /\ \A i \in DOMAIN v : v[i] \in Burst
        /\ \A i \in DOMAIN v2 : i \in Nat /\ i >= 1
        /\ \A i \in DOMAIN w : w[i] \in WriteData
        /\ \A i \in DOMAIN w2 : i \in Nat /\ i >= 1
    OBVIOUS
  <2> QED BY <2>1, <2>2
<1>2. /\ d \in {0, 1} /\ \A i \in DOMAIN v2 : i + d \in DOMAIN v /\ v2[i].left = v[i + d].left - 1
      /\ e \in {0, 1} /\ \A i \in DOMAIN w2 : i + e \in DOMAIN w /\ w2[i].left = w[i + e].left - 1
  BY DEF Shifted
<1>3. /\ Timing.BL2 \in Nat /\ Timing.BL2 >= 1 /\ Timing.RL \in Nat /\ Timing.WL \in Nat
  BY TimingTypes
<1>4. /\ \A i \in DOMAIN v : v[i].left >= 1
      /\ \A i, j \in DOMAIN v : i < j => v[i].left + Timing.BL2 <= v[j].left
  BY DEF ReadBus
<1>5. /\ \A i \in DOMAIN w : w[i].left >= 1
      /\ \A i, j \in DOMAIN w : i < j => w[i].left + Timing.BL2 <= w[j].left
      /\ data # None => \A i \in DOMAIN w : data.left <= w[i].left
  BY DEF WriteBus
<1>6. /\ \A i \in DOMAIN v2 : v2[i].left \in Int /\ v2[i].left >= 1
      /\ d = 1 => \A i \in DOMAIN v2 : Timing.BL2 <= v2[i].left
  <2>1. DOMAIN v2 \subseteq Nat \ {0} BY <1>1
  <2> QED BY <1>1, <1>4, <2>1, ShiftedApart
<1>7. /\ \A i \in DOMAIN w2 : w2[i].left \in Int /\ w2[i].left >= 1
      /\ e = 1 => \A i \in DOMAIN w2 : Timing.BL2 <= w2[i].left
  <2>1. DOMAIN w2 \subseteq Nat \ {0} BY <1>1
  <2> QED BY <1>1, <1>5, <2>1, ShiftedApart
<1>8. /\ d = 1 => 1 \in DOMAIN v /\ v[1].left = 1
      /\ d = 0 => \A i \in DOMAIN v : v[i].left # 1
      /\ e = 1 => 1 \in DOMAIN w /\ w[1].left = 1
  BY DEF Shifted
<1>9. /\ d = 1 => out2 # None /\ out2.left = Timing.BL2
      /\ d = 0 /\ out2 # None => out # None /\ out.left > 1 /\ out2.left = out.left - 1
      /\ d = 0 /\ out = None => out2 = None
      /\ d = 0 /\ out # None /\ out.left <= 1 => out2 = None
  BY <1>1 DEF Driven
<1>10. /\ e = 1 => data2 # None /\ data2.left = Timing.BL2
       /\ e = 0 /\ data2 # None => data # None /\ data.left > 1 /\ data2.left = data.left - 1
  BY <1>1 DEF Driven
<1>11. /\ \A i \in DOMAIN w : w[i].rank = r =>
            /\ \A j \in DOMAIN v : \/ v[j].left + Timing.BL2 <= w[i].left
                                   \/ w[i].left + Timing.BL2 <= v[j].left
            /\ out # None => out.left <= w[i].left
            /\ \A b \in Banks : w[i].left + Timing.BL2 <= Timing.RL + a[b].read + 1 + 1
       /\ data # None /\ data.rank = r =>
            /\ out = None
            /\ \A j \in DOMAIN v : data.left <= v[j].left
            /\ \A b \in Banks : data.left <= Timing.RL + a[b].read + 1 + 1
  BY DEF TurnAround
<1>12. \A b \in Banks : z[b].read = a[b].read /\ a[b].read \in Nat BY DEF SameWaits
<1>13. ASSUME NEW i \in DOMAIN w2, w2[i].rank = r
       PROVE  /\ \A j \in DOMAIN v2 : \/ v2[j].left + Timing.BL2 <= w2[i].left
                                      \/ w2[i].left + Timing.BL2 <= v2[j].left
              /\ out2 # None => out2.left <= w2[i].left
              /\ \A b \in Banks : w2[i].left + Timing.BL2 <= Timing.RL + z[b].read + 1 + 0
  <2>1. /\ i + e \in DOMAIN w /\ w2[i].left = w[i + e].left - 1 /\ w[i + e].rank = r
        /\ w[i + e].left \in Int /\ w[i + e].left >= 1
    BY <1>1, <1>2, <1>5, <1>13
  <2>2. /\ \A j \in DOMAIN v : \/ v[j].left + Timing.BL2 <= w[i + e].left
                               \/ w[i + e].left + Timing.BL2 <= v[j].left
        /\ out # None => out.left <= w[i + e].left
        /\ \A b \in Banks : w[i + e].left + Timing.BL2 <= Timing.RL + a[b].read + 1 + 1
    BY <1>11, <2>1
  <2>3. ASSUME NEW j \in DOMAIN v2
        PROVE  \/ v2[j].left + Timing.BL2 <= w2[i].left
               \/ w2[i].left + Timing.BL2 <= v2[j].left
    <3>1. j + d \in DOMAIN v /\ v2[j].left = v[j + d].left - 1 /\ v[j + d].left \in Int
      BY <1>1, <1>2
    <3>2. \/ v[j + d].left + Timing.BL2 <= w[i + e].left
          \/ w[i + e].left + Timing.BL2 <= v[j + d].left
      BY <2>2, <3>1
    <3> DEFINE x == w[i + e].left
               y == v[j + d].left
    <3>3. /\ x \in Int /\ y \in Int /\ w2[i].left = x - 1 /\ v2[j].left = y - 1
          /\ y + Timing.BL2 <= x \/ x + Timing.BL2 <= y
      BY <2>1, <3>1, <3>2
    <3> HIDE DEF x, y
    <3>4. (y - 1) + Timing.BL2 <= x - 1 \/ (x - 1) + Timing.BL2 <= y - 1 BY <1>3, <3>3
    <3> QED BY <3>3, <3>4
  <2>4. ASSUME out2 # None PROVE out2.left <= w2[i].left
    <3>1. CASE d = 1
      <4>1. v[1].left + Timing.BL2 <= w[i + e].left \/ w[i + e].left + Timing.BL2 <= v[1].left
        BY <1>8, <2>2, <3>1
      <4> QED BY <1>3, <1>8, <1>9, <2>1, <3>1, <4>1
    <3>2. CASE d = 0 BY <1>1, <1>9, <2>1, <2>2, <2>4, <3>2
    <3> QED BY <1>2, <3>1, <3>2
  <2>5. ASSUME NEW b \in Banks
        PROVE  w2[i].left + Timing.BL2 <= Timing.RL + z[b].read + 1 + 0
    <3> DEFINE n == a[b].read
               x == w[i + e].left
    <3>1. n \in Nat /\ z[b].read = n /\ x \in Int /\ w2[i].left = x - 1 BY <1>12, <2>1
    <3>2. x + Timing.BL2 <= Timing.RL + n + 1 + 1 BY <2>2
    <3> HIDE DEF n, x
    <3>3. x + Timing.BL2 <= Timing.RL + n + 2 BY <1>3, <3>1, <3>2
    <3>4. (x - 1) + Timing.BL2 <= Timing.RL + n + 1 BY <1>3, <3>1, <3>3, OneLess
    <3>5. Timing.RL + n + 1 + 0 = Timing.RL + n + 1 BY <1>3, <3>1
    <3> QED BY <3>1, <3>4, <3>5
  <2> QED BY <2>3, <2>4, <2>5
<1>14. ASSUME data2 # None, data2.rank = r
       PROVE  /\ out2 = None
              /\ \A j \in DOMAIN v2 : data2.left <= v2[j].left
              /\ \A b \in Banks : data2.left <= Timing.RL + z[b].read + 1 + 0
  <2>1. CASE e = 1
    <3>1. w[1].rank = r /\ w[1].left = 1 /\ 1 \in DOMAIN w /\ data2.left = Timing.BL2
      BY <1>8, <1>10, <1>14, <2>1
    <3>2. /\ \A j \in DOMAIN v : 1 + Timing.BL2 <= v[j].left
          /\ out # None => out.left <= 1
          /\ \A b \in Banks : 1 + Timing.BL2 <= Timing.RL + a[b].read + 1 + 1
      <4>1. ASSUME NEW j \in DOMAIN v PROVE 1 + Timing.BL2 <= v[j].left
        <5>1. v[j].left + Timing.BL2 <= w[1].left \/ w[1].left + Timing.BL2 <= v[j].left
          BY <1>11, <3>1
        <5> QED BY <1>1, <1>3, <1>4, <3>1, <5>1
      <4>2. /\ out # None => out.left <= w[1].left
            /\ \A b \in Banks : w[1].left + Timing.BL2 <= Timing.RL + a[b].read + 1 + 1
        BY <1>11, <3>1
      <4> QED BY <3>1, <4>1, <4>2
    <3>3. d = 0 BY <1>2, <1>3, <1>8, <3>2
    <3>4. out2 = None BY <1>9, <3>2, <3>3
    <3>5. ASSUME NEW j \in DOMAIN v2 PROVE data2.left <= v2[j].left
      <4>1. j + d \in DOMAIN v /\ v2[j].left = v[j + d].left - 1 /\ v[j + d].left \in Int
        BY <1>1, <1>2
      <4>2. 1 + Timing.BL2 <= v[j + d].left BY <3>2, <4>1
      <4> QED BY <1>3, <3>1, <4>1, <4>2
    <3>6. ASSUME NEW b \in Banks PROVE data2.left <= Timing.RL + z[b].read + 1 + 0
      <4>1. 1 + Timing.BL2 <= Timing.RL + a[b].read + 1 + 1 /\ z[b].read = a[b].read /\ a[b].read \in Nat
        BY <1>12, <3>2
      <4> QED BY <1>3, <3>1, <4>1
    <3> QED BY <3>4, <3>5, <3>6
  <2>2. CASE e = 0
    <3>1. data # None /\ data.rank = r /\ data.left > 1 /\ data2.left = data.left - 1 /\ data.left \in Int
      BY <1>1, <1>10, <1>14, <2>2
    <3>2. /\ out = None
          /\ \A j \in DOMAIN v : data.left <= v[j].left
          /\ \A b \in Banks : data.left <= Timing.RL + a[b].read + 1 + 1
      BY <1>11, <3>1
    <3>3. d = 0 BY <1>2, <1>8, <3>1, <3>2
    <3>4. out2 = None BY <1>9, <3>2, <3>3
    <3>5. ASSUME NEW j \in DOMAIN v2 PROVE data2.left <= v2[j].left
      <4>1. j + d \in DOMAIN v /\ v2[j].left = v[j + d].left - 1 /\ v[j + d].left \in Int
        BY <1>1, <1>2
      <4>2. data.left <= v[j + d].left BY <3>2, <4>1
      <4> QED BY <3>1, <4>1, <4>2
    <3>6. ASSUME NEW b \in Banks PROVE data2.left <= Timing.RL + z[b].read + 1 + 0
      <4>1. data.left <= Timing.RL + a[b].read + 1 + 1 /\ z[b].read = a[b].read /\ a[b].read \in Nat
        BY <1>12, <3>2
      <4> QED BY <1>3, <3>1, <4>1
    <3> QED BY <3>4, <3>5, <3>6
  <2> QED BY <1>2, <2>1, <2>2
<1> QED BY <1>13, <1>14 DEF TurnAround

\* A queue that is counted down, its first member leaving at its time.
LEMMA AgedShifted ==
  ASSUME NEW S, NEW q \in Seq(S), NEW a \in Seq(S), Len(a) = Len(q),
         \A i \in DOMAIN q : a[i].left = q[i].left - 1 /\ q[i].left \in Int
  PROVE  /\ q # <<>> /\ Head(q).left = 1 => /\ Shifted(q, Tail(a), 1) /\ Len(Tail(a)) = Len(q) - 1
                                            /\ Tail(a) \in Seq(S)
         /\ (q = <<>> \/ \A i \in DOMAIN q : q[i].left # 1) => Shifted(q, a, 0)
<1>1. DOMAIN a = DOMAIN q /\ DOMAIN q = 1 .. Len(q) /\ Len(q) \in Nat OBVIOUS
<1>2. ASSUME q # <<>>, Head(q).left = 1
      PROVE  Shifted(q, Tail(a), 1) /\ Len(Tail(a)) = Len(q) - 1 /\ Tail(a) \in Seq(S)
  <2>1. a # <<>> /\ 1 \in DOMAIN q /\ Head(q) = q[1] BY <1>1, <1>2
  <2>2. /\ Len(Tail(a)) = Len(q) - 1 /\ Tail(a) \in Seq(S)
        /\ \A j \in DOMAIN Tail(a) : j + 1 \in DOMAIN q /\ Tail(a)[j] = a[j + 1]
    BY <1>1, <2>1, TailMembers
  <2>3. \A j \in DOMAIN Tail(a) : j + 1 \in DOMAIN q /\ Tail(a)[j].left = q[j + 1].left - 1
    BY <2>2
  <2> QED BY <1>2, <2>1, <2>2, <2>3 DEF Shifted
<1>3. ASSUME q = <<>> \/ \A i \in DOMAIN q : q[i].left # 1 PROVE Shifted(q, a, 0)
  <2>1. \A i \in DOMAIN q : q[i].left # 1 BY <1>3
  <2>2. \A i \in DOMAIN a : i + 0 \in DOMAIN q /\ a[i].left = q[i + 0].left - 1
    <3> TAKE i \in DOMAIN a
    <3>1. i + 0 = i BY <1>1
    <3> QED BY <1>1, <3>1
  <2> QED BY <2>1, <2>2 DEF Shifted
<1> QED BY <1>2, <1>3

\* A member that joins both, a cycle older in the one.
LEMMA JoinedShifted ==
  ASSUME NEW S, NEW v \in Seq(S), NEW v2 \in Seq(S), NEW d, Shifted(v, v2, d), Len(v2) = Len(v) - d,
         NEW y \in S, NEW y2 \in S, y.left \in Int, y.left > 1, y2.left = y.left - 1
  PROVE  Shifted(Append(v, y), Append(v2, y2), d)
<1>1. d \in {0, 1} /\ Len(v) \in Nat /\ Len(v2) \in Nat /\ DOMAIN v = 1 .. Len(v) /\ DOMAIN v2 = 1 .. Len(v2)
  BY DEF Shifted
<1>2. /\ DOMAIN Append(v, y) = 1 .. Len(v) + 1 /\ Append(v, y)[Len(v) + 1] = y
      /\ \A i \in 1 .. Len(v) : Append(v, y)[i] = v[i]
      /\ DOMAIN Append(v2, y2) = 1 .. Len(v2) + 1 /\ Append(v2, y2)[Len(v2) + 1] = y2
      /\ \A i \in 1 .. Len(v2) : Append(v2, y2)[i] = v2[i]
  OBVIOUS
<1>3. ASSUME NEW i \in DOMAIN Append(v2, y2)
      PROVE  /\ i + d \in DOMAIN Append(v, y)
             /\ Append(v2, y2)[i].left = Append(v, y)[i + d].left - 1
  <2>1. CASE i \in DOMAIN v2
    <3>1. i + d \in DOMAIN v /\ v2[i].left = v[i + d].left - 1 BY <2>1 DEF Shifted
    <3> QED BY <1>1, <1>2, <2>1, <3>1
  <2>2. CASE i = Len(v2) + 1
    <3>1. i + d = Len(v) + 1 BY <1>1, <2>2
    <3> QED BY <1>1, <1>2, <2>2, <3>1
  <2> QED BY <1>1, <1>2, <2>1, <2>2
<1>4. d = 1 => 1 \in DOMAIN Append(v, y) /\ Append(v, y)[1].left = 1
  <2> HAVE d = 1
  <2>1. 1 \in DOMAIN v /\ v[1].left = 1 BY DEF Shifted
  <2> QED BY <1>1, <1>2, <2>1
<1>5. d = 0 => \A i \in DOMAIN Append(v, y) : Append(v, y)[i].left # 1
  <2> SUFFICES ASSUME d = 0, NEW i \in DOMAIN Append(v, y) PROVE Append(v, y)[i].left # 1
    OBVIOUS
  <2>1. CASE i \in DOMAIN v
    <3>1. v[i].left # 1 BY <2>1 DEF Shifted
    <3> QED BY <1>1, <1>2, <2>1, <3>1
  <2>2. CASE i = Len(v) + 1 BY <1>2, <2>2
  <2> QED BY <1>1, <1>2, <2>1, <2>2
<1> QED BY <1>1, <1>3, <1>4, <1>5 DEF Shifted

\* The reads of a rank: their countdowns, the arriving one, and what the rank drives.
LEMMA RankShifted ==
  ASSUME NEW k \in RankState, NEW x \in Ranks, NEW c \in Command \cup {None}, NEW a, NEW e,
         ReadBus(Coming(k, x, c), k.out, a, e)
  PROVE  LET t == UpdateRank(k)
             v == Coming(k, x, c)
             v2 == IF c # None /\ c.kind = "READ" /\ c.rank = x THEN Append(t.reads, BurstOf(c))
                   ELSE t.reads
             d == IF BurstStarts(k) THEN 1 ELSE 0
         IN  /\ v \in Seq(Burst) /\ v2 \in Seq(Burst) /\ t.out \in Burst \cup {None}
             /\ Shifted(v, v2, d) /\ Driven(v, k.out, t.out, d)
<1> DEFINE t == UpdateRank(k)
           q == k.reads
           g == Aged(q)
           v == Coming(k, x, c)
           v2 == IF c # None /\ c.kind = "READ" /\ c.rank = x THEN Append(t.reads, BurstOf(c))
                 ELSE t.reads
           d == IF BurstStarts(k) THEN 1 ELSE 0
           y == [BurstOf(c) EXCEPT !.left = Timing.RL + 1]
<1>1. q \in Seq(Burst) /\ k.out \in Burst \cup {None} BY DEF RankState
<1>2. /\ g \in Seq(Burst) /\ Len(g) = Len(q)
      /\ \A i \in DOMAIN q : g[i].left = q[i].left - 1 /\ q[i].left \in Int
  BY <1>1, BurstsAged DEF Burst
<1>3. /\ t.reads = IF BurstStarts(k) THEN Tail(g) ELSE g
      /\ BurstStarts(k) => t.out = [read |-> Head(k.reads).read, left |-> Timing.BL2]
      /\ ~BurstStarts(k) => t.out = IF k.out = None \/ BurstEnds(k) THEN None ELSE Goes(k.out)
      /\ t \in RankState
  BY UpdateRankFields
<1>4. t.reads \in Seq(Burst) /\ t.out \in Burst \cup {None} BY <1>3 DEF RankState
<1>5. ASSUME c # None /\ c.kind = "READ" /\ c.rank = x
      PROVE  /\ y \in Burst /\ y.left = Timing.RL + 1 /\ BurstOf(c) \in Burst /\ BurstOf(c).left = Timing.RL
             /\ v = Append(q, y) /\ v2 = Append(t.reads, BurstOf(c))
  <2>1. c \in Command BY <1>5
  <2>2. BurstOf(c) \in Burst /\ BurstOf(c).left = Timing.RL BY <1>5, <2>1, ColumnCommandFields
  <2>3. y \in Burst /\ y.left = Timing.RL + 1 BY <2>2, TimingTypes DEF Burst
  <2> QED BY <1>5, <2>2, <2>3 DEF Coming
<1>6. ~(c # None /\ c.kind = "READ" /\ c.rank = x) => v = q /\ v2 = t.reads BY DEF Coming
<1>7. v \in Seq(Burst) /\ v2 \in Seq(Burst)
  <2>1. CASE c # None /\ c.kind = "READ" /\ c.rank = x
    <3>1. Append(q, y) \in Seq(Burst) /\ Append(t.reads, BurstOf(c)) \in Seq(Burst)
      BY <1>1, <1>4, <1>5, <2>1
    <3> QED BY <1>5, <2>1, <3>1
  <2>2. CASE ~(c # None /\ c.kind = "READ" /\ c.rank = x) BY <1>1, <1>4, <1>6, <2>2
  <2> QED BY <2>1, <2>2
<1>8. /\ \A i, j \in DOMAIN v : i < j => v[i].left + Timing.BL2 <= v[j].left
      /\ \A i \in DOMAIN v : v[i].left >= 1
      /\ k.out # None => k.out.left >= 1
  BY DEF ReadBus
<1>9. /\ \A i, j \in DOMAIN q : i < j => q[i].left + Timing.BL2 <= q[j].left
      /\ \A i \in DOMAIN q : q[i].left >= 1
  <2>1. CASE c # None /\ c.kind = "READ" /\ c.rank = x
    <3>1. /\ DOMAIN q \subseteq DOMAIN v
          /\ \A i \in DOMAIN q : v[i] = q[i]
      <4>1. /\ DOMAIN q = 1 .. Len(q) /\ DOMAIN Append(q, y) = 1 .. Len(q) + 1 /\ Len(q) \in Nat
            /\ \A i \in DOMAIN q : Append(q, y)[i] = q[i]
        BY <1>1, <1>5, <2>1
      <4> HIDE DEF y, q, v
      <4> QED BY <1>5, <2>1, <4>1
    <3> QED BY <1>8, <3>1
  <2>2. CASE ~(c # None /\ c.kind = "READ" /\ c.rank = x) BY <1>6, <1>8, <2>2
  <2> QED BY <2>1, <2>2
<1>10. ~BurstStarts(k) => q = <<>> \/ \A i \in DOMAIN q : q[i].left # 1
  <2> SUFFICES ASSUME ~BurstStarts(k), q # <<>>, NEW i \in DOMAIN q PROVE q[i].left # 1 OBVIOUS
  <2>1. 1 \in DOMAIN q /\ Head(q) = q[1] BY <1>1
  <2>2. q[1].left # 1 BY <2>1 DEF BurstStarts
  <2>3. CASE i = 1 BY <2>2, <2>3
  <2>4. CASE i # 1
    <3>1. 1 < i BY <1>1, <2>4
    <3>2. q[1].left + Timing.BL2 <= q[i].left /\ q[1].left >= 1 /\ q[1].left \in Int
      BY <1>2, <1>9, <2>1, <3>1
    <3>3. q[i].left \in Int /\ Timing.BL2 \in Nat /\ Timing.BL2 > 0 BY <1>2, TimingTypes
    <3> QED BY <3>2, <3>3
  <2> QED BY <2>3, <2>4
<1>11. Shifted(q, t.reads, d) /\ Len(t.reads) = Len(q) - d
  <2>1. CASE BurstStarts(k)
    <3>1. q # <<>> /\ Head(q).left = 1 BY <2>1 DEF BurstStarts
    <3>2. Shifted(q, Tail(g), 1) /\ Len(Tail(g)) = Len(q) - 1 BY <1>1, <1>2, <3>1, AgedShifted
    <3> QED BY <1>3, <2>1, <3>2
  <2>2. CASE ~BurstStarts(k)
    <3>1. Shifted(q, g, 0)
      <4> HIDE DEF q, g
      <4> QED BY <1>1, <1>2, <1>10, <2>2, AgedShifted
    <3>2. Len(g) = Len(q) - 0 BY <1>1, <1>2
    <3> QED BY <1>3, <2>2, <3>1, <3>2
  <2> QED BY <2>1, <2>2
<1>12. Shifted(v, v2, d)
  <2>1. CASE c # None /\ c.kind = "READ" /\ c.rank = x
    <3>1. y.left \in Int /\ y.left > 1 /\ BurstOf(c).left = y.left - 1
      <4>1. y.left = Timing.RL + 1 /\ BurstOf(c).left = Timing.RL BY <1>5, <2>1
      <4>2. Timing.RL \in Nat /\ Timing.RL > 0 BY TimingTypes
      <4> HIDE DEF y
      <4> QED BY <4>1, <4>2
    <3>2. Shifted(Append(q, y), Append(t.reads, BurstOf(c)), d)
      <4>1. y \in Burst /\ BurstOf(c) \in Burst BY <1>5, <2>1
      <4> HIDE DEF q, t, y, d
      <4> QED BY <1>1, <1>4, <1>11, <3>1, <4>1, JoinedShifted
    <3>3. v = Append(q, y) /\ v2 = Append(t.reads, BurstOf(c)) BY <1>5, <2>1
    <3> HIDE DEF q, t, y, d, v, v2
    <3> QED BY <3>2, <3>3
  <2>2. CASE ~(c # None /\ c.kind = "READ" /\ c.rank = x) BY <1>6, <1>11, <2>2
  <2> QED BY <2>1, <2>2
<1>13. Driven(v, k.out, t.out, d)
  <2>1. CASE BurstStarts(k)
    <3>1. t.out = [read |-> Head(k.reads).read, left |-> Timing.BL2] /\ d = 1 BY <1>3, <2>1
    <3>2. t.out \in Burst
      <4>1. Head(k.reads) \in Burst BY <1>1, <2>1 DEF BurstStarts
      <4> QED BY <3>1, <4>1, TimingTypes DEF Burst
    <3>3. t.out # None /\ t.out.left = Timing.BL2 BY <3>1, <3>2, NoneApart
    <3> HIDE DEF t, d, v
    <3> QED BY <3>1, <3>3 DEF Driven
  <2>2. CASE ~BurstStarts(k)
    <3>1. t.out = (IF k.out = None \/ BurstEnds(k) THEN None ELSE Goes(k.out)) /\ d = 0
      BY <1>3, <2>2
    <3>2. k.out # None => k.out \in Burst /\ k.out.left \in Int BY <1>1 DEF Burst
    <3>3. CASE k.out = None BY <3>1, <3>3 DEF Driven
    <3>4. CASE k.out # None /\ k.out.left = 1 BY <3>1, <3>4 DEF Driven, BurstEnds
    <3>5. CASE k.out # None /\ k.out.left # 1
      <4>1. t.out = Goes(k.out) BY <3>1, <3>5 DEF BurstEnds
      <4>2. Goes(k.out).left = k.out.left - 1 /\ Goes(k.out) \in Burst
        BY <3>2, <3>5 DEF Goes, Burst
      <4>3. t.out # None /\ t.out.left = k.out.left - 1 BY <4>1, <4>2, NoneApart
      <4>4. ~(k.out.left <= 1) BY <1>8, <3>2, <3>5
      <4> HIDE DEF t, d, v
      <4> QED BY <3>1, <3>5, <4>3, <4>4 DEF Driven
    <3> QED BY <3>3, <3>4, <3>5
  <2> QED BY <2>1, <2>2
<1> QED BY <1>4, <1>7, <1>12, <1>13

\* Whether the first member of a queue leaves it.
Leaves(q) == IF q # <<>> /\ q[1].left = 1 THEN 1 ELSE 0

\* What the controller sends, a cycle on; no burst is sent over another.
LEMMA WritesSent ==
  ASSUME NEW s, Typed(s), NEW books, WriteBus(s.writes, s.data, books, 1)
  PROVE  LET d == DeliverData(s)
             t == SendData(d)
             w == s.writes
             e == Leaves(w)
         IN  /\ Shifted(w, t.writes, e) /\ Driven(w, s.data, t.data, e)
             /\ \A i \in DOMAIN t.writes :
                  /\ i + e \in DOMAIN w /\ t.writes[i].rank = w[i + e].rank
                  /\ t.writes[i].id = w[i + e].id /\ t.writes[i].value = w[i + e].value
             /\ t.data # None =>
                  /\ e = 1 => t.data.rank = w[1].rank /\ t.data.id = w[1].id /\ t.data.value = w[1].value
                  /\ e = 0 => /\ t.data.rank = s.data.rank /\ t.data.id = s.data.id
                              /\ t.data.value = s.data.value
             /\ d.data = IF s.data = None \/ ~(s.data.left > 1) THEN None
                         ELSE [s.data EXCEPT !.left = @ - 1]
             /\ e = 1 => d.data = None
             /\ t.fault = s.fault
<1> SUFFICES ASSUME NEW d, d = DeliverData(s), NEW t, t = SendData(d), NEW w, w = s.writes,
                    NEW e, e = Leaves(w)
             PROVE  /\ Shifted(w, t.writes, e) /\ Driven(w, s.data, t.data, e)
                    /\ \A i \in DOMAIN t.writes :
                         /\ i + e \in DOMAIN w /\ t.writes[i].rank = w[i + e].rank
                         /\ t.writes[i].id = w[i + e].id /\ t.writes[i].value = w[i + e].value
                    /\ t.data # None =>
                         /\ e = 1 => t.data.rank = w[1].rank /\ t.data.id = w[1].id /\ t.data.value = w[1].value
                         /\ e = 0 => /\ t.data.rank = s.data.rank /\ t.data.id = s.data.id
                                     /\ t.data.value = s.data.value
                    /\ d.data = IF s.data = None \/ ~(s.data.left > 1) THEN None
                                ELSE [s.data EXCEPT !.left = @ - 1]
                    /\ e = 1 => d.data = None
                    /\ t.fault = s.fault
  OBVIOUS
<1> DEFINE g == Aged(w)
           ready == g # <<>> /\ Head(g).left = 0
<1>e. e = IF w # <<>> /\ w[1].left = 1 THEN 1 ELSE 0 BY DEF Leaves
<1>1. w \in Seq(WriteData) /\ s.data \in WriteData \cup {None} /\ IsChannel(s)
  BY DEF Typed, DataTyped
<1>2. /\ g \in Seq(WriteData) /\ Len(g) = Len(w) /\ DOMAIN g = DOMAIN w
      /\ \A i \in DOMAIN w : /\ g[i] \in WriteData /\ g[i].id = w[i].id /\ g[i].rank = w[i].rank
                             /\ g[i].value = w[i].value /\ g[i].left = w[i].left - 1
                             /\ w[i].left \in Int
  BY <1>1, WritesAged DEF WriteData
<1>3. /\ d.data = IF s.data = None \/ (s.data # None /\ ~(s.data.left > 1)) THEN None
                  ELSE [s.data EXCEPT !.left = @ - 1]
      /\ d.writes = w /\ d.fault = s.fault /\ IsChannel(d)
  BY <1>1, DeliverDataFields
<1>4. /\ t.data = IF ready THEN [Head(g) EXCEPT !.left = Timing.BL2] ELSE d.data
      /\ t.writes = IF ready THEN Tail(g) ELSE g
      /\ t.fault = IF ready /\ d.data # None THEN s.fault \cup {"data bus collision"} ELSE s.fault
  <2>1. Aged(d.writes) = g /\ d.fault = s.fault /\ IsChannel(d) BY <1>3
  <2> HIDE DEF g
  <2> QED BY <2>1, SendDataFields
<1>5. ready <=> e = 1
  <2>1. CASE w = <<>> BY <1>2, <2>1, <1>e
  <2>2. CASE w # <<>>
    <3>1. 1 \in DOMAIN w /\ Head(g) = g[1] /\ g # <<>> BY <1>1, <1>2, <2>2
    <3>2. g[1].left = w[1].left - 1 /\ w[1].left \in Int BY <1>2, <3>1
    <3> QED BY <2>2, <3>1, <3>2, <1>e
  <2> QED BY <2>1, <2>2
<1>6. e \in {0, 1} BY <1>e
<1>7. /\ \A i \in DOMAIN w : w[i].left >= 1
      /\ \A i, j \in DOMAIN w : i < j => w[i].left + Timing.BL2 <= w[j].left
      /\ s.data # None => \A i \in DOMAIN w : s.data.left <= w[i].left
      /\ s.data # None => s.data.left \in Int /\ s.data \in WriteData /\ s.data.left >= 1
  <2>1. s.data # None => s.data.left \in Int /\ s.data \in WriteData BY <1>1 DEF WriteData
  <2> QED BY <2>1 DEF WriteBus
<1>8. e = 1 => /\ 1 \in DOMAIN w /\ w[1].left = 1 /\ w # <<>> /\ Head(w) = w[1]
               /\ s.data # None => s.data.left <= 1
               /\ d.data = None
  <2> HAVE e = 1
  <2>1. w # <<>> /\ w[1].left = 1 BY <1>e
  <2>2. 1 \in DOMAIN w /\ Head(w) = w[1] BY <1>1, <2>1
  <2>3. s.data # None => s.data.left <= 1 BY <1>7, <2>1, <2>2
  <2>4. d.data = None BY <1>3, <1>7, <2>3
  <2> QED BY <2>1, <2>2, <2>3, <2>4
<1>9. e = 0 => \A i \in DOMAIN w : w[i].left # 1
  <2> SUFFICES ASSUME e = 0, NEW i \in DOMAIN w PROVE w[i].left # 1 OBVIOUS
  <2>1. w # <<>> /\ 1 \in DOMAIN w /\ i \in Nat /\ i >= 1 BY <1>1
  <2>2. w[1].left # 1 BY <2>1, <1>e
  <2>3. CASE i = 1 BY <2>2, <2>3
  <2>4. CASE i # 1
    <3>1. w[1].left + Timing.BL2 <= w[i].left /\ w[1].left >= 1 /\ w[1].left \in Int
      <4>1. 1 < i /\ 1 \in DOMAIN w BY <2>1, <2>4
      <4> QED BY <1>2, <1>7, <4>1
    <3>2. w[i].left \in Int /\ Timing.BL2 \in Nat /\ Timing.BL2 > 0 BY <1>2, TimingTypes
    <3> QED BY <3>1, <3>2
  <2> QED BY <2>3, <2>4
<1>10. t.writes = IF e = 1 THEN Tail(g) ELSE g BY <1>4, <1>5
<1>11. Shifted(w, t.writes, e)
  <2>1. \A i \in DOMAIN w : g[i].left = w[i].left - 1 /\ w[i].left \in Int BY <1>2
  <2>2. CASE e = 1
    <3>1. Shifted(w, Tail(g), 1) BY <1>1, <1>2, <1>8, <2>1, <2>2, AgedShifted
    <3> QED BY <1>10, <2>2, <3>1
  <2>3. CASE e = 0
    <3>1. w = <<>> \/ \A i \in DOMAIN w : w[i].left # 1 BY <1>9, <2>3
    <3>2. Shifted(w, g, 0)
      <4> HIDE DEF g
      <4> QED BY <1>1, <1>2, <2>1, <3>1, AgedShifted
    <3> QED BY <1>10, <2>3, <3>2
  <2> QED BY <1>6, <2>2, <2>3
<1>12. \A i \in DOMAIN t.writes :
         /\ i + e \in DOMAIN w /\ t.writes[i].rank = w[i + e].rank
         /\ t.writes[i].id = w[i + e].id /\ t.writes[i].value = w[i + e].value
  <2>1. CASE e = 1
    <3>1. g # <<>> BY <1>2, <1>8, <2>1
    <3>2. \A j \in DOMAIN Tail(g) : j + 1 \in DOMAIN g /\ Tail(g)[j] = g[j + 1]
      BY <1>2, <3>1, TailMembers
    <3> QED BY <1>2, <1>10, <2>1, <3>2
  <2>2. CASE e = 0
    <3>1. \A i \in DOMAIN w : i + 0 = i BY <1>1
    <3> HIDE DEF g
    <3> QED BY <1>2, <1>10, <2>2, <3>1
  <2> QED BY <1>6, <2>1, <2>2
<1>13. /\ Driven(w, s.data, t.data, e)
       /\ t.data # None => LET x == IF e = 1 THEN w[1] ELSE s.data
                           IN  /\ t.data.rank = x.rank /\ t.data.id = x.id /\ t.data.value = x.value
       /\ t.fault = s.fault
  <2>1. CASE e = 1
    <3>1. g # <<>> /\ Head(g) = g[1] /\ 1 \in DOMAIN w /\ g[1] \in WriteData BY <1>2, <1>8, <2>1
    <3> DEFINE y == [g[1] EXCEPT !.left = Timing.BL2]
    <3>2. y \in WriteData /\ y.left = Timing.BL2 /\ y.rank = w[1].rank /\ y.id = w[1].id /\ y.value = w[1].value
      <4>1. y.left = Timing.BL2 /\ y.rank = g[1].rank /\ y.id = g[1].id /\ y.value = g[1].value /\ y \in WriteData
        <5>1. Timing.BL2 \in Int BY TimingTypes
        <5> HIDE DEF g
        <5> QED BY <3>1, <5>1 DEF WriteData
      <4> QED BY <1>2, <3>1, <4>1
    <3>3. t.data = y BY <1>4, <1>5, <2>1, <3>1
    <3>4. t.data # None BY <3>2, <3>3, NoneApart
    <3>5. t.fault = s.fault BY <1>4, <1>8, <2>1
    <3>6. Driven(w, s.data, t.data, e) BY <2>1, <3>2, <3>3, <3>4 DEF Driven
    <3> HIDE DEF y, g
    <3> QED BY <2>1, <3>2, <3>3, <3>5, <3>6
  <2>2. CASE e = 0
    <3>1. t.data = d.data /\ t.fault = s.fault
      <4>1. ~ready BY <1>5, <2>2
      <4> HIDE DEF ready
      <4> QED BY <1>4, <4>1
    <3>2. CASE s.data = None \/ ~(s.data.left > 1)
      <4>1. t.data = None BY <1>3, <3>1, <3>2
      <4>2. s.data # None => s.data.left <= 1 BY <1>7, <3>2
      <4> QED BY <2>2, <3>1, <4>1, <4>2 DEF Driven
    <3>3. CASE s.data # None /\ s.data.left > 1
      <4> DEFINE y == [s.data EXCEPT !.left = @ - 1]
      <4>1. y \in WriteData /\ y.left = s.data.left - 1 /\ y.rank = s.data.rank /\ y.id = s.data.id
            /\ y.value = s.data.value
        BY <1>7, <3>3 DEF WriteData
      <4>2. t.data = y BY <1>3, <3>1, <3>3
      <4>3. t.data # None BY <4>1, <4>2, NoneApart
      <4>4. ~(s.data.left <= 1) BY <1>7, <3>3
      <4> HIDE DEF y
      <4>5. Driven(w, s.data, t.data, e) BY <2>2, <3>3, <4>1, <4>2, <4>3, <4>4 DEF Driven
      <4> QED BY <2>2, <3>1, <4>1, <4>2, <4>5
    <3> QED BY <3>2, <3>3
  <2> QED BY <1>6, <2>1, <2>2
<1>14. d.data = IF s.data = None \/ ~(s.data.left > 1) THEN None ELSE [s.data EXCEPT !.left = @ - 1]
  BY <1>3
<1> QED BY <1>8, <1>11, <1>12, <1>13, <1>14

\* Settling keeps the column timers and opens no row.
LEMMA SettledFields ==
  ASSUME NEW k \in Bank
  PROVE  /\ Settled(k).read = k.read /\ Settled(k).write = k.write
         /\ Settled(k).state = "RowActive" => k.state = "RowActive"
BY DEF Settled, Bank

\* Delivering and sending write data is one shift of the write list, and never a collision.
LEMMA WritesGo ==
  ASSUME NEW c, Typed(c), NEW books, WriteBus(c.writes, c.data, books, 1),
         NEW w, w = SendData(DeliverData(c)), NEW v, v = c.writes, NEW x, x = c.data,
         NEW e, e = Leaves(v)
  PROVE  /\ Shifted(v, w.writes, e) /\ Driven(v, x, w.data, e)
         /\ \A i \in DOMAIN w.writes : w.writes[i].rank = v[i + e].rank
         /\ w.data # None => w.data.rank = IF e = 1 THEN v[1].rank ELSE x.rank
         /\ w.fault = c.fault
<1>1. LET t == SendData(DeliverData(c))
          f == Leaves(c.writes)
      IN  /\ Shifted(c.writes, t.writes, f) /\ Driven(c.writes, c.data, t.data, f)
          /\ \A i \in DOMAIN t.writes : t.writes[i].rank = c.writes[i + f].rank
          /\ t.data # None => /\ f = 1 => t.data.rank = c.writes[1].rank
                              /\ f = 0 => t.data.rank = c.data.rank
          /\ t.fault = c.fault
  BY WritesSent
<1>2. e \in {0, 1} BY DEF Leaves
<1> QED BY <1>1, <1>2

\* Until a command is issued, the update keeps the bursts of the data bus apart.
LEMMA BusAdvanced ==
  ASSUME NEW s, Typed(s), Bus(s, 1), NEW r, r = UpdateRanks(s), NEW h, h = MoveHeld(r),
         NEW b, b = UpdateBankState(h), NEW c, c = DeliverCommand(b), NEW d, d = DeliverData(c),
         NEW w, w = SendData(d)
  PROVE  Bus(w, 0) /\ w.fault = c.fault /\ w.command = None
<1>1. Typed(r) /\ Typed(h) /\ Typed(b) /\ Typed(c) /\ c.command = None /\ Typed(d) /\ Typed(w)
  <2>1. Typed(r) BY UpdateRanksTyped
  <2>2. Typed(h) BY <2>1, MoveHeldTyped
  <2>3. Typed(b) BY <2>2, UpdateBankStateTyped
  <2>4. Typed(c) /\ c.command = None BY <2>3, DeliverCommandTyped
  <2>5. Typed(d) BY <2>4, DeliverDataTyped
  <2>6. Typed(w) BY <2>5, SendDataTyped
  <2> QED BY <2>1, <2>2, <2>3, <2>4, <2>5, <2>6
<1>2. IsChannel(s) /\ IsChannel(r) /\ IsChannel(h) /\ IsChannel(b) /\ IsChannel(c) /\ IsChannel(d)
  BY <1>1 DEF Typed
<1>3. /\ r.ranks = [x \in Ranks |-> UpdateRank(s.ranks[x])] /\ r.command = s.command
      /\ r.banks = s.banks /\ r.data = s.data /\ r.writes = s.writes
  BY <1>2, UpdateRanksFields
<1>4. /\ h.ranks = r.ranks /\ h.command = r.command
      /\ h.banks = r.banks /\ h.data = r.data /\ h.writes = r.writes
  BY <1>2, MoveHeldFields
<1>5. /\ b.ranks = h.ranks /\ b.command = h.command
      /\ b.banks = [x \in Ranks |-> [y \in Banks |-> Settled(h.banks[x][y])]]
      /\ b.data = h.data /\ b.writes = h.writes
  BY <1>2, UpdateBankStateFields
<1>6. /\ b.command # None =>
           /\ c.banks = b.banks /\ c.data = b.data /\ c.writes = b.writes
           /\ \A x \in Ranks :
                /\ c.ranks[x].out = b.ranks[x].out
                /\ c.ranks[x].reads = IF b.command.kind = "READ" /\ x = b.command.rank
                                      THEN Append(b.ranks[x].reads, BurstOf(b.command))
                                      ELSE b.ranks[x].reads
      /\ b.command = None => c = b
  <2>1. ASSUME b.command # None
        PROVE  /\ c.banks = b.banks /\ c.data = b.data /\ c.writes = b.writes
               /\ \A x \in Ranks :
                    /\ c.ranks[x].out = b.ranks[x].out
                    /\ c.ranks[x].reads = IF b.command.kind = "READ" /\ x = b.command.rank
                                          THEN Append(b.ranks[x].reads, BurstOf(b.command))
                                          ELSE b.ranks[x].reads
    <3>1. b.command \in Command /\ b.ranks \in [Ranks -> RankState]
      BY <1>1, <2>1 DEF Typed, QueuesTyped, DataTyped
    <3>2. b.command.rank \in Ranks BY <3>1, CommandFields
    <3>3. c.banks = b.banks /\ c.data = b.data /\ c.writes = b.writes
      BY <1>2, <2>1, DeliverCommandFields
    <3>4. \A x \in Ranks :
            /\ c.ranks[x].out = b.ranks[x].out
            /\ c.ranks[x].reads = IF b.command.kind = "READ" /\ x = b.command.rank
                                  THEN Append(b.ranks[x].reads, BurstOf(b.command))
                                  ELSE b.ranks[x].reads
      BY ZenonT(60), <1>2, <2>1, <3>1, <3>2, DeliverCommandRanks
    <3> QED BY <3>3, <3>4
  <2>2. b.command = None => c = b BY NoCommandToDeliver
  <2> QED BY <2>1, <2>2
<1>7. /\ d.banks = c.banks /\ d.ranks = c.ranks /\ d.command = c.command /\ d.fault = c.fault
      /\ w.banks = d.banks /\ w.ranks = d.ranks /\ w.command = d.command
  <2>1. d.banks = c.banks /\ d.ranks = c.ranks /\ d.command = c.command /\ d.fault = c.fault
    BY <1>2, DeliverDataFields
  <2>2. w.banks = d.banks /\ w.ranks = d.ranks /\ w.command = d.command BY <1>2, SendDataFields
  <2> QED BY <2>1, <2>2
<1>8. /\ c.writes = s.writes /\ c.data = s.data /\ s.banks \in [Ranks -> [Banks -> Bank]]
      /\ s.command \in Command \cup {None} /\ b.command = s.command
      /\ s.ranks \in [Ranks -> RankState]
  BY <1>3, <1>4, <1>5, <1>6 DEF Typed, QueuesTyped, DataTyped
<1>9. \A x \in Ranks, y \in Banks :
        /\ s.banks[x][y] \in Bank /\ w.banks[x][y] = Settled(s.banks[x][y])
        /\ w.banks[x][y].read = s.banks[x][y].read /\ w.banks[x][y].write = s.banks[x][y].write
        /\ w.banks[x][y].state = "RowActive" => s.banks[x][y].state = "RowActive"
        /\ s.banks[x][y].read \in Nat /\ s.banks[x][y].write \in Nat
  <2> TAKE x \in Ranks, y \in Banks
  <2>1. s.banks[x][y] \in Bank BY <1>8
  <2>2. w.banks[x][y] = Settled(s.banks[x][y]) BY <1>3, <1>4, <1>5, <1>6, <1>7
  <2>3. s.banks[x][y].read \in Nat /\ s.banks[x][y].write \in Nat BY <2>1, BankFields
  <2> QED BY <2>1, <2>2, <2>3, SettledFields
<1>10. WriteBus(s.writes, s.data, s.banks, 1) BY DEF Bus
<1> DEFINE e == Leaves(s.writes)
<1>11. /\ Shifted(s.writes, w.writes, e) /\ Driven(s.writes, s.data, w.data, e)
       /\ \A i \in DOMAIN w.writes : w.writes[i].rank = s.writes[i + e].rank
       /\ w.data # None => w.data.rank = IF e = 1 THEN s.writes[1].rank ELSE s.data.rank
       /\ w.fault = c.fault
  <2>1. WriteBus(c.writes, c.data, s.banks, 1) /\ Typed(c) /\ w = SendData(DeliverData(c))
    BY <1>1, <1>8, <1>10
  <2>2. c.writes = s.writes /\ c.data = s.data /\ e = Leaves(c.writes) BY <1>8
  <2> HIDE DEF e
  <2> QED BY <2>1, <2>2, WritesGo
<1> HIDE DEF e
<1>13. /\ s.writes \in Seq(WriteData) /\ w.writes \in Seq(WriteData)
       /\ s.data \in WriteData \cup {None} /\ w.data \in WriteData \cup {None}
  BY <1>1 DEF Typed, DataTyped
<1>14. WriteBus(w.writes, w.data, w.banks, 0)
  <2>1. \A x \in Ranks, y \in Banks :
          /\ w.banks[x][y].state = "RowActive" => s.banks[x][y].state = "RowActive"
          /\ w.banks[x][y].write = s.banks[x][y].write /\ s.banks[x][y].write \in Nat
    BY <1>9
  <2>2. /\ Shifted(s.writes, w.writes, e) /\ Driven(s.writes, s.data, w.data, e) BY <1>11
  <2> DEFINE p == s.writes
             q == s.data
             a == s.banks
             p2 == w.writes
             q2 == w.data
             z == w.banks
  <2>3. /\ p \in Seq(WriteData) /\ p2 \in Seq(WriteData) /\ q \in WriteData \cup {None}
        /\ q2 \in WriteData \cup {None} /\ Shifted(p, p2, e) /\ Driven(p, q, q2, e)
        /\ WriteBus(p, q, a, 1)
        /\ \A x \in Ranks, y \in Banks :
             /\ z[x][y].state = "RowActive" => a[x][y].state = "RowActive"
             /\ z[x][y].write = a[x][y].write /\ a[x][y].write \in Nat
    BY <1>10, <1>13, <2>1, <2>2
  <2> HIDE DEF p, q, a, p2, q2, z
  <2>4. WriteBus(p2, q2, z, 0) BY <2>3, WriteBusAged
  <2> QED BY <2>4 DEF p2, q2, z
<1>15. ASSUME NEW x \in Ranks
       PROVE  LET v == Coming(w.ranks[x], x, w.command)
              IN  /\ ReadBus(v, w.ranks[x].out, w.banks[x], 0)
                  /\ TurnAround(v, w.ranks[x].out, w.writes, w.data, w.banks[x], x, 0)
  <2> DEFINE k == s.ranks[x]
             t == UpdateRank(k)
             v == Coming(k, x, s.command)
             v2 == IF s.command # None /\ s.command.kind = "READ" /\ s.command.rank = x
                   THEN Append(t.reads, BurstOf(s.command)) ELSE t.reads
             n == IF BurstStarts(k) THEN 1 ELSE 0
  <2>1. /\ ReadBus(v, k.out, s.banks[x], 1)
        /\ TurnAround(v, k.out, s.writes, s.data, s.banks[x], x, 1)
    BY DEF Bus
  <2>2. k \in RankState BY <1>8
  <2>3. /\ v \in Seq(Burst) /\ v2 \in Seq(Burst) /\ t.out \in Burst \cup {None}
        /\ Shifted(v, v2, n) /\ Driven(v, k.out, t.out, n)
    BY <1>8, <2>1, <2>2, RankShifted
  <2>4. Coming(w.ranks[x], x, w.command) = w.ranks[x].reads BY <1>1, <1>7 DEF Coming
  <2>5. b.ranks[x] = t /\ b.command = s.command BY <1>3, <1>4, <1>5
  <2>6. w.ranks[x].reads = v2 /\ w.ranks[x].out = t.out
    <3>1. w.ranks[x] = c.ranks[x] BY <1>7
    <3> HIDE DEF t
    <3>2. CASE s.command = None BY <1>6, <2>5, <3>1, <3>2
    <3>3. CASE s.command # None BY <1>6, <2>5, <3>1, <3>3
    <3> QED BY <3>2, <3>3
  <2>7. k.out \in Burst \cup {None} BY <2>2 DEF RankState
  <2>8. SameWaits(s.banks[x], w.banks[x]) BY <1>9 DEF SameWaits
  <2> HIDE DEF k, t, v, v2, n
  <2>9. ReadBus(v2, t.out, w.banks[x], 0) BY <2>1, <2>3, <2>7, <2>8, ReadBusAged
  <2>10. TurnAround(v2, t.out, w.writes, w.data, w.banks[x], x, 0)
    <3> DEFINE p == s.writes
               q == s.data
               a == s.banks
               p2 == w.writes
               q2 == w.data
               z == w.banks[x]
               ax == a[x]
               out == k.out
               out2 == t.out
    <3>1. /\ p \in Seq(WriteData) /\ p2 \in Seq(WriteData) /\ q \in WriteData \cup {None}
          /\ q2 \in WriteData \cup {None}
      BY <1>13
    <3>2. /\ Shifted(p, p2, e) /\ Driven(p, q, q2, e)
          /\ \A i \in DOMAIN p2 : p2[i].rank = p[i + e].rank
          /\ q2 # None => q2.rank = IF e = 1 THEN p[1].rank ELSE q.rank
          /\ WriteBus(p, q, a, 1)
      BY <1>10, <1>11
    <3>3. /\ out \in Burst \cup {None} /\ out2 \in Burst \cup {None}
          /\ Shifted(v, v2, n) /\ Driven(v, out, out2, n) /\ v \in Seq(Burst) /\ v2 \in Seq(Burst)
      BY <2>3, <2>7
    <3>4. SameWaits(ax, z) /\ ReadBus(v, out, ax, 1) /\ TurnAround(v, out, p, q, ax, x, 1)
      BY <2>1, <2>8
    <3>5. TurnAround(v2, out2, p2, q2, z, x, 0)
      <4> HIDE DEF p, q, a, p2, q2, z, ax, out, out2, e
      <4> QED BY <3>1, <3>2, <3>3, <3>4, TurnAroundAged
    <3> QED BY <3>5
  <2> DEFINE y == Coming(w.ranks[x], x, w.command)
  <2>11. y = v2 /\ w.ranks[x].out = t.out BY <2>4, <2>6
  <2> HIDE DEF y
  <2>12. /\ ReadBus(y, w.ranks[x].out, w.banks[x], 0)
         /\ TurnAround(y, w.ranks[x].out, w.writes, w.data, w.banks[x], x, 0)
    BY Zenon, <2>9, <2>10, <2>11
  <2> QED BY <2>12 DEF y
<1> QED BY <1>1, <1>7, <1>11, <1>14, <1>15 DEF Bus

\* The waits of the banks z are those of a, a cycle on, or more.
Grown(a, z) == \A b \in Banks :
                 /\ a[b].read \in Nat /\ a[b].write \in Nat /\ z[b].read \in Nat /\ z[b].write \in Nat
                 /\ a[b].read <= z[b].read + 1 /\ a[b].write <= z[b].write + 1

\* A bound by a timer survives the cycle that counts the timer down.
LEMMA LaterBound ==
  ASSUME NEW x \in Int, NEW L \in Nat, NEW n \in Nat, NEW m \in Nat, n <= m + 1
  PROVE  /\ x <= L + n + 1 + 0 => x <= L + m + 1 + 1
         /\ x <= L + n + 0 => x <= L + m + 1
OBVIOUS

\* The spacing of the read bursts survives a cycle of the bank timers.
LEMMA ReadBusKept ==
  ASSUME NEW v \in Seq(Burst), NEW out \in Burst \cup {None}, NEW a, NEW z, Grown(a, z),
         ReadBus(v, out, a, 0)
  PROVE  ReadBus(v, out, z, 1)
<1>1. ASSUME NEW b \in Banks
      PROVE  /\ \A i \in DOMAIN v : /\ v[i].left + Timing.BL2 <= Timing.RL + z[b].read + 1 + 1
                                    /\ v[i].left + Timing.BL2 <= Timing.WL + z[b].write + 1
             /\ out # None => /\ out.left <= Timing.RL + z[b].read + 1 + 1
                              /\ out.left <= Timing.WL + z[b].write + 1
  <2>1. /\ a[b].read \in Nat /\ a[b].write \in Nat /\ z[b].read \in Nat /\ z[b].write \in Nat
        /\ a[b].read <= z[b].read + 1 /\ a[b].write <= z[b].write + 1
    BY DEF Grown
  <2>2. /\ \A i \in DOMAIN v : /\ v[i].left + Timing.BL2 <= Timing.RL + a[b].read + 1 + 0
                               /\ v[i].left + Timing.BL2 <= Timing.WL + a[b].write + 0
        /\ out # None => /\ out.left <= Timing.RL + a[b].read + 1 + 0
                         /\ out.left <= Timing.WL + a[b].write + 0
    BY DEF ReadBus
  <2>3. Timing.RL \in Nat /\ Timing.WL \in Nat /\ Timing.BL2 \in Nat BY TimingTypes
  <2>4. ASSUME NEW i \in DOMAIN v
        PROVE  /\ v[i].left + Timing.BL2 <= Timing.RL + z[b].read + 1 + 1
               /\ v[i].left + Timing.BL2 <= Timing.WL + z[b].write + 1
    <3>1. v[i] \in Burst OBVIOUS
    <3>2. v[i].left + Timing.BL2 \in Int BY <2>3, <3>1 DEF Burst
    <3> QED BY <2>1, <2>2, <2>3, <3>2, LaterBound
  <2>5. ASSUME out # None
        PROVE  out.left <= Timing.RL + z[b].read + 1 + 1 /\ out.left <= Timing.WL + z[b].write + 1
    <3>1. out.left \in Int BY <2>5 DEF Burst
    <3> QED BY <2>1, <2>2, <2>3, <2>5, <3>1, LaterBound
  <2> QED BY <2>4, <2>5
<1> QED BY <1>1 DEF ReadBus

\* The gap between reads and writes survives a cycle of the bank timers.
LEMMA TurnAroundKept ==
  ASSUME NEW v, NEW out, NEW w \in Seq(WriteData), NEW d \in WriteData \cup {None},
         NEW a, NEW z, Grown(a, z), NEW r, TurnAround(v, out, w, d, a, r, 0)
  PROVE  TurnAround(v, out, w, d, z, r, 1)
<1>1. /\ \A i \in DOMAIN w : w[i].rank = r => \A b \in Banks : w[i].left + Timing.BL2 <= Timing.RL + a[b].read + 1 + 0
      /\ d # None /\ d.rank = r => \A b \in Banks : d.left <= Timing.RL + a[b].read + 1 + 0
  BY DEF TurnAround
<1>2. /\ \A i \in DOMAIN w : w[i].left + Timing.BL2 \in Int
      /\ d # None => d.left \in Int
  <2>1. \A i \in DOMAIN w : w[i] \in WriteData OBVIOUS
  <2>2. (\A x \in WriteData : x.left \in Int) /\ Timing.BL2 \in Nat BY TimingTypes DEF WriteData
  <2>3. \A i \in DOMAIN w : w[i].left \in Int BY <2>1, <2>2
  <2>4. d # None => d.left \in Int BY <2>2
  <2>5. \A i \in DOMAIN w : w[i].left + Timing.BL2 \in Int BY <2>2, <2>3
  <2> QED BY <2>4, <2>5
<1>3. ASSUME NEW b \in Banks
      PROVE  a[b].read \in Nat /\ z[b].read \in Nat /\ a[b].read <= z[b].read + 1
  BY DEF Grown
<1>4. Timing.RL \in Nat BY TimingTypes
<1>5. /\ \A i \in DOMAIN w : w[i].rank = r => \A b \in Banks : w[i].left + Timing.BL2 <= Timing.RL + z[b].read + 1 + 1
      /\ d # None /\ d.rank = r => \A b \in Banks : d.left <= Timing.RL + z[b].read + 1 + 1
  BY <1>1, <1>2, <1>3, <1>4, LaterBound
<1> QED BY <1>5 DEF TurnAround

\* books are the controller's banks before a command, or none, and z after it.
LEMMA WriteBusKept ==
  ASSUME NEW w \in Seq(WriteData), NEW d \in WriteData \cup {None}, NEW a, NEW z,
         \A r \in Ranks : Grown(a[r], z[r]),
         \A r \in Ranks, b \in Banks :
           z[r][b].state = "RowActive" =>
             a[r][b].state = "RowActive" \/ Timing.tRCDWR <= z[r][b].write + 1,
         WriteBus(w, d, a, 0)
  PROVE  WriteBus(w, d, z, 1)
<1>1. /\ Timing.BL2 \in Nat /\ Timing.WL \in Nat /\ Timing.WL > 0 /\ Timing.tRCDWR \in Nat
      /\ Timing.tRCDWR + 1 >= Timing.BL2
  BY TimingTypes
<1>2. /\ \A i \in DOMAIN w : w[i].left \in Int
      /\ d # None => d.left \in Int
  <2>1. \A i \in DOMAIN w : w[i] \in WriteData OBVIOUS
  <2> QED BY <2>1 DEF WriteData
<1>3. /\ \A i \in DOMAIN w : w[i].left >= 1 /\ w[i].left + 1 <= Timing.WL + 0
      /\ \A i, j \in DOMAIN w : i < j => w[i].left + Timing.BL2 <= w[j].left
      /\ d # None => /\ d.left >= 1 /\ d.left <= Timing.BL2
                     /\ \A i \in DOMAIN w : d.left <= w[i].left
      /\ \A r \in Ranks, b \in Banks :
           a[r][b].state = "RowActive" =>
             /\ \A i \in DOMAIN w : w[i].left + Timing.BL2 <= Timing.WL + a[r][b].write + 0
             /\ d # None => d.left <= Timing.WL + a[r][b].write + 0
  BY DEF WriteBus
<1>4. \A i \in DOMAIN w : w[i].left >= 1 /\ w[i].left + 1 <= Timing.WL + 1 BY <1>1, <1>2, <1>3
<1>5. ASSUME NEW r \in Ranks, NEW b \in Banks, z[r][b].state = "RowActive"
      PROVE  /\ \A i \in DOMAIN w : w[i].left + Timing.BL2 <= Timing.WL + z[r][b].write + 1
             /\ d # None => d.left <= Timing.WL + z[r][b].write + 1
  <2> DEFINE n == a[r][b].write
             m == z[r][b].write
  <2>1. n \in Nat /\ m \in Nat /\ n <= m + 1 BY DEF Grown
  <2>2. CASE a[r][b].state = "RowActive"
    <3>1. /\ \A i \in DOMAIN w : w[i].left + Timing.BL2 <= Timing.WL + n + 0
          /\ d # None => d.left <= Timing.WL + n + 0
      BY <1>3, <2>2
    <3> HIDE DEF n, m
    <3>2. ASSUME NEW i \in DOMAIN w PROVE w[i].left + Timing.BL2 <= Timing.WL + m + 1
      <4>1. w[i].left + Timing.BL2 \in Int /\ w[i].left + Timing.BL2 <= Timing.WL + n + 0
        BY <1>1, <1>2, <3>1
      <4> QED BY <1>1, <2>1, <4>1, LaterBound
    <3>3. d # None => d.left <= Timing.WL + m + 1 BY <1>1, <1>2, <2>1, <3>1, LaterBound
    <3> QED BY <3>2, <3>3 DEF m
  <2>3. CASE Timing.tRCDWR <= z[r][b].write + 1
    <3>1. Timing.tRCDWR <= m + 1 BY <2>3
    <3> HIDE DEF n, m
    <3>2. ASSUME NEW i \in DOMAIN w PROVE w[i].left + Timing.BL2 <= Timing.WL + m + 1
      <4>1. w[i].left \in Int /\ w[i].left + 1 <= Timing.WL BY <1>1, <1>2, <1>3
      <4> QED BY SMTT(20), <1>1, <2>1, <3>1, <4>1
    <3>3. d # None => d.left <= Timing.WL + m + 1
      <4>1. d # None => d.left \in Int /\ d.left <= Timing.BL2 BY <1>2, <1>3
      <4> QED BY <1>1, <2>1, <3>1, <4>1
    <3> QED BY <3>2, <3>3 DEF m
  <2> QED BY <1>5, <2>2, <2>3
<1> QED BY <1>3, <1>4, <1>5 DEF WriteBus

\* A burst that joins a rank's, and one that joins the controller's.
LEMMA AppendedMembers ==
  ASSUME NEW S, NEW q \in Seq(S), NEW y \in S
  PROVE  /\ Append(q, y) \in Seq(S) /\ DOMAIN Append(q, y) = DOMAIN q \cup {Len(q) + 1}
         /\ Append(q, y)[Len(q) + 1] = y /\ \A i \in DOMAIN q : Append(q, y)[i] = q[i] /\ i < Len(q) + 1
         /\ Len(q) + 1 \notin DOMAIN q /\ Len(q) \in Nat /\ DOMAIN q \subseteq Nat
OBVIOUS

\* A burst that starts after every other one joins a list of disjoint bursts.
LEMMA PairsJoined ==
  ASSUME NEW S, NEW q \in Seq(S), NEW y \in S,
         \A i, j \in DOMAIN q : i < j => q[i].left + Timing.BL2 <= q[j].left,
         \A i \in DOMAIN q : q[i].left + Timing.BL2 <= y.left
  PROVE  LET p == Append(q, y)
         IN  \A i, j \in DOMAIN p : i < j => p[i].left + Timing.BL2 <= p[j].left
<1> DEFINE p == Append(q, y)
<1>1. /\ DOMAIN p = DOMAIN q \cup {Len(q) + 1} /\ p[Len(q) + 1] = y
      /\ \A i \in DOMAIN q : p[i] = q[i] /\ i < Len(q) + 1
      /\ Len(q) \in Nat /\ DOMAIN q \subseteq Nat
  BY AppendedMembers
<1> HIDE DEF p
<1>2. ASSUME NEW i \in DOMAIN p, NEW j \in DOMAIN p, i < j PROVE p[i].left + Timing.BL2 <= p[j].left
  <2>1. i \in DOMAIN q BY <1>1, <1>2
  <2>2. CASE j \in DOMAIN q BY <1>1, <1>2, <2>1, <2>2
  <2>3. CASE j = Len(q) + 1 BY <1>1, <2>1, <2>3
  <2> QED BY <1>1, <2>2, <2>3
<1> QED BY <1>2 DEF p

\* A read whose burst starts after the others joins the read bus of its rank.
LEMMA ReadBusJoined ==
  ASSUME NEW v \in Seq(Burst), NEW y \in Burst, NEW out, NEW z, ReadBus(v, out, z, 1),
         y.left >= 1, \A i \in DOMAIN v : v[i].left + Timing.BL2 <= y.left,
         out # None => out.left <= y.left,
         \A b \in Banks : /\ y.left + Timing.BL2 <= Timing.RL + z[b].read + 1 + 1
                          /\ y.left + Timing.BL2 <= Timing.WL + z[b].write + 1
  PROVE  ReadBus(Append(v, y), out, z, 1)
<1> DEFINE p == Append(v, y)
<1>1. /\ DOMAIN p = DOMAIN v \cup {Len(v) + 1} /\ p[Len(v) + 1] = y
      /\ \A i \in DOMAIN v : p[i] = v[i]
  BY AppendedMembers
<1>2. /\ \A i \in DOMAIN v : v[i].left >= 1
      /\ \A i, j \in DOMAIN v : i < j => v[i].left + Timing.BL2 <= v[j].left
      /\ out # None => out.left >= 1 /\ \A i \in DOMAIN v : out.left <= v[i].left
      /\ \A b \in Banks :
           /\ \A i \in DOMAIN v : /\ v[i].left + Timing.BL2 <= Timing.RL + z[b].read + 1 + 1
                                  /\ v[i].left + Timing.BL2 <= Timing.WL + z[b].write + 1
           /\ out # None => /\ out.left <= Timing.RL + z[b].read + 1 + 1
                            /\ out.left <= Timing.WL + z[b].write + 1
  BY DEF ReadBus
<1>3. \A i, j \in DOMAIN p : i < j => p[i].left + Timing.BL2 <= p[j].left BY <1>2, PairsJoined
<1> HIDE DEF p
<1>4. \A i \in DOMAIN p : p[i].left >= 1 BY <1>1, <1>2
<1>5. out # None => out.left >= 1 /\ \A i \in DOMAIN p : out.left <= p[i].left BY <1>1, <1>2
<1>6. \A b \in Banks :
        /\ \A i \in DOMAIN p : /\ p[i].left + Timing.BL2 <= Timing.RL + z[b].read + 1 + 1
                               /\ p[i].left + Timing.BL2 <= Timing.WL + z[b].write + 1
        /\ out # None => /\ out.left <= Timing.RL + z[b].read + 1 + 1
                         /\ out.left <= Timing.WL + z[b].write + 1
  BY <1>1, <1>2
<1>7. ReadBus(p, out, z, 1) BY <1>3, <1>4, <1>5, <1>6 DEF ReadBus
<1> QED BY <1>7 DEF p

\* A new read keeps the gap to the writes of its rank when it starts after they end.
LEMMA TurnAroundRead ==
  ASSUME NEW v \in Seq(Burst), NEW y \in Burst, NEW out, NEW w, NEW d, NEW z, NEW r,
         TurnAround(v, out, w, d, z, r, 1),
         \A i \in DOMAIN w : w[i].rank = r => w[i].left + Timing.BL2 <= y.left,
         d # None /\ d.rank = r => d.left <= y.left
  PROVE  TurnAround(Append(v, y), out, w, d, z, r, 1)
<1> DEFINE p == Append(v, y)
<1>1. /\ DOMAIN p = DOMAIN v \cup {Len(v) + 1} /\ p[Len(v) + 1] = y
      /\ \A i \in DOMAIN v : p[i] = v[i]
  BY AppendedMembers
<1> HIDE DEF p
<1>2. TurnAround(p, out, w, d, z, r, 1) BY <1>1 DEF TurnAround
<1> QED BY <1>2 DEF p

\* A write whose data starts after the others joins the write bus.
LEMMA WriteBusJoined ==
  ASSUME NEW w \in Seq(WriteData), NEW y \in WriteData, NEW d, NEW z, WriteBus(w, d, z, 1),
         y.left >= 1, y.left + 1 <= Timing.WL + 1,
         \A i \in DOMAIN w : w[i].left + Timing.BL2 <= y.left, d # None => d.left <= y.left,
         \A r \in Ranks, b \in Banks :
           z[r][b].state = "RowActive" => y.left + Timing.BL2 <= Timing.WL + z[r][b].write + 1
  PROVE  WriteBus(Append(w, y), d, z, 1)
<1> DEFINE p == Append(w, y)
<1>1. /\ DOMAIN p = DOMAIN w \cup {Len(w) + 1} /\ p[Len(w) + 1] = y
      /\ \A i \in DOMAIN w : p[i] = w[i]
  BY AppendedMembers
<1>2. \A i, j \in DOMAIN p : i < j => p[i].left + Timing.BL2 <= p[j].left
  <2>1. \A i, j \in DOMAIN w : i < j => w[i].left + Timing.BL2 <= w[j].left BY DEF WriteBus
  <2> QED BY <2>1, PairsJoined
<1> HIDE DEF p
<1>3. WriteBus(p, d, z, 1) BY <1>1, <1>2 DEF WriteBus
<1> QED BY <1>3 DEF p

\* A new write keeps the gap to the reads of its rank when it starts after they end.
LEMMA TurnAroundWrite ==
  ASSUME NEW v, NEW y \in WriteData, NEW out, NEW w \in Seq(WriteData), NEW d, NEW z, NEW r,
         TurnAround(v, out, w, d, z, r, 1),
         y.rank = r => /\ \A j \in DOMAIN v : v[j].left + Timing.BL2 <= y.left
                       /\ out # None => out.left <= y.left
                       /\ \A b \in Banks : y.left + Timing.BL2 <= Timing.RL + z[b].read + 1 + 1
  PROVE  TurnAround(v, out, Append(w, y), d, z, r, 1)
<1> DEFINE p == Append(w, y)
<1>1. /\ DOMAIN p = DOMAIN w \cup {Len(w) + 1} /\ p[Len(w) + 1] = y
      /\ \A i \in DOMAIN w : p[i] = w[i]
  BY AppendedMembers
<1> HIDE DEF p
<1>2. TurnAround(v, out, p, d, z, r, 1) BY <1>1 DEF TurnAround
<1> QED BY <1>2 DEF p

\* What a command leaves a bank to wait for in the controller's book.
LEMMA BankIssued ==
  ASSUME NEW k \in Bank, NEW r \in Ranks, NEW b \in Banks, NEW c \in Command
  PROVE  LET n == ControllerBank(k, r, b, c)
         IN  /\ n \in Bank /\ k.read <= n.read /\ k.write <= n.write
             /\ n.state = "RowActive" => k.state = "RowActive" \/ Timing.tRCDWR <= n.write
             /\ c.kind = "READ" /\ r = c.rank => Timing.BL2 <= n.read /\ READ_TO_WRITE <= n.write
             /\ c.kind = "WRITE" /\ r = c.rank => WRITE_TO_READ_LONG <= n.read /\ Timing.BL2 <= n.write
             /\ c.kind = "WRITE" /\ r # c.rank /\ n.state = "RowActive" => Timing.BL2 <= n.write
<1> DEFINE n == ControllerBank(k, r, b, c)
<1>1. /\ k.read \in Nat /\ k.write \in Nat /\ c.bank \in Banks /\ c.rank \in Ranks
      /\ c.kind \in {"READ", "WRITE", "REF", "ACTIVATE", "PRECHARGE"}
  BY BankFields, CommandFields
<1>2. /\ Timing.BL2 \in Nat /\ READ_TO_WRITE \in Nat /\ WRITE_TO_READ_LONG \in Nat /\ SwitchRank \in Nat
      /\ SwitchRank >= Timing.BL2 /\ Timing.tRCDRD \in Nat /\ Timing.tRCDWR \in Nat
      /\ ColumnGap(b, c.bank) \in Nat /\ ColumnGap(b, c.bank) >= Timing.BL2
  BY <1>1, TimingTypes, DelayTypes
<1>3. n \in Bank BY ControllerBankType
<1>4. n.read \in Nat /\ n.write \in Nat BY <1>3, BankFields
<1>5. CASE c.kind = "READ"
  <2>1. n = ControllerRead(k, r, b, c) BY <1>5 DEF ControllerBank
  <2>2. /\ n.state = k.state /\ n.read >= k.read /\ n.write >= k.write
        /\ r = c.rank => n.read = Later(k.read, ColumnGap(b, c.bank)) /\ n.write = Later(k.write, READ_TO_WRITE)
    BY <2>1, ControllerReadFields
  <2>3. r = c.rank => n.read >= ColumnGap(b, c.bank) /\ n.write >= READ_TO_WRITE
    BY <1>1, <1>2, <2>2, LaterType
  <2> HIDE DEF n
  <2> QED BY <1>1, <1>2, <1>3, <1>4, <1>5, <2>2, <2>3 DEF n
<1>6. CASE c.kind = "WRITE"
  <2>1. n = ControllerWrite(k, r, b, c) BY <1>6 DEF ControllerBank
  <2>2. /\ n.state = k.state /\ n.read >= k.read /\ n.write >= k.write
        /\ r = c.rank => /\ n.read = Later(k.read, WRITE_TO_READ_LONG)
                         /\ n.write = Later(k.write, ColumnGap(b, c.bank))
        /\ r # c.rank /\ k.state = "RowActive" => n.write = Later(k.write, SwitchRank)
    BY <2>1, ControllerWriteFields
  <2>3. r = c.rank => n.read >= WRITE_TO_READ_LONG /\ n.write >= ColumnGap(b, c.bank)
    BY <1>1, <1>2, <2>2, LaterType
  <2>4. r # c.rank /\ k.state = "RowActive" => n.write >= SwitchRank
    BY <1>1, <1>2, <2>2, LaterType
  <2> HIDE DEF n
  <2> QED BY <1>1, <1>2, <1>3, <1>4, <1>6, <2>2, <2>3, <2>4 DEF n
<1>7. CASE c.kind = "ACTIVATE"
  <2>1. n = ControllerActivate(k, r, b, c) BY <1>7 DEF ControllerBank
  <2>2. /\ n.state = IF r = c.rank /\ b = c.bank THEN "RowActive" ELSE k.state
        /\ n.read = IF r = c.rank /\ b = c.bank THEN Later(k.read, Timing.tRCDRD) ELSE k.read
        /\ n.write = IF r = c.rank /\ b = c.bank THEN Later(k.write, Timing.tRCDWR) ELSE k.write
    BY <2>1, ControllerActivateFields
  <2>3. /\ Later(k.read, Timing.tRCDRD) >= k.read /\ Later(k.write, Timing.tRCDWR) >= k.write
        /\ Later(k.write, Timing.tRCDWR) >= Timing.tRCDWR
    BY <1>1, <1>2, LaterType
  <2> HIDE DEF n
  <2> QED BY <1>1, <1>2, <1>3, <1>4, <1>7, <2>2, <2>3 DEF n
<1>8. CASE c.kind = "PRECHARGE"
  <2>1. n = ControllerPrecharge(k, r, b, c) BY <1>8 DEF ControllerBank
  <2>2. /\ n.state \in {"Precharging", k.state} /\ n.read = k.read /\ n.write = k.write
    BY <2>1, ControllerPrechargeFields
  <2> HIDE DEF n
  <2> QED BY <1>1, <1>3, <1>8, <2>2 DEF n
<1>9. CASE c.kind = "REF"
  <2>1. n = ControllerRefresh(k, r, b, c) BY <1>9 DEF ControllerBank
  <2>2. /\ n.state \in {"Refreshing", k.state} /\ n.read = k.read /\ n.write = k.write
    BY <2>1, ControllerRefreshFields
  <2> HIDE DEF n
  <2> QED BY <1>1, <1>3, <1>9, <2>2 DEF n
<1> QED BY <1>1, <1>5, <1>6, <1>7, <1>8, <1>9

\* A cycle lowers the column timers of a bank by at most one.
LEMMA WaitedBounds ==
  ASSUME NEW k \in Bank
  PROVE  /\ Waited(k) \in Bank /\ Waited(k).state = k.state
         /\ k.read \in Nat /\ k.write \in Nat /\ Waited(k).read \in Nat /\ Waited(k).write \in Nat
         /\ k.read <= Waited(k).read + 1 /\ k.write <= Waited(k).write + 1
<1>1. k.read \in Nat /\ k.write \in Nat BY BankFields
<1>2. /\ Waited(k) \in Bank /\ Waited(k).state = k.state /\ Waited(k).read = Less(k.read)
      /\ Waited(k).write = Less(k.write)
  BY WaitedFields
<1>3. /\ Less(k.read) \in Nat /\ k.read <= Less(k.read) + 1
      /\ Less(k.write) \in Nat /\ k.write <= Less(k.write) + 1
  BY <1>1, LessType
<1> QED BY <1>1, <1>2, <1>3

\* A timer that reached a gap before a cycle reaches it, short of one, after it.
LEMMA Reaches ==
  ASSUME NEW x \in Nat, NEW n \in Nat, NEW m \in Nat, n <= m + 1
  PROVE  x <= n => x <= m + 1
OBVIOUS

\* After a column command every open bank waits as long as the bus is taken.
LEMMA BanksIssued ==
  ASSUME NEW a \in [Ranks -> [Banks -> Bank]], NEW c \in Command, NEW z,
         \A r \in Ranks, b \in Banks : z[r][b] = Waited(ControllerBank(a[r][b], r, b, c))
  PROVE  \A r \in Ranks, b \in Banks :
           LET k == a[r][b]
               m == z[r][b]
           IN  /\ k.read \in Nat /\ k.write \in Nat /\ m.read \in Nat /\ m.write \in Nat
               /\ k.read <= m.read + 1 /\ k.write <= m.write + 1
               /\ m.state = "RowActive" => k.state = "RowActive" \/ Timing.tRCDWR <= m.write + 1
               /\ c.kind = "READ" /\ r = c.rank =>
                    Timing.BL2 <= m.read + 1 /\ READ_TO_WRITE <= m.write + 1
               /\ c.kind = "WRITE" /\ r = c.rank =>
                    WRITE_TO_READ_LONG <= m.read + 1 /\ Timing.BL2 <= m.write + 1
               /\ c.kind = "WRITE" /\ r # c.rank /\ m.state = "RowActive" => Timing.BL2 <= m.write + 1
<1> TAKE r \in Ranks, b \in Banks
<1> DEFINE k == a[r][b]
           n == ControllerBank(k, r, b, c)
           m == z[r][b]
<1>1. k \in Bank /\ m = Waited(n) OBVIOUS
<1>2. /\ n \in Bank /\ k.read <= n.read /\ k.write <= n.write
      /\ n.state = "RowActive" => k.state = "RowActive" \/ Timing.tRCDWR <= n.write
      /\ c.kind = "READ" /\ r = c.rank => Timing.BL2 <= n.read /\ READ_TO_WRITE <= n.write
      /\ c.kind = "WRITE" /\ r = c.rank => WRITE_TO_READ_LONG <= n.read /\ Timing.BL2 <= n.write
      /\ c.kind = "WRITE" /\ r # c.rank /\ n.state = "RowActive" => Timing.BL2 <= n.write
  BY <1>1, BankIssued
<1>3. k.read \in Nat /\ k.write \in Nat BY <1>1, BankFields
<1> HIDE DEF k, n, m
<1>4. /\ m.state = n.state /\ n.read \in Nat /\ n.write \in Nat /\ m.read \in Nat /\ m.write \in Nat
      /\ n.read <= m.read + 1 /\ n.write <= m.write + 1
  BY <1>1, <1>2, WaitedBounds
<1>5. /\ Timing.BL2 \in Nat /\ READ_TO_WRITE \in Nat /\ WRITE_TO_READ_LONG \in Nat /\ Timing.tRCDWR \in Nat
  BY TimingTypes, DelayTypes
<1>6. /\ k.read <= m.read + 1 /\ k.write <= m.write + 1
      /\ Timing.tRCDWR <= n.write => Timing.tRCDWR <= m.write + 1
      /\ Timing.BL2 <= n.read => Timing.BL2 <= m.read + 1
      /\ Timing.BL2 <= n.write => Timing.BL2 <= m.write + 1
      /\ READ_TO_WRITE <= n.write => READ_TO_WRITE <= m.write + 1
      /\ WRITE_TO_READ_LONG <= n.read => WRITE_TO_READ_LONG <= m.read + 1
  BY <1>2, <1>3, <1>4, <1>5, Reaches
<1>7. /\ m.state = "RowActive" => k.state = "RowActive" \/ Timing.tRCDWR <= m.write + 1
      /\ c.kind = "READ" /\ r = c.rank => Timing.BL2 <= m.read + 1 /\ READ_TO_WRITE <= m.write + 1
      /\ c.kind = "WRITE" /\ r = c.rank => WRITE_TO_READ_LONG <= m.read + 1 /\ Timing.BL2 <= m.write + 1
      /\ c.kind = "WRITE" /\ r # c.rank /\ m.state = "RowActive" => Timing.BL2 <= m.write + 1
  BY <1>2, <1>4, <1>6
<1> QED BY <1>3, <1>4, <1>6, <1>7 DEF k, m

SameBursts(f, t) == /\ t.data = f.data
                    /\ \A r \in Ranks : /\ t.ranks[r].reads = f.ranks[r].reads
                                        /\ t.ranks[r].out = f.ranks[r].out

\* The parts of the bus invariant, with their types.
LEMMA BusParts ==
  ASSUME NEW f, Typed(f), f.command = None, Bus(f, 0)
  PROVE  /\ f.writes \in Seq(WriteData) /\ f.data \in WriteData \cup {None}
         /\ f.banks \in [Ranks -> [Banks -> Bank]]
         /\ WriteBus(f.writes, f.data, f.banks, 0)
         /\ \A r \in Ranks :
              LET k == f.ranks[r]
              IN  /\ k.reads \in Seq(Burst) /\ k.out \in Burst \cup {None}
                  /\ ReadBus(k.reads, k.out, f.banks[r], 0)
                  /\ TurnAround(k.reads, k.out, f.writes, f.data, f.banks[r], r, 0)
<1>1. /\ f.writes \in Seq(WriteData) /\ f.data \in WriteData \cup {None}
      /\ f.banks \in [Ranks -> [Banks -> Bank]] /\ f.ranks \in [Ranks -> RankState]
  BY DEF Typed, QueuesTyped, DataTyped
<1>2. WriteBus(f.writes, f.data, f.banks, 0) BY DEF Bus
<1>3. ASSUME NEW r \in Ranks
      PROVE  LET k == f.ranks[r]
             IN  /\ k.reads \in Seq(Burst) /\ k.out \in Burst \cup {None}
                 /\ ReadBus(k.reads, k.out, f.banks[r], 0)
                 /\ TurnAround(k.reads, k.out, f.writes, f.data, f.banks[r], r, 0)
  <2>1. f.ranks[r] \in RankState BY <1>1
  <2>2. f.ranks[r].reads \in Seq(Burst) /\ f.ranks[r].out \in Burst \cup {None}
    BY <2>1 DEF RankState
  <2>3. Coming(f.ranks[r], r, f.command) = f.ranks[r].reads BY DEF Coming
  <2>4. LET v == Coming(f.ranks[r], r, f.command)
        IN  /\ ReadBus(v, f.ranks[r].out, f.banks[r], 0)
            /\ TurnAround(v, f.ranks[r].out, f.writes, f.data, f.banks[r], r, 0)
    BY DEF Bus
  <2> QED BY <2>2, <2>3, <2>4
<1> QED BY <1>1, <1>2, <1>3

\* A cycle without a command keeps the bus invariant.
LEMMA BusWaited ==
  ASSUME NEW f, Typed(f), f.command = None, Bus(f, 0),
         NEW t, t.command = None, t.writes = f.writes, SameBursts(f, t),
         \A r \in Ranks, b \in Banks : t.banks[r][b] = Waited(f.banks[r][b])
  PROVE  Bus(t, 1)
<1>1. /\ f.writes \in Seq(WriteData) /\ f.data \in WriteData \cup {None}
      /\ f.banks \in [Ranks -> [Banks -> Bank]]
      /\ WriteBus(f.writes, f.data, f.banks, 0)
  BY BusParts
<1>2. ASSUME NEW r \in Ranks, NEW b \in Banks
      PROVE  /\ f.banks[r][b].read \in Nat /\ f.banks[r][b].write \in Nat
             /\ t.banks[r][b].read \in Nat /\ t.banks[r][b].write \in Nat
             /\ f.banks[r][b].read <= t.banks[r][b].read + 1
             /\ f.banks[r][b].write <= t.banks[r][b].write + 1
             /\ t.banks[r][b].state = f.banks[r][b].state
  <2>1. f.banks[r][b] \in Bank /\ t.banks[r][b] = Waited(f.banks[r][b]) BY <1>1
  <2> QED BY <2>1, WaitedBounds
<1>3. \A r \in Ranks : Grown(f.banks[r], t.banks[r]) BY <1>2 DEF Grown
<1>4. WriteBus(t.writes, t.data, t.banks, 1)
  <2>1. \A r \in Ranks, b \in Banks :
          t.banks[r][b].state = "RowActive" =>
            f.banks[r][b].state = "RowActive" \/ Timing.tRCDWR <= t.banks[r][b].write + 1
    BY <1>2
  <2>2. WriteBus(f.writes, f.data, t.banks, 1)
    <3> DEFINE w == f.writes
           d == f.data
           a == f.banks
           z == t.banks
    <3>1. /\ w \in Seq(WriteData) /\ d \in WriteData \cup {None} /\ WriteBus(w, d, a, 0)
          /\ \A r \in Ranks : Grown(a[r], z[r])
          /\ \A r \in Ranks, b \in Banks :
              z[r][b].state = "RowActive" =>
                a[r][b].state = "RowActive" \/ Timing.tRCDWR <= z[r][b].write + 1
      BY <1>1, <1>3, <2>1
    <3> HIDE DEF w, d, a, z
    <3>2. WriteBus(w, d, z, 1) BY <3>1, WriteBusKept
    <3> QED BY <3>2 DEF w, d, z
  <2> QED BY <2>2 DEF SameBursts
<1>5. ASSUME NEW r \in Ranks
      PROVE  LET v == Coming(t.ranks[r], r, t.command)
             IN  /\ ReadBus(v, t.ranks[r].out, t.banks[r], 1)
                 /\ TurnAround(v, t.ranks[r].out, t.writes, t.data, t.banks[r], r, 1)
  <2> DEFINE v == f.ranks[r].reads
             o == f.ranks[r].out
  <2>1. /\ v \in Seq(Burst) /\ o \in Burst \cup {None}
        /\ ReadBus(v, o, f.banks[r], 0)
        /\ TurnAround(v, o, f.writes, f.data, f.banks[r], r, 0)
    BY BusParts
  <2>2. Coming(t.ranks[r], r, t.command) = v /\ t.ranks[r].out = o /\ t.data = f.data
    BY DEF Coming, SameBursts
  <2> HIDE DEF v, o
  <2>3. ReadBus(v, o, t.banks[r], 1) BY <1>3, <2>1, ReadBusKept
  <2>4. TurnAround(v, o, f.writes, f.data, t.banks[r], r, 1) BY <1>1, <1>3, <2>1, TurnAroundKept
  <2> QED BY <2>2, <2>3, <2>4
<1> QED BY <1>4, <1>5 DEF Bus

\* Issuing a command the books allow keeps the bus invariant.
LEMMA BusIssued ==
  ASSUME NEW f, Typed(f), f.command = None, Bus(f, 0), NEW c \in Command, Allowed(f.banks, c),
         NEW t, t.command = c, SameBursts(f, t),
         t.writes = IF c.kind = "WRITE"
                    THEN Append(f.writes, [id |-> c.id, rank |-> c.rank, value |-> c.value,
                                           left |-> Timing.WL])
                    ELSE f.writes,
         \A r \in Ranks, b \in Banks : t.banks[r][b] = Waited(ControllerBank(f.banks[r][b], r, b, c))
  PROVE  Bus(t, 1)
<1> DEFINE R == c.rank
           B == c.bank
<1>1. /\ f.writes \in Seq(WriteData) /\ f.data \in WriteData \cup {None}
      /\ f.banks \in [Ranks -> [Banks -> Bank]]
      /\ WriteBus(f.writes, f.data, f.banks, 0)
  BY BusParts
<1>2. \A r \in Ranks, b \in Banks :
        LET k == f.banks[r][b]
            m == t.banks[r][b]
        IN  /\ k.read \in Nat /\ k.write \in Nat /\ m.read \in Nat /\ m.write \in Nat
            /\ k.read <= m.read + 1 /\ k.write <= m.write + 1
            /\ m.state = "RowActive" => k.state = "RowActive" \/ Timing.tRCDWR <= m.write + 1
            /\ c.kind = "READ" /\ r = c.rank =>
                 Timing.BL2 <= m.read + 1 /\ READ_TO_WRITE <= m.write + 1
            /\ c.kind = "WRITE" /\ r = c.rank =>
                 WRITE_TO_READ_LONG <= m.read + 1 /\ Timing.BL2 <= m.write + 1
            /\ c.kind = "WRITE" /\ r # c.rank /\ m.state = "RowActive" => Timing.BL2 <= m.write + 1
  BY <1>1, BanksIssued
<1>3. \A r \in Ranks : Grown(f.banks[r], t.banks[r]) BY <1>2 DEF Grown
<1>4. WriteBus(f.writes, f.data, t.banks, 1)
  <2>1. \A r \in Ranks, b \in Banks :
          t.banks[r][b].state = "RowActive" =>
            f.banks[r][b].state = "RowActive" \/ Timing.tRCDWR <= t.banks[r][b].write + 1
    BY <1>2
  <2>2. WriteBus(f.writes, f.data, t.banks, 1)
    <3> DEFINE w == f.writes
           d == f.data
           a == f.banks
           z == t.banks
    <3>1. /\ w \in Seq(WriteData) /\ d \in WriteData \cup {None} /\ WriteBus(w, d, a, 0)
          /\ \A r \in Ranks : Grown(a[r], z[r])
          /\ \A r \in Ranks, b \in Banks :
              z[r][b].state = "RowActive" =>
                a[r][b].state = "RowActive" \/ Timing.tRCDWR <= z[r][b].write + 1
      BY <1>1, <1>3, <2>1
    <3> HIDE DEF w, d, a, z
    <3>2. WriteBus(w, d, z, 1) BY <3>1, WriteBusKept
    <3> QED BY <3>2 DEF w, d, z
  <2> QED BY <2>2
<1>5. ASSUME NEW r \in Ranks
      PROVE  /\ f.ranks[r].reads \in Seq(Burst) /\ f.ranks[r].out \in Burst \cup {None}
             /\ ReadBus(f.ranks[r].reads, f.ranks[r].out, t.banks[r], 1)
             /\ TurnAround(f.ranks[r].reads, f.ranks[r].out, f.writes, f.data, t.banks[r], r, 1)
             /\ ReadBus(f.ranks[r].reads, f.ranks[r].out, f.banks[r], 0)
             /\ TurnAround(f.ranks[r].reads, f.ranks[r].out, f.writes, f.data, f.banks[r], r, 0)
  <2> DEFINE v == f.ranks[r].reads
             o == f.ranks[r].out
  <2>1. /\ v \in Seq(Burst) /\ o \in Burst \cup {None}
        /\ ReadBus(v, o, f.banks[r], 0)
        /\ TurnAround(v, o, f.writes, f.data, f.banks[r], r, 0)
    BY BusParts
  <2> HIDE DEF v, o
  <2>2. ReadBus(v, o, t.banks[r], 1) BY <1>3, <2>1, ReadBusKept
  <2>3. TurnAround(v, o, f.writes, f.data, t.banks[r], r, 1) BY <1>1, <1>3, <2>1, TurnAroundKept
  <2> QED BY <2>1, <2>2, <2>3 DEF v, o
<1>6. /\ R \in Ranks /\ B \in Banks /\ c # None
      /\ c.kind \in {"READ", "WRITE", "REF", "ACTIVATE", "PRECHARGE"}
  BY CommandFields
<1>7. /\ Timing.BL2 \in Nat /\ Timing.RL \in Nat /\ Timing.WL \in Nat /\ Timing.BL2 > 0
      /\ Timing.RL > 0 /\ Timing.WL > 0 /\ Timing.tRTRS \in Nat /\ Timing.tRTRS > 0
      /\ READ_TO_WRITE \in Nat /\ WRITE_TO_READ_LONG \in Nat
      /\ READ_TO_WRITE + Timing.WL = Timing.RL + Timing.BL2 + Timing.tRTRS
      /\ WRITE_TO_READ_LONG >= Timing.WL + Timing.BL2
  BY TimingTypes, DelayTypes
<1>8. ASSUME NEW r \in Ranks
      PROVE  /\ t.ranks[r].reads = f.ranks[r].reads /\ t.ranks[r].out = f.ranks[r].out
             /\ t.data = f.data
  BY DEF SameBursts
<1>9. CASE c.kind \notin {"READ", "WRITE"}
  <2>1. t.writes = f.writes /\ \A r \in Ranks : Coming(t.ranks[r], r, t.command) = f.ranks[r].reads
    BY <1>8, <1>9 DEF Coming
  <2> QED BY <1>4, <1>5, <1>6, <1>8, <2>1 DEF Bus
<1>10. CASE c.kind = "READ"
  <2> DEFINE y == [BurstOf(c) EXCEPT !.left = Timing.RL + 1]
             v == f.ranks[R].reads
             o == f.ranks[R].out
             z == t.banks[R]
  <2>1. y \in Burst /\ y.left = Timing.RL + 1
    <3>1. BurstOf(c) \in Burst BY <1>10, ColumnCommandFields
    <3> QED BY <1>7, <3>1 DEF Burst
  <2>2. f.banks[R][B].read = 0 BY <1>10 DEF Allowed
  <2>3. /\ v \in Seq(Burst) /\ o \in Burst \cup {None}
        /\ ReadBus(v, o, z, 1) /\ TurnAround(v, o, f.writes, f.data, z, R, 1)
        /\ ReadBus(v, o, f.banks[R], 0) /\ TurnAround(v, o, f.writes, f.data, f.banks[R], R, 0)
    BY <1>5, <1>6
  <2>4. /\ \A i \in DOMAIN v : v[i].left + Timing.BL2 <= Timing.RL + 0 + 1 + 0
        /\ o # None => o.left <= Timing.RL + 0 + 1 + 0
    BY <1>6, <2>2, <2>3 DEF ReadBus
  <2>5. /\ \A i \in DOMAIN f.writes : f.writes[i].rank = R =>
             f.writes[i].left + Timing.BL2 <= Timing.RL + 0 + 1 + 0
        /\ f.data # None /\ f.data.rank = R => f.data.left <= Timing.RL + 0 + 1 + 0
    BY <1>6, <2>2, <2>3 DEF TurnAround
  <2>6. Timing.RL + 0 + 1 + 0 = Timing.RL + 1 BY <1>7
  <2>7. ASSUME NEW b \in Banks
        PROVE  /\ Timing.RL + 1 + Timing.BL2 <= Timing.RL + z[b].read + 1 + 1
               /\ Timing.RL + 1 + Timing.BL2 <= Timing.WL + z[b].write + 1
    <3>1. /\ Timing.BL2 <= z[b].read + 1 /\ READ_TO_WRITE <= z[b].write + 1
          /\ z[b].read \in Nat /\ z[b].write \in Nat
      BY <1>2, <1>6, <1>10
    <3> HIDE DEF z
    <3> QED BY <1>7, <3>1
  <2>8. t.writes = f.writes BY <1>10
  <2>9. /\ Coming(t.ranks[R], R, t.command) = Append(v, y)
        /\ \A r \in Ranks \ {R} : Coming(t.ranks[r], r, t.command) = f.ranks[r].reads
    BY <1>6, <1>8, <1>10 DEF Coming
  <2> HIDE DEF y, v, o, z
  <2>10. ReadBus(Append(v, y), o, z, 1)
    <3>1. y.left >= 1 BY <1>7, <2>1
    <3>2. \A b \in Banks : /\ y.left + Timing.BL2 <= Timing.RL + z[b].read + 1 + 1
                           /\ y.left + Timing.BL2 <= Timing.WL + z[b].write + 1
      BY <2>1, <2>7
    <3>3. \A i \in DOMAIN v : v[i].left + Timing.BL2 <= y.left BY <2>1, <2>4, <2>6
    <3>4. o # None => o.left <= y.left BY <2>1, <2>4, <2>6
    <3> QED BY <2>1, <2>3, <3>1, <3>2, <3>3, <3>4, ReadBusJoined
  <2>11. TurnAround(Append(v, y), o, f.writes, f.data, z, R, 1)
    <3>1. /\ \A i \in DOMAIN f.writes : f.writes[i].rank = R => f.writes[i].left + Timing.BL2 <= y.left
          /\ f.data # None /\ f.data.rank = R => f.data.left <= y.left
      BY <2>1, <2>5, <2>6
    <3> QED BY <2>1, <2>3, <3>1, TurnAroundRead
  <2>12. ASSUME NEW r \in Ranks
         PROVE  LET u == Coming(t.ranks[r], r, t.command)
                IN  /\ ReadBus(u, t.ranks[r].out, t.banks[r], 1)
                    /\ TurnAround(u, t.ranks[r].out, t.writes, t.data, t.banks[r], r, 1)
    <3>1. CASE r = R
      <4>1. t.ranks[r].out = o /\ t.banks[r] = z /\ t.data = f.data BY <1>8, <3>1 DEF o, z
      <4> QED BY <2>8, <2>9, <2>10, <2>11, <3>1, <4>1
    <3>2. CASE r # R BY <1>5, <1>8, <2>8, <2>9, <3>2
    <3> QED BY <3>1, <3>2
  <2>13. WriteBus(t.writes, t.data, t.banks, 1) BY <1>4, <1>6, <1>8, <2>8
  <2> QED BY <2>12, <2>13 DEF Bus
<1>11. CASE c.kind = "WRITE"
  <2> DEFINE y == [id |-> c.id, rank |-> c.rank, value |-> c.value, left |-> Timing.WL]
             w == f.writes
  <2>1. y \in WriteData /\ y.left = Timing.WL /\ y.rank = R
    <3>1. c.id \in Ids /\ c.value \in Values /\ c.rank \in Ranks BY <1>11, ColumnCommandFields
    <3> QED BY <1>7, <3>1 DEF WriteData
  <2>2. f.banks[R][B].write = 0 /\ f.banks[R][B].state = "RowActive" BY <1>11 DEF Allowed
  <2>3. t.writes = Append(w, y) BY <1>11
  <2>4. /\ \A i \in DOMAIN w : w[i].left + Timing.BL2 <= Timing.WL
        /\ f.data # None => f.data.left <= Timing.WL
    <3>1. /\ \A i \in DOMAIN w : w[i].left + Timing.BL2 <= Timing.WL + 0 + 0
          /\ f.data # None => f.data.left <= Timing.WL + 0 + 0
      BY <1>1, <1>6, <2>2 DEF WriteBus
    <3>2. Timing.WL + 0 + 0 = Timing.WL BY <1>7
    <3> QED BY <3>1, <3>2
  <2> HIDE DEF y, w
  <2>5. WriteBus(Append(w, y), f.data, t.banks, 1)
    <3>1. ASSUME NEW r \in Ranks, NEW b \in Banks, t.banks[r][b].state = "RowActive"
          PROVE  y.left + Timing.BL2 <= Timing.WL + t.banks[r][b].write + 1
      <4>1. Timing.BL2 <= t.banks[r][b].write + 1 /\ t.banks[r][b].write \in Nat
        BY <1>2, <1>11, <3>1
      <4> QED BY <1>7, <2>1, <4>1
    <3>2. y.left >= 1 /\ y.left + 1 <= Timing.WL + 1 BY <1>7, <2>1
    <3>3. w \in Seq(WriteData) /\ WriteBus(w, f.data, t.banks, 1) BY <1>1, <1>4 DEF w
    <3> QED BY <2>1, <2>4, <3>1, <3>2, <3>3, WriteBusJoined
  <2>6. ASSUME NEW r \in Ranks
        PROVE  LET u == Coming(t.ranks[r], r, t.command)
               IN  /\ ReadBus(u, t.ranks[r].out, t.banks[r], 1)
                   /\ TurnAround(u, t.ranks[r].out, t.writes, t.data, t.banks[r], r, 1)
    <3> DEFINE v == f.ranks[r].reads
               o == f.ranks[r].out
               z == t.banks[r]
    <3>1. Coming(t.ranks[r], r, t.command) = v /\ t.ranks[r].out = o /\ t.data = f.data
      BY <1>8, <1>11 DEF Coming
    <3>2. /\ ReadBus(v, o, z, 1) /\ TurnAround(v, o, w, f.data, z, r, 1)
          /\ ReadBus(v, o, f.banks[r], 0)
      BY <1>5 DEF w
    <3>3. y.rank = r => /\ \A j \in DOMAIN v : v[j].left + Timing.BL2 <= y.left
                        /\ o # None => o.left <= y.left
                        /\ \A b \in Banks : y.left + Timing.BL2 <= Timing.RL + z[b].read + 1 + 1
      <4> HAVE y.rank = r
      <4>1. r = R /\ f.banks[r][B].write = 0 BY <2>1, <2>2
      <4>2. /\ \A j \in DOMAIN v : v[j].left + Timing.BL2 <= Timing.WL + 0 + 0
            /\ o # None => o.left <= Timing.WL + 0 + 0
        BY <1>6, <3>2, <4>1 DEF ReadBus
      <4>3. Timing.WL + 0 + 0 = y.left BY <1>7, <2>1
      <4>4. ASSUME NEW b \in Banks
            PROVE  y.left + Timing.BL2 <= Timing.RL + z[b].read + 1 + 1
        <5>1. WRITE_TO_READ_LONG <= z[b].read + 1 /\ z[b].read \in Nat BY <1>2, <1>11, <4>1
        <5> HIDE DEF z
        <5> QED BY <1>7, <2>1, <5>1
      <4> QED BY <4>2, <4>3, <4>4
    <3>4. w \in Seq(WriteData) BY <1>1 DEF w
    <3> HIDE DEF v, o, z
    <3>5. TurnAround(v, o, Append(w, y), f.data, z, r, 1)
      BY <2>1, <3>2, <3>3, <3>4, TurnAroundWrite
    <3>6. ReadBus(v, o, z, 1) /\ z = t.banks[r] BY <3>2 DEF z
    <3> QED BY <2>3, <3>1, <3>5, <3>6
  <2>7. WriteBus(t.writes, t.data, t.banks, 1) BY <1>6, <1>8, <2>3, <2>5
  <2> QED BY <2>6, <2>7 DEF Bus
<1> QED BY <1>6, <1>9, <1>10, <1>11

-----------------------------------------------------------------------------
(* The refresh timers end in turn, the one of refresh.rank first.          *)

Turn(rank, r) == IF r >= rank THEN r - rank ELSE r - rank + NumRanks

Timers(t) ==
  /\ t.rank \in Ranks /\ t.left \in [Ranks -> 0 .. Timing.tREFI]
  /\ \A p, q \in Ranks : Turn(t.rank, p) < Turn(t.rank, q) =>
       t.left[p] < t.left[q] /\ t.left[q] < t.left[p] + Timing.tREFI

\* Multiplication by a positive number keeps the order.
LEMMA Multiples ==
  ASSUME NEW k \in Nat \ {0}, NEW a \in Nat, NEW b \in Nat
  PROVE  /\ a <= b => k * a <= k * b
         /\ a < b => k * a < k * b
         /\ k * a \in Nat
<1>1. ASSUME a <= b PROVE k * a <= k * b
  <2> DEFINE d == b - a
  <2>1. d \in Nat /\ b = a + d BY <1>1
  <2>2. k * b = k * a + k * d /\ k * d >= 0 BY <2>1
  <2> HIDE DEF d
  <2> QED BY <2>1, <2>2
<1>2. ASSUME a < b PROVE k * a < k * b
  <2> DEFINE d == b - a - 1
  <2>1. d \in Nat /\ b = a + d + 1 BY <1>2
  <2>2. k * b = k * a + k * d + k /\ k * d >= 0 /\ k * a \in Int /\ k * d \in Int BY <2>1
  <2> HIDE DEF d
  <2> QED BY <2>1, <2>2
<1> QED BY <1>1, <1>2

\* Counting to the next rank, modulo the number of ranks.
LEMMA RemainderOfNext ==
  ASSUME NEW N \in Nat \ {0}, NEW n \in Nat, n + 1 <= N
  PROVE  (n + 1) % N = IF n + 1 = N THEN 0 ELSE n + 1
OBVIOUS

\* The refresh counters start with a rank that exists, and at most one interval each.
LEMMA TimersInit ==
  ASSUME refresh = RefreshInit
  PROVE  Timers(refresh)
<1> DEFINE k == Timing.tREFI \div NumRanks
<1>1. NumRanks \in Nat \ {0} /\ Timing.tREFI \in Nat /\ Timing.tREFI >= NumRanks /\ Ranks = 0 .. NumRanks - 1
  BY ConstantTypes, TimingTypes DEF Ranks
<1>2. k \in Nat \ {0} /\ k * NumRanks <= Timing.tREFI BY <1>1
<1>3. refresh.rank = 0 /\ refresh.left = [r \in Ranks |-> k * (r + 1)] BY DEF RefreshInit
<1> HIDE DEF k
<1>4. ASSUME NEW r \in Ranks PROVE k * (r + 1) \in 1 .. Timing.tREFI
  <2>1. r + 1 \in Nat /\ r + 1 <= NumRanks /\ 0 < r + 1 BY <1>1
  <2>2. k * (r + 1) <= k * NumRanks /\ k * 0 < k * (r + 1) /\ k * (r + 1) \in Nat /\ k * NumRanks \in Nat
    BY <1>1, <1>2, <2>1, Multiples
  <2>3. k * 0 = 0 BY <1>2
  <2> QED BY <1>1, <1>2, <2>2, <2>3
<1>5. refresh.left \in [Ranks -> 0 .. Timing.tREFI] /\ refresh.rank \in Ranks
  <2>1. \A r \in Ranks : k * (r + 1) \in 0 .. Timing.tREFI BY <1>4
  <2> QED BY <1>1, <1>3, <2>1
<1>6. ASSUME NEW p \in Ranks, NEW q \in Ranks, Turn(0, p) < Turn(0, q)
      PROVE  /\ refresh.left[p] < refresh.left[q]
             /\ refresh.left[q] < refresh.left[p] + Timing.tREFI
  <2>1. p < q BY <1>1, <1>6 DEF Turn
  <2>2. k * (p + 1) < k * (q + 1)
    <3>1. p + 1 \in Nat /\ q + 1 \in Nat /\ p + 1 < q + 1 BY <1>1, <2>1
    <3> QED BY <1>2, <3>1, Multiples
  <2>3. k * (p + 1) \in 1 .. Timing.tREFI /\ k * (q + 1) \in 1 .. Timing.tREFI BY <1>4
  <2>4. k * (q + 1) < k * (p + 1) + Timing.tREFI BY <1>1, <2>3
  <2> QED BY <1>3, <2>2, <2>4
<1> QED BY <1>3, <1>5, <1>6 DEF Timers

\* A cycle keeps the refresh counters in their interval.
LEMMA TimersCounted ==
  ASSUME Timers(refresh), CountDown
  PROVE  Timers(refresh')
<1>1. NumRanks \in Nat \ {0} /\ Timing.tREFI \in Nat /\ Timing.tREFI >= NumRanks /\ Ranks = 0 .. NumRanks - 1
  BY ConstantTypes, TimingTypes DEF Ranks
<1> DEFINE n == refresh.rank
           l == refresh.left
           I == Timing.tREFI
           left == IF RefreshDue THEN [l EXCEPT ![n] = I] ELSE l
           m == IF RefreshDue THEN (n + 1) % NumRanks ELSE n
<1>2. /\ n \in Ranks /\ l \in [Ranks -> 0 .. I] /\ I \in Nat /\ I >= 1
      /\ \A p, q \in Ranks : Turn(n, p) < Turn(n, q) => l[p] < l[q] /\ l[q] < l[p] + I
      /\ RefreshDue <=> l[n] = 0
  BY <1>1 DEF Timers, RefreshDue
<1>3. refresh' = [left |-> [r \in Ranks |-> left[r] - 1], rank |-> m] BY DEF CountDown
<1>4. refresh'.rank = m /\ refresh'.left = [r \in Ranks |-> left[r] - 1] BY <1>3
<1>5. ASSUME NEW r \in Ranks, r # n PROVE l[n] < l[r] /\ l[r] < l[n] + I
  <2>1. Turn(n, n) < Turn(n, r) BY <1>1, <1>2, <1>5 DEF Turn
  <2> QED BY <1>2, <2>1
<1>6. CASE RefreshDue
  <2>1. l[n] = 0 /\ left = [l EXCEPT ![n] = I] /\ m = (n + 1) % NumRanks BY <1>2, <1>6
  <2>2. m \in Ranks /\ m = IF n + 1 = NumRanks THEN 0 ELSE n + 1
    <3>1. n \in Nat /\ n + 1 <= NumRanks /\ m = (n + 1) % NumRanks BY <1>1, <1>2, <2>1
    <3> HIDE DEF n, m
    <3>2. m = IF n + 1 = NumRanks THEN 0 ELSE n + 1 BY <1>1, <3>1, RemainderOfNext
    <3> QED BY <1>1, <3>1, <3>2
  <2>3. left[n] = I /\ \A r \in Ranks \ {n} : left[r] = l[r] /\ l[r] \in 1 .. I /\ l[r] < I
    <3>1. left[n] = I /\ \A r \in Ranks \ {n} : left[r] = l[r] BY <1>2, <2>1
    <3>2. \A r \in Ranks : l[r] \in 0 .. I BY <1>2
    <3> HIDE DEF l, left, n
    <3> QED BY <1>2, <1>5, <2>1, <3>1, <3>2
  <2>4. \A r \in Ranks : Turn(m, r) = IF r = n THEN NumRanks - 1 ELSE Turn(n, r) - 1
    <3> HIDE DEF n, m, l, left
    <3> QED BY <1>1, <1>2, <2>2 DEF Turn
  <2>5. \A r \in Ranks : left[r] \in 1 .. I
    <3> HIDE DEF n, m, l, left
    <3> QED BY <1>2, <2>3
  <2>6. ASSUME NEW p \in Ranks, NEW q \in Ranks, Turn(m, p) < Turn(m, q)
        PROVE  left[p] < left[q] /\ left[q] < left[p] + I
    <3>1. p # n
      <4>1. CASE p = n
        <5>1. Turn(m, p) = NumRanks - 1 /\ Turn(m, q) <= NumRanks - 1
          <6> HIDE DEF n, m, l, left
          <6> QED BY <1>1, <1>2, <2>2, <2>4, <4>1 DEF Turn
        <5>2. Turn(m, p) \in Int /\ Turn(m, q) \in Int
          <6> HIDE DEF n, m, l, left
          <6> QED BY <1>1, <1>2, <2>2 DEF Turn
        <5> QED BY <1>1, <2>6, <5>1, <5>2
      <4> QED BY <4>1
    <3>2. CASE q = n
      <4> HIDE DEF n, m, l, left
      <4> QED BY <1>2, <2>3, <3>1, <3>2
    <3>3. CASE q # n
      <4>1. Turn(n, p) < Turn(n, q)
        <5>1. Turn(n, p) \in Int /\ Turn(n, q) \in Int
          <6> HIDE DEF n, m, l, left
          <6> QED BY <1>1, <1>2 DEF Turn
        <5> HIDE DEF n, m, l, left
        <5> QED BY <2>4, <2>6, <3>1, <3>3, <5>1
      <4> HIDE DEF n, m, l, left
      <4> QED BY <1>2, <2>3, <3>1, <3>3, <4>1
    <3> QED BY <3>2, <3>3
  <2> HIDE DEF n, m, l, left
  <2>7. [r \in Ranks |-> left[r] - 1] \in [Ranks -> 0 .. I]
    <3>1. \A r \in Ranks : left[r] - 1 \in 0 .. I BY <1>2, <2>5
    <3> QED BY <3>1
  <2>8. ASSUME NEW p \in Ranks, NEW q \in Ranks, Turn(m, p) < Turn(m, q)
        PROVE  left[p] - 1 < left[q] - 1 /\ left[q] - 1 < (left[p] - 1) + I
    BY <1>2, <2>5, <2>6, <2>8
  <2> QED BY <1>4, <2>2, <2>7, <2>8 DEF Timers
<1>7. CASE ~RefreshDue
  <2>1. left = l /\ m = n /\ l[n] # 0 BY <1>2, <1>7
  <2>2. \A r \in Ranks : l[r] \in 1 .. I
    <3>1. \A r \in Ranks : l[r] \in 0 .. I BY <1>2
    <3> HIDE DEF l, n
    <3> QED BY <1>2, <1>5, <2>1, <3>1
  <2> HIDE DEF n, m, l, left
  <2>3. [r \in Ranks |-> left[r] - 1] \in [Ranks -> 0 .. I]
    <3>1. \A r \in Ranks : left[r] - 1 \in 0 .. I BY <1>2, <2>1, <2>2
    <3> QED BY <3>1
  <2>4. ASSUME NEW p \in Ranks, NEW q \in Ranks, Turn(m, p) < Turn(m, q)
        PROVE  left[p] - 1 < left[q] - 1 /\ left[q] - 1 < (left[p] - 1) + I
    <3>1. l[p] < l[q] /\ l[q] < l[p] + I /\ l[p] \in 1 .. I /\ l[q] \in 1 .. I
      BY <1>2, <2>1, <2>2, <2>4
    <3> QED BY <1>2, <2>1, <3>1
  <2> QED BY <1>2, <1>4, <2>1, <2>3, <2>4 DEF Timers
<1> QED BY <1>6, <1>7

-----------------------------------------------------------------------------
(* What the bursts' distances mean for the bus.                            *)

LEMMA BusExclusive ==
  ASSUME NEW s, Typed(s), Bus(s, 1), NEW r \in Ranks
  PROVE  /\ s.data # None /\ s.data.rank = r => s.ranks[r].out = None
         /\ BurstStarts(s.ranks[r]) /\ s.ranks[r].out # None => BurstEnds(s.ranks[r])
<1> DEFINE k == s.ranks[r]
           v == Coming(k, r, s.command)
<1>1. ReadBus(v, k.out, s.banks[r], 1) /\ TurnAround(v, k.out, s.writes, s.data, s.banks[r], r, 1)
  BY DEF Bus
<1>2. s.data # None /\ s.data.rank = r => k.out = None
  <2> HIDE DEF k, v
  <2> QED BY <1>1 DEF TurnAround
<1>3. ASSUME BurstStarts(k), k.out # None PROVE BurstEnds(k)
  <2>1. k \in RankState BY DEF Typed, DataTyped
  <2>2. k.reads \in Seq(Burst) /\ k.out \in Burst BY <1>3, <2>1 DEF RankState
  <2>3. k.reads # <<>> /\ k.reads[1].left = 1 /\ 1 \in DOMAIN k.reads
    BY <1>3, <2>2 DEF BurstStarts
  <2>4. 1 \in DOMAIN v /\ v[1] = k.reads[1]
    <3>1. v \in {k.reads, Append(k.reads, [BurstOf(s.command) EXCEPT !.left = Timing.RL + 1])}
      BY DEF Coming
    <3> HIDE DEF v
    <3> QED BY <2>2, <2>3, <3>1
  <2>5. k.out.left >= 1 /\ k.out.left <= v[1].left
    <3> HIDE DEF k, v
    <3> QED BY <1>1, <1>3, <2>4 DEF ReadBus
  <2>6. k.out.left \in Int BY <2>2 DEF Burst
  <2>7. k.out.left = 1 BY <2>3, <2>4, <2>5, <2>6
  <2> QED BY <1>3, <2>7 DEF BurstEnds
<1> QED BY <1>2, <1>3
=============================================================================
