---------------------------- MODULE CommandQueue ----------------------------
(***************************************************************************)
(* CommandQueue: one queue of column commands per rank (per_rank), from    *)
(* which pop issues at most one command a cycle: the refresh that waits    *)
(* (or the precharge it needs), else the first column command or activate  *)
(* of the next rank that may issue one, else a precharge of a row nothing  *)
(* queued needs.  Every operator is over the record s of MemoryController, *)
(* whose fields here are queues, banks (the controller's book), waiting    *)
(* (refreshWaiting with its refreshRank), nextRank, nextPre (nextRankPRE   *)
(* and nextBankPRE), rowAccesses and fault.                                *)
(*                                                                         *)
(* tXAWCountdown never gets an element, so its limit XAW never binds.      *)
(***************************************************************************)
EXTENDS BankState, Sequences, FiniteSets

CONSTANTS CmdQueueDepth,
          TotalRowAccesses,
          None

ASSUME QueueAssumption == CmdQueueDepth \in Nat \ {0} /\ TotalRowAccesses \in Nat \ {0}

Least(S) == CHOOSE x \in S : \A y \in S : x <= y

HasRoomFor(s, r) == Len(s.queues[r]) < CmdQueueDepth

\* enqueue: a command beyond the queue's depth ends the program.
Enqueue(s, c) ==
  LET grown == [s EXCEPT !.queues[c.rank] = Append(@, c)]
  IN  IF Len(grown.queues[c.rank]) <= CmdQueueDepth THEN grown
      ELSE [grown EXCEPT !.fault = @ \cup {"command queue"}]

NeedRefresh(s, r) == [s EXCEPT !.waiting = r]

Bare(kind, r, b, row) == [kind |-> kind, rank |-> r, bank |-> b, row |-> row, id |-> None]

IsIssuable(s, c) ==
  LET k == s.banks[c.rank][c.bank]
      open == k.state = "RowActive" /\ k.row = c.row
              /\ s.rowAccesses[c.rank][c.bank] < TotalRowAccesses
  IN  CASE c.kind = "REF"       -> TRUE
        [] c.kind = "ACTIVATE"  -> k.state \in {"Idle", "Refreshing"} /\ k.act = 0
        [] c.kind = "WRITE"     -> open /\ k.write = 0
        [] c.kind = "READ"      -> open /\ k.read = 0
        [] c.kind = "PRECHARGE" -> k.state = "RowActive" /\ k.pre = 0

\* What pop gives: the command, or None, and the queue it leaves.
Nothing(s) == [command |-> None, queue |-> s]
Issue(c, s) == [command |-> c, queue |-> s]

PrechargeOf(s, r, b) == Bare("PRECHARGE", r, b, s.banks[r][b].row)

\* process_refresh: close the open banks of the rank, lowest first, then refresh.
ProcessRefresh(s) ==
  LET r == s.waiting
      open == {b \in Banks : s.banks[r][b].state = "RowActive"}
      closable == {b \in open : IsIssuable(s, PrechargeOf(s, r, b))}
  IN  IF r = None THEN Nothing(s)
      ELSE IF open = {} THEN Issue(Bare("REF", r, 0, 0), [s EXCEPT !.waiting = None])
      ELSE IF closable # {} THEN Issue(PrechargeOf(s, r, Least(closable)), s)
      ELSE Nothing(s)

\* A column command depends on an earlier one to its address and on any barrier.
SamePlace(c, d) == c.bank = d.bank /\ c.row = d.row /\ c.column = d.column
Depends_NoBarrier(q, i) == \E j \in 1 .. i - 1 : SamePlace(q[i], q[j])  \* mutant
Depends_NoPlace(q, i) == \E j \in 1 .. i - 1 : q[j].bar               \* mutant
Depends(q, i) == \E j \in 1 .. i - 1 : SamePlace(q[i], q[j]) \/ q[j].bar

\* Mutant: a barrier does not issue from the head either.
ColumnChoices_BarWaits(s, r) ==
  LET q == s.queues[r]
  IN  {i \in DOMAIN q : IsIssuable(s, q[i]) /\ ~q[i].bar /\ ~Depends(q, i)}

\* The column commands of a rank's queue that may issue, by position.
ColumnChoices(s, r) ==
  LET q == s.queues[r]
  IN  {i \in DOMAIN q : IsIssuable(s, q[i]) /\ (i = 1 \/ ~q[i].bar) /\ ~Depends(q, i)}

\* The entries up to the next barrier whose bank an activate may open.
ActivateOf(c) == Bare("ACTIVATE", c.rank, c.bank, c.row)
ActivateChoices(s, r) ==
  LET q == s.queues[r]
  IN  {i \in DOMAIN q : /\ \A j \in 2 .. i : ~q[j].bar
                        /\ s.banks[r][q[i].bank].state = "Idle"
                        /\ IsIssuable(s, ActivateOf(q[i]))}

Without(q, i) == SubSeq(q, 1, i - 1) \o SubSeq(q, i + 1, Len(q))

\* process_command: the ranks in turn from nextRank, which stays where it issued.
ProcessCommand(s) ==
  LET turn(n) == (s.nextRank + n) % NumRanks
      ready == {n \in Ranks : ColumnChoices(s, turn(n)) # {} \/ ActivateChoices(s, turn(n)) # {}}
      r == turn(Least(ready))
      column == ColumnChoices(s, r)
      q == s.queues[r]
  IN  IF ready = {} THEN Nothing(s)
      ELSE IF column # {}
      THEN Issue(q[Least(column)],
                 [s EXCEPT !.nextRank = r, !.queues[r] = Without(q, Least(column))])
      ELSE Issue(ActivateOf(q[Least(ActivateChoices(s, r))]), [s EXCEPT !.nextRank = r])

\* An entry not behind a barrier still needs the row that bank b has open.
RowNeeded(s, r, b) ==
  LET q == s.queues[r]
      k == s.banks[r][b]
  IN  \E i \in DOMAIN q : /\ \A j \in 1 .. i - 1 : ~q[j].bar
                          /\ q[i].bank = b /\ k.state = "RowActive" /\ q[i].row = k.row

\* process_precharge: the banks in turn from the cursor, ranks fastest (nextRankAndBank).
ProcessPrecharge(s) ==
  LET places == NumRanks * NumBanks
      turn(n) == (s.nextPre + n) % places
      rank(p) == p % NumRanks
      bank(p) == p \div NumRanks
      ready == {n \in 0 .. places - 1 :
                  LET p == turn(n)
                  IN  /\ ~RowNeeded(s, rank(p), bank(p))
                      /\ IsIssuable(s, PrechargeOf(s, rank(p), bank(p)))}
      p == turn(Least(ready))
  IN  IF ready = {} THEN Nothing(s)
      ELSE Issue(PrechargeOf(s, rank(p), bank(p)), [s EXCEPT !.nextPre = p])

Pop(s) ==
  LET refresh == ProcessRefresh(s)
      command == ProcessCommand(s)
  IN  IF refresh.command # None THEN refresh
      ELSE IF command.command # None THEN command
      ELSE ProcessPrecharge(s)

=============================================================================
