------------------------------ MODULE LegacyPIM ------------------------------
(***************************************************************************)
(* The rank-wide PIM of one channel: PIMKernel submits a kernel's whole    *)
(* list of transactions, the command queue of the controller issues them   *)
(* with the activates, precharges and refreshes they need, and the rank    *)
(* takes each command, in the mode earlier commands have put it in.        *)
(*                                                                         *)
(* The controller's choice is CommandQueue's without the timing counters:  *)
(* any command they could let through may be next.  A command reaches the  *)
(* rank before the controller looks at the rank's mode again, so issue and *)
(* receipt are one step.  The refresh timer asks a bounded number of times *)
(* at any moments.                                                         *)
(***************************************************************************)
EXTENDS PIMKernel

CONSTANTS Channel,         \* the channel that is looked at
          Kernels,         \* the kernels the host may run
          OpenRows,        \* the rows that may be open before
          CmdQueueDepth,
          MaxRefreshes     \* bound: refreshes asked for during a kernel

VARIABLES kernel,          \* the kernel that runs
          sent,            \* how many of its transactions have reached the command queue
          queue,           \* the command queue: positions in the kernel's list
          open,            \* the controller's book of open rows
          fresh,           \* the bank whose row was opened for the head, until it is accessed
          refresh,         \* refreshWaiting, and the refreshes still to come
          rank

vars == <<kernel, sent, queue, open, fresh, refresh, rank>>

\* The host submits each transaction to every channel by its address, in rank 0; the memory
\* system hands it to the channel the address names, whose controller takes it apart again.
Address(t, chan) ==
  addrGen(chan, 0, t.bank \div NumBanksPerBg, t.bank % NumBanksPerBg, t.row, t.col)
Received(t, address) ==
  LET place == addressMapping("Scheme8", address)
  IN  [t EXCEPT !.bank = place.bank, !.row = place.row, !.col = place.col,
                !.chan = findChannelNumber("Scheme8", address)]
Submitted(list) ==
  [i \in 1 .. Len(list) * NumChans |->
     LET t == list[((i - 1) \div NumChans) + 1]
     IN  Received(t, Address(t, (i - 1) % NumChans))]
Routed(list) == SelectSeq(Submitted(list), LAMBDA t : t.chan = Channel)

Transactions == [k \in Kernels |-> Routed(Execute(k))]
Entry(i) == Transactions[kernel][queue[i]]
Is(i, kind) == Entry(i).kind = kind

None == Closed

Init == /\ kernel \in Kernels
        /\ sent = 0 /\ queue = <<>>
        /\ open \in OpenRows
        /\ fresh = None
        /\ refresh = [waiting |-> FALSE, left |-> MaxRefreshes]
        /\ rank = RankInit(open)

Bare(kind, bank, row) == [kind |-> kind, bank |-> bank, row |-> row, col |-> 0]

\* One update: the rank takes the command and makes its own step, and the next transaction
\* is moved into the queue q the command leaves, where there is room.
Rank(c) == rank' = Step(ReceiveFromBus(rank, c))
Refill(q) ==
  LET move == sent < Len(Transactions[kernel]) /\ Len(q) < CmdQueueDepth
  IN  /\ queue' = IF move THEN Append(q, sent + 1) ELSE q
      /\ sent' = IF move THEN sent + 1 ELSE sent

\* An update that issues nothing.
Move == sent < Len(Transactions[kernel]) /\ Len(queue) < CmdQueueDepth /\ Refill(queue)
Enqueue == Move /\ UNCHANGED <<kernel, open, fresh, refresh, rank>>

\* The refresh command itself leaves at once: nothing else is issued before it.
Due == refresh.waiting /\ \A b \in Bank : open[b] = Closed
MayIssue == rank.fault = "none" /\ ~Due

SamePlace(x, y) == x.bank = y.bank /\ x.row = y.row /\ x.col = y.col
Barrier(i) == Entry(i).bar

\* process_command, a column access: not behind a barrier or an access to its address.
Depends_NoBarrier(i) == \E j \in 1 .. i - 1 : SamePlace(Entry(i), Entry(j))      \* mutant
Depends(i) == \E j \in 1 .. i - 1 : SamePlace(Entry(i), Entry(j)) \/ Barrier(j)
\* Accesses of one kind to one row have the same timing: the first that may, goes.
Earlier(i) == \E j \in 1 .. i - 1 : /\ Entry(j).kind = Entry(i).kind /\ Entry(j).bank = Entry(i).bank
                                    /\ Entry(j).row = Entry(i).row
                                    /\ (j = 1 \/ ~Barrier(j)) /\ ~Depends(j)
Choose(i) ==
  /\ MayIssue
  /\ open[Entry(i).bank] = Entry(i).row
  /\ i = 1 \/ ~Barrier(i)
  /\ ~Depends(i) /\ ~Earlier(i)
  /\ Refill(RemoveAt(queue, i))
ColumnAccess(i) ==
  /\ Choose(i)
  /\ Rank(Entry(i))
  /\ fresh' = IF i = 1 THEN None ELSE fresh
  /\ UNCHANGED <<kernel, open, refresh>>

\* process_command, an activate for the first entry of its bank; outside SB, banks 0 and 1.
Open(i) ==
  LET e == Entry(i)
  IN  /\ MayIssue
      /\ open[e.bank] = Closed
      /\ rank.mode = "SB" \/ e.bank < 2
      /\ \A j \in 2 .. i : ~Barrier(j)
      /\ \A j \in 1 .. i - 1 : Entry(j).bank # e.bank
      /\ open' = [open EXCEPT ![e.bank] = e.row]
Activate(i) ==
  LET e == Entry(i)
  IN  /\ Open(i)
      /\ fresh' = IF i = 1 THEN e.bank ELSE fresh
      /\ Rank([Bare("ACTIVATE", e.bank, e.row) EXCEPT !.col = e.col])
      /\ Refill(queue)
      /\ UNCHANGED <<kernel, refresh>>

\* process_precharge closes a row no entry up to the first barrier needs; process_refresh
\* closes every bank.  A row opened for the head is accessed first: every delay of that
\* access is shorter than tRAS.
RowNeeded(b) == \E i \in DOMAIN queue : /\ \A j \in 1 .. i - 1 : ~Barrier(j)
                                        /\ Entry(i).bank = b /\ Entry(i).row = open[b]
Close(b) == /\ MayIssue
            /\ open[b] # Closed
            /\ IF refresh.waiting THEN fresh # b \/ ~RowNeeded(b) ELSE ~RowNeeded(b)
            /\ open' = [open EXCEPT ![b] = Closed]
Precharge(b) == /\ Close(b)
                /\ Rank(Bare("PRECHARGE", b, open[b]))
                /\ Refill(queue)
                /\ UNCHANGED <<kernel, fresh, refresh>>

NeedRefresh == /\ ~refresh.waiting /\ refresh.left > 0 /\ rank.fault = "none"
               /\ refresh' = [waiting |-> TRUE, left |-> refresh.left - 1]
               /\ UNCHANGED <<kernel, sent, queue, open, fresh, rank>>

\* process_refresh, once every bank is closed.
Refreshed == Due /\ rank.fault = "none" /\ refresh' = [refresh EXCEPT !.waiting = FALSE]
Refresh == /\ Refreshed
           /\ Rank(Bare("REF", 0, 0))
           /\ Refill(queue)
           /\ UNCHANGED <<kernel, open, fresh>>

Done == sent = Len(Transactions[kernel]) /\ queue = <<>>
Stop == (Done \/ rank.fault # "none") /\ UNCHANGED vars

Next == \/ Enqueue
        \/ \E i \in DOMAIN queue : ColumnAccess(i) \/ Activate(i)
        \/ \E b \in Bank : Precharge(b)
        \/ NeedRefresh \/ Refresh
        \/ Stop

Spec == Init /\ [][Next]_vars

\* Timing only delays: what stays issuable is issued, the head's activate and a row in its
\* way first of all.  Each part is the choice of an action, without its effect on the rank.
FairSpec == /\ Spec
            /\ WF_<<sent, queue>>(Move)
            /\ WF_<<sent, queue>>(\E i \in DOMAIN queue : Choose(i))
            /\ WF_open(queue # <<>> /\ Open(1))
            /\ \A b \in Bank : WF_open(Close(b))
            /\ WF_refresh(Refreshed)

-----------------------------------------------------------------------------
(* Properties                                                               *)

\* The rank never refuses a command, meets a mode conflict or leaves its banks.
NoFault == rank.fault = "none"

\* The controller's book of open rows and the rank's agree, although the rank switches
\* modes by itself, opens half of its banks at once outside SB and sees no reserved row.
Visible(row) == IF IsReservedRA(row) THEN Closed ELSE row
BooksAgree ==
  \A b \in Bank :
    IF rank.mode = "SB" THEN rank.open[b] = Visible(open[b])
    ELSE /\ rank.open[b] = Visible(open[b % 2])
         /\ b > 1 => Visible(open[b]) = Closed

\* The controller and the rank never fall apart, in any mode.
SafeState == NoFault /\ BooksAgree

\* When the kernel's transactions are done the banks hold what the kernel computes, each
\* result in its place and nothing else written.
ResultCorrect ==
  Done => {[place |-> p, value |-> rank.cells[p]] : p \in DOMAIN rank.cells} = Expected(kernel)

\* Every kernel ends, with the rank back in single-bank mode.
Completes == <>(Done /\ rank.mode = "SB" /\ rank.exec = "IDLE")

=============================================================================
