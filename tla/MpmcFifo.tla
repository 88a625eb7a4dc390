------------------------------ MODULE MpmcFifo ------------------------------
(***************************************************************************)
(* Proof that the mpmc channel neither loses, duplicates nor reorders an   *)
(* item, for every value of the constants.                                 *)
(***************************************************************************)
EXTENDS MpmcProofs

-----------------------------------------------------------------------------
(* Who keeps a Receiver alive.  Fifo needs it: nothing may be delivered     *)
(* once the last Receiver has begun to drain.                               *)

FutureBorrows == \A s \in RecvFuts : rfut[s].rx /= None => rfut[s].rx \in rxLive
StackBorrows == \A d \in Live : FrameBorrows(frames[d])
DrainBorrows == drained /= <<>> => rxLive = {}

\* The step changes neither which Receivers live nor what a Recv borrows.
SameReceivers == rxLive' = rxLive /\ \A s \in RecvFuts : rfut'[s].rx = rfut[s].rx

\* Without such a change a future goes on borrowing a live Receiver.
LEMMA FutureSame == ASSUME FutureBorrows, SameReceivers PROVE FutureBorrows'
BY DEF FutureBorrows, SameReceivers

\* What a frame keeps alive depends on these two alone.
LEMMA FrameSame ==
  ASSUME NEW f, FrameBorrows(f), SameReceivers
  PROVE  FrameBorrows(f)'
BY DEF FrameBorrows, Keeps, SameReceivers

\* A new call must keep its own Receiver.
LEMMA CallBorrows ==
  ASSUME TypeOK, StackBorrows, SameReceivers, depth < MaxDepth, NEW f, Call(f), FrameBorrows(f)
  PROVE  StackBorrows'
<1> SUFFICES ASSUME NEW d \in 1..depth' PROVE FrameBorrows(frames[d])'
  BY DEF StackBorrows, Live
<1>0. depth \in Nat /\ MaxDepth \in Nat /\ frames \in [0..MaxDepth -> Frames]
  BY ReentryAssumption DEF TypeOK, StackType
<1>1. CASE d = depth + 1
  <2>1. frames'[d] = f
    BY <1>0, <1>1 DEF Call
  <2> QED BY <2>1, FrameSame DEF FrameBorrows, Keeps
<1>2. CASE d /= depth + 1
  <2>1. d \in 1..depth /\ frames'[d] = frames[d]
    BY <1>0, <1>2 DEF Call
  <2>2. FrameBorrows(frames[d])
    BY <2>1 DEF StackBorrows, Live
  <2> QED BY <2>1, <2>2, FrameSame DEF FrameBorrows, Keeps
<1> QED BY <1>1, <1>2

\* A call that goes on keeps what it kept.
LEMMA GotoBorrows ==
  ASSUME TypeOK, StackBorrows, SameReceivers, depth > 0, NEW f, Goto(f), FrameBorrows(f)
  PROVE  StackBorrows'
<1> SUFFICES ASSUME NEW d \in 1..depth' PROVE FrameBorrows(frames[d])'
  BY DEF StackBorrows, Live
<1>0. depth \in Nat /\ depth <= MaxDepth /\ MaxDepth \in Nat /\ frames \in [0..MaxDepth -> Frames]
  BY ReentryAssumption DEF TypeOK, StackType
<1>1. CASE d = depth
  <2>1. frames'[d] = f
    BY <1>0, <1>1 DEF Goto
  <2> QED BY <2>1, FrameSame DEF FrameBorrows, Keeps
<1>2. CASE d /= depth
  <2>1. d \in 1..depth /\ frames'[d] = frames[d]
    BY <1>0, <1>2 DEF Goto
  <2>2. FrameBorrows(frames[d])
    BY <2>1 DEF StackBorrows, Live
  <2> QED BY <2>1, <2>2, FrameSame DEF FrameBorrows, Keeps
<1> QED BY <1>1, <1>2

\* A return gives up what the call kept, and only that.
LEMMA ReturnBorrows ==
  ASSUME TypeOK, StackBorrows, SameReceivers, depth > 0, Return
  PROVE  StackBorrows'
<1> SUFFICES ASSUME NEW d \in 1..depth' PROVE FrameBorrows(frames[d])'
  BY DEF StackBorrows, Live
<1>0. depth \in Nat /\ MaxDepth \in Nat /\ frames \in [0..MaxDepth -> Frames]
  BY ReentryAssumption DEF TypeOK, StackType
<1>1. d \in 1..depth /\ frames'[d] = frames[d]
  BY <1>0 DEF Return
<1>2. FrameBorrows(frames[d])
  BY <1>1 DEF StackBorrows, Live
<1> QED BY <1>1, <1>2, FrameSame DEF FrameBorrows, Keeps

\* So does a step that leaves the stack alone.
LEMMA SameBorrows ==
  ASSUME StackBorrows, SameReceivers, UNCHANGED <<depth, frames>>
  PROVE  StackBorrows'
BY FrameSame DEF StackBorrows, Live, FrameBorrows, Keeps

\* The running call keeps its Receiver.
LEMMA TopBorrows ==
  ASSUME TypeOK, StackBorrows, depth > 0
  PROVE  top \in RawFrames /\ FrameBorrows(top)
<1>1. depth \in 1..depth
  BY DEF TypeOK, StackType
<1> QED BY <1>1, TopType DEF TypeOK, Frames, StackBorrows, Live, top

\* What a frame keeps is decided by the call and by what the call holds.
LEMMA SameCall ==
  ASSUME NEW f, NEW g, FrameBorrows(f), g.who = f.who,
         g.op = f.op \/ (g.op \in TakeOps /\ f.op \in TakeOps)
  PROVE  FrameBorrows(g)
BY DEF FrameBorrows, TakeOps

\* Starting to wake changes neither.
LEMMA WakingBorrows ==
  ASSUME NEW f \in RawFrames, NEW list, FrameBorrows(f)
  PROVE  FrameBorrows(Waking(f, list))
<1>1. Waking(f, list).op = f.op /\ Waking(f, list).who = f.who
  BY DEF Waking, RawFrames
<1> QED BY <1>1, SameCall

\* A call that is no receive and no Receiver's drop keeps nothing.
LEMMA PlainFrame ==
  ASSUME NEW op \in Ops \ (TakeOps \cup {"receiver_drop"}), NEW at \in Labels,
         NEW who \in Owners \cup {None}
  PROVE  FrameBorrows(Frame(op, at, who)) /\ Frame(op, at, who) \in RawFrames
BY DEF Frame, FrameBorrows, RawFrames

\* Finishing a Recv does not change what it borrows.
LEMMA FinishedSame ==
  ASSUME TaskType, NEW o, Finished(o), rxLive' = rxLive
  PROVE  SameReceivers
BY DEF TaskType, Finished, SameReceivers

\* The three parts again, after a step that neither drains nor changes who lives.
LEMMA BorrowsStep ==
  ASSUME Borrows, SameReceivers, drained' = drained, StackBorrows'
  PROVE  Borrows'
BY FutureSame DEF Borrows, FutureBorrows, StackBorrows, SameReceivers


\* Calls on a Sender or a Send future involve no Receiver.
LEMMA SendSideBorrows ==
  ASSUME TypeOK, Borrows, SenderCalls \/ SendCalls
  PROVE  Borrows'
<1> USE MpmcAssumption, ReentryAssumption
<1>b. StackBorrows
  BY DEF Borrows, StackBorrows
<1>1. CASE CloneSender
  <2>1. SameReceivers /\ drained' = drained
    BY <1>1 DEF CloneSender, chanVars, wakerVars, taskVars, histVars, SameReceivers
  <2>2. StackBorrows'
    BY <1>1, <1>b, <2>1, SameBorrows DEF CloneSender, stackVars
  <2> QED BY <2>1, <2>2, BorrowsStep
<1>2. CASE DropSender
  <2>1. SameReceivers /\ drained' = drained
    BY <1>2 DEF DropSender, chanVars, wakerVars, taskVars, histVars, SameReceivers
  <2>2. StackBorrows'
    BY <1>2, <1>b, <2>1, SameBorrows DEF DropSender, stackVars
  <2> QED BY <2>1, <2>2, BorrowsStep
<1>3. CASE DropLastSender
  <2>1. SameReceivers /\ drained' = drained
    BY <1>3 DEF DropLastSender, chanVars, wakerVars, taskVars, histVars, SameReceivers
  <2>2. StackBorrows'
    <3>1. FrameBorrows(Waking(Frame("sender_drop", "woke", None), recv_wakers))
      BY PlainFrame, WakingBorrows DEF Ops, TakeOps, Labels
    <3> QED BY <1>3, <1>b, <2>1, <3>1, CallBorrows DEF DropLastSender, MayCall, UserCode
  <2> QED BY <2>1, <2>2, BorrowsStep
<1>4. CASE SenderClose
  <2>1. SameReceivers /\ drained' = drained
    BY <1>4 DEF SenderClose, ClosingVia, chanVars, wakerVars, taskVars, histVars, SameReceivers
  <2>2. StackBorrows'
    <3>1. FrameBorrows(Waking(Frame("close", "woke", None), recv_wakers))
      BY PlainFrame, WakingBorrows DEF Ops, TakeOps, Labels
    <3> QED BY <1>4, <1>b, <2>1, <3>1, CallBorrows DEF SenderClose, ClosingVia, MayCall, UserCode
  <2> QED BY <2>1, <2>2, BorrowsStep
<1>5. ASSUME NEW i \in Items, TrySend(i) PROVE Borrows'
  <2>1. SameReceivers /\ drained' = drained
    BY <1>5 DEF TrySend, Accept, chanVars, wakerVars, taskVars, histVars, SameReceivers
  <2>2. StackBorrows'
    <3>1. FrameBorrows(Waking(Frame("try_send", "woke", i), recv_wakers))
      BY PlainFrame, WakingBorrows DEF Ops, TakeOps, Labels, Owners
    <3> QED BY <1>5, <1>b, <2>1, <3>1, CallBorrows DEF TrySend, MayCall, UserCode
  <2> QED BY <2>1, <2>2, BorrowsStep
<1>6. ASSUME NEW i \in Items, PollSend(i) PROVE Borrows'
  <2>1. SameReceivers /\ drained' = drained
    BY <1>6 DEF PollSend, chanVars, wakerVars, taskVars, histVars, SameReceivers
  <2>2. StackBorrows'
    <3>1. FrameBorrows(Frame("send", "first", i))
      BY PlainFrame DEF Ops, TakeOps, Labels, Owners
    <3> QED BY <1>6, <1>b, <2>1, <3>1, CallBorrows DEF PollSend, MayCall, UserCode
  <2> QED BY <2>1, <2>2, BorrowsStep
<1>7. ASSUME NEW i \in Items, NewSend(i) PROVE Borrows'
  <2>1. SameReceivers /\ drained' = drained
    BY <1>7 DEF NewSend, chanVars, wakerVars, taskVars, histVars, SameReceivers
  <2>2. StackBorrows'
    BY <1>7, <1>b, <2>1, SameBorrows DEF NewSend, stackVars
  <2> QED BY <2>1, <2>2, BorrowsStep
<1>8. ASSUME NEW i \in Items, ReplayOutcome(i) PROVE Borrows'
  <2>1. SameReceivers /\ drained' = drained
    BY <1>8 DEF ReplayOutcome, chanVars, wakerVars, taskVars, histVars, SameReceivers
  <2>2. StackBorrows'
    BY <1>8, <1>b, <2>1, SameBorrows DEF ReplayOutcome, stackVars
  <2> QED BY <2>1, <2>2, BorrowsStep
<1>9. ASSUME NEW i \in Items, DropSend(i) PROVE Borrows'
  <2>1. SameReceivers /\ drained' = drained
    BY <1>9 DEF DropSend, chanVars, wakerVars, taskVars, histVars, SameReceivers
  <2>2. StackBorrows'
    BY <1>9, <1>b, <2>1, SameBorrows DEF DropSend, stackVars
  <2> QED BY <2>1, <2>2, BorrowsStep
<1> QED BY <1>1, <1>2, <1>3, <1>4, <1>5, <1>6, <1>7, <1>8, <1>9 DEF SenderCalls, SendCalls

\* A step of library code: the call it belongs to keeps its Receiver until it
\* returns, and items are drained only when no Receiver is left.
LEMMA LibraryBorrows ==
  ASSUME TypeOK, Borrows, LibrarySteps
  PROVE  Borrows'
<1> USE MpmcAssumption, ReentryAssumption
<1>b. StackBorrows
  BY DEF Borrows, StackBorrows
<1>1. CASE WakesReturn
  <2>1. SameReceivers /\ drained' = drained
    BY <1>1 DEF WakesReturn, chanVars, wakerVars, taskVars, histVars, SameReceivers
  <2>2. StackBorrows'
    BY <1>1, <1>b, <2>1, ReturnBorrows DEF WakesReturn, At
  <2> QED BY <2>1, <2>2, BorrowsStep
<1>2. CASE CloseSenders
  <2>1. SameReceivers /\ drained' = drained
    BY <1>2 DEF CloseSenders, chanVars, wakerVars, taskVars, histVars, SameReceivers
  <2>2. StackBorrows'
    <3>1. depth > 0
      BY <1>2 DEF CloseSenders, At
    <3>2. top \in RawFrames /\ FrameBorrows(top)
      BY <1>b, <3>1, TopBorrows
    <3>3. [top EXCEPT !.op = "close2"] \in RawFrames /\ FrameBorrows([top EXCEPT !.op = "close2"])
      BY <3>2 DEF RawFrames, Ops, TakeOps, FrameBorrows
    <3>4. FrameBorrows(Waking([top EXCEPT !.op = "close2"], send_wakers))
      BY <3>3, WakingBorrows
    <3> QED BY <1>2, <1>b, <2>1, <3>1, <3>4, GotoBorrows DEF CloseSenders
  <2> QED BY <2>1, <2>2, BorrowsStep
<1>3. CASE WakesTake
  <2>1. SameReceivers /\ drained' = drained
    BY <1>3 DEF WakesTake, chanVars, wakerVars, taskVars, histVars, SameReceivers
  <2>2. StackBorrows'
    <3>1. depth > 0
      BY <1>3 DEF WakesTake, At
    <3>2. top \in RawFrames /\ FrameBorrows(top)
      BY <1>b, <3>1, TopBorrows
    <3>3. FrameBorrows([top EXCEPT !.at = TakeAgain])
      BY <3>2, SameCall DEF RawFrames
    <3>4. Return \/ Goto([top EXCEPT !.at = TakeAgain])
      BY <1>3 DEF WakesTake
    <3> QED BY <1>b, <2>1, <3>1, <3>3, <3>4, GotoBorrows, ReturnBorrows
  <2> QED BY <2>1, <2>2, BorrowsStep
<1>4. CASE WakesCommit
  <2>1. SameReceivers /\ drained' = drained
    BY <1>4 DEF WakesCommit, chanVars, wakerVars, taskVars, histVars, SameReceivers
  <2>2. StackBorrows'
    <3>1. depth > 0
      BY <1>4 DEF WakesCommit, At
    <3>2. top \in RawFrames /\ FrameBorrows(top)
      BY <1>b, <3>1, TopBorrows
    <3>3. FrameBorrows([top EXCEPT !.at = "deregister"])
      BY <1>4, <3>2, SameCall DEF WakesCommit, RawFrames
    <3> QED BY <1>4, <1>b, <2>1, <3>1, <3>3, GotoBorrows DEF WakesCommit
  <2> QED BY <2>1, <2>2, BorrowsStep
<1>5. CASE WakesDrain
  <2>1. SameReceivers /\ drained' = drained
    BY <1>5 DEF WakesDrain, chanVars, wakerVars, taskVars, histVars, SameReceivers
  <2>2. StackBorrows'
    <3>1. depth > 0
      BY <1>5 DEF WakesDrain, At
    <3>2. top \in RawFrames /\ FrameBorrows(top)
      BY <1>b, <3>1, TopBorrows
    <3>3. FrameBorrows([top EXCEPT !.at = "drain"])
      BY <1>5, <3>2, SameCall DEF WakesDrain, RawFrames
    <3> QED BY <1>5, <1>b, <2>1, <3>1, <3>3, GotoBorrows DEF WakesDrain
  <2> QED BY <2>1, <2>2, BorrowsStep
<1>6. CASE SendClosed
  <2>1. SameReceivers /\ drained' = drained
    BY <1>6 DEF SendClosed, chanVars, wakerVars, taskVars, histVars, SameReceivers
  <2>2. StackBorrows'
    <3>1. depth > 0
      BY <1>6 DEF SendClosed, Looking
    <3>2. top \in RawFrames /\ FrameBorrows(top)
      BY <1>b, <3>1, TopBorrows
    <3> DEFINE f == [top EXCEPT !.at = "deregister", !.id = waker_id[top.who]]
    <3>3. f.op = top.op /\ f.who = top.who
      BY <3>2 DEF RawFrames
    <3>4. FrameBorrows(f)
      <4> HIDE DEF f
      <4> QED BY <3>2, <3>3, SameCall
    <3> QED BY <1>6, <1>b, <2>1, <3>1, <3>4, GotoBorrows DEF SendClosed
  <2> QED BY <2>1, <2>2, BorrowsStep
<1>7. CASE SendPush
  <2>1. SameReceivers /\ drained' = drained
    BY <1>7 DEF SendPush, Accept, Committing, SameReceivers
  <2>2. StackBorrows'
    <3> DEFINE f == [top EXCEPT !.id = waker_id[top.who]]
    <3>1. depth > 0 /\ top.at \in {"first", "recheck"}
      BY <1>7 DEF SendPush, Looking
    <3>2. top \in RawFrames /\ FrameBorrows(top)
      BY <1>b, <3>1, TopBorrows
    <3>w. top.who \in Owners
      BY <3>1, TopType DEF TypeOK, Frames, Shape, Owners
    <3>3. f \in RawFrames /\ FrameBorrows(f)
      BY <3>2, <3>w, SameCall DEF TypeOK, WakerType, RawFrames
    <3>4. FrameBorrows(Waking(f, recv_wakers))
      BY <3>3, WakingBorrows
    <3> QED BY <1>7, <1>b, <2>1, <3>1, <3>4, GotoBorrows DEF SendPush
  <2> QED BY <2>1, <2>2, BorrowsStep
<1>8. CASE SendFull
  <2>1. SameReceivers /\ drained' = drained
    BY <1>8 DEF SendFull, chanVars, wakerVars, taskVars, histVars, SameReceivers
  <2>2. StackBorrows'
    <3>1. depth > 0
      BY <1>8 DEF SendFull, At
    <3>2. top \in RawFrames /\ FrameBorrows(top)
      BY <1>b, <3>1, TopBorrows
    <3>3. FrameBorrows([top EXCEPT !.at = IF Reg(top.who) \in send_wakers THEN "drop_old_send" ELSE "clone_send"])
      BY <1>8, <3>2, SameCall DEF SendFull, RawFrames
    <3> QED BY <1>8, <1>b, <2>1, <3>1, <3>3, GotoBorrows DEF SendFull
  <2> QED BY <2>1, <2>2, BorrowsStep
<1>9. CASE SendPending
  <2>1. SameReceivers /\ drained' = drained
    BY <1>9 DEF SendPending, chanVars, wakerVars, taskVars, histVars, SameReceivers
  <2>2. StackBorrows'
    BY <1>9, <1>b, <2>1, ReturnBorrows DEF SendPending, At
  <2> QED BY <2>1, <2>2, BorrowsStep
<1>10. CASE Deregister
  <2>1. SameReceivers /\ drained' = drained
    BY <1>10 DEF Deregister, chanVars, wakerVars, taskVars, histVars, SameReceivers
  <2>2. StackBorrows'
    <3>1. depth > 0
      BY <1>10 DEF Deregister, At
    <3>2. top \in RawFrames /\ FrameBorrows(top)
      BY <1>b, <3>1, TopBorrows
    <3> DEFINE f == [top EXCEPT !.at = "drop_commit", !.id = None]
    <3>a. f.op = top.op /\ f.who = top.who
      BY <3>2 DEF RawFrames
    <3>3. FrameBorrows(f)
      <4> HIDE DEF f
      <4> QED BY <3>2, <3>a, SameCall
    <3>4. Return \/ Goto([top EXCEPT !.at = "drop_commit", !.id = None])
      BY <1>10 DEF Deregister, SendReturns
    <3> QED BY <1>b, <2>1, <3>1, <3>3, <3>4, GotoBorrows, ReturnBorrows
  <2> QED BY <2>1, <2>2, BorrowsStep
<1>11. CASE TakeRedelivered
  <2>1. SameReceivers /\ drained' = drained
    BY <1>11, FinishedSame DEF TypeOK, TakeRedelivered, Deliver, wakerVars
  <2>2. StackBorrows'
    BY <1>11, <1>b, <2>1, ReturnBorrows DEF TakeRedelivered, At, Deliver
  <2> QED BY <2>1, <2>2, BorrowsStep
<1>12. CASE TakeItem
  <2>1. SameReceivers /\ drained' = drained
    BY <1>12, FinishedSame DEF TypeOK, TakeItem, Deliver, wakerVars
  <2>2. StackBorrows'
    BY <1>12, <1>b, <2>1, ReturnBorrows DEF TakeItem, At, Deliver
  <2> QED BY <2>1, <2>2, BorrowsStep
<1>13. CASE TakeAndWake
  <2>1. SameReceivers /\ drained' = drained
    BY <1>13 DEF TakeAndWake, chanVars, wakerVars, taskVars, histVars, SameReceivers
  <2>2. StackBorrows'
    <3>1. depth > 0
      BY <1>13 DEF TakeAndWake, At
    <3>2. top \in RawFrames /\ FrameBorrows(top)
      BY <1>b, <3>1, TopBorrows
    <3>4. FrameBorrows(Waking(top, send_wakers))
      BY <3>2, WakingBorrows
    <3> QED BY <1>13, <1>b, <2>1, <3>1, <3>4, GotoBorrows DEF TakeAndWake
  <2> QED BY <2>1, <2>2, BorrowsStep
<1>14. CASE TakeNothing
  <2>1. SameReceivers /\ drained' = drained
    BY <1>14 DEF TakeNothing, chanVars, wakerVars, taskVars, histVars, SameReceivers
  <2>2. StackBorrows'
    <3>1. depth > 0
      BY <1>14 DEF TakeNothing, At
    <3>2. top \in RawFrames /\ FrameBorrows(top)
      BY <1>b, <3>1, TopBorrows
    <3>3. FrameBorrows([top EXCEPT !.at = "empty"])
      BY <1>14, <3>2, SameCall DEF TakeNothing, RawFrames
    <3> QED BY <1>14, <1>b, <2>1, <3>1, <3>3, GotoBorrows DEF TakeNothing
  <2> QED BY <2>1, <2>2, BorrowsStep
<1>15. CASE TryRecvEmpty
  <2>1. SameReceivers /\ drained' = drained
    BY <1>15 DEF TryRecvEmpty, chanVars, wakerVars, taskVars, histVars, SameReceivers
  <2>2. StackBorrows'
    BY <1>15, <1>b, <2>1, ReturnBorrows DEF TryRecvEmpty, At
  <2> QED BY <2>1, <2>2, BorrowsStep
<1>16. CASE PollDisconnected
  <2>1. SameReceivers /\ drained' = drained
    BY <1>16, FinishedSame DEF TypeOK, PollDisconnected, chanVars, wakerVars, taskVars, histVars
  <2>2. StackBorrows'
    BY <1>16, <1>b, <2>1, ReturnBorrows DEF PollDisconnected, At
  <2> QED BY <2>1, <2>2, BorrowsStep
<1>17. CASE PollRegister
  <2>1. SameReceivers /\ drained' = drained
    BY <1>17 DEF PollRegister, chanVars, wakerVars, taskVars, histVars, SameReceivers
  <2>2. StackBorrows'
    <3>1. depth > 0
      BY <1>17 DEF PollRegister, At
    <3>2. top \in RawFrames /\ FrameBorrows(top)
      BY <1>b, <3>1, TopBorrows
    <3>3. FrameBorrows([top EXCEPT !.at = "clone_recv"])
      BY <1>17, <3>2, SameCall DEF PollRegister, RawFrames
    <3> QED BY <1>17, <1>b, <2>1, <3>1, <3>3, GotoBorrows DEF PollRegister
  <2> QED BY <2>1, <2>2, BorrowsStep
<1>18. CASE RecheckDisconnected
  <2>1. SameReceivers /\ drained' = drained
    BY <1>18, FinishedSame DEF TypeOK, RecheckDisconnected, chanVars, SameReceivers
  <2>2. StackBorrows'
    BY <1>18, <1>b, <2>1, ReturnBorrows DEF RecheckDisconnected, At
  <2> QED BY <2>1, <2>2, BorrowsStep
<1>19. CASE RecvPending
  <2>1. SameReceivers /\ drained' = drained
    BY <1>19 DEF RecvPending, chanVars, wakerVars, taskVars, histVars, SameReceivers
  <2>2. StackBorrows'
    BY <1>19, <1>b, <2>1, ReturnBorrows DEF RecvPending, At
  <2> QED BY <2>1, <2>2, BorrowsStep
<1>20. CASE DrainRedelivered
  <2>1. SameReceivers
    BY <1>20 DEF DrainRedelivered, Discard, taskVars, SameReceivers
  <2>2. depth > 0 /\ top.at = "drain"
    BY <1>20 DEF DrainRedelivered, At
  <2>3. top \in RawFrames /\ FrameBorrows(top)
    BY <1>b, <2>2, TopBorrows
  <2>4. rxLive' = {}
    BY <2>1, <2>2, <2>3, TopType DEF TypeOK, Frames, Shape, FrameBorrows, SameReceivers
  <2>5. FrameBorrows([top EXCEPT !.at = "payload"])
    BY <2>3, SameCall DEF RawFrames
  <2>6. StackBorrows'
    BY <1>20, <1>b, <2>1, <2>2, <2>5, GotoBorrows DEF DrainRedelivered, Discard
  <2> QED BY <2>1, <2>4, <2>6, FutureSame DEF Borrows, FutureBorrows, StackBorrows
<1>21. CASE DrainItem
  <2>1. SameReceivers
    BY <1>21 DEF DrainItem, Discard, taskVars, SameReceivers
  <2>2. depth > 0 /\ top.at = "drain"
    BY <1>21 DEF DrainItem, At
  <2>3. top \in RawFrames /\ FrameBorrows(top)
    BY <1>b, <2>2, TopBorrows
  <2>4. rxLive' = {}
    BY <2>1, <2>2, <2>3, TopType DEF TypeOK, Frames, Shape, FrameBorrows, SameReceivers
  <2>5. FrameBorrows([top EXCEPT !.at = "payload"])
    BY <2>3, SameCall DEF RawFrames
  <2>6. StackBorrows'
    BY <1>21, <1>b, <2>1, <2>2, <2>5, GotoBorrows DEF DrainItem, Discard
  <2> QED BY <2>1, <2>4, <2>6, FutureSame DEF Borrows, FutureBorrows, StackBorrows
<1>22. CASE DrainDone
  <2>1. SameReceivers /\ drained' = drained
    BY <1>22 DEF DrainDone, chanVars, wakerVars, taskVars, histVars, SameReceivers
  <2>2. StackBorrows'
    BY <1>22, <1>b, <2>1, ReturnBorrows DEF DrainDone, At
  <2> QED BY <2>1, <2>2, BorrowsStep
<1> QED BY <1>1, <1>2, <1>3, <1>4, <1>5, <1>6, <1>7, <1>8, <1>9, <1>10, <1>11, <1>12, <1>13, <1>14, <1>15, <1>16, <1>17, <1>18, <1>19, <1>20, <1>21, <1>22 DEF LibrarySteps

\* So does a call whose callback has come back, by a return or a panic.
LEMMA CallbackBorrows ==
  ASSUME TypeOK, Borrows, NEW p \in Panics, CallbackSteps(p)
  PROVE  Borrows'
<1> USE MpmcAssumption, ReentryAssumption
<1>b. StackBorrows
  BY DEF Borrows, StackBorrows
<1>d. depth > 0
  BY DEF CallbackSteps, WakeNext, WakeAborts, AfterDropOldSend, AfterCloneSend, AfterDropCommit,
         AfterDropOldRecv, AfterCloneRecv, AfterDropUnstored, AfterDropDone,
         AfterPayload, WakeAborted, At
<1>t. top \in RawFrames /\ FrameBorrows(top)
  BY <1>b, <1>d, TopBorrows
<1>1. CASE WakeNext(p)
  <2>1. SameReceivers /\ drained' = drained
    BY <1>1 DEF WakeNext, chanVars, wakerVars, taskVars, histVars, SameReceivers
  <2>2. PICK r \in top.todo :
          Goto([top EXCEPT !.todo = @ \ {r},
                           !.at = IF top.todo = {r} THEN "woke" ELSE "wake",
                           !.panicked = @ \/ p])
    BY <1>1 DEF WakeNext
  <2> DEFINE f == [top EXCEPT !.todo = @ \ {r},
                              !.at = IF top.todo = {r} THEN "woke" ELSE "wake",
                              !.panicked = @ \/ p]
  <2>a. f.op = top.op /\ f.who = top.who
    BY <1>t DEF RawFrames
  <2>3. FrameBorrows(f)
    <3> HIDE DEF f
    <3> QED BY <1>t, <2>a, SameCall
  <2>4. StackBorrows'
    BY <1>b, <1>d, <2>1, <2>2, <2>3, GotoBorrows
  <2> QED BY <2>1, <2>4, BorrowsStep
<1>0. CASE WakeAborts(p)
  <2>1. SameReceivers /\ drained' = drained
    BY <1>0 DEF WakeAborts, chanVars, taskVars, histVars, SameReceivers
  <2>2. StackBorrows'
    BY <1>0, <1>b, <1>d, <2>1, SameBorrows DEF WakeAborts, WakeAborted, Abort
  <2> QED BY <2>1, <2>2, BorrowsStep
<1>2. CASE AfterDropOldSend(p)
  <2>1. SameReceivers /\ drained' = drained
    BY <1>2 DEF AfterDropOldSend, chanVars, wakerVars, taskVars, histVars, SameReceivers
  <2>2. FrameBorrows([top EXCEPT !.at = "clone_send"])
    BY <1>t, SameCall DEF RawFrames
  <2>3. Return \/ Goto([top EXCEPT !.at = "clone_send"])
    BY <1>2 DEF AfterDropOldSend
  <2>4. StackBorrows'
    BY <1>b, <1>d, <2>1, <2>2, <2>3, GotoBorrows, ReturnBorrows
  <2> QED BY <2>1, <2>4, BorrowsStep
<1>3. CASE AfterCloneSend(p)
  <2>1. SameReceivers /\ drained' = drained
    BY <1>3 DEF AfterCloneSend, chanVars, wakerVars, taskVars, histVars, SameReceivers
  <2>2. FrameBorrows([top EXCEPT !.at = "recheck"])
    BY <1>t, SameCall DEF RawFrames
  <2>3. Return \/ Goto([top EXCEPT !.at = "recheck"])
    BY <1>3 DEF AfterCloneSend, StoreSend
  <2>4. StackBorrows'
    BY <1>b, <1>d, <2>1, <2>2, <2>3, GotoBorrows, ReturnBorrows
  <2> QED BY <2>1, <2>4, BorrowsStep
<1>4. CASE AfterDropCommit(p)
  <2>1. SameReceivers /\ drained' = drained
    BY <1>4 DEF AfterDropCommit, chanVars, wakerVars, taskVars, histVars, SameReceivers
  <2>2. StackBorrows'
    BY <1>4, <1>b, <1>d, <2>1, ReturnBorrows, SameBorrows DEF AfterDropCommit, SendReturns, Abort
  <2> QED BY <2>1, <2>2, BorrowsStep
<1>5. CASE AfterDropOldRecv(p)
  <2>1. SameReceivers /\ drained' = drained
    BY <1>5 DEF AfterDropOldRecv, chanVars, wakerVars, taskVars, histVars, SameReceivers
  <2>2. FrameBorrows([top EXCEPT !.at = "take"])
    BY <1>t, SameCall DEF RawFrames
  <2>3. Return \/ Goto([top EXCEPT !.at = "take"])
    BY <1>5 DEF AfterDropOldRecv
  <2>4. StackBorrows'
    BY <1>b, <1>d, <2>1, <2>2, <2>3, GotoBorrows, ReturnBorrows
  <2> QED BY <2>1, <2>4, BorrowsStep
<1>6. CASE AfterCloneRecv(p)
  <2>1. SameReceivers /\ drained' = drained
    BY <1>6 DEF AfterCloneRecv, chanVars, wakerVars, taskVars, histVars, SameReceivers
  <2>2. FrameBorrows([top EXCEPT !.at = "drop_unstored"])
    BY <1>t, SameCall DEF RawFrames
  <2>3. FrameBorrows([top EXCEPT !.op = "poll2", !.at = "take"])
    <3>1. top.op = "poll1"
      BY <1>6, TopType DEF AfterCloneRecv, At, TypeOK, Frames, Shape
    <3> DEFINE f == [top EXCEPT !.op = "poll2", !.at = "take"]
    <3>2. f.op = "poll2" /\ f.who = top.who
      BY <1>t DEF RawFrames
    <3>3. f.op \in TakeOps /\ top.op \in TakeOps
      BY <3>1, <3>2 DEF TakeOps
    <3>4. FrameBorrows(f)
      <4> HIDE DEF f
      <4> QED BY <1>t, <3>2, <3>3, SameCall, Zenon
    <3> QED BY <3>4
  <2>4. \/ Return
        \/ Goto([top EXCEPT !.at = "drop_unstored"])
        \/ Goto([top EXCEPT !.op = "poll2", !.at = "take"])
    BY <1>6 DEF AfterCloneRecv, StoreRecv
  <2>5. StackBorrows'
    BY <1>b, <1>d, <2>1, <2>2, <2>3, <2>4, GotoBorrows, ReturnBorrows
  <2> QED BY <2>1, <2>5, BorrowsStep
<1>7. CASE AfterDropUnstored(p)
  <2>1. SameReceivers /\ drained' = drained
    BY <1>7 DEF AfterDropUnstored, chanVars, wakerVars, taskVars, histVars, SameReceivers
  <2>2. FrameBorrows([top EXCEPT !.op = "poll2", !.at = "take"])
    <3>1. top.op = "poll1"
      BY <1>7, TopType DEF AfterDropUnstored, At, TypeOK, Frames, Shape
    <3> DEFINE f == [top EXCEPT !.op = "poll2", !.at = "take"]
    <3>2. f.op = "poll2" /\ f.who = top.who
      BY <1>t DEF RawFrames
    <3>3. f.op \in TakeOps /\ top.op \in TakeOps
      BY <3>1, <3>2 DEF TakeOps
    <3>4. FrameBorrows(f)
      <4> HIDE DEF f
      <4> QED BY <1>t, <3>2, <3>3, SameCall, Zenon
    <3> QED BY <3>4
  <2>3. Return \/ Goto([top EXCEPT !.op = "poll2", !.at = "take"])
    BY <1>7 DEF AfterDropUnstored
  <2>4. StackBorrows'
    BY <1>b, <1>d, <2>1, <2>2, <2>3, GotoBorrows, ReturnBorrows
  <2> QED BY <2>1, <2>4, BorrowsStep
<1>8. CASE AfterDropDone(p)
  <2>1. SameReceivers /\ drained' = drained
    BY <1>8 DEF AfterDropDone, chanVars, wakerVars, taskVars, histVars, SameReceivers
  <2>2. StackBorrows'
    BY <1>8, <1>b, <1>d, <2>1, ReturnBorrows DEF AfterDropDone
  <2> QED BY <2>1, <2>2, BorrowsStep
<1>9. CASE AfterPayload(p)
  <2>1. SameReceivers /\ drained' = drained
    BY <1>9 DEF AfterPayload, chanVars, wakerVars, taskVars, histVars, SameReceivers
  <2> DEFINE f == [top EXCEPT !.at = "drain", !.panicked = @ \/ p]
  <2>a. f.op = top.op /\ f.who = top.who
    BY <1>t DEF RawFrames
  <2>2. FrameBorrows(f)
    <3> HIDE DEF f
    <3> QED BY <1>t, <2>a, SameCall
  <2>3. Return \/ Abort \/ Goto([top EXCEPT !.at = "drain", !.panicked = @ \/ p])
    BY <1>9 DEF AfterPayload
  <2>4. StackBorrows'
    BY <1>b, <1>d, <2>1, <2>2, <2>3, GotoBorrows, ReturnBorrows, SameBorrows DEF Abort
  <2> QED BY <2>1, <2>4, BorrowsStep
<1> QED BY <1>0, <1>1, <1>2, <1>3, <1>4, <1>5, <1>6, <1>7, <1>8, <1>9 DEF CallbackSteps

\* A Recv begins on a live Receiver, and one that is dropped was on no stack.
LEMMA RecvSideBorrows ==
  ASSUME TypeOK, Borrows, NEW s \in RecvFuts,
         PollRecv(s) \/ PollDone(s) \/ DropRecv(s) \/ \E r \in Receivers : NewRecv(s, r)
  PROVE  Borrows'
<1> USE MpmcAssumption, ReentryAssumption
<1>b. FutureBorrows /\ StackBorrows /\ DrainBorrows
  BY DEF Borrows, FutureBorrows, StackBorrows, DrainBorrows
<1>s. s \in Owners /\ s \notin Receivers
  BY DEF Owners
<1>1. CASE PollRecv(s)
  <2>1. SameReceivers /\ drained' = drained
    BY <1>1 DEF PollRecv, PollingRecv, chanVars, histVars, SameReceivers
  <2> DEFINE f == Frame("poll1", IF Reg(s) \in recv_wakers THEN "drop_old_recv" ELSE "take", s)
  <2>2. f.op = "poll1" /\ f.who = s
    BY DEF Frame
  <2>3. rfut[s].rx \in rxLive
    BY <1>1, <1>b DEF PollRecv, FutureBorrows
  <2>4. FrameBorrows(f)
    BY <1>s, <2>2, <2>3 DEF FrameBorrows, Keeps
  <2>5. StackBorrows'
    BY <1>1, <1>b, <2>1, <2>4, CallBorrows DEF PollRecv, PollingRecv, MayCall, UserCode
  <2> QED BY <2>1, <2>5, BorrowsStep
<1>2. CASE PollDone(s)
  <2>1. SameReceivers /\ drained' = drained
    BY <1>2 DEF PollDone, chanVars, histVars, SameReceivers
  <2>2. FrameBorrows(Frame("recv_done", "drop_done", s))
    BY <1>s, PlainFrame DEF Ops, TakeOps, Labels, CallbackPoints
  <2>3. StackBorrows'
    BY <1>2, <1>b, <2>1, <2>2, CallBorrows DEF PollDone, MayCall, UserCode
  <2> QED BY <2>1, <2>3, BorrowsStep
<1>3. CASE DropRecv(s)
  <2>1. rxLive' = rxLive /\ drained' = drained /\ Live' = Live /\ frames' = frames
    BY <1>3 DEF DropRecv, chanVars, histVars, stackVars, Live
  <2>2. \A t \in RecvFuts : IF t = s THEN rfut'[t].rx = None ELSE rfut'[t] = rfut[t]
    BY <1>3 DEF DropRecv, TypeOK, TaskType
  <2>3. FutureBorrows'
    BY <1>b, <2>1, <2>2 DEF FutureBorrows
  <2>4. ASSUME NEW d \in Live PROVE FrameBorrows(frames[d])'
    <3>1. frames[d].who /= s /\ FrameBorrows(frames[d])
      BY <1>3, <1>b, <2>4 DEF DropRecv, Busy, StackBorrows
    <3> QED BY <2>1, <2>2, <3>1 DEF FrameBorrows, Keeps
  <2> QED BY <1>b, <2>1, <2>3, <2>4 DEF Borrows, FutureBorrows, DrainBorrows
<1>4. CASE \E r \in Receivers : NewRecv(s, r)
  <2>1. PICK r \in Receivers : NewRecv(s, r)
    BY <1>4
  <2>2. rxLive' = rxLive /\ drained' = drained /\ Live' = Live /\ frames' = frames
    BY <2>1 DEF NewRecv, chanVars, histVars, stackVars, Live
  <2>3. \A t \in RecvFuts : IF t = s THEN rfut'[t].rx = r ELSE rfut'[t] = rfut[t]
    BY <2>1 DEF NewRecv, TypeOK, TaskType
  <2>4. r \in rxLive
    BY <2>1 DEF NewRecv, Shared
  <2>5. FutureBorrows'
    BY <1>b, <2>2, <2>3, <2>4 DEF FutureBorrows
  <2>6. ASSUME NEW d \in Live PROVE FrameBorrows(frames[d])'
    <3>1. FrameBorrows(frames[d])
      BY <1>b, <2>6 DEF StackBorrows
    <3> QED BY <2>2, <2>3, <2>4, <3>1 DEF FrameBorrows, Keeps
  <2> QED BY <1>b, <2>2, <2>5, <2>6 DEF Borrows, FutureBorrows, DrainBorrows
<1> QED BY <1>1, <1>2, <1>3, <1>4

\* A Receiver is dropped only when nothing borrows it, and only a live one can
\* be cloned, so the last drop is final.
LEMMA ReceiverSideBorrows ==
  ASSUME TypeOK, Borrows, NEW r \in Receivers,
         TryRecv(r) \/ PollNext(r) \/ CloneReceiver(r) \/ ReceiverClose(r)
           \/ DropReceiver(r) \/ DropLastReceiver(r)
  PROVE  Borrows'
<1> USE MpmcAssumption, ReentryAssumption
<1>b. FutureBorrows /\ StackBorrows /\ DrainBorrows
  BY DEF Borrows, FutureBorrows, StackBorrows, DrainBorrows
<1>r. r \in Owners /\ r \notin RecvFuts
  BY DEF Owners
<1>1. CASE TryRecv(r)
  <2>1. SameReceivers /\ drained' = drained
    BY <1>1 DEF TryRecv, chanVars, taskVars, histVars, SameReceivers
  <2>2. FrameBorrows(Frame("try_recv", "take", r))
    BY <1>1, <1>r DEF TryRecv, Shared, Frame, FrameBorrows, Keeps
  <2>3. StackBorrows'
    BY <1>1, <1>b, <2>1, <2>2, CallBorrows DEF TryRecv, MayCall, UserCode
  <2> QED BY <2>1, <2>3, BorrowsStep
<1>2. CASE PollNext(r)
  <2>1. SameReceivers /\ drained' = drained
    BY <1>2 DEF PollNext, PollingRecv, chanVars, histVars, SameReceivers
  <2> DEFINE f == Frame("poll1", IF Reg(r) \in recv_wakers THEN "drop_old_recv" ELSE "take", r)
  <2>2. f.op = "poll1" /\ f.who = r
    BY DEF Frame
  <2>3. FrameBorrows(f)
    BY <1>2, <1>r, <2>2 DEF PollNext, FrameBorrows, Keeps
  <2>4. StackBorrows'
    BY <1>2, <1>b, <2>1, <2>3, CallBorrows DEF PollNext, PollingRecv, MayCall, UserCode
  <2> QED BY <2>1, <2>4, BorrowsStep
<1>3. CASE CloneReceiver(r)
  <2>1. rxLive' = rxLive \cup {r} /\ UNCHANGED <<rfut, drained, depth, frames>>
    BY <1>3 DEF CloneReceiver, taskVars, histVars, stackVars
  <2>2. rxLive /= {}
    BY <1>3 DEF CloneReceiver, Shared
  <2>3. FutureBorrows' /\ DrainBorrows'
    BY <1>b, <2>1, <2>2 DEF FutureBorrows, DrainBorrows
  <2>4. StackBorrows'
    BY <1>b, <2>1, <2>2 DEF StackBorrows, Live, FrameBorrows, Keeps
  <2> QED BY <2>3, <2>4 DEF Borrows, FutureBorrows, StackBorrows, DrainBorrows
<1>4. CASE ReceiverClose(r)
  <2>1. SameReceivers /\ drained' = drained
    BY <1>4 DEF ReceiverClose, ClosingVia, taskVars, histVars, SameReceivers
  <2>2. FrameBorrows(Waking(Frame("close", "woke", r), recv_wakers))
    BY <1>r, PlainFrame, WakingBorrows DEF Ops, TakeOps, Labels
  <2>3. StackBorrows'
    BY <1>4, <1>b, <2>1, <2>2, CallBorrows DEF ReceiverClose, ClosingVia, MayCall, UserCode
  <2> QED BY <2>1, <2>3, BorrowsStep
<1>5. CASE DropReceiver(r)
  <2>1. rxLive' = rxLive \ {r} /\ UNCHANGED <<rfut, drained, depth, frames>>
    BY <1>5 DEF DropReceiver, histVars, stackVars
  <2>2. (\A s \in RecvFuts : rfut[s].rx /= r) /\ \A d \in Live : frames[d].who /= r
    BY <1>5 DEF DropReceiver, Borrowed, Busy
  <2>3. FutureBorrows' /\ DrainBorrows'
    BY <1>b, <2>1, <2>2 DEF FutureBorrows, DrainBorrows
  <2>4. StackBorrows'
    BY <1>b, <2>1, <2>2 DEF StackBorrows, Live, FrameBorrows, Keeps
  <2> QED BY <2>3, <2>4 DEF Borrows, FutureBorrows, StackBorrows, DrainBorrows
<1>6. CASE DropLastReceiver(r)
  <2>1. rxLive = {r} /\ rxLive' = {} /\ UNCHANGED <<rfut, drained>>
    BY <1>6 DEF DropLastReceiver, histVars
  <2>2. (\A s \in RecvFuts : rfut[s].rx /= r) /\ \A d \in Live : frames[d].who /= r
    BY <1>6 DEF DropLastReceiver, Borrowed, Busy
  <2>3. \A s \in RecvFuts : rfut[s].rx = None
    BY <1>b, <2>1, <2>2 DEF FutureBorrows
  <2>4. \A d \in Live : frames[d].op \notin TakeOps
    <3> SUFFICES ASSUME NEW d \in Live, frames[d].op \in TakeOps PROVE FALSE
      OBVIOUS
    <3>1. frames[d] \in Frames
      BY DEF TypeOK, StackType, Live
    <3>2. frames[d].who \in RecvFuts \cup Receivers
      BY <3>1 DEF Frames, Shape, TakeOps
    <3>3. Keeps(frames[d].who)
      BY <1>b DEF StackBorrows, FrameBorrows
    <3> QED BY <2>1, <2>2, <2>3, <3>2, <3>3 DEF Keeps
  <2> DEFINE g == [Frame("receiver_drop", "woke", r) EXCEPT !.id = waker_id[r]]
             f == Waking(g, send_wakers)
  <2>5. f.op = "receiver_drop"
    BY DEF Waking, Frame
  <2>6. depth \in Nat /\ depth < MaxDepth /\ frames \in [0..MaxDepth -> Frames] /\ Call(f)
    BY <1>6 DEF DropLastReceiver, MayCall, UserCode, TypeOK, StackType
  <2>7. ASSUME NEW d \in 1..depth' PROVE FrameBorrows(frames[d])'
    <3>1. frames'[d].op \notin TakeOps
      <4>1. CASE d = depth + 1
        BY <2>5, <2>6, <4>1 DEF Call, TakeOps
      <4>2. CASE d /= depth + 1
        BY <2>4, <2>6, <4>2 DEF Call, Live
      <4> QED BY <4>1, <4>2
    <3> QED BY <2>1, <3>1 DEF FrameBorrows
  <2> QED BY <2>1, <2>3, <2>7 DEF Borrows, Live
<1> QED BY <1>1, <1>2, <1>3, <1>4, <1>5, <1>6

\* A fresh channel has one Receiver and nothing borrows it.
LEMMA BorrowsInit == Init => Borrows
<1> SUFFICES ASSUME Init PROVE Borrows
  OBVIOUS
<1>1. depth = 0 /\ drained = <<>> /\ rfut = [s \in RecvFuts |-> [rx |-> None, done |-> FALSE]]
  BY Zenon DEF Init, StackInit
<1> QED BY <1>1 DEF Borrows, Live

LEMMA BorrowsNext == TypeOK /\ Borrows /\ [Next]_vars => Borrows'
<1> SUFFICES ASSUME TypeOK, Borrows, [Next]_vars PROVE Borrows'
  OBVIOUS
<1>1. CASE SendCalls \/ SenderCalls
  BY <1>1, SendSideBorrows
<1>2. CASE RecvCalls \/ ReceiverCalls
  BY <1>2, RecvSideBorrows, ReceiverSideBorrows DEF RecvCalls, ReceiverCalls
<1>3. CASE \E p \in Panics : CallbackSteps(p)
  BY <1>3, CallbackBorrows
<1>4. CASE LibrarySteps
  BY <1>4, LibraryBorrows
<1>5. CASE Over \/ UNCHANGED vars
  BY <1>5 DEF Over, vars, chanVars, taskVars, histVars, stackVars,
              Borrows, Live, FrameBorrows, Keeps
<1> QED BY <1>1, <1>2, <1>3, <1>4, <1>5 DEF Next

-----------------------------------------------------------------------------
(* Fifo: an item moves along queue, redelivery, delivered or drained, one   *)
(* place at a time and in order.                                            *)

messageVars == <<queue, redelivery, pushed, delivered, drained>>

\* Accepting an item appends it to both sides of the equation.
LEMMA AcceptFifo ==
  ASSUME TypeOK, Fifo, NEW i \in Items, Accept(i), UNCHANGED <<redelivery, delivered, drained>>
  PROVE  Fifo'
<1>1. /\ delivered \in Seq(Items) /\ drained \in Seq(Items)
      /\ redelivery \in Seq(Items) /\ queue \in Seq(Items)
  BY DEF TypeOK, ChanType, HistType
<1>2. Pushed(queue, i, queue') /\ Pushed(Chain(delivered, drained, redelivery, queue), i, pushed')
  BY DEF Accept, Fifo, Chain, Pushed
<1>3. pushed' = Chain(delivered, drained, redelivery, queue')
  BY <1>1, <1>2, PushAtEnd
<1> QED BY <1>3 DEF Fifo, Chain

\* A receive runs only while a Receiver lives, so nothing was drained before it.
LEMMA TakingBeforeDrain ==
  ASSUME TypeOK, Borrows, At("take")
  PROVE  drained = <<>>
<1>1. depth > 0 /\ top.at = "take" /\ StackBorrows
  BY DEF At, Borrows, StackBorrows
<1>2. FrameBorrows(top) /\ top \in Frames
  BY <1>1, TopBorrows, TopType DEF TypeOK
<1>3. top.op \in TakeOps /\ top.who \in RecvFuts \cup Receivers
  BY <1>1, <1>2 DEF Frames, Shape, TakeOps
<1>4. rxLive /= {}
  BY <1>2, <1>3 DEF FrameBorrows, Keeps
<1> QED BY <1>4 DEF Borrows

\* Receiving the item that a panicking or re-entrant waker left in redelivery.
LEMMA TakeRedeliveredFifo ==
  ASSUME TypeOK, Borrows, Fifo, TakeRedelivered
  PROVE  Fifo'
<1>1. drained = <<>>
  BY TakingBeforeDrain DEF TakeRedelivered
<1>2. redelivery = <<Head(redelivery)>> /\ Head(redelivery) \in Items
  BY FullSlot DEF TakeRedelivered, TypeOK, ChanType
<1>3. /\ redelivery' = <<>> /\ queue' = queue /\ pushed' = pushed /\ drained' = drained
      /\ delivered' = Append(delivered, Head(redelivery))
  BY DEF TakeRedelivered, Deliver
<1>4. Chain(delivered, <<>>, <<Head(redelivery)>>, queue)
        = Chain(Append(delivered, Head(redelivery)), <<>>, <<>>, queue)
  BY <1>2, DeliverSlot DEF TypeOK, ChanType, HistType
<1> QED BY <1>1, <1>2, <1>3, <1>4 DEF Fifo, Chain

\* Receiving straight from the queue: no sender was parked.
LEMMA TakeItemFifo ==
  ASSUME TypeOK, Borrows, Fifo, TakeItem
  PROVE  Fifo'
<1>1. drained = <<>> /\ redelivery = <<>>
  BY TakingBeforeDrain DEF TakeItem
<1>2. Head(queue) \in Items /\ Tail(queue) \in Seq(Items)
  BY HeadThenTail DEF TakeItem, TypeOK, ChanType
<1>3. /\ queue' = Tail(queue) /\ UNCHANGED <<redelivery, pushed, drained>>
      /\ delivered' = Append(delivered, Head(queue))
  BY DEF TakeItem, Deliver
<1>4. Chain(delivered, <<>>, <<>>, queue) = Chain(delivered, <<>>, <<Head(queue)>>, Tail(queue))
  <2>1. delivered \in Seq(Items) /\ queue \in Seq(Items) /\ <<>> \in Seq(Items) /\ queue /= <<>>
    BY DEF TakeItem, TypeOK, ChanType, HistType
  <2> QED BY <2>1, FillSlot
<1>5. Chain(delivered, <<>>, <<Head(queue)>>, Tail(queue))
        = Chain(Append(delivered, Head(queue)), <<>>, <<>>, Tail(queue))
  BY <1>2, DeliverSlot DEF TypeOK, HistType
<1> QED BY <1>1, <1>3, <1>4, <1>5 DEF Fifo, Chain

\* Receiving with senders parked: the item waits in redelivery.
LEMMA TakeAndWakeFifo ==
  ASSUME TypeOK, Fifo, TakeAndWake
  PROVE  Fifo'
<1>1. redelivery = <<>> /\ queue /= <<>> /\ queue' = Tail(queue)
      /\ redelivery' = <<Head(queue)>> /\ UNCHANGED <<pushed, delivered, drained>>
  BY DEF TakeAndWake, histVars
<1>2. Chain(delivered, drained, <<>>, queue)
        = Chain(delivered, drained, <<Head(queue)>>, Tail(queue))
  BY <1>1, FillSlot DEF TypeOK, ChanType, HistType
<1> QED BY <1>1, <1>2 DEF Fifo, Chain

\* The last Receiver drops the redelivered item first.
LEMMA DrainRedeliveredFifo ==
  ASSUME TypeOK, Fifo, DrainRedelivered
  PROVE  Fifo'
<1>1. redelivery = <<Head(redelivery)>> /\ Head(redelivery) \in Items
  BY FullSlot DEF DrainRedelivered, TypeOK, ChanType
<1>2. /\ redelivery' = <<>> /\ UNCHANGED <<queue, pushed, delivered>>
      /\ drained' = Append(drained, Head(redelivery))
  BY DEF DrainRedelivered, Discard
<1>3. Chain(delivered, drained, <<Head(redelivery)>>, queue)
        = Chain(delivered, Append(drained, Head(redelivery)), <<>>, queue)
  <2>1. delivered \in Seq(Items) /\ drained \in Seq(Items) /\ queue \in Seq(Items)
    BY DEF TypeOK, ChanType, HistType
  <2> QED BY <1>1, <2>1, DrainSlot
<1> QED BY <1>1, <1>2, <1>3 DEF Fifo, Chain

\* Then the queue, in order.
LEMMA DrainItemFifo ==
  ASSUME TypeOK, Fifo, DrainItem
  PROVE  Fifo'
<1>1. redelivery = <<>> /\ queue /= <<>>
  BY DEF DrainItem
<1>2. Head(queue) \in Items /\ Tail(queue) \in Seq(Items)
  BY <1>1, HeadThenTail DEF TypeOK, ChanType
<1>3. /\ queue' = Tail(queue) /\ UNCHANGED <<redelivery, pushed, delivered>>
      /\ drained' = Append(drained, Head(queue))
  BY DEF DrainItem, Discard
<1>4. Chain(delivered, drained, <<>>, queue)
        = Chain(delivered, drained, <<Head(queue)>>, Tail(queue))
  BY <1>1, FillSlot DEF TypeOK, ChanType, HistType
<1>5. Chain(delivered, drained, <<Head(queue)>>, Tail(queue))
        = Chain(delivered, Append(drained, Head(queue)), <<>>, Tail(queue))
  <2>1. delivered \in Seq(Items) /\ drained \in Seq(Items)
    BY DEF TypeOK, HistType
  <2> QED BY <1>2, <2>1, DrainSlot
<1> QED BY <1>1, <1>3, <1>4, <1>5 DEF Fifo, Chain

\* Every other step leaves the messages where they are.
LEMMA QuietFifo == ASSUME Fifo, UNCHANGED messageVars PROVE Fifo'
BY DEF Fifo, messageVars

LEMMA CallsFifo ==
  ASSUME TypeOK, Fifo, SendCalls \/ SenderCalls \/ RecvCalls \/ ReceiverCalls
  PROVE  Fifo'
<1>1. ASSUME NEW i \in Items, TrySend(i) PROVE Fifo'
  BY <1>1, AcceptFifo DEF TrySend
<1>2. ASSUME NEW i \in Items, NewSend(i) \/ PollSend(i) \/ ReplayOutcome(i) \/ DropSend(i)
      PROVE  Fifo'
  BY <1>2, QuietFifo DEF NewSend, PollSend, ReplayOutcome, DropSend, chanVars, histVars, messageVars
<1>3. CASE SenderCalls
  BY <1>3, QuietFifo DEF SenderCalls, CloneSender, DropSender, DropLastSender, SenderClose,
                         ClosingVia, histVars, messageVars
<1>4. CASE RecvCalls
  BY <1>4, QuietFifo DEF RecvCalls, PollRecv, PollingRecv, PollDone, DropRecv, NewRecv,
                         chanVars, histVars, messageVars
<1>5. CASE ReceiverCalls
  BY <1>5, QuietFifo DEF ReceiverCalls, TryRecv, PollNext, PollingRecv, CloneReceiver,
                         ReceiverClose, ClosingVia, DropReceiver, DropLastReceiver,
                         chanVars, histVars, messageVars
<1> QED BY <1>1, <1>2, <1>3, <1>4, <1>5 DEF SendCalls

LEMMA CallbackFifo ==
  ASSUME Fifo, NEW p \in Panics, CallbackSteps(p)
  PROVE  Fifo'
<1>1. UNCHANGED messageVars
  BY DEF CallbackSteps, WakeNext, WakeAborts, AfterDropOldSend, AfterCloneSend, AfterDropCommit,
         AfterDropOldRecv, AfterCloneRecv, AfterDropUnstored, AfterDropDone,
         AfterPayload, chanVars, histVars, messageVars
<1> QED BY <1>1, QuietFifo

LEMMA LibraryFifo ==
  ASSUME TypeOK, Borrows, Fifo, LibrarySteps
  PROVE  Fifo'
<1>1. CASE SendPush
  <2>1. top.who \in Items
    BY <1>1, TopType DEF SendPush, Looking, TypeOK, Frames, Shape
  <2> QED BY <1>1, <2>1, AcceptFifo DEF SendPush
<1>2. CASE TakeRedelivered \/ TakeItem \/ TakeAndWake
  BY <1>2, TakeRedeliveredFifo, TakeItemFifo, TakeAndWakeFifo
<1>3. CASE DrainRedelivered \/ DrainItem
  BY <1>3, DrainRedeliveredFifo, DrainItemFifo
<1>4. CASE WakesReturn \/ CloseSenders \/ WakesTake \/ WakesCommit \/ WakesDrain
  BY <1>4, QuietFifo DEF WakesReturn, CloseSenders, WakesTake, WakesCommit, WakesDrain,
                         chanVars, histVars, messageVars
<1>5. CASE SendClosed \/ SendFull \/ SendPending \/ Deregister
  BY <1>5, QuietFifo DEF SendClosed, SendFull, SendPending, Deregister,
                         chanVars, histVars, messageVars
<1>6. CASE TakeNothing \/ TryRecvEmpty \/ PollDisconnected \/ PollRegister
             \/ RecheckDisconnected \/ RecvPending \/ DrainDone
  BY <1>6, QuietFifo DEF TakeNothing, TryRecvEmpty, PollDisconnected, PollRegister,
                         RecheckDisconnected, RecvPending, DrainDone,
                         chanVars, histVars, messageVars
<1> QED BY <1>1, <1>2, <1>3, <1>4, <1>5, <1>6 DEF LibrarySteps

LEMMA FifoInit == Init => Fifo
<1> SUFFICES ASSUME Init PROVE Fifo
  OBVIOUS
<1>1. queue = <<>> /\ redelivery = <<>> /\ pushed = <<>> /\ delivered = <<>> /\ drained = <<>>
  BY Zenon DEF Init
<1>2. <<>> \in Seq(Items)
  OBVIOUS
<1>3. <<>> \o <<>> = <<>>
  BY <1>2, ConcatEmptySeq
<1> QED BY <1>1, <1>3 DEF Fifo

LEMMA FifoNext == TypeOK /\ Borrows /\ Fifo /\ [Next]_vars => Fifo'
<1> SUFFICES ASSUME TypeOK, Borrows, Fifo, [Next]_vars PROVE Fifo'
  OBVIOUS
<1>1. CASE SendCalls \/ SenderCalls \/ RecvCalls \/ ReceiverCalls
  BY <1>1, CallsFifo
<1>2. CASE \E p \in Panics : CallbackSteps(p)
  BY <1>2, CallbackFifo
<1>3. CASE LibrarySteps
  BY <1>3, LibraryFifo
<1>4. CASE Over \/ UNCHANGED vars
  BY <1>4, QuietFifo DEF Over, vars, chanVars, histVars, messageVars
<1> QED BY <1>1, <1>2, <1>3, <1>4 DEF Next

\* A receive on the stack always has a live Receiver, and the last Receiver's
\* drop is never joined by a new one.
THEOREM BorrowsHold == Spec => []Borrows
BY TypeInit, TypeNext, BorrowsInit, BorrowsNext, PTL DEF Spec

\* Nothing is lost, duplicated or reordered, for any capacity, any number of
\* handles and futures, and callbacks that re-enter and panic at any depth.
THEOREM FifoCorrect == Spec => []Fifo
BY TypeInit, TypeNext, BorrowsInit, BorrowsNext, FifoInit, FifoNext, PTL DEF Spec

\* Nothing is accepted by a channel that is closed or has no Receiver: close is
\* checked again in the step that pushes.
THEOREM ClosedAcceptsNothing == Spec => SendsFailClosed
<1>1. [Next]_vars => [ClosedToSend => pushed' = pushed]_vars
  <2> SUFFICES ASSUME Next, ClosedToSend PROVE pushed' = pushed
    BY DEF vars, histVars
  <2>1. CASE SendCalls \/ SenderCalls \/ RecvCalls \/ ReceiverCalls
    BY <2>1 DEF SendCalls, TrySend, NewSend, PollSend, ReplayOutcome, DropSend,
                SenderCalls, CloneSender, DropSender, DropLastSender, SenderClose, ClosingVia,
                RecvCalls, PollRecv, PollingRecv, PollDone, DropRecv, NewRecv,
                ReceiverCalls, TryRecv, PollNext, CloneReceiver, ReceiverClose, DropReceiver,
                DropLastReceiver, histVars
  <2>2. CASE \E p \in Panics : CallbackSteps(p)
    BY <2>2 DEF CallbackSteps, WakeNext, WakeAborts, AfterDropOldSend, AfterCloneSend, AfterDropCommit,
                AfterDropOldRecv, AfterCloneRecv, AfterDropUnstored,
                AfterDropDone, AfterPayload, histVars
  <2>3. CASE LibrarySteps
    BY <2>3 DEF LibrarySteps, WakesReturn, CloseSenders, WakesTake, WakesCommit, WakesDrain,
                SendClosed, SendPush, MayPush, SendFull, SendPending, Deregister,
                TakeRedelivered, TakeItem, Deliver, TakeAndWake, TakeNothing, TryRecvEmpty,
                PollDisconnected, PollRegister, RecheckDisconnected, RecvPending,
                DrainRedelivered, DrainItem, Discard, DrainDone, histVars
  <2>4. CASE Over
    BY <2>4 DEF Over, vars, histVars
  <2> QED BY <2>1, <2>2, <2>3, <2>4 DEF Next
<1> QED BY <1>1, PTL DEF Spec, SendsFailClosed

=============================================================================
