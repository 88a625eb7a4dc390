----------------------------- MODULE MpmcProofs -----------------------------
(***************************************************************************)
(* Proofs about Mpmc for every number of items, futures, handles, ids,     *)
(* nested calls and every capacity.                                        *)
(***************************************************************************)
EXTENDS Mpmc, ChannelFacts

-----------------------------------------------------------------------------
(* The stack: what Call, Goto and Return do to its type. *)

\* A frame starts with nothing to wake, no panic and no guard.
LEMMA FrameType ==
  ASSUME NEW op \in Ops, NEW at \in Labels, NEW who \in Owners \cup {None},
         Shape([op |-> op, at |-> at, who |-> who])
  PROVE  Frame(op, at, who) \in Frames
BY DEF Frame, Frames, RawFrames, Shape

\* The frame at the top of the stack is one.
LEMMA TopType ==
  ASSUME StackType
  PROVE  top \in Frames
BY DEF StackType, top

LEMMA CallType ==
  ASSUME StackType, depth < MaxDepth, NEW f \in Frames, Call(f)
  PROVE  StackType'
BY ReentryAssumption DEF StackType, Call

LEMMA GotoType ==
  ASSUME StackType, NEW f \in Frames, Goto(f)
  PROVE  StackType'
BY DEF StackType, Goto

LEMMA ReturnType ==
  ASSUME StackType, depth > 0, Return
  PROVE  StackType'
<1>1. Idle \in Frames
  BY DEF Idle, Frame, Frames, RawFrames, Shape, Ops, TakeOps, Labels
<1> QED BY <1>1, ReentryAssumption DEF StackType, Return

LEMMA WakingType ==
  ASSUME NEW f \in Frames, NEW list \in SUBSET Regs
  PROVE  Waking(f, list) \in Frames
<1> DEFINE g == Waking(f, list)
<1>1. g \in RawFrames
  BY DEF Waking, Frames, RawFrames, Labels, CallbackPoints
<1>2. g.op = f.op /\ g.who = f.who /\ g.at \in {"wake", "woke"}
  BY DEF Waking, Frames, RawFrames
<1>3. Shape(g)
  BY <1>2 DEF Frames, Shape
<1> QED BY <1>1, <1>3 DEF Frames

\* Recv::poll records that a receive is done.
LEMMA FinishedType ==
  ASSUME TaskType, NEW o, Finished(o)
  PROVE  rfut' \in [RecvFuts -> [rx : Receivers \cup {None}, done : BOOLEAN]]
BY DEF TaskType, Finished

-----------------------------------------------------------------------------
(* Type correctness, action by action. *)

\* A call on a Sender keeps every variable's type.
LEMMA SenderCallsType ==
  ASSUME TypeOK, SenderCalls
  PROVE  TypeOK'
<1> USE MpmcAssumption, ReentryAssumption
<1> USE DEF TypeOK, ChanType, WakerType, TaskType, HistType, Regs
<1>1. CASE CloneSender
  <2>1. StackType'
    BY <1>1 DEF CloneSender, StackType, stackVars
  <2>2. ChanType' /\ WakerType'
    BY <1>1 DEF CloneSender, wakerVars, taskVars, histVars
  <2>3. TaskType' /\ HistType'
    BY <1>1 DEF CloneSender, wakerVars, taskVars, histVars
  <2> QED BY <2>1, <2>2, <2>3
<1>2. CASE DropSender
  <2>1. StackType'
    BY <1>2 DEF DropSender, StackType, stackVars
  <2>2. ChanType' /\ WakerType'
    BY <1>2 DEF DropSender, wakerVars, taskVars, histVars
  <2>3. TaskType' /\ HistType'
    BY <1>2 DEF DropSender, wakerVars, taskVars, histVars
  <2> QED BY <2>1, <2>2, <2>3
<1>3. CASE DropLastSender
  <2>a. Frame("sender_drop", "woke", None) \in Frames
    BY FrameType DEF Shape, Ops, TakeOps, Labels, CallbackPoints
  <2>b. Waking(Frame("sender_drop", "woke", None), recv_wakers) \in Frames
    BY <2>a, WakingType
  <2>1. StackType'
    BY <1>3, <2>b, CallType DEF DropLastSender, MayCall, UserCode
  <2>2. ChanType' /\ WakerType'
    BY <1>3 DEF DropLastSender, taskVars, histVars
  <2>3. TaskType' /\ HistType'
    BY <1>3 DEF DropLastSender, taskVars, histVars
  <2> QED BY <2>1, <2>2, <2>3
<1>4. CASE SenderClose
  <2>a. Frame("close", "woke", None) \in Frames
    BY FrameType DEF Shape, Ops, TakeOps, Labels, CallbackPoints
  <2>b. Waking(Frame("close", "woke", None), recv_wakers) \in Frames
    BY <2>a, WakingType
  <2>1. StackType'
    BY <1>4, <2>b, CallType DEF SenderClose, ClosingVia, MayCall, UserCode
  <2>2. ChanType' /\ WakerType'
    BY <1>4 DEF SenderClose, ClosingVia, taskVars, histVars
  <2>3. TaskType' /\ HistType'
    BY <1>4 DEF SenderClose, ClosingVia, taskVars, histVars
  <2> QED BY <2>1, <2>2, <2>3
<1> QED BY <1>1, <1>2, <1>3, <1>4 DEF SenderCalls

\* A call on a Send future, or try_send, keeps every variable's type.
LEMMA SendCallsType ==
  ASSUME TypeOK, NEW i \in Items,
         TrySend(i) \/ NewSend(i) \/ PollSend(i) \/ ReplayOutcome(i) \/ DropSend(i)
  PROVE  TypeOK'
<1> USE MpmcAssumption, ReentryAssumption
<1> USE DEF TypeOK, ChanType, WakerType, TaskType, HistType, Regs
<1>o. i \in Owners
  BY DEF Owners
<1>1. CASE TrySend(i)
  <2>a. Frame("try_send", "woke", i) \in Frames
    BY <1>o, FrameType DEF Shape, Ops, TakeOps, Labels, CallbackPoints
  <2>b. Waking(Frame("try_send", "woke", i), recv_wakers) \in Frames
    BY <2>a, WakingType
  <2>1. StackType'
    BY <1>1, <2>b, CallType DEF TrySend, MayCall, UserCode
  <2>2. ChanType' /\ WakerType'
    BY <1>1, <1>o DEF TrySend, Accept, IsFull, SendStates
  <2>3. TaskType' /\ HistType'
    BY <1>1, <1>o DEF TrySend, Accept, IsFull, SendStates
  <2> QED BY <2>1, <2>2, <2>3
<1>2. CASE NewSend(i)
  <2>1. StackType'
    BY <1>2 DEF NewSend, StackType, stackVars
  <2>2. ChanType' /\ WakerType'
    BY <1>2, <1>o DEF NewSend, SendStates, chanVars, wakerVars, histVars, stackVars
  <2>3. TaskType' /\ HistType'
    BY <1>2, <1>o DEF NewSend, SendStates, chanVars, wakerVars, histVars, stackVars
  <2> QED BY <2>1, <2>2, <2>3
<1>3. CASE PollSend(i)
  <2>a. Frame("send", "first", i) \in Frames
    BY <1>o, FrameType DEF Shape, Ops, TakeOps, Labels, CallbackPoints
  <2>1. StackType'
    BY <1>3, <2>a, CallType DEF PollSend, MayCall, UserCode
  <2>2. ChanType' /\ WakerType'
    BY <1>3, <1>o DEF PollSend, chanVars, wakerVars, histVars
  <2>3. TaskType' /\ HistType'
    BY <1>3, <1>o DEF PollSend, chanVars, wakerVars, histVars
  <2> QED BY <2>1, <2>2, <2>3
<1>4. CASE ReplayOutcome(i)
  <2>1. StackType'
    BY <1>4 DEF ReplayOutcome, StackType, stackVars
  <2>2. ChanType' /\ WakerType'
    BY <1>4, <1>o DEF ReplayOutcome, Reported, SendStates, chanVars, wakerVars, histVars, stackVars
  <2>3. TaskType' /\ HistType'
    BY <1>4, <1>o DEF ReplayOutcome, Reported, SendStates, chanVars, wakerVars, histVars, stackVars
  <2> QED BY <2>1, <2>2, <2>3
<1>5. CASE DropSend(i)
  <2>1. StackType'
    BY <1>5 DEF DropSend, StackType, stackVars
  <2>2. ChanType' /\ WakerType'
    BY <1>5, <1>o DEF DropSend, SendStates, Owners, chanVars, histVars, stackVars
  <2>3. TaskType' /\ HistType'
    BY <1>5, <1>o DEF DropSend, SendStates, Owners, chanVars, histVars, stackVars
  <2> QED BY <2>1, <2>2, <2>3
<1> QED BY <1>1, <1>2, <1>3, <1>4, <1>5

\* A call on a Recv future keeps every variable's type.
LEMMA RecvCallsType ==
  ASSUME TypeOK, NEW s \in RecvFuts,
         PollRecv(s) \/ PollDone(s) \/ DropRecv(s) \/ \E r \in Receivers : NewRecv(s, r)
  PROVE  TypeOK'
<1> USE MpmcAssumption, ReentryAssumption
<1> USE DEF TypeOK, ChanType, WakerType, TaskType, HistType, Regs
<1>o. s \in Owners
  BY DEF Owners
<1>1. CASE PollRecv(s)
  <2>a. Frame("poll1", IF Reg(s) \in recv_wakers THEN "drop_old_recv" ELSE "take", s) \in Frames
    BY <1>o, FrameType DEF Shape, Ops, TakeOps, Labels, CallbackPoints
  <2>1. StackType'
    BY <1>1, <2>a, CallType DEF PollRecv, PollingRecv, MayCall, UserCode
  <2>2. ChanType' /\ WakerType'
    BY <1>1, <1>o DEF PollRecv, PollingRecv, Owners, chanVars, histVars
  <2>3. TaskType' /\ HistType'
    BY <1>1, <1>o DEF PollRecv, PollingRecv, Owners, chanVars, histVars
  <2> QED BY <2>1, <2>2, <2>3
<1>2. CASE PollDone(s)
  <2>a. Frame("recv_done", "drop_done", s) \in Frames
    BY <1>o, FrameType DEF Shape, Ops, TakeOps, Labels, CallbackPoints
  <2>1. StackType'
    BY <1>2, <2>a, CallType DEF PollDone, MayCall, UserCode
  <2>2. ChanType' /\ WakerType'
    BY <1>2, <1>o DEF PollDone, Owners, chanVars, histVars
  <2>3. TaskType' /\ HistType'
    BY <1>2, <1>o DEF PollDone, Owners, chanVars, histVars
  <2> QED BY <2>1, <2>2, <2>3
<1>3. CASE DropRecv(s)
  <2>1. StackType'
    BY <1>3 DEF DropRecv, StackType, stackVars
  <2>2. ChanType' /\ WakerType'
    BY <1>3, <1>o DEF DropRecv, Owners, chanVars, histVars, stackVars
  <2>3. TaskType' /\ HistType'
    BY <1>3, <1>o DEF DropRecv, Owners, chanVars, histVars, stackVars
  <2> QED BY <2>1, <2>2, <2>3
<1>4. CASE \E r \in Receivers : NewRecv(s, r)
  <2>1. StackType'
    BY <1>4 DEF NewRecv, StackType, stackVars
  <2>2. ChanType' /\ WakerType'
    BY <1>4, <1>o DEF NewRecv, chanVars, wakerVars, histVars, stackVars
  <2>3. TaskType' /\ HistType'
    BY <1>4, <1>o DEF NewRecv, chanVars, wakerVars, histVars, stackVars
  <2> QED BY <2>1, <2>2, <2>3
<1> QED BY <1>1, <1>2, <1>3, <1>4

\* A call on a Receiver keeps every variable's type.
LEMMA ReceiverCallsType ==
  ASSUME TypeOK, NEW r \in Receivers,
         TryRecv(r) \/ PollNext(r) \/ CloneReceiver(r) \/ ReceiverClose(r)
           \/ DropReceiver(r) \/ DropLastReceiver(r)
  PROVE  TypeOK'
<1> USE MpmcAssumption, ReentryAssumption
<1> USE DEF TypeOK, ChanType, WakerType, TaskType, HistType, Regs
<1>o. r \in Owners
  BY DEF Owners
<1>1. CASE TryRecv(r)
  <2>a. Frame("try_recv", "take", r) \in Frames
    BY <1>o, FrameType DEF Shape, Ops, TakeOps, Labels, CallbackPoints
  <2>1. StackType'
    BY <1>1, <2>a, CallType DEF TryRecv, MayCall, UserCode
  <2>2. ChanType' /\ WakerType'
    BY <1>1, <1>o DEF TryRecv, chanVars, wakerVars, taskVars, histVars
  <2>3. TaskType' /\ HistType'
    BY <1>1, <1>o DEF TryRecv, chanVars, wakerVars, taskVars, histVars
  <2> QED BY <2>1, <2>2, <2>3
<1>2. CASE PollNext(r)
  <2>a. Frame("poll1", IF Reg(r) \in recv_wakers THEN "drop_old_recv" ELSE "take", r) \in Frames
    BY <1>o, FrameType DEF Shape, Ops, TakeOps, Labels, CallbackPoints
  <2>1. StackType'
    BY <1>2, <2>a, CallType DEF PollNext, PollingRecv, MayCall, UserCode
  <2>2. ChanType' /\ WakerType'
    BY <1>2, <1>o DEF PollNext, PollingRecv, Owners, chanVars, histVars
  <2>3. TaskType' /\ HistType'
    BY <1>2, <1>o DEF PollNext, PollingRecv, Owners, chanVars, histVars
  <2> QED BY <2>1, <2>2, <2>3
<1>3. CASE CloneReceiver(r)
  <2>1. StackType'
    BY <1>3 DEF CloneReceiver, StackType, stackVars
  <2>2. ChanType' /\ WakerType'
    BY <1>3, <1>o DEF CloneReceiver, wakerVars, taskVars, histVars, stackVars
  <2>3. TaskType' /\ HistType'
    BY <1>3, <1>o DEF CloneReceiver, wakerVars, taskVars, histVars, stackVars
  <2> QED BY <2>1, <2>2, <2>3
<1>4. CASE ReceiverClose(r)
  <2>a. Frame("close", "woke", r) \in Frames
    BY <1>o, FrameType DEF Shape, Ops, TakeOps, Labels, CallbackPoints
  <2>b. Waking(Frame("close", "woke", r), recv_wakers) \in Frames
    BY <2>a, WakingType
  <2>1. StackType'
    BY <1>4, <2>b, CallType DEF ReceiverClose, ClosingVia, MayCall, UserCode
  <2>2. ChanType' /\ WakerType'
    BY <1>4, <1>o DEF ReceiverClose, ClosingVia, taskVars, histVars
  <2>3. TaskType' /\ HistType'
    BY <1>4, <1>o DEF ReceiverClose, ClosingVia, taskVars, histVars
  <2> QED BY <2>1, <2>2, <2>3
<1>5. CASE DropReceiver(r)
  <2>1. StackType'
    BY <1>5 DEF DropReceiver, StackType, stackVars
  <2>2. ChanType' /\ WakerType'
    BY <1>5, <1>o DEF DropReceiver, Owners, histVars, stackVars
  <2>3. TaskType' /\ HistType'
    BY <1>5, <1>o DEF DropReceiver, Owners, histVars, stackVars
  <2> QED BY <2>1, <2>2, <2>3
<1>6. CASE DropLastReceiver(r)
  <2> DEFINE f == [Frame("receiver_drop", "woke", r) EXCEPT !.id = waker_id[r]]
  <2>a0. Frame("receiver_drop", "woke", r) \in Frames
    BY <1>o, FrameType DEF Shape, Ops, TakeOps, Labels
  <2>a. f \in Frames
    BY <1>o, <2>a0 DEF Frames, RawFrames, Shape
  <2>b. Waking(f, send_wakers) \in Frames
    BY <2>a, WakingType
  <2>1. StackType'
    BY <1>6, <2>b, CallType DEF DropLastReceiver, MayCall, UserCode
  <2>2. ChanType' /\ WakerType'
    BY <1>6, <1>o DEF DropLastReceiver, Owners, histVars
  <2>3. TaskType' /\ HistType'
    BY <1>6, <1>o DEF DropLastReceiver, Owners, histVars
  <2> QED BY <2>1, <2>2, <2>3
<1> QED BY <1>1, <1>2, <1>3, <1>4, <1>5, <1>6

\* A send that is about to register is at a point of its own code.
LEMMA SendFrame ==
  ASSUME NEW f \in Frames, f.op = "send", NEW l \in {"drop_old_send", "clone_send"}
  PROVE  [f EXCEPT !.at = l] \in Frames
<1> DEFINE g == [f EXCEPT !.at = l]
<1>1. f \in RawFrames /\ f.who \in Items
  BY DEF Frames, Shape
<1>2. g \in RawFrames
  BY <1>1 DEF RawFrames, Labels, CallbackPoints
<1>3. g.op = "send" /\ g.at = l /\ g.who = f.who
  BY <1>1 DEF RawFrames
<1>4. Shape(g)
  <2> HIDE DEF g
  <2> QED BY <1>1, <1>3 DEF Shape, TakeOps
<1> QED BY <1>2, <1>4 DEF Frames

\* A poll that goes on to its recheck is at a point of the recheck's code.
LEMMA RecheckFrame ==
  ASSUME NEW f \in Frames, f.who \in RecvFuts \cup Receivers
  PROVE  [f EXCEPT !.op = "poll2", !.at = "take"] \in Frames
<1> DEFINE g == [f EXCEPT !.op = "poll2", !.at = "take"]
<1>1. f \in RawFrames
  BY DEF Frames
<1>2. g \in RawFrames
  BY <1>1 DEF RawFrames, Labels, Ops, TakeOps
<1>3. g.op = "poll2" /\ g.at = "take" /\ g.who = f.who
  BY <1>1 DEF RawFrames
<1>4. Shape(g)
  <2> HIDE DEF g
  <2> QED BY <1>3 DEF Shape, TakeOps
<1> QED BY <1>2, <1>4 DEF Frames

\* A step of library code keeps every variable's type.
LEMMA LibraryType ==
  ASSUME TypeOK, LibrarySteps
  PROVE  TypeOK'
<1> USE MpmcAssumption, ReentryAssumption
<1> USE DEF TypeOK, ChanType, WakerType, TaskType, HistType, Regs
<1>t. top \in Frames BY TopType
<1>1. CASE WakesReturn
  <2>1. StackType'
    BY <1>1, ReturnType DEF WakesReturn, At
  <2>2. ChanType' /\ WakerType'
    BY <1>1, <1>t DEF WakesReturn, chanVars, wakerVars, taskVars, histVars
  <2>3. TaskType' /\ HistType'
    BY <1>1, <1>t DEF WakesReturn, chanVars, wakerVars, taskVars, histVars
  <2> QED BY <2>1, <2>2, <2>3
<1>2. CASE CloseSenders
  <2> DEFINE f == [top EXCEPT !.op = "close2"]
  <2>a. f \in Frames
    BY <1>2, <1>t DEF CloseSenders, At, Frames, RawFrames, Shape, Ops
  <2>b. Waking(f, send_wakers) \in Frames
    BY <2>a, WakingType
  <2>1. StackType'
    BY <1>2, <2>b, GotoType DEF CloseSenders
  <2>2. ChanType' /\ WakerType'
    BY <1>2, <1>t DEF CloseSenders, chanVars, taskVars, histVars
  <2>3. TaskType' /\ HistType'
    BY <1>2, <1>t DEF CloseSenders, chanVars, taskVars, histVars
  <2> QED BY <2>1, <2>2, <2>3
<1>3. CASE WakesTake
  <2>a. [top EXCEPT !.at = TakeAgain] \in Frames
    BY <1>3, <1>t DEF WakesTake, TakeAgain, At, Running, Frames, RawFrames, Shape, TakeOps, Labels, CallbackPoints
  <2>1. StackType'
    BY <1>3, <2>a, GotoType, ReturnType DEF WakesTake, TakeAgain, At
  <2>2. ChanType' /\ WakerType'
    BY <1>3, <1>t DEF WakesTake, chanVars, wakerVars, taskVars, histVars
  <2>3. TaskType' /\ HistType'
    BY <1>3, <1>t DEF WakesTake, chanVars, wakerVars, taskVars, histVars
  <2> QED BY <2>1, <2>2, <2>3
<1>4. CASE WakesCommit
  <2>a. [top EXCEPT !.at = "deregister"] \in Frames
    BY <1>4, <1>t DEF WakesCommit, At, Running, Frames, RawFrames, Shape, TakeOps, Labels, CallbackPoints
  <2>1. StackType'
    BY <1>4, <2>a, GotoType DEF WakesCommit
  <2>2. ChanType' /\ WakerType'
    BY <1>4, <1>t DEF WakesCommit, chanVars, wakerVars, taskVars, histVars
  <2>3. TaskType' /\ HistType'
    BY <1>4, <1>t DEF WakesCommit, chanVars, wakerVars, taskVars, histVars
  <2> QED BY <2>1, <2>2, <2>3
<1>5. CASE WakesDrain
  <2>a. [top EXCEPT !.at = "drain"] \in Frames
    BY <1>5, <1>t DEF WakesDrain, At, Running, Frames, RawFrames, Shape, TakeOps, Labels, CallbackPoints
  <2>1. StackType'
    BY <1>5, <2>a, GotoType DEF WakesDrain
  <2>2. ChanType' /\ WakerType'
    BY <1>5, <1>t DEF WakesDrain, chanVars, wakerVars, taskVars, histVars
  <2>3. TaskType' /\ HistType'
    BY <1>5, <1>t DEF WakesDrain, chanVars, wakerVars, taskVars, histVars
  <2> QED BY <2>1, <2>2, <2>3
<1>6. CASE SendClosed
  <2>w. top.op = "send" /\ top.who \in Items /\ top.who \in Owners
    BY <1>6, <1>t DEF SendClosed, Looking, Frames, RawFrames, Shape, Owners
  <2> DEFINE f == [top EXCEPT !.at = "deregister", !.id = waker_id[top.who]]
  <2>a. f \in Frames
    BY <1>6, <1>t, <2>w DEF Frames, RawFrames, Shape, Labels
  <2>1. StackType'
    BY <1>6, <2>a, GotoType DEF SendClosed
  <2>2. ChanType' /\ WakerType'
    BY <1>6, <1>t DEF SendClosed, Committing, SendStates, chanVars, histVars
  <2>3. TaskType' /\ HistType'
    BY <1>6, <1>t DEF SendClosed, Committing, SendStates, chanVars, histVars
  <2> QED BY <2>1, <2>2, <2>3
<1>7. CASE SendPush
  <2>w. top.op = "send" /\ top.who \in Items /\ top.who \in Owners
    BY <1>7, <1>t DEF SendPush, Looking, Frames, RawFrames, Shape, Owners
  <2> DEFINE f == [top EXCEPT !.id = waker_id[top.who]]
  <2>a. f \in Frames
    BY <1>7, <1>t, <2>w DEF Frames, RawFrames, Shape
  <2>b. Waking(f, recv_wakers) \in Frames
    BY <2>a, WakingType
  <2>1. StackType'
    BY <1>7, <2>b, GotoType DEF SendPush
  <2>2. ChanType' /\ WakerType'
    BY <1>7, <2>w DEF SendPush, Accept, Committing, MayPush, IsFull, SendStates
  <2>3. TaskType' /\ HistType'
    BY <1>7, <2>w DEF SendPush, Accept, Committing, MayPush, IsFull, SendStates
  <2> QED BY <2>1, <2>2, <2>3
<1>8. CASE SendFull
  <2>a. [top EXCEPT !.at = IF Reg(top.who) \in send_wakers THEN "drop_old_send" ELSE "clone_send"] \in Frames
    <3>1. top.op = "send"
      BY <1>8, <1>t DEF SendFull, At, Frames, Shape
    <3> QED BY <1>t, <3>1, SendFrame
  <2>1. StackType'
    BY <1>8, <2>a, GotoType DEF SendFull
  <2>2. ChanType' /\ WakerType'
    BY <1>8, <1>t DEF SendFull, chanVars, taskVars, histVars
  <2>3. TaskType' /\ HistType'
    BY <1>8, <1>t DEF SendFull, chanVars, taskVars, histVars
  <2> QED BY <2>1, <2>2, <2>3
<1>9. CASE SendPending
  <2>w. top.op = "send" /\ top.who \in Items /\ top.who \in Owners
    BY <1>9, <1>t DEF SendPending, At, Frames, RawFrames, Shape, TakeOps, Owners
  <2>1. StackType'
    BY <1>9, ReturnType DEF SendPending, At
  <2>2. ChanType' /\ WakerType'
    BY <1>9, <1>t, <2>w DEF SendPending, chanVars, wakerVars, histVars
  <2>3. TaskType' /\ HistType'
    BY <1>9, <1>t, <2>w DEF SendPending, chanVars, wakerVars, histVars
  <2> QED BY <2>1, <2>2, <2>3
<1>10. CASE Deregister
  <2>1. StackType'
    <3>1. CASE <<top.who, top.id>> \in send_wakers
      <4>1. [top EXCEPT !.at = "drop_commit", !.id = None] \in Frames
        BY <1>10, <1>t DEF Deregister, At, Frames, RawFrames, Shape, Labels, CallbackPoints
      <4> QED BY <1>10, <3>1, <4>1, GotoType DEF Deregister
    <3>2. CASE <<top.who, top.id>> \notin send_wakers
      BY <1>10, <3>2, ReturnType DEF Deregister, SendReturns, At
    <3> QED BY <3>1, <3>2
  <2>2. ChanType' /\ WakerType'
    BY <1>10, <1>t DEF Deregister, SendReturns, Reported, SendStates, chanVars, histVars
  <2>3. TaskType' /\ HistType'
    BY <1>10, <1>t DEF Deregister, SendReturns, Reported, SendStates, chanVars, histVars
  <2> QED BY <2>1, <2>2, <2>3
<1>11. CASE TakeRedelivered
  <2>1. StackType'
    BY <1>11, ReturnType DEF TakeRedelivered, Deliver, At
  <2>2. ChanType' /\ WakerType'
    BY <1>11, <1>t DEF TakeRedelivered, Deliver, wakerVars
  <2>3. TaskType' /\ HistType'
    BY <1>11, <1>t, FinishedType DEF TakeRedelivered, Deliver, wakerVars
  <2> QED BY <2>1, <2>2, <2>3
<1>12. CASE TakeItem
  <2>1. StackType'
    BY <1>12, ReturnType DEF TakeItem, Deliver, At
  <2>2. ChanType' /\ WakerType'
    BY <1>12, <1>t DEF TakeItem, Deliver, wakerVars
  <2>3. TaskType' /\ HistType'
    BY <1>12, <1>t, FinishedType DEF TakeItem, Deliver, wakerVars
  <2> QED BY <2>1, <2>2, <2>3
<1>13. CASE TakeAndWake
  <2>b. Waking(top, send_wakers) \in Frames
    BY <1>t, WakingType
  <2>1. StackType'
    BY <1>13, <2>b, GotoType DEF TakeAndWake
  <2>2. ChanType' /\ WakerType'
    BY <1>13, <1>t DEF TakeAndWake, taskVars, histVars
  <2>3. TaskType' /\ HistType'
    BY <1>13, <1>t DEF TakeAndWake, taskVars, histVars
  <2> QED BY <2>1, <2>2, <2>3
<1>14. CASE TakeNothing
  <2>a. [top EXCEPT !.at = "empty"] \in Frames
    BY <1>14, <1>t DEF TakeNothing, At, Running, Frames, RawFrames, Shape, TakeOps, Labels, CallbackPoints
  <2>1. StackType'
    BY <1>14, <2>a, GotoType DEF TakeNothing
  <2>2. ChanType' /\ WakerType'
    BY <1>14, <1>t DEF TakeNothing, chanVars, wakerVars, taskVars, histVars
  <2>3. TaskType' /\ HistType'
    BY <1>14, <1>t DEF TakeNothing, chanVars, wakerVars, taskVars, histVars
  <2> QED BY <2>1, <2>2, <2>3
<1>15. CASE TryRecvEmpty
  <2>1. StackType'
    BY <1>15, ReturnType DEF TryRecvEmpty, At
  <2>2. ChanType' /\ WakerType'
    BY <1>15, <1>t DEF TryRecvEmpty, Disconnected, chanVars, wakerVars, taskVars
  <2>3. TaskType' /\ HistType'
    BY <1>15, <1>t DEF TryRecvEmpty, Disconnected, chanVars, wakerVars, taskVars
  <2> QED BY <2>1, <2>2, <2>3
<1>16. CASE PollDisconnected
  <2>1. StackType'
    BY <1>16, ReturnType DEF PollDisconnected, At
  <2>2. ChanType' /\ WakerType'
    BY <1>16, <1>t DEF PollDisconnected, chanVars, wakerVars
  <2>3. TaskType' /\ HistType'
    BY <1>16, <1>t, FinishedType DEF PollDisconnected, chanVars, wakerVars
  <2> QED BY <2>1, <2>2, <2>3
<1>17. CASE PollRegister
  <2>a. [top EXCEPT !.at = "clone_recv"] \in Frames
    BY <1>17, <1>t DEF PollRegister, At, Running, Frames, RawFrames, Shape, TakeOps, Labels, CallbackPoints
  <2>1. StackType'
    BY <1>17, <2>a, GotoType DEF PollRegister
  <2>2. ChanType' /\ WakerType'
    BY <1>17, <1>t DEF PollRegister, chanVars, wakerVars, taskVars, histVars
  <2>3. TaskType' /\ HistType'
    BY <1>17, <1>t DEF PollRegister, chanVars, wakerVars, taskVars, histVars
  <2> QED BY <2>1, <2>2, <2>3
<1>18. CASE RecheckDisconnected
  <2>1. StackType'
    BY <1>18, ReturnType DEF RecheckDisconnected, At
  <2>2. ChanType' /\ WakerType'
    BY <1>18, <1>t DEF RecheckDisconnected, chanVars
  <2>3. TaskType' /\ HistType'
    BY <1>18, <1>t, FinishedType DEF RecheckDisconnected, chanVars
  <2> QED BY <2>1, <2>2, <2>3
<1>19. CASE RecvPending
  <2>w. top.who \in RecvFuts \cup Receivers /\ top.who \in Owners
    BY <1>19, <1>t DEF RecvPending, Running, At, Frames, RawFrames, Shape, TakeOps, Owners
  <2>1. StackType'
    BY <1>19, ReturnType DEF RecvPending, At
  <2>2. ChanType' /\ WakerType'
    BY <1>19, <1>t, <2>w DEF RecvPending, chanVars, wakerVars, histVars
  <2>3. TaskType' /\ HistType'
    BY <1>19, <1>t, <2>w DEF RecvPending, chanVars, wakerVars, histVars
  <2> QED BY <2>1, <2>2, <2>3
<1>20. CASE DrainRedelivered
  <2>a. [top EXCEPT !.at = "payload"] \in Frames
    BY <1>20, <1>t DEF DrainRedelivered, At, Frames, RawFrames, Shape, Labels, CallbackPoints
  <2>1. StackType'
    BY <1>20, <2>a, GotoType DEF DrainRedelivered, Discard
  <2>2. ChanType' /\ WakerType'
    BY <1>20 DEF DrainRedelivered, Discard, wakerVars
  <2>3. TaskType' /\ HistType'
    BY <1>20 DEF DrainRedelivered, Discard, taskVars
  <2> QED BY <2>1, <2>2, <2>3
<1>22. CASE DrainItem
  <2>a. [top EXCEPT !.at = "payload"] \in Frames
    BY <1>22, <1>t DEF DrainItem, At, Frames, RawFrames, Shape, Labels, CallbackPoints
  <2>1. StackType'
    BY <1>22, <2>a, GotoType DEF DrainItem, Discard
  <2>b. ChanType'
    <3>1. Len(Tail(queue)) = Len(queue) - 1 /\ Tail(queue) \in Seq(Items) /\ Len(queue) \in Nat
      BY <1>22 DEF DrainItem
    <3> QED BY <1>22, <3>1 DEF DrainItem, Discard
  <2>c. WakerType'
    BY <1>22 DEF DrainItem, Discard, wakerVars
  <2>2. ChanType' /\ WakerType'
    BY <2>b, <2>c
  <2>3. TaskType' /\ HistType'
    BY <1>22 DEF DrainItem, Discard, taskVars
  <2> QED BY <2>1, <2>2, <2>3
<1>21. CASE DrainDone
  <2>1. StackType'
    BY <1>21, ReturnType DEF DrainDone, At
  <2>2. ChanType' /\ WakerType'
    BY <1>21, <1>t DEF DrainDone, chanVars, taskVars, histVars
  <2>3. TaskType' /\ HistType'
    BY <1>21, <1>t DEF DrainDone, chanVars, taskVars, histVars
  <2> QED BY <2>1, <2>2, <2>3
<1> QED BY <1>1, <1>2, <1>3, <1>4, <1>5, <1>6, <1>7, <1>8, <1>9, <1>10, <1>11, <1>12, <1>13, <1>14, <1>15, <1>16, <1>17, <1>18, <1>19, <1>20, <1>21, <1>22 DEF LibrarySteps

\* The end of a callback, with or without a panic, keeps every variable's type.
LEMMA CallbackType ==
  ASSUME TypeOK, NEW p \in Panics, CallbackSteps(p)
  PROVE  TypeOK'
<1> USE MpmcAssumption, ReentryAssumption
<1> USE DEF TypeOK, ChanType, WakerType, TaskType, HistType, Regs
<1>t. top \in Frames BY TopType
<1>1. CASE WakeNext(p)
  <2>0. PICK w \in top.todo :
          /\ Goto([top EXCEPT !.todo = @ \ {w},
                              !.at = IF top.todo = {w} THEN "woke" ELSE "wake",
                              !.panicked = @ \/ p])
          /\ woken' = IF w = Reg(w[1]) THEN woken \cup {w[1]} ELSE woken
    BY <1>1 DEF WakeNext
  <2> DEFINE f == [top EXCEPT !.todo = @ \ {w},
                              !.at = IF top.todo = {w} THEN "woke" ELSE "wake",
                              !.panicked = @ \/ p]
  <2>p. (top.panicked \/ p) \in BOOLEAN
    OBVIOUS
  <2>r. f \in RawFrames
    <3>1. top \in RawFrames /\ top.todo \ {w} \subseteq Regs
      BY <1>t DEF Frames, RawFrames
    <3>2. (IF top.todo = {w} THEN "woke" ELSE "wake") \in Labels
      BY DEF Labels, CallbackPoints
    <3> QED BY <2>p, <3>1, <3>2 DEF RawFrames
  <2>s. f.op = top.op /\ f.who = top.who /\ f.at \in {"wake", "woke"}
    BY <1>t DEF Frames, RawFrames
  <2>a. f \in Frames
    BY <1>t, <2>r, <2>s DEF Frames, Shape
  <2>b. w[1] \in Owners
    BY <1>t DEF Frames, RawFrames
  <2>1. StackType'
    BY <2>0, <2>a, GotoType
  <2>2. ChanType' /\ WakerType'
    BY <1>1, <2>0, <2>b DEF WakeNext, chanVars, wakerVars, histVars
  <2>3. TaskType' /\ HistType'
    BY <1>1, <2>0, <2>b DEF WakeNext, chanVars, wakerVars, histVars
  <2> QED BY <2>1, <2>2, <2>3
<1>0. CASE WakeAborts(p)
  <2>1. StackType'
    BY <1>0 DEF WakeAborts, WakeAborted, Abort, StackType
  <2>2. ChanType' /\ WakerType'
    BY <1>0 DEF WakeAborts, chanVars, wakerVars
  <2>3. TaskType' /\ HistType'
    BY <1>0 DEF WakeAborts, taskVars, histVars
  <2> QED BY <2>1, <2>2, <2>3
<1>2. CASE AfterDropOldSend(p)
  <2>a. [top EXCEPT !.at = "clone_send"] \in Frames
    BY <1>2, <1>t DEF AfterDropOldSend, At, Running, Frames, RawFrames, Shape, TakeOps, Labels, CallbackPoints
  <2>1. StackType'
    BY <1>2, <2>a, GotoType, ReturnType DEF AfterDropOldSend, At
  <2>2. ChanType' /\ WakerType'
    BY <1>2, <1>t DEF AfterDropOldSend, chanVars, wakerVars, taskVars, histVars
  <2>3. TaskType' /\ HistType'
    BY <1>2, <1>t DEF AfterDropOldSend, chanVars, wakerVars, taskVars, histVars
  <2> QED BY <2>1, <2>2, <2>3
<1>3. CASE AfterCloneSend(p)
  <2>w. top.op = "send" /\ top.who \in Items /\ top.who \in Owners
    BY <1>3, <1>t DEF AfterCloneSend, At, Frames, RawFrames, Shape, TakeOps, Owners
  <2>a. [top EXCEPT !.at = "recheck"] \in Frames
    BY <1>3, <1>t, <2>w DEF AfterCloneSend, At, Running, Frames, RawFrames, Shape, TakeOps, Labels, CallbackPoints
  <2>1. StackType'
    BY <1>3, <2>a, GotoType, ReturnType DEF AfterCloneSend, StoreSend, At
  <2>2. ChanType' /\ WakerType'
    <3>1. CASE p
      BY <1>3, <3>1 DEF AfterCloneSend, chanVars
    <3>2. CASE ~p
      <4>1. PICK k \in WakerIds : StoreSend(top.who, k)
        BY <1>3, <3>2 DEF AfterCloneSend
      <4> QED BY <1>3, <2>w, <4>1 DEF AfterCloneSend, StoreSend, chanVars
    <3> QED BY <3>1, <3>2
  <2>3. TaskType' /\ HistType'
    BY <1>3, <1>t, <2>w DEF AfterCloneSend, StoreSend, chanVars, taskVars, histVars
  <2> QED BY <2>1, <2>2, <2>3
<1>4. CASE AfterDropCommit(p)
  <2>1. StackType'
    BY <1>4, ReturnType DEF AfterDropCommit, SendReturns, Abort, StackType, At
  <2>2. ChanType' /\ WakerType'
    BY <1>4, <1>t DEF AfterDropCommit, SendReturns, Reported, SendStates, chanVars, wakerVars, histVars
  <2>3. TaskType' /\ HistType'
    BY <1>4, <1>t DEF AfterDropCommit, SendReturns, Reported, SendStates, chanVars, wakerVars, histVars
  <2> QED BY <2>1, <2>2, <2>3
<1>5. CASE AfterDropOldRecv(p)
  <2>a. [top EXCEPT !.at = "take"] \in Frames
    BY <1>5, <1>t DEF AfterDropOldRecv, At, Running, Frames, RawFrames, Shape, TakeOps, Labels, CallbackPoints
  <2>1. StackType'
    BY <1>5, <2>a, GotoType, ReturnType DEF AfterDropOldRecv, At
  <2>2. ChanType' /\ WakerType'
    BY <1>5, <1>t DEF AfterDropOldRecv, chanVars, wakerVars, taskVars, histVars
  <2>3. TaskType' /\ HistType'
    BY <1>5, <1>t DEF AfterDropOldRecv, chanVars, wakerVars, taskVars, histVars
  <2> QED BY <2>1, <2>2, <2>3
<1>6. CASE AfterCloneRecv(p)
  <2>w. top.who \in RecvFuts \cup Receivers /\ top.who \in Owners
    BY <1>6, <1>t DEF AfterCloneRecv, At, Frames, RawFrames, Shape, TakeOps, Owners
  <2>a. [top EXCEPT !.op = "poll2", !.at = "take"] \in Frames
    BY <1>t, <2>w, RecheckFrame
  <2>b. [top EXCEPT !.at = "drop_unstored"] \in Frames
    BY <1>6, <1>t, <2>w DEF AfterCloneRecv, At, Frames, RawFrames, Shape, Labels, CallbackPoints
  <2>1. StackType'
    BY <1>6, <2>a, <2>b, ReturnType, GotoType DEF AfterCloneRecv, StoreRecv, At
  <2>2. ChanType' /\ WakerType'
    <3>1. CASE p \/ Terminal
      BY <1>6, <3>1 DEF AfterCloneRecv, chanVars
    <3>2. CASE ~p /\ ~Terminal
      <4>1. PICK k \in WakerIds : StoreRecv(top.who, k)
        BY <1>6, <3>2 DEF AfterCloneRecv
      <4> QED BY <1>6, <2>w, <4>1 DEF AfterCloneRecv, StoreRecv, chanVars
    <3> QED BY <3>1, <3>2
  <2>3. TaskType' /\ HistType'
    BY <1>6, <1>t, <2>w DEF AfterCloneRecv, StoreRecv, chanVars, taskVars, histVars
  <2> QED BY <2>1, <2>2, <2>3
<1>7. CASE AfterDropUnstored(p)
  <2>w. top.who \in RecvFuts \cup Receivers /\ top.who \in Owners
    BY <1>7, <1>t DEF AfterDropUnstored, At, Frames, RawFrames, Shape, TakeOps, Owners
  <2>a. [top EXCEPT !.op = "poll2", !.at = "take"] \in Frames
    BY <1>t, <2>w, RecheckFrame
  <2>1. StackType'
    BY <1>7, <2>a, ReturnType, GotoType DEF AfterDropUnstored, At
  <2>2. ChanType' /\ WakerType'
    BY <1>7, <1>t, <2>w DEF AfterDropUnstored, chanVars, taskVars, histVars
  <2>3. TaskType' /\ HistType'
    BY <1>7, <1>t, <2>w DEF AfterDropUnstored, chanVars, taskVars, histVars
  <2> QED BY <2>1, <2>2, <2>3
<1>8. CASE AfterDropDone(p)
  <2>w. top.who \in RecvFuts \cup Receivers /\ top.who \in Owners
    BY <1>8, <1>t DEF AfterDropDone, At, Frames, RawFrames, Shape, TakeOps, Owners
  <2>1. StackType'
    BY <1>8, ReturnType DEF AfterDropDone, At
  <2>2. ChanType' /\ WakerType'
    BY <1>8, <1>t, <2>w DEF AfterDropDone, SelfWake, chanVars, wakerVars, histVars
  <2>3. TaskType' /\ HistType'
    BY <1>8, <1>t, <2>w DEF AfterDropDone, SelfWake, chanVars, wakerVars, histVars
  <2> QED BY <2>1, <2>2, <2>3
<1>9. CASE AfterPayload(p)
  <2>p. (top.panicked \/ p) \in BOOLEAN
    OBVIOUS
  <2>a. [top EXCEPT !.at = "drain", !.panicked = @ \/ p] \in Frames
    <3> DEFINE f == [top EXCEPT !.at = "drain", !.panicked = @ \/ p]
    <3>1. top \in RawFrames /\ Shape(top) /\ top.op = "receiver_drop"
      BY <1>9, <1>t DEF AfterPayload, At, Frames, Shape
    <3>2. f \in RawFrames
      BY <3>1, <2>p DEF RawFrames, Labels
    <3>3. f.op = top.op /\ f.who = top.who /\ f.at = "drain"
      BY <3>1 DEF RawFrames
    <3>4. Shape(f)
      <4> HIDE DEF f
      <4> QED BY <3>1, <3>3 DEF Shape
    <3> QED BY <3>2, <3>4 DEF Frames
  <2>1. StackType'
    BY <1>9, <2>a, GotoType DEF AfterPayload, Abort, StackType
  <2>2. ChanType' /\ WakerType'
    BY <1>9, <1>t DEF AfterPayload, chanVars, wakerVars, taskVars, histVars
  <2>3. TaskType' /\ HistType'
    BY <1>9, <1>t DEF AfterPayload, chanVars, wakerVars, taskVars, histVars
  <2> QED BY <2>1, <2>2, <2>3
<1> QED BY <1>0, <1>1, <1>2, <1>3, <1>4, <1>5, <1>6, <1>7, <1>8, <1>9 DEF CallbackSteps

\* A fresh channel has its types.
LEMMA TypeInit == Init => TypeOK
<1> SUFFICES ASSUME Init PROVE TypeOK
  OBVIOUS
<1>1. Idle \in Frames
  BY DEF Idle, Frame, Frames, RawFrames, Shape, Ops, TakeOps, Labels
<1>2. StackType
  <2>1. StackInit
    BY DEF Init
  <2>2. aborted \in BOOLEAN
    BY <2>1, Zenon DEF StackInit
  <2>3. depth = 0 /\ frames = [d \in 0..MaxDepth |-> Idle]
    BY <2>1, Zenon DEF StackInit
  <2> QED BY <1>1, <2>2, <2>3, ReentryAssumption DEF StackType
<1>3. ChanType
  <2>1. queue = <<>> /\ redelivery = <<>> /\ senders = 1 /\ closed \in BOOLEAN
    BY Zenon DEF Init
  <2>2. rxLive \subseteq Receivers
    BY DEF Init
  <2> QED BY <2>1, <2>2, MpmcAssumption DEF ChanType
<1>4. WakerType
  <2>1. recv_wakers = {} /\ send_wakers = {} /\ waker_id = [o \in Owners |-> None]
    BY DEF Init
  <2> QED BY <2>1 DEF WakerType
<1>5. TaskType
  <2>1. sfut = [i \in Items |-> "new"] /\ parked = {} /\ woken = {}
    BY DEF Init
  <2>2. rfut = [s \in RecvFuts |-> [rx |-> None, done |-> FALSE]]
    BY DEF Init
  <2>3. [rx |-> None, done |-> FALSE] \in [rx : Receivers \cup {None}, done : BOOLEAN]
    OBVIOUS
  <2> QED BY <2>1, <2>2, <2>3 DEF TaskType, SendStates
<1>6. HistType
  <2>1. pushed = <<>> /\ delivered = <<>> /\ drained = <<>> /\ sawNone \in BOOLEAN
    BY Zenon DEF Init
  <2> QED BY <2>1 DEF HistType
<1> QED BY <1>2, <1>3, <1>4, <1>5, <1>6 DEF TypeOK

LEMMA TypeNext == TypeOK /\ [Next]_vars => TypeOK'
<1> SUFFICES ASSUME TypeOK, [Next]_vars PROVE TypeOK'
  OBVIOUS
<1>1. CASE SendCalls \/ RecvCalls \/ ReceiverCalls \/ SenderCalls
  BY <1>1, SendCallsType, RecvCallsType, ReceiverCallsType, SenderCallsType
    DEF SendCalls, RecvCalls, ReceiverCalls
<1>2. CASE \E p \in Panics : CallbackSteps(p)
  BY <1>2, CallbackType
<1>3. CASE LibrarySteps
  BY <1>3, LibraryType
<1>4. CASE Over \/ UNCHANGED vars
  BY <1>4 DEF Over, vars, chanVars, wakerVars, taskVars, histVars, stackVars,
              TypeOK, ChanType, WakerType, TaskType, HistType, StackType
<1> QED BY <1>1, <1>2, <1>3, <1>4 DEF Next

\* Whatever callbacks re-enter or panic: the queue stays within its capacity,
\* redelivery holds at most one item, every suspended call is at a point of
\* its own code and holds the future or handle that code borrows.
THEOREM TypeCorrect == Spec => []TypeOK
BY TypeInit, TypeNext, PTL DEF Spec

=============================================================================
