----------------------------- MODULE MpscProofs -----------------------------
(***************************************************************************)
(* Proofs about Mpsc, for every number of items, tasks, ids, handles and   *)
(* nested calls and every capacity: the types, the outcome of a send, the  *)
(* wakers, the end of the channel and the refinement of Channel.           *)
(***************************************************************************)
EXTENDS Mpsc, ChannelFacts

-----------------------------------------------------------------------------
(* The inductive invariant *)

\* TypeOK without the stack.
DataType ==
  /\ queue \in Seq(Items) /\ (Bounded => Len(queue) <= Cap)
  /\ inHand \in Seq(Items) /\ Len(inHand) <= 1
  /\ senders \in 0..MaxSenders /\ rxAlive \in BOOLEAN /\ closed \in BOOLEAN
  /\ recv_waker \in Tasks \cup {None} /\ send_wakers \subseteq Items \X WakerIds
  /\ waker_id \in [Items -> WakerIds \cup {None}]
  /\ sfut \in [Items -> SendStates] /\ rfut \in RecvStates
  /\ parked \subseteq Items \cup Tasks /\ woken \subseteq Items \cup Tasks
  /\ pushed \in Seq(Items) /\ delivered \in Seq(Items) /\ drained \in Seq(Items)
  /\ lost \subseteq Items /\ sawNone \in BOOLEAN /\ unplugged \in BOOLEAN

\* A call that is not the running one is in a callback.
Suspended == CallbackPoints \cup {"idle"}
Below == \A d \in Live : d /= depth => frames[d].at \in Suspended

\* Which call can be at a point, and what it holds. Only a call that is at its
\* wakes has wakes to do.
SendPoints == {"first", "recheck", "drop_old_send", "clone_send"}
Waiting == {"wake", "woke"}
Shape(f) ==
  /\ f.op = "send" => f.who \in Items /\ f.at \in SendPoints \cup Waiting \cup {"drop_commit"}
  /\ f.op \in {"poll1", "poll2"} => f.who \in Tasks
  /\ f.op = "try_recv" => f.who = None
  /\ f.at \in SendPoints \cup {"drop_commit"} => f.op = "send"
  /\ f.at \in {"take", "empty", "lost_item"} => f.op \in TakeOps
  /\ f.at \in {"clone_recv", "drop_replaced", "drop_unstored"} => f.op = "poll1"
  /\ f.at \in {"drain", "payload", "drop_cleared"} => f.op = "receiver_drop"
  /\ f.at /= "wake" => f.todo = {}
Shapes == \A d \in Live : Shape(frames[d])

\* Every receive holds the one Receiver mutably.
OneTake ==
  \A d, e \in Live : frames[d].op \in TakeOps /\ frames[e].op \in TakeOps => d = e
RxBorrows ==
  /\ \A d \in Live : frames[d].op \in TakeOps => rxAlive
  /\ \A d \in Live : frames[d].op = "receiver_drop" => ~rxAlive
  /\ rfut /= "none" => rxAlive
  /\ ~rxAlive => parked \cap Tasks = {}

\* An item is in hand exactly while a receive has its wakes to do.
HandOK ==
  inHand /= <<>> <=> \E d \in Live : frames[d].op \in TakeOps /\ frames[d].at \in Waiting

\* What the running call has just seen or done.
EmptySeen == depth > 0 /\ top.at = "empty" => queue = <<>>
Registered == depth > 0 /\ top.at = "recheck" => Reg(top.who) \in send_wakers

\* At most one poll of a Send is on the stack; it says whether the future still
\* holds its item.
SendOnce ==
  \A d, e \in Live :
    frames[d].op = "send" /\ frames[e].op = "send" /\ frames[d].who = frames[e].who => d = e
SendState(f) ==
  f.op = "send" =>
    /\ f.at \in SendPoints => sfut[f.who] = "pending"
    /\ f.at = "drop_commit" => sfut[f.who] \in {"okHeld", "errHeld"}
    /\ f.at \in Waiting => sfut[f.who] = "okHeld"
SendStack == \A d \in Live : SendState(frames[d])

\* A future that is polled is not parked, and has no registration between the
\* removal of the old one and the storing of the new one.
Unparked ==
  \A d \in Live :
    /\ frames[d].op = "send" => frames[d].who \notin parked
    /\ frames[d].op \in {"poll1", "poll2"} => parked \cap Tasks = {}
IdStack ==
  \A d \in Live : frames[d].at \in {"drop_old_send", "clone_send"} => waker_id[frames[d].who] = None

\* A poll_recv past its registration has its waker in the slot, or it is woken, or
\* it will find the channel disconnected; one that stored nothing already has.
RecvRegistered ==
  \A d \in Live :
    /\ frames[d].op = "poll2" \/ frames[d].at = "drop_replaced" =>
         Disconnected \/ recv_waker = frames[d].who \/ Owed(frames[d].who)
    /\ frames[d].at = "drop_unstored" => Disconnected

\* Send futures borrow a Sender.
SendersLive == senders = 0 => \A i \in Items : ~LiveSend(i)

\* NoStaleWaker, with what is left in the list of a channel closed to sends: what
\* the running poll has just stored and will remove.
SendRegs == \A w \in send_wakers : LiveSend(w[1]) /\ waker_id[w[1]] = w[2]
RecvTerminal == Disconnected => recv_waker = None
SendTerminal ==
  ClosedToSend /\ ~Closing =>
    \A w \in send_wakers : depth > 0 /\ top.at = "recheck" /\ top.who = w[1]

\* NoLostRecvWakeup needs that the waker dropped by a commit does not panic.
RecvWakeup == "drop_commit" \notin Toxic => NoLostRecvWakeup

\* NoLostSendWakeup, with the Receiver and the close told apart.
SendWaits(i) == Reg(i) \in send_wakers /\ IsFull /\ rxAlive /\ (closed => Closing)
SendWakeup == ~aborted => \A i \in parked \cap Items : Owed(i) \/ SendWaits(i)

PInv ==
  /\ DataType /\ StackIn(Frames) /\ Below /\ Shapes
  /\ OneTake /\ RxBorrows /\ HandOK /\ EmptySeen /\ Registered
  /\ SendOnce /\ SendStack /\ Unparked /\ IdStack /\ RecvRegistered
  /\ SendersLive /\ SendRegs /\ RecvTerminal /\ SendTerminal
  /\ RecvWakeup /\ SendWakeup
  /\ DisconnectIsFinal /\ QueueDrained /\ OutcomeExact

-----------------------------------------------------------------------------
(* What a step does to the stack, field by field *)

IsFrame(f, op, at, who, todo) ==
  f.op = op /\ f.at = at /\ f.who = who /\ f.todo = todo

WakeAt(list) == IF list = {} THEN "woke" ELSE "wake"

Pushes(op, at, who, todo) ==
  /\ depth' > 0 /\ depth' \notin Live /\ Live' = Live \cup {depth'} /\ aborted' = aborted
  /\ top' = frames'[depth'] /\ IsFrame(frames'[depth'], op, at, who, todo)
  /\ \A d \in Live : frames'[d] = frames[d]
  /\ depth \in Live => frames[depth].at \in Suspended
  /\ depth > 0 => depth \in Live /\ top = frames[depth]

Moves(op, at, who, todo) ==
  /\ depth > 0 /\ depth \in Live /\ top = frames[depth]
  /\ depth' = depth /\ Live' = Live /\ aborted' = aborted
  /\ top' = frames'[depth] /\ IsFrame(frames'[depth], op, at, who, todo)
  /\ \A d \in Live : d /= depth => frames'[d] = frames[d]

Ends ==
  /\ depth > 0 /\ depth \in Live /\ top = frames[depth]
  /\ Live' = Live \ {depth} /\ aborted' = aborted
  /\ \A d \in Live' : frames'[d] = frames[d]
  /\ depth' > 0 => depth' \in Live' /\ top' = frames[depth']

Stays ==
  /\ depth' = depth /\ top' = top /\ aborted' = aborted /\ Live' = Live
  /\ \A d \in Live : frames'[d] = frames[d]

\* The steps of Reentry in this form.
LEMMA CallStep ==
  ASSUME StackIn(Frames), MayCall, NEW f \in Frames, Call(f)
  PROVE  StackIn(Frames)' /\ Pushes(f.op, f.at, f.who, f.todo)
<1>1. depth < MaxDepth /\ frames[depth].at \in Suspended
  BY DEF MayCall, UserCode, top, Suspended
<1>2. /\ StackIn(Frames)'
      /\ depth' = depth + 1 /\ top' = f /\ aborted' = aborted
      /\ Live' = Live \cup {depth'} /\ depth' \notin Live
      /\ frames'[depth'] = f
      /\ \A d \in Live : frames'[d] = frames[d]
  BY <1>1, CallStack
<1>3. depth \in Nat /\ (depth > 0 => depth \in Live)
  BY LiveStack
<1> QED BY <1>1, <1>2, <1>3 DEF Pushes, IsFrame, top

LEMMA GotoStep ==
  ASSUME StackIn(Frames), depth > 0, NEW f \in Frames, Goto(f)
  PROVE  StackIn(Frames)' /\ Moves(f.op, f.at, f.who, f.todo)
<1>1. /\ StackIn(Frames)'
      /\ depth' = depth /\ top' = f /\ aborted' = aborted
      /\ Live' = Live /\ depth \in Live
      /\ frames'[depth] = f
      /\ \A d \in Live : d /= depth => frames'[d] = frames[d]
  BY GotoStack
<1> QED BY <1>1 DEF Moves, IsFrame, top

LEMMA IdleFrame == Idle \in Frames
BY DEF Idle, Frame, Frames, Ops, TakeOps, Labels

LEMMA ReturnStep ==
  ASSUME StackIn(Frames), depth > 0, Return
  PROVE  StackIn(Frames)' /\ Ends
<1>1. /\ StackIn(Frames)'
      /\ depth' = depth - 1 /\ aborted' = aborted
      /\ Live' = Live \ {depth} /\ depth \in Live
      /\ \A d \in Live' : frames'[d] = frames[d]
  BY IdleFrame, ReturnStack
<1>2. depth' > 0 => depth' \in Live'
  BY <1>1, LiveStack DEF Live
<1> QED BY <1>1, <1>2 DEF Ends, top

LEMMA SameStep ==
  ASSUME StackIn(Frames), UNCHANGED stackVars
  PROVE  StackIn(Frames)' /\ Stays
BY SameStack DEF Stays

\* Registrations to be woken, of either side.
Regs == (Items \X WakerIds) \cup (Tasks \X {None})

\* The frame of a new call, without and with wakers to wake.
LEMMA NewFrame ==
  ASSUME NEW op \in Ops, NEW at \in Labels, NEW who \in Items \cup Tasks \cup {Rx, None}
  PROVE  Frame(op, at, who) \in Frames /\ IsFrame(Frame(op, at, who), op, at, who, {})
BY DEF IsFrame, Frame, Frames

LEMMA WakingFrame ==
  ASSUME NEW f \in Frames, NEW list \in SUBSET Regs
  PROVE  Waking(f, list) \in Frames /\ IsFrame(Waking(f, list), f.op, WakeAt(list), f.who, list)
<1>1. Waking(f, list) \in Frames
  BY DEF Waking, Frames, Regs, Labels, CallbackPoints
<1>2. IsFrame(Waking(f, list), f.op, WakeAt(list), f.who, list)
  BY DEF Waking, Frames, IsFrame, WakeAt
<1> QED BY <1>1, <1>2

LEMMA CallNew ==
  ASSUME StackIn(Frames), MayCall, NEW op \in Ops, NEW at \in Labels,
         NEW who \in Items \cup Tasks \cup {Rx, None}, Call(Frame(op, at, who))
  PROVE  StackIn(Frames)' /\ Pushes(op, at, who, {})
<1> DEFINE f == Frame(op, at, who)
<1>1. f \in Frames /\ f.op = op /\ f.at = at /\ f.who = who /\ f.todo = {}
  BY NewFrame DEF IsFrame
<1>2. Call(f)
  OBVIOUS
<1> HIDE DEF f
<1>3. StackIn(Frames)' /\ Pushes(f.op, f.at, f.who, f.todo)
  BY <1>1, <1>2, CallStep
<1> QED BY <1>1, <1>3

LEMMA CallWaking ==
  ASSUME StackIn(Frames), MayCall, NEW op \in Ops,
         NEW who \in Items \cup Tasks \cup {Rx, None}, NEW list \in SUBSET Regs,
         Call(Waking(Frame(op, "woke", who), list))
  PROVE  StackIn(Frames)' /\ Pushes(op, WakeAt(list), who, list)
<1> DEFINE g == Frame(op, "woke", who)
           f == Waking(g, list)
<1>1. g \in Frames /\ g.op = op /\ g.who = who
  BY NewFrame DEF IsFrame, Labels
<1>2. Call(f)
  OBVIOUS
<1> HIDE DEF g
<1>3. f \in Frames /\ f.op = op /\ f.at = WakeAt(list) /\ f.who = who /\ f.todo = list
  BY <1>1, WakingFrame DEF IsFrame
<1> HIDE DEF f
<1>4. StackIn(Frames)' /\ Pushes(f.op, f.at, f.who, f.todo)
  BY <1>2, <1>3, CallStep
<1> QED BY <1>3, <1>4

\* The running call goes on to another of its points, or to its wakes.
LEMMA GotoAt ==
  ASSUME StackIn(Frames), depth > 0, NEW at \in Labels, Goto([top EXCEPT !.at = at])
  PROVE  StackIn(Frames)' /\ Moves(top.op, at, top.who, top.todo)
<1> DEFINE f == [top EXCEPT !.at = at]
<1>1. top \in Frames
  BY LiveStack
<1>2. f \in Frames /\ f.op = top.op /\ f.at = at /\ f.who = top.who /\ f.todo = top.todo
  BY <1>1 DEF Frames
<1>3. Goto(f)
  OBVIOUS
<1> HIDE DEF f
<1>4. StackIn(Frames)' /\ Moves(f.op, f.at, f.who, f.todo)
  BY <1>2, <1>3, GotoStep
<1> QED BY <1>2, <1>4

LEMMA GotoWaking ==
  ASSUME StackIn(Frames), depth > 0, NEW e \in Frames, NEW list \in SUBSET Regs,
         Goto(Waking(e, list))
  PROVE  StackIn(Frames)' /\ Moves(e.op, WakeAt(list), e.who, list)
<1> DEFINE f == Waking(e, list)
<1>1. f \in Frames /\ f.op = e.op /\ f.at = WakeAt(list) /\ f.who = e.who /\ f.todo = list
  BY WakingFrame DEF IsFrame
<1>2. Goto(f)
  OBVIOUS
<1> HIDE DEF f
<1>3. StackIn(Frames)' /\ Moves(f.op, f.at, f.who, f.todo)
  BY <1>1, <1>2, GotoStep
<1> QED BY <1>1, <1>3

-----------------------------------------------------------------------------
(* Types *)

LEMMA TypeFacts ==
  ASSUME DataType
  PROVE  /\ sfut \in [Items -> SendStates] /\ waker_id \in [Items -> WakerIds \cup {None}]
         /\ senders \in Nat /\ parked \subseteq Items \cup Tasks
         /\ queue \in Seq(Items) /\ pushed \in Seq(Items)
         /\ rxAlive \in BOOLEAN /\ closed \in BOOLEAN
BY MpscAssumption DEF DataType

\* Registrations are pairs of an owner and an id, which is not None.
LEMMA RegFacts ==
  ASSUME DataType
  PROVE  /\ \A w \in send_wakers :
              w = <<w[1], w[2]>> /\ w[1] \in Items /\ w[2] \in WakerIds /\ w[2] /= None
         /\ RecvRegs \in SUBSET Regs /\ send_wakers \in SUBSET Regs
         /\ \A t \in Tasks : Reg(t) = <<t, None>> /\ (recv_waker = t => Reg(t) \in RecvRegs)
BY MpscAssumption DEF DataType, RecvRegs, Regs, Reg

\* The consumer's waker is called as soon as it is taken.
LEMMA WokenReceiver ==
  ASSUME DataType, WakeReceiver
  PROVE  /\ recv_waker' = None /\ woken \subseteq woken' /\ woken' \subseteq Items \cup Tasks
         /\ \A t \in Tasks : recv_waker = t => t \in woken'
BY MpscAssumption DEF DataType, WakeReceiver

\* The running call is on the stack.
LEMMA TopFacts ==
  ASSUME PInv, depth > 0
  PROVE  depth \in Live /\ top = frames[depth] /\ top \in Frames /\ Shape(top) /\ SendState(top)
<1>1. StackIn(Frames) /\ Shapes /\ SendStack /\ top = frames[depth]
  BY DEF PInv, top
<1>2. depth \in Live /\ top \in Frames
  BY <1>1, LiveStack
<1> QED BY <1>1, <1>2 DEF Shapes, SendStack

\* What is accepted when an item is pushed.
LEMMA AcceptedAppend ==
  ASSUME pushed \in Seq(Items), queue \in Seq(Items), NEW i \in Items,
         pushed' = Append(pushed, i), queue' = Append(queue, i)
  PROVE  /\ queue' /= <<>> /\ queue' \in Seq(Items) /\ pushed' \in Seq(Items)
         /\ Len(queue') = Len(queue) + 1
         /\ \A j \in Items : Accepted(j)' <=> Accepted(j) \/ j = i
<1>1. /\ Len(pushed) \in Nat /\ Len(pushed') = Len(pushed) + 1
      /\ \A n \in 1..Len(pushed) : pushed'[n] = pushed[n]
      /\ pushed'[Len(pushed) + 1] = i
  OBVIOUS
<1>2. queue' /= <<>> /\ queue' \in Seq(Items) /\ pushed' \in Seq(Items) /\ Len(queue') = Len(queue) + 1
  OBVIOUS
<1>3. ASSUME NEW j \in Items PROVE Accepted(j)' <=> Accepted(j) \/ j = i
  BY <1>1 DEF Accepted
<1> QED BY <1>2, <1>3

-----------------------------------------------------------------------------
(* The invariant, action by action *)

\* A step that changes nothing the invariant speaks of, the stack apart.
Quiet ==
  /\ UNCHANGED <<queue, inHand, rxAlive, closed, wakerVars, sfut, parked, woken>>
  /\ UNCHANGED <<pushed, delivered, drained, lost, unplugged>>
  /\ senders' \in 0..MaxSenders /\ (senders' = 0 <=> senders = 0)
  /\ rfut' \in RecvStates /\ (rfut' /= "none" => rxAlive)
  /\ sawNone' \in BOOLEAN /\ (sawNone' => sawNone \/ (queue = <<>> /\ Disconnected))

\* The running call goes on to a point with the same obligations.
LEMMA QuietMovesInv ==
  ASSUME PInv, Quiet, StackIn(Frames)', NEW op, NEW at, top.at \notin {"wake", "recheck", "drop_commit"},
         Moves(op, at, top.who, {}),
         op = top.op \/ (op = "poll2" /\ top.at \in {"drop_replaced", "drop_unstored"}),
         at \notin {"wake", "woke", "first", "recheck", "drop_commit", "drop_old_send", "drop_replaced"},
         top.at = "woke" => top.op \notin TakeOps,
         at = "clone_send" => top.at = "drop_old_send",
         at = "take" \/ at = "empty" => top.op \in TakeOps,
         at = "empty" => queue = <<>>,
         at = "lost_item" => FALSE,
         at = "clone_recv" \/ at = "drop_unstored" => op = "poll1",
         at \in {"drain", "payload", "drop_cleared"} => top.op = "receiver_drop",
         op = "send" => at = "clone_send",
         at = "drop_unstored" => Disconnected
  PROVE  PInv'
<1> USE MpscAssumption
<1>i. PInv /\ DataType
  BY DEF PInv
<1>1. /\ depth \in Live /\ top = frames[depth] /\ Shape(top) /\ top.todo = {}
      /\ op \in TakeOps <=> top.op \in TakeOps
      /\ op = "send" <=> top.op = "send"
      /\ op = "close" <=> top.op = "close"
      /\ op = "receiver_drop" <=> top.op = "receiver_drop"
  BY TopFacts DEF Moves, Shape, TakeOps
<1>o. \A o : Reg(o)' = Reg(o) /\ (Owed(o) => Owed(o)')
  BY <1>1 DEF Owed, Reg, Moves, IsFrame, Quiet, wakerVars
<1>10. DataType'
  BY <1>i, <1>1 DEF PInv, DataType, Moves, IsFrame, Quiet, wakerVars
<1>11. Below' /\ Shapes'
  BY <1>i, <1>1 DEF PInv, Below, Shapes, Shape, Suspended, CallbackPoints, SendPoints, Waiting,
    Moves, IsFrame, Quiet, wakerVars
<1>12. OneTake' /\ RxBorrows'
  BY <1>i, <1>1 DEF PInv, OneTake, RxBorrows, TakeOps, Moves, IsFrame, Quiet, wakerVars
<1>13. HandOK'
  BY <1>i, <1>1 DEF PInv, HandOK, TakeOps, Waiting, Moves, IsFrame, Quiet, wakerVars
<1>14. EmptySeen' /\ Registered'
  BY <1>i, <1>1, TypeFacts DEF PInv, EmptySeen, Registered, Reg, Below, Suspended,
    CallbackPoints, Moves, IsFrame, Quiet, wakerVars
<1>15. SendOnce' /\ SendStack'
  BY <1>i, <1>1, TypeFacts DEF PInv, SendOnce, SendStack, SendState, SendPoints, Waiting,
    Shapes, Shape, Moves, IsFrame, Quiet, wakerVars
<1>16. SendersLive'
  BY <1>i, <1>1, TypeFacts DEF PInv, SendersLive, LiveSend, Moves, IsFrame, Quiet, wakerVars
<1>17. Unparked' /\ IdStack'
  BY <1>i, <1>1, TypeFacts DEF PInv, Unparked, IdStack, Shapes, Shape, SendPoints, SendOnce,
    Moves, IsFrame, Quiet, wakerVars
<1>18. RecvRegistered'
  <2>1. Disconnected' <=> Disconnected
    BY DEF Disconnected, Quiet
  <2>2. ASSUME NEW d \in Live, frames'[d].op = "poll2" \/ frames'[d].at = "drop_replaced"
        PROVE  /\ frames'[d].who = frames[d].who
               /\ Disconnected \/ recv_waker = frames[d].who \/ Owed(frames[d].who)
    BY <1>i, <1>1, <2>2 DEF PInv, RecvRegistered, Moves, IsFrame
  <2>3. \A d \in Live : frames'[d].at = "drop_unstored" => Disconnected
    BY <1>i DEF PInv, RecvRegistered, Moves, IsFrame
  <2>4. recv_waker' = recv_waker /\ Live' = Live
    BY DEF Quiet, wakerVars, Moves
  <2> QED BY <1>o, <2>1, <2>2, <2>3, <2>4 DEF RecvRegistered
<1>19. SendRegs' /\ RecvTerminal'
  BY <1>i, <1>1, TypeFacts, RegFacts DEF PInv, SendRegs, RecvTerminal, LiveSend, Disconnected,
    Moves, IsFrame, Quiet, wakerVars
<1>20. SendTerminal'
  <2>1. (Closing' <=> Closing) /\ (ClosedToSend' <=> ClosedToSend) /\ send_wakers' = send_wakers
    BY <1>1 DEF Closing, ClosedToSend, Moves, IsFrame, Quiet, wakerVars
  <2>2. ClosedToSend /\ ~Closing => send_wakers = {}
    BY <1>i DEF PInv, SendTerminal
  <2> QED BY <2>1, <2>2 DEF SendTerminal
<1>21. RecvWakeup'
  BY <1>i, <1>o, <1>1, TypeFacts, RegFacts DEF PInv, RecvWakeup, NoLostRecvWakeup, Notifying,
    Reg, Disconnected, Shapes, Shape, Moves, IsFrame, Quiet, wakerVars
<1>22. SendWakeup'
  BY <1>i, <1>o, <1>1, TypeFacts, RegFacts DEF PInv, SendWakeup, SendWaits, Reg, IsFull,
    Closing, Shapes, Shape, Moves, IsFrame, Quiet, wakerVars
<1>23. DisconnectIsFinal' /\ QueueDrained'
  BY <1>i, <1>1, TypeFacts DEF PInv, DisconnectIsFinal, StreamTerminated, QueueDrained,
    ReceiverDropping, Disconnected, Moves, IsFrame, Quiet, wakerVars
<1>24. OutcomeExact'
  BY <1>i DEF PInv, OutcomeExact, Accepted, Quiet
<1> QED
  BY <1>10, <1>11, <1>12, <1>13, <1>14, <1>15, <1>16, <1>17, <1>18, <1>19, <1>20, <1>21, <1>22,
    <1>23, <1>24 DEF PInv

\* A call returns or unwinds and leaves nothing behind.
LEMMA QuietEndsInv ==
  ASSUME PInv, Quiet, StackIn(Frames)', Ends, top.at \notin {"wake", "recheck"},
         top.at = "woke" => top.op \notin TakeOps, top.op /= "close",
         top.op = "receiver_drop" => queue = <<>>,
         top.at = "drop_commit" => "drop_commit" \in Toxic \/ sfut[top.who] /= "okHeld"
  PROVE  PInv'
<1> USE MpscAssumption
<1>i. PInv /\ DataType
  BY DEF PInv
<1>1. depth \in Live /\ top = frames[depth] /\ Shape(top) /\ top.todo = {}
  BY TopFacts DEF Ends, Shape
<1>o. \A o : Reg(o)' = Reg(o) /\ (Owed(o) => Owed(o)')
  BY <1>1 DEF Owed, Reg, Ends, Quiet, wakerVars
<1>10. DataType'
  BY <1>i, <1>1 DEF PInv, DataType, Ends, Quiet, wakerVars
<1>11. Below' /\ Shapes'
  BY <1>i, <1>1 DEF PInv, Below, Shapes, Shape, Suspended, CallbackPoints, SendPoints, Waiting,
    Ends, Quiet, wakerVars
<1>12. OneTake' /\ RxBorrows'
  BY <1>i, <1>1 DEF PInv, OneTake, RxBorrows, TakeOps, Ends, Quiet, wakerVars
<1>13. HandOK'
  BY <1>i, <1>1 DEF PInv, HandOK, TakeOps, Waiting, Ends, Quiet, wakerVars
<1>14. EmptySeen' /\ Registered'
  BY <1>i, <1>1, TypeFacts DEF PInv, EmptySeen, Registered, Reg, Below, Suspended,
    CallbackPoints, Ends, Quiet, wakerVars
<1>15. SendOnce' /\ SendStack'
  BY <1>i, <1>1, TypeFacts DEF PInv, SendOnce, SendStack, SendState, SendPoints, Waiting,
    Shapes, Shape, Ends, Quiet, wakerVars
<1>16. SendersLive'
  BY <1>i, <1>1, TypeFacts DEF PInv, SendersLive, LiveSend, Ends, Quiet, wakerVars
<1>17. Unparked' /\ IdStack'
  BY <1>i, <1>1, TypeFacts DEF PInv, Unparked, IdStack, Shapes, Shape, SendPoints, SendOnce,
    Ends, Quiet, wakerVars
<1>18. RecvRegistered'
  BY <1>i, <1>o, <1>1, TypeFacts, RegFacts DEF PInv, RecvRegistered, Disconnected, Reg, Shapes,
    Shape, Ends, Quiet, wakerVars
<1>19. SendRegs' /\ RecvTerminal'
  BY <1>i, <1>1, TypeFacts, RegFacts DEF PInv, SendRegs, RecvTerminal, LiveSend, Disconnected,
    Ends, Quiet, wakerVars
<1>20. SendTerminal'
  BY <1>i, <1>1, TypeFacts, RegFacts DEF PInv, SendTerminal, ClosedToSend, Closing, Below,
    Suspended, CallbackPoints, Ends, Quiet, wakerVars
<1>21. RecvWakeup'
  BY <1>i, <1>o, <1>1, TypeFacts, RegFacts DEF PInv, RecvWakeup, NoLostRecvWakeup, Notifying,
    Reg, Disconnected, Shapes, Shape, Ends, Quiet, wakerVars
<1>22. SendWakeup'
  <2>1. Closing => Closing'
    BY <1>1 DEF Closing, Ends
  <2>2. IsFull' <=> IsFull
    BY DEF IsFull, Quiet
  <2>3. aborted' = aborted /\ UNCHANGED <<rxAlive, closed, send_wakers, parked>>
    BY DEF Ends, Quiet, wakerVars
  <2> QED BY <1>i, <1>o, <2>1, <2>2, <2>3 DEF PInv, SendWakeup, SendWaits
<1>23. DisconnectIsFinal' /\ QueueDrained'
  BY <1>i, <1>1, TypeFacts DEF PInv, DisconnectIsFinal, StreamTerminated, QueueDrained,
    ReceiverDropping, Disconnected, Ends, Quiet, wakerVars
<1>24. OutcomeExact'
  BY <1>i DEF PInv, OutcomeExact, Accepted, Quiet
<1> QED
  BY <1>10, <1>11, <1>12, <1>13, <1>14, <1>15, <1>16, <1>17, <1>18, <1>19, <1>20, <1>21, <1>22,
    <1>23, <1>24 DEF PInv

\* A step that does not touch the stack either.
LEMMA QuietStaysInv ==
  ASSUME PInv, Quiet, StackIn(Frames)', Stays
  PROVE  PInv'
<1> USE MpscAssumption
<1>i. PInv /\ DataType
  BY DEF PInv
<1>o. \A o : Reg(o)' = Reg(o) /\ (Owed(o) => Owed(o)')
  BY DEF Owed, Reg, Stays, Quiet, wakerVars
<1>10. DataType'
  BY <1>i DEF PInv, DataType, Stays, Quiet, wakerVars
<1>11. Below' /\ Shapes'
  BY <1>i DEF PInv, Below, Shapes, Shape, Suspended, CallbackPoints, SendPoints, Waiting, Stays,
    Quiet, wakerVars
<1>12. OneTake' /\ RxBorrows'
  BY <1>i DEF PInv, OneTake, RxBorrows, TakeOps, Stays, Quiet, wakerVars
<1>13. HandOK'
  BY <1>i DEF PInv, HandOK, TakeOps, Waiting, Stays, Quiet, wakerVars
<1>14. EmptySeen' /\ Registered'
  BY <1>i, TypeFacts DEF PInv, EmptySeen, Registered, Reg, Below, Suspended, CallbackPoints,
    Stays, Quiet, wakerVars
<1>15. SendOnce' /\ SendStack'
  BY <1>i, TypeFacts DEF PInv, SendOnce, SendStack, SendState, SendPoints, Waiting, Shapes,
    Shape, Stays, Quiet, wakerVars
<1>16. SendersLive'
  BY <1>i, TypeFacts DEF PInv, SendersLive, LiveSend, Stays, Quiet, wakerVars
<1>17. Unparked' /\ IdStack'
  BY <1>i, TypeFacts DEF PInv, Unparked, IdStack, Shapes, Shape, SendPoints, SendOnce, Stays,
    Quiet, wakerVars
<1>18. RecvRegistered'
  BY <1>i, <1>o, TypeFacts, RegFacts DEF PInv, RecvRegistered, Disconnected, Reg, Shapes, Shape,
    Stays, Quiet, wakerVars
<1>19. SendRegs' /\ RecvTerminal'
  BY <1>i, TypeFacts, RegFacts DEF PInv, SendRegs, RecvTerminal, LiveSend, Disconnected, Stays,
    Quiet, wakerVars
<1>20. SendTerminal'
  BY <1>i, TypeFacts, RegFacts DEF PInv, SendTerminal, ClosedToSend, Closing, Below, Suspended,
    CallbackPoints, Stays, Quiet, wakerVars
<1>21. RecvWakeup'
  BY <1>i, <1>o, TypeFacts, RegFacts DEF PInv, RecvWakeup, NoLostRecvWakeup, Notifying, Reg,
    Disconnected, Shapes, Shape, Stays, Quiet, wakerVars
<1>22. SendWakeup'
  BY <1>i, <1>o, TypeFacts, RegFacts DEF PInv, SendWakeup, SendWaits, Reg, IsFull, Closing,
    Shapes, Shape, Stays, Quiet, wakerVars
<1>23. DisconnectIsFinal' /\ QueueDrained'
  BY <1>i, TypeFacts DEF PInv, DisconnectIsFinal, StreamTerminated, QueueDrained,
    ReceiverDropping, Disconnected, Stays, Quiet, wakerVars
<1>24. OutcomeExact'
  BY <1>i DEF PInv, OutcomeExact, Accepted, Quiet
<1> QED
  BY <1>10, <1>11, <1>12, <1>13, <1>14, <1>15, <1>16, <1>17, <1>18, <1>19, <1>20, <1>21, <1>22,
    <1>23, <1>24 DEF PInv

\* A second panic: the stack stays as it is for good.
LEMMA AbortInv ==
  ASSUME PInv, Quiet, Abort
  PROVE  PInv'
<1> USE MpscAssumption
<1>i. PInv /\ DataType
  BY DEF PInv
<1>1. depth' = depth /\ frames' = frames /\ top' = top /\ Live' = Live /\ aborted'
  BY DEF Abort, top, Live
<1>2. StackIn(Frames)'
  BY <1>1 DEF PInv, StackIn
<1>10. DataType'
  BY <1>i, <1>1 DEF PInv, DataType, Quiet, wakerVars
<1>11. Below' /\ Shapes'
  BY <1>i, <1>1 DEF PInv, Below, Shapes, Shape, Suspended, CallbackPoints, SendPoints, Waiting,
    Quiet, wakerVars
<1>12. OneTake' /\ RxBorrows'
  BY <1>i, <1>1 DEF PInv, OneTake, RxBorrows, TakeOps, Quiet, wakerVars
<1>13. HandOK'
  BY <1>i, <1>1 DEF PInv, HandOK, TakeOps, Waiting, Quiet, wakerVars
<1>14. EmptySeen' /\ Registered'
  BY <1>i, <1>1, TypeFacts DEF PInv, EmptySeen, Registered, Reg, Below, Suspended,
    CallbackPoints, Quiet, wakerVars
<1>15. SendOnce' /\ SendStack'
  BY <1>i, <1>1, TypeFacts DEF PInv, SendOnce, SendStack, SendState, SendPoints, Waiting,
    Shapes, Shape, Quiet, wakerVars
<1>16. SendersLive'
  BY <1>i, <1>1, TypeFacts DEF PInv, SendersLive, LiveSend, Quiet, wakerVars
<1>17. Unparked' /\ IdStack'
  BY <1>i, <1>1, TypeFacts DEF PInv, Unparked, IdStack, Shapes, Shape, SendPoints, SendOnce,
    Quiet, wakerVars
<1>18. RecvRegistered'
  BY <1>i, <1>1, TypeFacts, RegFacts DEF PInv, RecvRegistered, Disconnected, Owed, Reg, Shapes,
    Shape, Quiet, wakerVars
<1>19. SendRegs' /\ RecvTerminal'
  BY <1>i, <1>1, TypeFacts, RegFacts DEF PInv, SendRegs, RecvTerminal, LiveSend, Disconnected,
    Quiet, wakerVars
<1>20. SendTerminal'
  BY <1>i, <1>1, TypeFacts, RegFacts DEF PInv, SendTerminal, ClosedToSend, Closing, Below,
    Suspended, CallbackPoints, Quiet, wakerVars
<1>21. RecvWakeup'
  BY <1>i, <1>1, TypeFacts, RegFacts DEF PInv, RecvWakeup, NoLostRecvWakeup, Notifying, Owed,
    Reg, Disconnected, Shapes, Shape, Quiet, wakerVars
<1>22. SendWakeup'
  BY <1>i, <1>1, TypeFacts, RegFacts DEF PInv, SendWakeup, SendWaits, Owed, Reg, IsFull,
    Closing, Shapes, Shape, Quiet, wakerVars
<1>23. DisconnectIsFinal' /\ QueueDrained'
  BY <1>i, <1>1, TypeFacts DEF PInv, DisconnectIsFinal, StreamTerminated, QueueDrained,
    ReceiverDropping, Disconnected, Quiet, wakerVars
<1>24. OutcomeExact'
  BY <1>i DEF PInv, OutcomeExact, Accepted, Quiet
<1> QED
  BY <1>2, <1>10, <1>11, <1>12, <1>13, <1>14, <1>15, <1>16, <1>17, <1>18, <1>19, <1>20, <1>21,
    <1>22, <1>23, <1>24 DEF PInv

\* try_send pushes into a channel that is open and takes the receiver's waker.
LEMMA TrySendInv ==
  ASSUME PInv, NEW i \in Items, TrySend(i)
  PROVE  PInv'
<1> USE MpscAssumption
<1>i. PInv /\ DataType
  BY DEF PInv
<1>1. /\ MayCall /\ senders > 0 /\ sfut[i] = "new" /\ rxAlive /\ ~closed /\ ~IsFull
      /\ queue' = Append(queue, i) /\ pushed' = Append(pushed, i)
      /\ recv_waker' = None /\ woken \subseteq woken' /\ woken' \subseteq Items \cup Tasks
      /\ \A t \in Tasks : recv_waker = t => t \in woken'
      /\ sfut' = [sfut EXCEPT ![i] = "gone"]
      /\ UNCHANGED <<inHand, senders, rxAlive, closed, send_wakers, waker_id, rfut, parked,
                     delivered, drained, lost, sawNone, unplugged>>
  BY <1>i, WokenReceiver DEF TrySend, Push, ClosedToSend
<1>2. StackIn(Frames)' /\ Pushes("try_send", WakeAt(RecvRegs), i, RecvRegs)
  <2>1. "try_send" \in Ops /\ RecvRegs \in SUBSET Regs /\ StackIn(Frames) /\ MayCall
    BY <1>i, <1>1, RegFacts DEF PInv, Ops
  <2>2. Call(Waking(Frame("try_send", "woke", i), RecvRegs))
    BY DEF TrySend
  <2> QED BY <2>1, <2>2, CallWaking
<1>w. WakeAt(RecvRegs) \in Waiting /\ (WakeAt(RecvRegs) = "woke" => RecvRegs = {})
  BY DEF WakeAt, Waiting
<1>o. \A o : Reg(o)' = Reg(o) /\ (Owed(o) => Owed(o)')
  BY <1>1, <1>2 DEF Owed, Reg, Pushes
<1>t. \A t \in Tasks : recv_waker = t => Owed(t)'
  BY <1>1 DEF Owed
<1>3. /\ queue' /= <<>> /\ queue' \in Seq(Items) /\ pushed' \in Seq(Items) /\ Len(queue') = Len(queue) + 1
      /\ \A j \in Items : Accepted(j)' <=> Accepted(j) \/ j = i
  BY <1>i, <1>1, AcceptedAppend DEF DataType
<1>10. DataType'
  BY <1>i, <1>1, <1>3 DEF PInv, DataType, SendStates, IsFull
<1>11. Below' /\ Shapes'
  BY <1>i, <1>1, <1>2, <1>w DEF PInv, Below, Shapes, Shape, Suspended, CallbackPoints,
    SendPoints, Waiting, Pushes, IsFrame
<1>12. OneTake' /\ RxBorrows'
  BY <1>i, <1>1, <1>2, <1>w DEF PInv, OneTake, RxBorrows, TakeOps, Pushes, IsFrame, Waiting
<1>13. HandOK'
  BY <1>i, <1>1, <1>2, <1>w DEF PInv, HandOK, TakeOps, Waiting, Pushes, IsFrame
<1>14. EmptySeen' /\ Registered'
  BY <1>i, <1>1, <1>2, <1>w, TypeFacts DEF PInv, EmptySeen, Registered, Reg, Below, Suspended,
    CallbackPoints, Pushes, IsFrame, Waiting
<1>15. SendOnce' /\ SendStack'
  <2>1. SendOnce'
    BY <1>i, <1>1, <1>2, <1>w DEF PInv, SendOnce, Pushes, IsFrame
  <2>2. ASSUME NEW d \in Live, frames[d].op = "send"
        PROVE  frames[d].who \in Items /\ sfut'[frames[d].who] = sfut[frames[d].who]
    BY <1>i, <1>1, <2>2, TypeFacts DEF PInv, Shapes, Shape, SendStack, SendState, Waiting,
      SendPoints
  <2>3. SendStack'
    BY <1>i, <1>2, <2>2, <1>w DEF PInv, SendStack, SendState, Pushes, IsFrame
  <2> QED BY <2>1, <2>3
<1>16. SendersLive'
  BY <1>i, <1>1, <1>2, <1>w, TypeFacts DEF PInv, SendersLive, LiveSend, Pushes, IsFrame, Waiting
<1>17. Unparked' /\ IdStack'
  <2>1. Unparked'
    BY <1>i, <1>1, <1>2 DEF PInv, Unparked, Pushes, IsFrame
  <2>2. IdStack'
    BY <1>i, <1>1, <1>2, <1>w DEF PInv, IdStack, Pushes, IsFrame, Waiting
  <2> QED BY <2>1, <2>2
<1>18. RecvRegistered'
  <2>1. ASSUME NEW d \in Live',
               frames'[d].op = "poll2" \/ frames'[d].at \in {"drop_replaced", "drop_unstored"}
        PROVE  d \in Live /\ frames'[d] = frames[d]
    BY <1>2, <2>1, <1>w DEF Pushes, IsFrame, Waiting
  <2>2. \A d \in Live : frames[d].op = "poll2" \/ frames[d].at = "drop_replaced" => frames[d].who \in Tasks
    BY <1>i DEF PInv, Shapes, Shape
  <2>3. Disconnected' <=> Disconnected
    BY <1>1 DEF Disconnected
  <2> QED BY <1>i, <1>1, <1>o, <1>t, <2>1, <2>2, <2>3 DEF PInv, RecvRegistered
<1>19. SendRegs' /\ RecvTerminal'
  BY <1>i, <1>1, <1>2, <1>w, TypeFacts, RegFacts DEF PInv, SendRegs, RecvTerminal, LiveSend,
    Disconnected, Pushes, IsFrame, Waiting
<1>20. SendTerminal'
  BY <1>i, <1>1, <1>2, <1>w, TypeFacts, RegFacts DEF PInv, SendTerminal, ClosedToSend, Closing,
    Below, Suspended, CallbackPoints, Pushes, IsFrame, Waiting
<1>21. RecvWakeup'
  BY <1>i, <1>o, <1>1, <1>2, <1>w, TypeFacts, RegFacts, <1>t DEF PInv, RecvWakeup,
    NoLostRecvWakeup, Notifying, Reg, Disconnected, Shapes, Shape, Pushes, IsFrame, Waiting
<1>22. SendWakeup'
  BY <1>i, <1>o, <1>1, <1>2, <1>w, TypeFacts, RegFacts DEF PInv, SendWakeup, SendWaits, Reg,
    IsFull, Closing, Shapes, Shape, Pushes, IsFrame, Waiting
<1>23. DisconnectIsFinal' /\ QueueDrained'
  BY <1>i, <1>1, <1>2, <1>3, TypeFacts DEF PInv, DisconnectIsFinal, StreamTerminated,
    Disconnected, QueueDrained, Pushes
<1>24. OutcomeExact'
  BY <1>i, <1>1, <1>3, TypeFacts DEF PInv, OutcomeExact
<1> QED
  BY <1>2, <1>10, <1>11, <1>12, <1>13, <1>14, <1>15, <1>16, <1>17, <1>18, <1>19, <1>20, <1>21,
    <1>22, <1>23, <1>24 DEF PInv

\* A Send future is made while a Sender is alive.
LEMMA NewSendInv ==
  ASSUME PInv, NEW i \in Items, NewSend(i)
  PROVE  PInv'
<1> USE MpscAssumption
<1>i. PInv /\ DataType
  BY DEF PInv
<1>1. /\ senders > 0 /\ sfut[i] = "new" /\ sfut' = [sfut EXCEPT ![i] = "pending"]
      /\ UNCHANGED <<queue, inHand, senders, rxAlive, closed, recv_waker, send_wakers,
                     waker_id, rfut, parked, woken, pushed, delivered, drained, lost,
                     sawNone, unplugged>>
  BY DEF NewSend, chanVars, wakerVars, taskVars, histVars
<1>2. StackIn(Frames)' /\ Stays
  BY SameStep DEF NewSend, PInv
<1>o. \A o : Reg(o)' = Reg(o) /\ (Owed(o) => Owed(o)')
  BY <1>1, <1>2 DEF Owed, Reg, Stays
<1>10. DataType'
  BY <1>i, <1>1, <1>2 DEF PInv, DataType, Stays, SendStates
<1>11. Below' /\ Shapes'
  BY <1>i, <1>1, <1>2 DEF PInv, Below, Shapes, Shape, Suspended, CallbackPoints, SendPoints,
    Waiting, Stays
<1>12. OneTake' /\ RxBorrows'
  BY <1>i, <1>1, <1>2 DEF PInv, OneTake, RxBorrows, TakeOps, Stays
<1>13. HandOK'
  BY <1>i, <1>1, <1>2 DEF PInv, HandOK, TakeOps, Waiting, Stays
<1>14. EmptySeen' /\ Registered'
  BY <1>i, <1>1, <1>2, TypeFacts DEF PInv, EmptySeen, Registered, Reg, Below, Suspended,
    CallbackPoints, Stays
<1>15. SendOnce' /\ SendStack'
  BY <1>i, <1>1, <1>2, TypeFacts DEF PInv, SendOnce, SendStack, SendState, SendPoints, Waiting,
    Shapes, Shape, Stays
<1>16. SendersLive'
  BY <1>i, <1>1, <1>2, TypeFacts DEF PInv, SendersLive, LiveSend, Stays
<1>17. Unparked' /\ IdStack'
  BY <1>i, <1>1, <1>2, TypeFacts DEF PInv, Unparked, IdStack, Shapes, Shape, SendPoints,
    SendOnce, Stays
<1>18. RecvRegistered'
  BY <1>i, <1>o, <1>1, <1>2, TypeFacts, RegFacts DEF PInv, RecvRegistered, Disconnected, Reg,
    Shapes, Shape, Stays
<1>19. SendRegs' /\ RecvTerminal'
  BY <1>i, <1>1, <1>2, TypeFacts, RegFacts DEF PInv, SendRegs, RecvTerminal, LiveSend,
    Disconnected, Stays
<1>20. SendTerminal'
  BY <1>i, <1>1, <1>2, TypeFacts, RegFacts DEF PInv, SendTerminal, ClosedToSend, Closing, Below,
    Suspended, CallbackPoints, Stays
<1>21. RecvWakeup'
  BY <1>i, <1>o, <1>1, <1>2, TypeFacts, RegFacts DEF PInv, RecvWakeup, NoLostRecvWakeup,
    Notifying, Reg, Disconnected, Shapes, Shape, Stays
<1>22. SendWakeup'
  BY <1>i, <1>o, <1>1, <1>2, TypeFacts, RegFacts DEF PInv, SendWakeup, SendWaits, Reg, IsFull,
    Closing, Shapes, Shape, Stays
<1>23. DisconnectIsFinal' /\ QueueDrained'
  BY <1>i, <1>1, <1>2, TypeFacts DEF PInv, DisconnectIsFinal, StreamTerminated, QueueDrained,
    ReceiverDropping, Disconnected, Stays
<1>24. OutcomeExact'
  BY <1>i, <1>1, <1>2, TypeFacts DEF PInv, OutcomeExact, Accepted, Stays
<1> QED
  BY <1>2, <1>10, <1>11, <1>12, <1>13, <1>14, <1>15, <1>16, <1>17, <1>18, <1>19, <1>20, <1>21,
    <1>22, <1>23, <1>24 DEF PInv

\* A poll of a Send begins: the task is neither parked nor woken any more.
LEMMA PollSendInv ==
  ASSUME PInv, NEW i \in Items, PollSend(i)
  PROVE  PInv'
<1> USE MpscAssumption
<1>i. PInv /\ DataType
  BY DEF PInv
<1>1. /\ MayCall /\ sfut[i] = "pending" /\ \A d \in Live : frames[d].who /= i
      /\ parked' = parked \ {i} /\ woken' = woken \ {i}
      /\ UNCHANGED <<queue, inHand, senders, rxAlive, closed, recv_waker, send_wakers,
                     waker_id, sfut, rfut, pushed, delivered, drained, lost, sawNone, unplugged>>
  BY DEF PollSend, Busy, chanVars, wakerVars, taskVars, histVars
<1>2. StackIn(Frames)' /\ Pushes("send", "first", i, {})
  <2>1. "send" \in Ops /\ "first" \in Labels /\ StackIn(Frames) /\ MayCall
    BY <1>i, <1>1 DEF PInv, Ops, TakeOps, Labels
  <2>2. Call(Frame("send", "first", i))
    BY <1>1 DEF PollSend
  <2> QED BY <2>1, <2>2, CallNew
<1>o. \A o : o /= i => Reg(o)' = Reg(o) /\ (Owed(o) => Owed(o)')
  BY <1>1, <1>2 DEF Owed, Reg, Pushes
<1>10. DataType'
  BY <1>i, <1>1, <1>2 DEF PInv, DataType, Pushes, IsFrame, SendPoints, Waiting
<1>11. Below' /\ Shapes'
  BY <1>i, <1>1, <1>2 DEF PInv, Below, Shapes, Shape, Suspended, CallbackPoints, SendPoints,
    Waiting, Pushes, IsFrame
<1>12. OneTake' /\ RxBorrows'
  BY <1>i, <1>1, <1>2 DEF PInv, OneTake, RxBorrows, TakeOps, Pushes, IsFrame, SendPoints,
    Waiting
<1>13. HandOK'
  BY <1>i, <1>1, <1>2 DEF PInv, HandOK, TakeOps, Waiting, Pushes, IsFrame, SendPoints
<1>14. EmptySeen' /\ Registered'
  BY <1>i, <1>1, <1>2, TypeFacts DEF PInv, EmptySeen, Registered, Reg, Below, Suspended,
    CallbackPoints, Pushes, IsFrame, SendPoints, Waiting
<1>15. SendOnce' /\ SendStack'
  BY <1>i, <1>1, <1>2, TypeFacts DEF PInv, SendOnce, SendStack, SendState, SendPoints, Waiting,
    Shapes, Shape, Pushes, IsFrame
<1>16. SendersLive'
  BY <1>i, <1>1, <1>2, TypeFacts DEF PInv, SendersLive, LiveSend, Pushes, IsFrame, SendPoints,
    Waiting
<1>17. Unparked' /\ IdStack'
  BY <1>i, <1>1, <1>2, TypeFacts DEF PInv, Unparked, IdStack, Shapes, Shape, SendPoints,
    SendOnce, Pushes, IsFrame, Waiting
<1>18. RecvRegistered'
  BY <1>i, <1>o, <1>1, <1>2, TypeFacts, RegFacts DEF PInv, RecvRegistered, Disconnected, Reg,
    Shapes, Shape, Pushes, IsFrame, SendPoints, Waiting
<1>19. SendRegs' /\ RecvTerminal'
  BY <1>i, <1>1, <1>2, TypeFacts, RegFacts DEF PInv, SendRegs, RecvTerminal, LiveSend,
    Disconnected, Pushes, IsFrame, SendPoints, Waiting
<1>20. SendTerminal'
  BY <1>i, <1>1, <1>2, TypeFacts, RegFacts DEF PInv, SendTerminal, ClosedToSend, Closing, Below,
    Suspended, CallbackPoints, Pushes, IsFrame, SendPoints, Waiting
<1>21. RecvWakeup'
  BY <1>i, <1>o, <1>1, <1>2, TypeFacts, RegFacts DEF PInv, RecvWakeup, NoLostRecvWakeup,
    Notifying, Reg, Disconnected, Shapes, Shape, Pushes, IsFrame, SendPoints, Waiting
<1>22. SendWakeup'
  BY <1>i, <1>o, <1>1, <1>2, TypeFacts, RegFacts DEF PInv, SendWakeup, SendWaits, Reg, IsFull,
    Closing, Shapes, Shape, Pushes, IsFrame, SendPoints, Waiting
<1>23. DisconnectIsFinal' /\ QueueDrained'
  BY <1>i, <1>1, <1>2, TypeFacts DEF PInv, DisconnectIsFinal, StreamTerminated, QueueDrained,
    ReceiverDropping, Disconnected, Pushes, IsFrame, SendPoints, Waiting
<1>24. OutcomeExact'
  BY <1>i, <1>1, <1>2, TypeFacts DEF PInv, OutcomeExact, Accepted, Pushes, IsFrame, SendPoints,
    Waiting
<1> QED
  BY <1>2, <1>10, <1>11, <1>12, <1>13, <1>14, <1>15, <1>16, <1>17, <1>18, <1>19, <1>20, <1>21,
    <1>22, <1>23, <1>24 DEF PInv

\* A replayed outcome is the recorded one.
LEMMA ReplayOutcomeInv ==
  ASSUME PInv, NEW i \in Items, ReplayOutcome(i)
  PROVE  PInv'
<1> USE MpscAssumption
<1>i. PInv /\ DataType
  BY DEF PInv
<1>1. /\ sfut[i] \in {"okHeld", "errHeld"} /\ \A d \in Live : frames[d].who /= i
      /\ sfut' = [sfut EXCEPT ![i] = IF sfut[i] = "okHeld" THEN "ok" ELSE "err"]
      /\ UNCHANGED <<queue, inHand, senders, rxAlive, closed, recv_waker, send_wakers,
                     waker_id, rfut, parked, woken, pushed, delivered, drained, lost,
                     sawNone, unplugged>>
  BY DEF ReplayOutcome, Reported, Busy, chanVars, wakerVars, taskVars, histVars
<1>2. StackIn(Frames)' /\ Stays
  BY SameStep DEF ReplayOutcome, PInv
<1>o. \A o : Reg(o)' = Reg(o) /\ (Owed(o) => Owed(o)')
  BY <1>1, <1>2 DEF Owed, Reg, Stays
<1>10. DataType'
  BY <1>i, <1>1, <1>2 DEF PInv, DataType, Stays, SendStates
<1>11. Below' /\ Shapes'
  BY <1>i, <1>1, <1>2 DEF PInv, Below, Shapes, Shape, Suspended, CallbackPoints, SendPoints,
    Waiting, Stays
<1>12. OneTake' /\ RxBorrows'
  BY <1>i, <1>1, <1>2 DEF PInv, OneTake, RxBorrows, TakeOps, Stays
<1>13. HandOK'
  BY <1>i, <1>1, <1>2 DEF PInv, HandOK, TakeOps, Waiting, Stays
<1>14. EmptySeen' /\ Registered'
  BY <1>i, <1>1, <1>2, TypeFacts DEF PInv, EmptySeen, Registered, Reg, Below, Suspended,
    CallbackPoints, Stays
<1>15. SendOnce' /\ SendStack'
  BY <1>i, <1>1, <1>2, TypeFacts DEF PInv, SendOnce, SendStack, SendState, SendPoints, Waiting,
    Shapes, Shape, Stays
<1>16. SendersLive'
  BY <1>i, <1>1, <1>2, TypeFacts DEF PInv, SendersLive, LiveSend, Stays
<1>17. Unparked' /\ IdStack'
  BY <1>i, <1>1, <1>2, TypeFacts DEF PInv, Unparked, IdStack, Shapes, Shape, SendPoints,
    SendOnce, Stays
<1>18. RecvRegistered'
  BY <1>i, <1>o, <1>1, <1>2, TypeFacts, RegFacts DEF PInv, RecvRegistered, Disconnected, Reg,
    Shapes, Shape, Stays
<1>19. SendRegs' /\ RecvTerminal'
  BY <1>i, <1>1, <1>2, TypeFacts, RegFacts DEF PInv, SendRegs, RecvTerminal, LiveSend,
    Disconnected, Stays
<1>20. SendTerminal'
  BY <1>i, <1>1, <1>2, TypeFacts, RegFacts DEF PInv, SendTerminal, ClosedToSend, Closing, Below,
    Suspended, CallbackPoints, Stays
<1>21. RecvWakeup'
  BY <1>i, <1>o, <1>1, <1>2, TypeFacts, RegFacts DEF PInv, RecvWakeup, NoLostRecvWakeup,
    Notifying, Reg, Disconnected, Shapes, Shape, Stays
<1>22. SendWakeup'
  BY <1>i, <1>o, <1>1, <1>2, TypeFacts, RegFacts DEF PInv, SendWakeup, SendWaits, Reg, IsFull,
    Closing, Shapes, Shape, Stays
<1>23. DisconnectIsFinal' /\ QueueDrained'
  BY <1>i, <1>1, <1>2, TypeFacts DEF PInv, DisconnectIsFinal, StreamTerminated, QueueDrained,
    ReceiverDropping, Disconnected, Stays
<1>24. OutcomeExact'
  BY <1>i, <1>1, <1>2, TypeFacts DEF PInv, OutcomeExact, Accepted, Stays
<1> QED
  BY <1>2, <1>10, <1>11, <1>12, <1>13, <1>14, <1>15, <1>16, <1>17, <1>18, <1>19, <1>20, <1>21,
    <1>22, <1>23, <1>24 DEF PInv

\* A Send that is dropped takes its registration along.
LEMMA DropSendInv ==
  ASSUME PInv, NEW i \in Items, DropSend(i)
  PROVE  PInv'
<1> USE MpscAssumption
<1>i. PInv /\ DataType
  BY DEF PInv
<1>1. /\ top.at \in Suspended /\ LiveSend(i) /\ \A d \in Live : frames[d].who /= i
      /\ sfut' = [sfut EXCEPT ![i] = "gone"]
      /\ send_wakers' = send_wakers \ {Reg(i)} /\ waker_id' = [waker_id EXCEPT ![i] = None]
      /\ parked' = parked \ {i} /\ woken' = woken \ {i}
      /\ UNCHANGED <<queue, inHand, senders, rxAlive, closed, recv_waker, rfut, pushed,
                     delivered, drained, lost, sawNone, unplugged>>
  BY DEF DropSend, MayCall, UserCode, Suspended, Busy, chanVars, wakerVars, taskVars, histVars
<1>2. StackIn(Frames)' /\ Stays
  BY SameStep DEF DropSend, PInv
<1>3. \A o : o /= i => (o \in Items => waker_id'[o] = waker_id[o])
  BY <1>i, <1>1, TypeFacts
<1>o. \A o : o /= i => Reg(o)' = Reg(o) /\ (Owed(o) => Owed(o)')
  BY <1>1, <1>2, <1>3 DEF Owed, Reg, Stays
<1>10. DataType'
  BY <1>i, <1>1, <1>2 DEF PInv, DataType, Stays, SendStates
<1>11. Below' /\ Shapes'
  BY <1>i, <1>1, <1>2 DEF PInv, Below, Shapes, Shape, Suspended, CallbackPoints, SendPoints,
    Waiting, Stays
<1>12. OneTake' /\ RxBorrows'
  BY <1>i, <1>1, <1>2 DEF PInv, OneTake, RxBorrows, TakeOps, Stays
<1>13. HandOK'
  BY <1>i, <1>1, <1>2 DEF PInv, HandOK, TakeOps, Waiting, Stays
<1>14. EmptySeen' /\ Registered'
  BY <1>i, <1>1, <1>2, TypeFacts DEF PInv, EmptySeen, Registered, Reg, Below, Suspended,
    CallbackPoints, Stays
<1>15. SendOnce' /\ SendStack'
  BY <1>i, <1>1, <1>2, TypeFacts DEF PInv, SendOnce, SendStack, SendState, SendPoints, Waiting,
    Shapes, Shape, Stays
<1>16. SendersLive'
  BY <1>i, <1>1, <1>2, TypeFacts DEF PInv, SendersLive, LiveSend, Stays
<1>17. Unparked' /\ IdStack'
  BY <1>i, <1>1, <1>2, TypeFacts DEF PInv, Unparked, IdStack, Shapes, Shape, SendPoints,
    SendOnce, Stays
<1>18. RecvRegistered'
  BY <1>i, <1>o, <1>1, <1>2, TypeFacts, RegFacts DEF PInv, RecvRegistered, Disconnected, Reg,
    Shapes, Shape, Stays
<1>19. SendRegs' /\ RecvTerminal'
  BY <1>i, <1>1, <1>2, TypeFacts, RegFacts DEF PInv, SendRegs, RecvTerminal, LiveSend,
    Disconnected, Stays, Reg
<1>20. SendTerminal'
  BY <1>i, <1>1, <1>2, TypeFacts, RegFacts DEF PInv, SendTerminal, ClosedToSend, Closing, Below,
    Suspended, CallbackPoints, Stays
<1>21. RecvWakeup'
  BY <1>i, <1>o, <1>1, <1>2, TypeFacts, RegFacts DEF PInv, RecvWakeup, NoLostRecvWakeup,
    Notifying, Reg, Disconnected, Shapes, Shape, Stays
<1>22. SendWakeup'
  BY <1>i, <1>o, <1>1, <1>2, TypeFacts, RegFacts DEF PInv, SendWakeup, SendWaits, Reg, IsFull,
    Closing, Shapes, Shape, Stays
<1>23. DisconnectIsFinal' /\ QueueDrained'
  BY <1>i, <1>1, <1>2, TypeFacts DEF PInv, DisconnectIsFinal, StreamTerminated, QueueDrained,
    ReceiverDropping, Disconnected, Stays
<1>24. OutcomeExact'
  BY <1>i, <1>1, <1>2, TypeFacts DEF PInv, OutcomeExact, Accepted, Stays
<1> QED
  BY <1>2, <1>10, <1>11, <1>12, <1>13, <1>14, <1>15, <1>16, <1>17, <1>18, <1>19, <1>20, <1>21,
    <1>22, <1>23, <1>24 DEF PInv

\* The last Sender goes when no Send borrows it, and takes the receiver's waker.
LEMMA DropLastSenderInv ==
  ASSUME PInv, DropLastSender
  PROVE  PInv'
<1> USE MpscAssumption
<1>i. PInv /\ DataType
  BY DEF PInv
<1>1. /\ MayCall /\ senders' = 0 /\ \A i \in Items : ~LiveSend(i)
      /\ recv_waker' = None /\ woken \subseteq woken' /\ woken' \subseteq Items \cup Tasks
      /\ \A t \in Tasks : recv_waker = t => t \in woken'
      /\ UNCHANGED <<queue, inHand, rxAlive, closed, send_wakers, waker_id, sfut, rfut, parked,
                     pushed, delivered, drained, lost, sawNone, unplugged>>
  BY <1>i, WokenReceiver DEF DropLastSender, SenderBorrowed, chanVars, wakerVars, taskVars, histVars
<1>2. StackIn(Frames)' /\ Pushes("sender_drop", WakeAt(RecvRegs), None, RecvRegs)
  <2>1. "sender_drop" \in Ops /\ RecvRegs \in SUBSET Regs /\ StackIn(Frames) /\ MayCall
    BY <1>i, <1>1, RegFacts DEF PInv, Ops
  <2>2. Call(Waking(Frame("sender_drop", "woke", None), RecvRegs))
    BY DEF DropLastSender
  <2> QED BY <2>1, <2>2, CallWaking
<1>w. WakeAt(RecvRegs) \in Waiting /\ (WakeAt(RecvRegs) = "woke" => RecvRegs = {})
  BY DEF WakeAt, Waiting
<1>o. \A o : Reg(o)' = Reg(o) /\ (Owed(o) => Owed(o)')
  BY <1>1, <1>2 DEF Owed, Reg, Pushes
<1>t. \A t \in Tasks : recv_waker = t => Owed(t)'
  BY <1>1 DEF Owed
<1>10. DataType'
  BY <1>i, <1>1, <1>2, <1>w DEF PInv, DataType, Pushes, IsFrame, Waiting
<1>11. Below' /\ Shapes'
  BY <1>i, <1>1, <1>2, <1>w DEF PInv, Below, Shapes, Shape, Suspended, CallbackPoints,
    SendPoints, Waiting, Pushes, IsFrame
<1>12. OneTake' /\ RxBorrows'
  BY <1>i, <1>1, <1>2, <1>w DEF PInv, OneTake, RxBorrows, TakeOps, Pushes, IsFrame, Waiting
<1>13. HandOK'
  BY <1>i, <1>1, <1>2, <1>w DEF PInv, HandOK, TakeOps, Waiting, Pushes, IsFrame
<1>14. EmptySeen' /\ Registered'
  BY <1>i, <1>1, <1>2, <1>w, TypeFacts DEF PInv, EmptySeen, Registered, Reg, Below, Suspended,
    CallbackPoints, Pushes, IsFrame, Waiting
<1>15. SendOnce' /\ SendStack'
  BY <1>i, <1>1, <1>2, <1>w, TypeFacts DEF PInv, SendOnce, SendStack, SendState, SendPoints,
    Waiting, Shapes, Shape, Pushes, IsFrame
<1>16. SendersLive'
  BY <1>i, <1>1, <1>2, <1>w, TypeFacts DEF PInv, SendersLive, LiveSend, Pushes, IsFrame, Waiting
<1>17. Unparked' /\ IdStack'
  BY <1>i, <1>1, <1>2, <1>w, TypeFacts DEF PInv, Unparked, IdStack, Shapes, Shape, SendPoints,
    SendOnce, Pushes, IsFrame, Waiting
<1>18. RecvRegistered'
  BY <1>i, <1>o, <1>1, <1>2, <1>w, TypeFacts, RegFacts, <1>t DEF PInv, RecvRegistered,
    Disconnected, Reg, Shapes, Shape, Pushes, IsFrame, Waiting
<1>19. SendRegs' /\ RecvTerminal'
  BY <1>i, <1>1, <1>2, <1>w, TypeFacts, RegFacts DEF PInv, SendRegs, RecvTerminal, LiveSend,
    Disconnected, Pushes, IsFrame, Waiting
<1>20. SendTerminal'
  BY <1>i, <1>1, <1>2, <1>w, TypeFacts, RegFacts DEF PInv, SendTerminal, ClosedToSend, Closing,
    Below, Suspended, CallbackPoints, Pushes, IsFrame, Waiting
<1>21. RecvWakeup'
  BY <1>i, <1>o, <1>1, <1>2, <1>w, TypeFacts, RegFacts, <1>t DEF PInv, RecvWakeup,
    NoLostRecvWakeup, Notifying, Reg, Disconnected, Shapes, Shape, Pushes, IsFrame, Waiting
<1>22. SendWakeup'
  BY <1>i, <1>o, <1>1, <1>2, <1>w, TypeFacts, RegFacts DEF PInv, SendWakeup, SendWaits, Reg,
    IsFull, Closing, Shapes, Shape, Pushes, IsFrame, Waiting
<1>23. DisconnectIsFinal' /\ QueueDrained'
  BY <1>i, <1>1, <1>2, <1>w, TypeFacts DEF PInv, DisconnectIsFinal, StreamTerminated,
    QueueDrained, ReceiverDropping, Disconnected, Pushes, IsFrame, Waiting
<1>24. OutcomeExact'
  BY <1>i, <1>1, <1>2, <1>w, TypeFacts DEF PInv, OutcomeExact, Accepted, Pushes, IsFrame,
    Waiting
<1> QED
  BY <1>2, <1>10, <1>11, <1>12, <1>13, <1>14, <1>15, <1>16, <1>17, <1>18, <1>19, <1>20, <1>21,
    <1>22, <1>23, <1>24 DEF PInv

\* close takes the receiver's waker and has the senders still to wake.
LEMMA ClosingInv ==
  ASSUME PInv, NEW who \in {None, Rx}, MayCall, ClosingVia(who)
  PROVE  PInv'
<1> USE MpscAssumption
<1>i. PInv /\ DataType
  BY DEF PInv
<1>1. /\ closed' = TRUE
      /\ recv_waker' = None /\ woken \subseteq woken' /\ woken' \subseteq Items \cup Tasks
      /\ \A t \in Tasks : recv_waker = t => t \in woken'
      /\ UNCHANGED <<queue, inHand, senders, rxAlive, send_wakers, waker_id, sfut, rfut,
                     parked, pushed, delivered, drained, lost, sawNone, unplugged>>
  BY <1>i, WokenReceiver DEF ClosingVia, chanVars, wakerVars, taskVars, histVars
<1>2. StackIn(Frames)' /\ Pushes("close", WakeAt(RecvRegs), who, RecvRegs)
  <2>1. "close" \in Ops /\ RecvRegs \in SUBSET Regs /\ StackIn(Frames) /\ MayCall
    BY <1>i, <1>1, RegFacts DEF PInv, Ops
  <2>2. Call(Waking(Frame("close", "woke", who), RecvRegs))
    BY DEF ClosingVia
  <2> QED BY <2>1, <2>2, CallWaking
<1>w. WakeAt(RecvRegs) \in Waiting /\ (WakeAt(RecvRegs) = "woke" => RecvRegs = {})
  BY DEF WakeAt, Waiting
<1>o. \A o : Reg(o)' = Reg(o) /\ (Owed(o) => Owed(o)')
  BY <1>1, <1>2 DEF Owed, Reg, Pushes
<1>t. \A t \in Tasks : recv_waker = t => Owed(t)'
  BY <1>1 DEF Owed
<1>10. DataType'
  BY <1>i, <1>1, <1>2, <1>w DEF PInv, DataType, Pushes, IsFrame, Waiting
<1>11. Below' /\ Shapes'
  BY <1>i, <1>1, <1>2, <1>w DEF PInv, Below, Shapes, Shape, Suspended, CallbackPoints,
    SendPoints, Waiting, Pushes, IsFrame
<1>12. OneTake' /\ RxBorrows'
  BY <1>i, <1>1, <1>2, <1>w DEF PInv, OneTake, RxBorrows, TakeOps, Pushes, IsFrame, Waiting
<1>13. HandOK'
  BY <1>i, <1>1, <1>2, <1>w DEF PInv, HandOK, TakeOps, Waiting, Pushes, IsFrame
<1>14. EmptySeen' /\ Registered'
  BY <1>i, <1>1, <1>2, <1>w, TypeFacts DEF PInv, EmptySeen, Registered, Reg, Below, Suspended,
    CallbackPoints, Pushes, IsFrame, Waiting
<1>15. SendOnce' /\ SendStack'
  BY <1>i, <1>1, <1>2, <1>w, TypeFacts DEF PInv, SendOnce, SendStack, SendState, SendPoints,
    Waiting, Shapes, Shape, Pushes, IsFrame
<1>16. SendersLive'
  BY <1>i, <1>1, <1>2, <1>w, TypeFacts DEF PInv, SendersLive, LiveSend, Pushes, IsFrame, Waiting
<1>17. Unparked' /\ IdStack'
  BY <1>i, <1>1, <1>2, <1>w, TypeFacts DEF PInv, Unparked, IdStack, Shapes, Shape, SendPoints,
    SendOnce, Pushes, IsFrame, Waiting
<1>18. RecvRegistered'
  BY <1>i, <1>o, <1>1, <1>2, <1>w, TypeFacts, RegFacts, <1>t DEF PInv, RecvRegistered,
    Disconnected, Reg, Shapes, Shape, Pushes, IsFrame, Waiting
<1>19. SendRegs' /\ RecvTerminal'
  BY <1>i, <1>1, <1>2, <1>w, TypeFacts, RegFacts DEF PInv, SendRegs, RecvTerminal, LiveSend,
    Disconnected, Pushes, IsFrame, Waiting
<1>20. SendTerminal'
  BY <1>i, <1>1, <1>2, <1>w, TypeFacts, RegFacts DEF PInv, SendTerminal, ClosedToSend, Closing,
    Below, Suspended, CallbackPoints, Pushes, IsFrame, Waiting
<1>21. RecvWakeup'
  BY <1>i, <1>o, <1>1, <1>2, <1>w, TypeFacts, RegFacts, <1>t DEF PInv, RecvWakeup,
    NoLostRecvWakeup, Notifying, Reg, Disconnected, Shapes, Shape, Pushes, IsFrame, Waiting
<1>22. SendWakeup'
  BY <1>i, <1>o, <1>1, <1>2, <1>w, TypeFacts, RegFacts DEF PInv, SendWakeup, SendWaits, Reg,
    IsFull, Closing, Shapes, Shape, Pushes, IsFrame, Waiting
<1>23. DisconnectIsFinal' /\ QueueDrained'
  BY <1>i, <1>1, <1>2, <1>w, TypeFacts DEF PInv, DisconnectIsFinal, StreamTerminated,
    QueueDrained, ReceiverDropping, Disconnected, Pushes, IsFrame, Waiting
<1>24. OutcomeExact'
  BY <1>i, <1>1, <1>2, <1>w, TypeFacts DEF PInv, OutcomeExact, Accepted, Pushes, IsFrame,
    Waiting
<1> QED
  BY <1>2, <1>10, <1>11, <1>12, <1>13, <1>14, <1>15, <1>16, <1>17, <1>18, <1>19, <1>20, <1>21,
    <1>22, <1>23, <1>24 DEF PInv

\* try_recv begins on a Receiver that nothing borrows.
LEMMA TryRecvInv ==
  ASSUME PInv, TryRecv
  PROVE  PInv'
<1> USE MpscAssumption
<1>i. PInv /\ DataType
  BY DEF PInv
<1>1. /\ MayCall /\ rxAlive /\ \A d \in Live : frames[d].op \notin TakeOps
      /\ UNCHANGED <<queue, inHand, senders, rxAlive, closed, recv_waker, send_wakers,
                     waker_id, sfut, rfut, parked, woken, pushed, delivered, drained, lost,
                     sawNone, unplugged>>
  BY DEF TryRecv, RxFree, RxShared, RecvRunning, chanVars, wakerVars, taskVars, histVars
<1>2. StackIn(Frames)' /\ Pushes("try_recv", "take", None, {})
  <2>1. "try_recv" \in Ops /\ "take" \in Labels /\ StackIn(Frames) /\ MayCall
    BY <1>i, <1>1 DEF PInv, Ops, TakeOps, Labels
  <2>2. Call(Frame("try_recv", "take", None))
    BY <1>1 DEF TryRecv
  <2> QED BY <2>1, <2>2, CallNew
<1>o. \A o : Reg(o)' = Reg(o) /\ (Owed(o) => Owed(o)')
  BY <1>1, <1>2 DEF Owed, Reg, Pushes
<1>10. DataType'
  BY <1>i, <1>1, <1>2 DEF PInv, DataType, Pushes, IsFrame
<1>11. Below' /\ Shapes'
  BY <1>i, <1>1, <1>2 DEF PInv, Below, Shapes, Shape, Suspended, CallbackPoints, SendPoints,
    Waiting, Pushes, IsFrame, TakeOps
<1>12. OneTake' /\ RxBorrows'
  BY <1>i, <1>1, <1>2 DEF PInv, OneTake, RxBorrows, TakeOps, Pushes, IsFrame
<1>13. HandOK'
  BY <1>i, <1>1, <1>2 DEF PInv, HandOK, TakeOps, Waiting, Pushes, IsFrame
<1>14. EmptySeen' /\ Registered'
  BY <1>i, <1>1, <1>2, TypeFacts DEF PInv, EmptySeen, Registered, Reg, Below, Suspended,
    CallbackPoints, Pushes, IsFrame
<1>15. SendOnce' /\ SendStack'
  <2>1. SendOnce'
    BY <1>i, <1>1, <1>2 DEF PInv, SendOnce, Pushes, IsFrame
  <2>2. ASSUME NEW d \in Live, frames[d].op = "send"
        PROVE  frames[d].who \in Items /\ sfut'[frames[d].who] = sfut[frames[d].who]
    BY <1>i, <1>1, <2>2, TypeFacts DEF PInv, Shapes, Shape, SendStack, SendState, Waiting,
      SendPoints
  <2>3. SendStack'
    BY <1>i, <1>2, <2>2 DEF PInv, SendStack, SendState, Pushes, IsFrame
  <2> QED BY <2>1, <2>3
<1>16. SendersLive'
  BY <1>i, <1>1, <1>2, TypeFacts DEF PInv, SendersLive, LiveSend, Pushes, IsFrame
<1>17. Unparked' /\ IdStack'
  <2>1. Unparked'
    BY <1>i, <1>1, <1>2 DEF PInv, Unparked, Pushes, IsFrame
  <2>2. IdStack'
    BY <1>i, <1>1, <1>2 DEF PInv, IdStack, Pushes, IsFrame
  <2> QED BY <2>1, <2>2
<1>18. RecvRegistered'
  <2>1. Disconnected' <=> Disconnected
    BY <1>1 DEF Disconnected
  <2> QED BY <1>i, <1>o, <1>1, <1>2, <2>1 DEF PInv, RecvRegistered, Pushes, IsFrame
<1>19. SendRegs' /\ RecvTerminal'
  BY <1>i, <1>1, <1>2, TypeFacts, RegFacts DEF PInv, SendRegs, RecvTerminal, LiveSend,
    Disconnected, Pushes, IsFrame
<1>20. SendTerminal'
  BY <1>i, <1>1, <1>2, TypeFacts, RegFacts DEF PInv, SendTerminal, ClosedToSend, Closing, Below,
    Suspended, CallbackPoints, Pushes, IsFrame
<1>21. RecvWakeup'
  BY <1>i, <1>o, <1>1, <1>2, TypeFacts, RegFacts DEF PInv, RecvWakeup, NoLostRecvWakeup,
    Notifying, Reg, Disconnected, Shapes, Shape, Pushes, IsFrame
<1>22. SendWakeup'
  BY <1>i, <1>o, <1>1, <1>2, TypeFacts, RegFacts DEF PInv, SendWakeup, SendWaits, Reg, IsFull,
    Closing, Shapes, Shape, Pushes, IsFrame
<1>23. DisconnectIsFinal' /\ QueueDrained'
  BY <1>i, <1>1, <1>2, TypeFacts DEF PInv, DisconnectIsFinal, StreamTerminated, QueueDrained,
    ReceiverDropping, Disconnected, Pushes, IsFrame
<1>24. OutcomeExact'
  BY <1>i, <1>1, <1>2, TypeFacts DEF PInv, OutcomeExact, Accepted, Pushes, IsFrame
<1> QED
  BY <1>2, <1>10, <1>11, <1>12, <1>13, <1>14, <1>15, <1>16, <1>17, <1>18, <1>19, <1>20, <1>21,
    <1>22, <1>23, <1>24 DEF PInv

\* A poll_recv begins: the consumer is not parked any more.
LEMMA PollingInv ==
  ASSUME PInv, NEW t \in Tasks, PollRecv(t) \/ PollNext(t)
  PROVE  PInv'
<1> USE MpscAssumption
<1>i. PInv /\ DataType
  BY DEF PInv
<1>0. MayCall /\ rxAlive /\ (\A d \in Live : frames[d].op \notin TakeOps) /\ Polling(t)
  BY <1>i DEF PollRecv, PollNext, RxFree, RxShared, RecvRunning, PInv, RxBorrows
<1>1. /\ MayCall /\ rxAlive /\ \A d \in Live : frames[d].op \notin TakeOps
      /\ rfut' \in RecvStates /\ unplugged' = FALSE
      /\ parked' = parked \ Tasks /\ woken' = woken \ {t}
      /\ UNCHANGED <<queue, inHand, senders, rxAlive, closed, recv_waker, send_wakers,
                     waker_id, sfut, pushed, delivered, drained, lost, sawNone>>
  BY <1>i, <1>0 DEF PollRecv, PollNext, DataType, RecvStates, Polling, chanVars, wakerVars,
    taskVars, histVars
<1>2. StackIn(Frames)' /\ Pushes("poll1", "take", t, {})
  <2>1. "poll1" \in Ops /\ "take" \in Labels /\ StackIn(Frames) /\ MayCall
    BY <1>i, <1>0 DEF PInv, Ops, TakeOps, Labels
  <2>2. Call(Frame("poll1", "take", t))
    BY <1>0 DEF Polling
  <2> QED BY <2>1, <2>2, CallNew
<1>o. \A o : o /= t => Reg(o)' = Reg(o) /\ (Owed(o) => Owed(o)')
  BY <1>1, <1>2 DEF Owed, Reg, Pushes
<1>10. DataType'
  BY <1>i, <1>1, <1>2 DEF PInv, DataType, Pushes, IsFrame
<1>11. Below' /\ Shapes'
  BY <1>i, <1>1, <1>2 DEF PInv, Below, Shapes, Shape, Suspended, CallbackPoints, SendPoints,
    Waiting, Pushes, IsFrame, TakeOps
<1>12. OneTake' /\ RxBorrows'
  BY <1>i, <1>1, <1>2 DEF PInv, OneTake, RxBorrows, TakeOps, Pushes, IsFrame
<1>13. HandOK'
  BY <1>i, <1>1, <1>2 DEF PInv, HandOK, TakeOps, Waiting, Pushes, IsFrame
<1>14. EmptySeen' /\ Registered'
  BY <1>i, <1>1, <1>2, TypeFacts DEF PInv, EmptySeen, Registered, Reg, Below, Suspended,
    CallbackPoints, Pushes, IsFrame
<1>15. SendOnce' /\ SendStack'
  BY <1>i, <1>1, <1>2, TypeFacts DEF PInv, SendOnce, SendStack, SendState, SendPoints, Waiting,
    Shapes, Shape, Pushes, IsFrame
<1>16. SendersLive'
  BY <1>i, <1>1, <1>2, TypeFacts DEF PInv, SendersLive, LiveSend, Pushes, IsFrame
<1>17. Unparked' /\ IdStack'
  BY <1>i, <1>1, <1>2, TypeFacts DEF PInv, Unparked, IdStack, Shapes, Shape, SendPoints,
    SendOnce, Pushes, IsFrame
<1>18. RecvRegistered'
  BY <1>i, <1>o, <1>1, <1>2, TypeFacts, RegFacts DEF PInv, RecvRegistered, Disconnected, Reg,
    Shapes, Shape, Pushes, IsFrame, TakeOps
<1>19. SendRegs' /\ RecvTerminal'
  BY <1>i, <1>1, <1>2, TypeFacts, RegFacts DEF PInv, SendRegs, RecvTerminal, LiveSend,
    Disconnected, Pushes, IsFrame
<1>20. SendTerminal'
  BY <1>i, <1>1, <1>2, TypeFacts, RegFacts DEF PInv, SendTerminal, ClosedToSend, Closing, Below,
    Suspended, CallbackPoints, Pushes, IsFrame
<1>21. RecvWakeup'
  BY <1>i, <1>o, <1>1, <1>2, TypeFacts, RegFacts DEF PInv, RecvWakeup, NoLostRecvWakeup,
    Notifying, Reg, Disconnected, Shapes, Shape, Pushes, IsFrame
<1>22. SendWakeup'
  <2>1. \A i \in Items : i /= t
    OBVIOUS
  <2>2. (Closing => Closing') /\ aborted' = aborted
    BY <1>2 DEF Closing, Pushes
  <2>3. \A i \in parked' \cap Items : i \in parked
    BY <1>1
  <2> QED BY <1>i, <1>1, <1>o, <2>1, <2>2, <2>3 DEF PInv, SendWakeup, SendWaits, IsFull
<1>23. DisconnectIsFinal' /\ QueueDrained'
  BY <1>i, <1>1, <1>2, TypeFacts DEF PInv, DisconnectIsFinal, StreamTerminated, QueueDrained,
    ReceiverDropping, Disconnected, Pushes, IsFrame
<1>24. OutcomeExact'
  BY <1>i, <1>1, <1>2, TypeFacts DEF PInv, OutcomeExact, Accepted, Pushes, IsFrame
<1> QED
  BY <1>2, <1>10, <1>11, <1>12, <1>13, <1>14, <1>15, <1>16, <1>17, <1>18, <1>19, <1>20, <1>21,
    <1>22, <1>23, <1>24 DEF PInv

\* A Recv that is dropped ends the wait of the task that polled it.
LEMMA DropRecvInv ==
  ASSUME PInv, DropRecv
  PROVE  PInv'
<1> USE MpscAssumption
<1>i. PInv /\ DataType
  BY DEF PInv
<1>1. /\ \A d \in Live : frames[d].op \notin TakeOps
      /\ rfut' = "none" /\ recv_waker' \in {None, recv_waker}
      /\ parked' \subseteq parked /\ unplugged' \in BOOLEAN
      /\ ~unplugged' => ~unplugged /\ (parked' \cap Tasks = {} \/ recv_waker' = recv_waker)
      /\ UNCHANGED <<queue, inHand, senders, rxAlive, closed, send_wakers, waker_id, sfut,
                     woken, pushed, delivered, drained, lost, sawNone>>
  BY <1>i DEF DataType, DropRecv, RecvRunning, chanVars, wakerVars, taskVars, histVars
<1>2. StackIn(Frames)' /\ Stays
  BY SameStep DEF DropRecv, PInv
<1>o. \A o : Reg(o)' = Reg(o) /\ (Owed(o) => Owed(o)')
  BY <1>1, <1>2 DEF Owed, Reg, Stays
<1>10. DataType'
  BY <1>i, <1>1, <1>2 DEF PInv, DataType, RecvStates, Stays
<1>11. Below' /\ Shapes'
  BY <1>i, <1>1, <1>2 DEF PInv, Below, Shapes, Shape, Suspended, CallbackPoints, SendPoints,
    Waiting, Stays
<1>12. OneTake' /\ RxBorrows'
  BY <1>i, <1>1, <1>2 DEF PInv, OneTake, RxBorrows, TakeOps, Stays
<1>13. HandOK'
  BY <1>i, <1>1, <1>2 DEF PInv, HandOK, TakeOps, Waiting, Stays
<1>14. EmptySeen' /\ Registered'
  BY <1>i, <1>1, <1>2, TypeFacts DEF PInv, EmptySeen, Registered, Reg, Below, Suspended,
    CallbackPoints, Stays
<1>15. SendOnce' /\ SendStack'
  BY <1>i, <1>1, <1>2, TypeFacts DEF PInv, SendOnce, SendStack, SendState, SendPoints, Waiting,
    Shapes, Shape, Stays
<1>16. SendersLive'
  BY <1>i, <1>1, <1>2, TypeFacts DEF PInv, SendersLive, LiveSend, Stays
<1>17. Unparked' /\ IdStack'
  BY <1>i, <1>1, <1>2, TypeFacts DEF PInv, Unparked, IdStack, Shapes, Shape, SendPoints,
    SendOnce, Stays
<1>18. RecvRegistered'
  BY <1>i, <1>o, <1>1, <1>2, TypeFacts, RegFacts DEF PInv, RecvRegistered, Disconnected, Reg,
    Shapes, Shape, Stays, TakeOps
<1>19. SendRegs' /\ RecvTerminal'
  BY <1>i, <1>1, <1>2, TypeFacts, RegFacts DEF PInv, SendRegs, RecvTerminal, LiveSend,
    Disconnected, Stays
<1>20. SendTerminal'
  BY <1>i, <1>1, <1>2, TypeFacts, RegFacts DEF PInv, SendTerminal, ClosedToSend, Closing, Below,
    Suspended, CallbackPoints, Stays
<1>21. RecvWakeup'
  BY <1>i, <1>o, <1>1, <1>2, TypeFacts, RegFacts DEF PInv, RecvWakeup, NoLostRecvWakeup,
    Notifying, Reg, Disconnected, Shapes, Shape, Stays
<1>22. SendWakeup'
  BY <1>i, <1>o, <1>1, <1>2, TypeFacts, RegFacts DEF PInv, SendWakeup, SendWaits, Reg, IsFull,
    Closing, Shapes, Shape, Stays
<1>23. DisconnectIsFinal' /\ QueueDrained'
  BY <1>i, <1>1, <1>2, TypeFacts DEF PInv, DisconnectIsFinal, StreamTerminated, QueueDrained,
    ReceiverDropping, Disconnected, Stays
<1>24. OutcomeExact'
  BY <1>i, <1>1, <1>2, TypeFacts DEF PInv, OutcomeExact, Accepted, Stays
<1> QED
  BY <1>2, <1>10, <1>11, <1>12, <1>13, <1>14, <1>15, <1>16, <1>17, <1>18, <1>19, <1>20, <1>21,
    <1>22, <1>23, <1>24 DEF PInv

\* The Receiver's drop takes every sender's waker.
LEMMA DropReceiverInv ==
  ASSUME PInv, DropReceiver
  PROVE  PInv'
<1> USE MpscAssumption
<1>i. PInv /\ DataType
  BY DEF PInv
<1>1. /\ MayCall /\ rxAlive' = FALSE /\ rfut = "none" /\ \A d \in Live : frames[d].op \notin TakeOps
      /\ send_wakers' = {} /\ parked' = parked \ Tasks
      /\ UNCHANGED <<queue, inHand, senders, closed, recv_waker, waker_id, sfut, rfut, woken,
                     pushed, delivered, drained, lost, sawNone, unplugged>>
  BY DEF DropReceiver, RxFree, RxShared, RecvRunning, chanVars, wakerVars, taskVars, histVars
<1>2. StackIn(Frames)' /\ Pushes("receiver_drop", WakeAt(send_wakers), Rx, send_wakers)
  <2>1. "receiver_drop" \in Ops /\ send_wakers \in SUBSET Regs /\ StackIn(Frames) /\ MayCall
    BY <1>i, <1>1, RegFacts DEF PInv, Ops
  <2>2. Call(Waking(Frame("receiver_drop", "woke", Rx), send_wakers))
    BY DEF DropReceiver
  <2> QED BY <2>1, <2>2, CallWaking
<1>w. WakeAt(send_wakers) \in Waiting /\ (WakeAt(send_wakers) = "woke" => send_wakers = {})
  BY DEF WakeAt, Waiting
<1>o. \A o : Reg(o)' = Reg(o) /\ (Owed(o) => Owed(o)')
  BY <1>1, <1>2 DEF Owed, Reg, Pushes
<1>t. \A o \in Items : Reg(o) \in send_wakers => Owed(o)'
  BY <1>i, <1>2, <1>o, RegFacts DEF Owed, Pushes, IsFrame
<1>10. DataType'
  BY <1>i, <1>1, <1>2, <1>w DEF PInv, DataType, Pushes, IsFrame, Waiting
<1>11. Below' /\ Shapes'
  BY <1>i, <1>1, <1>2, <1>w DEF PInv, Below, Shapes, Shape, Suspended, CallbackPoints,
    SendPoints, Waiting, Pushes, IsFrame
<1>12. OneTake' /\ RxBorrows'
  BY <1>i, <1>1, <1>2, <1>w DEF PInv, OneTake, RxBorrows, TakeOps, Pushes, IsFrame, Waiting
<1>13. HandOK'
  BY <1>i, <1>1, <1>2, <1>w DEF PInv, HandOK, TakeOps, Waiting, Pushes, IsFrame
<1>14. EmptySeen' /\ Registered'
  BY <1>i, <1>1, <1>2, <1>w, TypeFacts DEF PInv, EmptySeen, Registered, Reg, Below, Suspended,
    CallbackPoints, Pushes, IsFrame, Waiting
<1>15. SendOnce' /\ SendStack'
  BY <1>i, <1>1, <1>2, <1>w, TypeFacts DEF PInv, SendOnce, SendStack, SendState, SendPoints,
    Waiting, Shapes, Shape, Pushes, IsFrame
<1>16. SendersLive'
  BY <1>i, <1>1, <1>2, <1>w, TypeFacts DEF PInv, SendersLive, LiveSend, Pushes, IsFrame, Waiting
<1>17. Unparked' /\ IdStack'
  BY <1>i, <1>1, <1>2, <1>w, TypeFacts DEF PInv, Unparked, IdStack, Shapes, Shape, SendPoints,
    SendOnce, Pushes, IsFrame, Waiting
<1>18. RecvRegistered'
  BY <1>i, <1>o, <1>1, <1>2, <1>w, TypeFacts, RegFacts DEF PInv, RecvRegistered, Disconnected,
    Reg, Shapes, Shape, Pushes, IsFrame, Waiting
<1>19. SendRegs' /\ RecvTerminal'
  BY <1>i, <1>1, <1>2, <1>w, TypeFacts, RegFacts DEF PInv, SendRegs, RecvTerminal, LiveSend,
    Disconnected, Pushes, IsFrame, Waiting
<1>20. SendTerminal'
  BY <1>i, <1>1, <1>2, <1>w, TypeFacts, RegFacts DEF PInv, SendTerminal, ClosedToSend, Closing,
    Below, Suspended, CallbackPoints, Pushes, IsFrame, Waiting
<1>21. RecvWakeup'
  BY <1>i, <1>o, <1>1, <1>2, <1>w, TypeFacts, RegFacts DEF PInv, RecvWakeup, NoLostRecvWakeup,
    Notifying, Reg, Disconnected, Shapes, Shape, Pushes, IsFrame, Waiting
<1>22. SendWakeup'
  BY <1>i, <1>o, <1>1, <1>2, <1>w, TypeFacts, RegFacts, <1>t DEF PInv, SendWakeup, SendWaits,
    Reg, IsFull, Closing, Shapes, Shape, Pushes, IsFrame, Waiting
<1>23. DisconnectIsFinal' /\ QueueDrained'
  BY <1>i, <1>1, <1>2, <1>w, TypeFacts DEF PInv, DisconnectIsFinal, StreamTerminated,
    QueueDrained, ReceiverDropping, Disconnected, Pushes, IsFrame, Waiting
<1>24. OutcomeExact'
  BY <1>i, <1>1, <1>2, <1>w, TypeFacts DEF PInv, OutcomeExact, Accepted, Pushes, IsFrame,
    Waiting
<1> QED
  BY <1>2, <1>10, <1>11, <1>12, <1>13, <1>14, <1>15, <1>16, <1>17, <1>18, <1>19, <1>20, <1>21,
    <1>22, <1>23, <1>24 DEF PInv

\* A waker is called: a task that waits for it is woken.
LEMMA WakeNextInv ==
  ASSUME PInv, NEW p \in Panics, WakeNext(p)
  PROVE  PInv'
<1> USE MpscAssumption
<1>i. PInv /\ DataType
  BY DEF PInv
<1>0. /\ depth > 0 /\ depth \in Live /\ top = frames[depth] /\ top \in Frames
      /\ top.at = "wake"
  BY TopFacts DEF WakeNext, Looking, At, Running, Shape, SendState, SendPoints, Waiting, TakeOps
<1>3. PICK w \in top.todo :
        /\ Goto(Waking([top EXCEPT !.panicked = @ \/ p], top.todo \ {w}))
        /\ woken' = IF w[1] \in Items /\ w = Reg(w[1]) THEN woken \cup {w[1]} ELSE woken
  BY DEF WakeNext
<1>1. /\ top.at = "wake"
      /\ UNCHANGED <<queue, inHand, senders, rxAlive, closed, recv_waker, send_wakers,
                     waker_id, sfut, rfut, parked, pushed, delivered, drained, lost,
                     sawNone, unplugged>>
  BY <1>0 DEF WakeNext, chanVars, wakerVars, taskVars, histVars
<1> DEFINE list == top.todo \ {w}
<1>2. StackIn(Frames)' /\ Moves(top.op, WakeAt(list), top.who, list)
  <2> DEFINE e == [top EXCEPT !.panicked = @ \/ p]
  <2>1. e \in Frames /\ e.op = top.op /\ e.who = top.who /\ list \in SUBSET Regs
    BY <1>0, ReentryAssumption DEF Frames, Regs
  <2>2. Goto(Waking(e, list))
    BY <1>3
  <2> HIDE DEF e
  <2> QED BY <1>i, <1>0, <2>1, <2>2, GotoWaking DEF PInv
<1>w. WakeAt(list) \in Waiting /\ (WakeAt(list) = "woke" => list = {})
  BY DEF WakeAt, Waiting
<1>4. /\ woken \subseteq woken' /\ woken' \subseteq Items \cup Tasks
      /\ w[1] \in Items /\ w = Reg(w[1]) => w[1] \in woken'
  <2>1. w \in Regs
    BY <1>0 DEF Frames, Regs
  <2>2. w[1] \in Items \cup Tasks
    BY <2>1 DEF Regs
  <2>3. woken \subseteq Items \cup Tasks
    BY <1>i DEF DataType
  <2> QED BY <1>3, <2>2, <2>3
<1>o. \A o : Reg(o)' = Reg(o) /\ (Owed(o) => Owed(o)')
  <2>1. \A o : Reg(o)' = Reg(o) /\ Reg(o)[1] = o
    BY <1>1 DEF Reg
  <2>2. \A d \in Live : \A v \in frames[d].todo : v /= w => v \in frames'[d].todo
    BY <1>0, <1>2 DEF Moves, IsFrame
  <2>3. Live' = Live
    BY <1>2 DEF Moves
  <2> QED BY <1>4, <2>1, <2>2, <2>3 DEF Owed
<1> HIDE DEF list
<1>10. DataType'
  BY <1>i, <1>0, <1>1, <1>2, <1>w, <1>4 DEF PInv, DataType, Moves, IsFrame, Waiting
<1>11. Below' /\ Shapes'
  BY <1>i, <1>0, <1>1, <1>2, <1>w, <1>4 DEF PInv, Below, Shapes, Shape, Suspended,
    CallbackPoints, SendPoints, Waiting, Moves, IsFrame
<1>12. OneTake' /\ RxBorrows'
  BY <1>i, <1>0, <1>1, <1>2, <1>w, <1>4 DEF PInv, OneTake, RxBorrows, TakeOps, Moves, IsFrame,
    Waiting
<1>13. HandOK'
  BY <1>i, <1>0, <1>1, <1>2, <1>w, <1>4 DEF PInv, HandOK, TakeOps, Waiting, Moves, IsFrame
<1>14. EmptySeen' /\ Registered'
  BY <1>i, <1>0, <1>1, <1>2, <1>w, <1>4, TypeFacts DEF PInv, EmptySeen, Registered, Reg, Below,
    Suspended, CallbackPoints, Moves, IsFrame, Waiting
<1>15. SendOnce' /\ SendStack'
  BY <1>i, <1>0, <1>1, <1>2, <1>w, <1>4, TypeFacts DEF PInv, SendOnce, SendStack, SendState,
    SendPoints, Waiting, Shapes, Shape, Moves, IsFrame
<1>16. SendersLive'
  BY <1>i, <1>0, <1>1, <1>2, <1>w, <1>4, TypeFacts DEF PInv, SendersLive, LiveSend, Moves,
    IsFrame, Waiting
<1>17. Unparked' /\ IdStack'
  BY <1>i, <1>0, <1>1, <1>2, <1>w, <1>4, TypeFacts DEF PInv, Unparked, IdStack, Shapes, Shape,
    SendPoints, SendOnce, Moves, IsFrame, Waiting
<1>18. RecvRegistered'
  BY <1>i, <1>o, <1>0, <1>1, <1>2, <1>w, <1>4, TypeFacts, RegFacts DEF PInv, RecvRegistered,
    Disconnected, Reg, Shapes, Shape, Moves, IsFrame, Waiting
<1>19. SendRegs' /\ RecvTerminal'
  BY <1>i, <1>0, <1>1, <1>2, <1>w, <1>4, TypeFacts, RegFacts DEF PInv, SendRegs, RecvTerminal,
    LiveSend, Disconnected, Moves, IsFrame, Waiting
<1>20. SendTerminal'
  BY <1>i, <1>0, <1>1, <1>2, <1>w, <1>4, TypeFacts, RegFacts DEF PInv, SendTerminal,
    ClosedToSend, Closing, Below, Suspended, CallbackPoints, Moves, IsFrame, Waiting
<1>21. RecvWakeup'
  BY <1>i, <1>o, <1>0, <1>1, <1>2, <1>w, <1>4, TypeFacts, RegFacts DEF PInv, RecvWakeup,
    NoLostRecvWakeup, Notifying, Reg, Disconnected, Shapes, Shape, Moves, IsFrame, Waiting
<1>22. SendWakeup'
  BY <1>i, <1>o, <1>0, <1>1, <1>2, <1>w, <1>4, TypeFacts, RegFacts DEF PInv, SendWakeup,
    SendWaits, Reg, IsFull, Closing, Shapes, Shape, Moves, IsFrame, Waiting
<1>23. DisconnectIsFinal' /\ QueueDrained'
  BY <1>i, <1>0, <1>1, <1>2, <1>w, <1>4, TypeFacts DEF PInv, DisconnectIsFinal,
    StreamTerminated, QueueDrained, ReceiverDropping, Disconnected, Moves, IsFrame, Waiting
<1>24. OutcomeExact'
  BY <1>i, <1>0, <1>1, <1>2, <1>w, <1>4, TypeFacts DEF PInv, OutcomeExact, Accepted, Moves,
    IsFrame, Waiting
<1> QED
  BY <1>2, <1>10, <1>11, <1>12, <1>13, <1>14, <1>15, <1>16, <1>17, <1>18, <1>19, <1>20, <1>21,
    <1>22, <1>23, <1>24 DEF PInv

\* close goes on to the senders, whose wakers it takes.
LEMMA CloseSendersInv ==
  ASSUME PInv, CloseSenders
  PROVE  PInv'
<1> USE MpscAssumption
<1>i. PInv /\ DataType
  BY DEF PInv
<1>0. /\ depth > 0 /\ depth \in Live /\ top = frames[depth] /\ top \in Frames
      /\ top.at = "woke" /\ top.op = "close" /\ top.todo = {}
  BY TopFacts DEF CloseSenders, Looking, At, Running, Shape, SendState, SendPoints, Waiting,
    TakeOps
<1>1. /\ send_wakers' = {}
      /\ UNCHANGED <<queue, inHand, senders, rxAlive, closed, recv_waker, waker_id, sfut, rfut,
                     parked, woken, pushed, delivered, drained, lost, sawNone, unplugged>>
  BY DEF CloseSenders, chanVars, wakerVars, taskVars, histVars
<1>2. StackIn(Frames)' /\ Moves("close2", WakeAt(send_wakers), top.who, send_wakers)
  <2> DEFINE e == [top EXCEPT !.op = "close2"]
  <2>1. e \in Frames /\ e.op = "close2" /\ e.who = top.who
    BY <1>0 DEF Frames, Ops
  <2>2. Goto(Waking(e, send_wakers))
    BY DEF CloseSenders
  <2> HIDE DEF e
  <2> QED BY <1>i, <1>0, <2>1, <2>2, RegFacts, GotoWaking DEF PInv
<1>w. WakeAt(send_wakers) \in Waiting /\ (WakeAt(send_wakers) = "woke" => send_wakers = {})
  BY DEF WakeAt, Waiting
<1>o. \A o : Reg(o)' = Reg(o) /\ (Owed(o) => Owed(o)')
  BY <1>0, <1>1, <1>2 DEF Owed, Reg, Moves, IsFrame
<1>t. \A o \in Items : Reg(o) \in send_wakers => Owed(o)'
  BY <1>i, <1>0, <1>2, <1>o, RegFacts DEF Owed, Moves, IsFrame
<1>10. DataType'
  BY <1>i, <1>0, <1>1, <1>2, <1>w DEF PInv, DataType, Moves, IsFrame, Waiting
<1>11. Below' /\ Shapes'
  BY <1>i, <1>0, <1>1, <1>2, <1>w DEF PInv, Below, Shapes, Shape, Suspended, CallbackPoints,
    SendPoints, Waiting, Moves, IsFrame
<1>12. OneTake' /\ RxBorrows'
  BY <1>i, <1>0, <1>1, <1>2, <1>w DEF PInv, OneTake, RxBorrows, TakeOps, Moves, IsFrame, Waiting
<1>13. HandOK'
  BY <1>i, <1>0, <1>1, <1>2, <1>w DEF PInv, HandOK, TakeOps, Waiting, Moves, IsFrame
<1>14. EmptySeen' /\ Registered'
  BY <1>i, <1>0, <1>1, <1>2, <1>w, TypeFacts DEF PInv, EmptySeen, Registered, Reg, Below,
    Suspended, CallbackPoints, Moves, IsFrame, Waiting
<1>15. SendOnce' /\ SendStack'
  BY <1>i, <1>0, <1>1, <1>2, <1>w, TypeFacts DEF PInv, SendOnce, SendStack, SendState,
    SendPoints, Waiting, Shapes, Shape, Moves, IsFrame
<1>16. SendersLive'
  BY <1>i, <1>0, <1>1, <1>2, <1>w, TypeFacts DEF PInv, SendersLive, LiveSend, Moves, IsFrame,
    Waiting
<1>17. Unparked' /\ IdStack'
  BY <1>i, <1>0, <1>1, <1>2, <1>w, TypeFacts DEF PInv, Unparked, IdStack, Shapes, Shape,
    SendPoints, SendOnce, Moves, IsFrame, Waiting
<1>18. RecvRegistered'
  BY <1>i, <1>o, <1>0, <1>1, <1>2, <1>w, TypeFacts, RegFacts DEF PInv, RecvRegistered,
    Disconnected, Reg, Shapes, Shape, Moves, IsFrame, Waiting
<1>19. SendRegs' /\ RecvTerminal'
  BY <1>i, <1>0, <1>1, <1>2, <1>w, TypeFacts, RegFacts DEF PInv, SendRegs, RecvTerminal,
    LiveSend, Disconnected, Moves, IsFrame, Waiting
<1>20. SendTerminal'
  BY <1>i, <1>0, <1>1, <1>2, <1>w, TypeFacts, RegFacts DEF PInv, SendTerminal, ClosedToSend,
    Closing, Below, Suspended, CallbackPoints, Moves, IsFrame, Waiting
<1>21. RecvWakeup'
  BY <1>i, <1>o, <1>0, <1>1, <1>2, <1>w, TypeFacts, RegFacts DEF PInv, RecvWakeup,
    NoLostRecvWakeup, Notifying, Reg, Disconnected, Shapes, Shape, Moves, IsFrame, Waiting
<1>22. SendWakeup'
  BY <1>i, <1>o, <1>0, <1>1, <1>2, <1>w, TypeFacts, RegFacts, <1>t DEF PInv, SendWakeup,
    SendWaits, Reg, IsFull, Closing, Shapes, Shape, Moves, IsFrame, Waiting
<1>23. DisconnectIsFinal' /\ QueueDrained'
  BY <1>i, <1>0, <1>1, <1>2, <1>w, TypeFacts DEF PInv, DisconnectIsFinal, StreamTerminated,
    QueueDrained, ReceiverDropping, Disconnected, Moves, IsFrame, Waiting
<1>24. OutcomeExact'
  BY <1>i, <1>0, <1>1, <1>2, <1>w, TypeFacts DEF PInv, OutcomeExact, Accepted, Moves, IsFrame,
    Waiting
<1> QED
  BY <1>2, <1>10, <1>11, <1>12, <1>13, <1>14, <1>15, <1>16, <1>17, <1>18, <1>19, <1>20, <1>21,
    <1>22, <1>23, <1>24 DEF PInv

\* A send that finds the channel closed removes its registration, whose waker is dropped next.
LEMMA SendClosedDropsInv ==
  ASSUME PInv, SendClosed, Reg(top.who) \in send_wakers
  PROVE  PInv'
<1> USE MpscAssumption
<1>i. PInv /\ DataType
  BY DEF PInv
<1>0. /\ depth > 0 /\ depth \in Live /\ top = frames[depth] /\ top \in Frames
      /\ top.op = "send" /\ top.who \in Items /\ top.todo = {} /\ sfut[top.who] = "pending"
      /\ top.at \in {"first", "recheck"}
  BY TopFacts DEF SendClosed, Looking, At, Running, Shape, SendState, SendPoints, Waiting,
    TakeOps
<1>1. /\ ClosedToSend
      /\ send_wakers' = send_wakers \ {Reg(top.who)} /\ waker_id' = [waker_id EXCEPT ![top.who] = None]
      /\ sfut' = [sfut EXCEPT ![top.who] = "errHeld"]
      /\ UNCHANGED <<queue, inHand, senders, rxAlive, closed, recv_waker, rfut, parked, woken,
                     pushed, delivered, drained, lost, sawNone, unplugged>>
  BY DEF SendClosed, Deregister, chanVars, wakerVars, taskVars, histVars
<1>2. StackIn(Frames)' /\ Moves("send", "drop_commit", top.who, {})
  <2>1. "drop_commit" \in Labels
    BY DEF Labels, CallbackPoints
  <2>2. Goto([top EXCEPT !.at = "drop_commit"])
    BY <1>0 DEF SendClosed
  <2> QED BY <1>i, <1>0, <2>1, <2>2, GotoAt DEF PInv
<1>o. \A o : o /= top.who => Reg(o)' = Reg(o) /\ (Owed(o) => Owed(o)')
  <2>1. \A o : o /= top.who => Reg(o)' = Reg(o)
    BY <1>i, <1>0, <1>1, TypeFacts DEF Reg
  <2> QED BY <1>0, <1>1, <1>2, <2>1 DEF Owed, Moves, IsFrame
<1>9. /\ sfut'[top.who] = "errHeld" /\ \A i \in Items \ {top.who} : sfut'[i] = sfut[i]
      /\ waker_id'[top.who] = None /\ \A o \in Items \ {top.who} : waker_id'[o] = waker_id[o]
      /\ sfut' \in [Items -> SendStates] /\ waker_id' \in [Items -> WakerIds \cup {None}]
  BY <1>i, <1>0, <1>1, TypeFacts DEF SendStates
<1>10. DataType'
  BY <1>i, <1>0, <1>1, <1>2, <1>9 DEF PInv, DataType, Moves, IsFrame
<1>11. Below' /\ Shapes'
  BY <1>i, <1>0, <1>1, <1>2, <1>9 DEF PInv, Below, Shapes, Shape, Suspended, CallbackPoints,
    SendPoints, Waiting, Moves, IsFrame
<1>12. OneTake' /\ RxBorrows'
  BY <1>i, <1>0, <1>1, <1>2, <1>9 DEF PInv, OneTake, RxBorrows, TakeOps, Moves, IsFrame
<1>13. HandOK'
  BY <1>i, <1>0, <1>1, <1>2, <1>9 DEF PInv, HandOK, TakeOps, Waiting, Moves, IsFrame
<1>14. EmptySeen' /\ Registered'
  BY <1>i, <1>0, <1>1, <1>2, <1>9, TypeFacts DEF PInv, EmptySeen, Registered, Reg, Below,
    Suspended, CallbackPoints, Moves, IsFrame
<1>15. SendOnce' /\ SendStack'
  <2>1. SendOnce'
    BY <1>i, <1>0, <1>2 DEF PInv, SendOnce, Moves, IsFrame
  <2>2. \A d \in Live : d /= depth /\ frames[d].op = "send" => frames[d].who \in Items \ {top.who}
    BY <1>i, <1>0 DEF PInv, SendOnce, Shapes, Shape
  <2>3. SendStack'
    BY <1>i, <1>0, <1>2, <1>9, <2>2 DEF PInv, SendStack, SendState, SendPoints, Waiting, Moves,
      IsFrame
  <2> QED BY <2>1, <2>3
<1>16. SendersLive'
  BY <1>i, <1>0, <1>1, <1>2, <1>9, TypeFacts DEF PInv, SendersLive, LiveSend, Moves, IsFrame
<1>17. Unparked' /\ IdStack'
  <2>1. Unparked'
    BY <1>i, <1>0, <1>1, <1>2 DEF PInv, Unparked, Moves, IsFrame
  <2>2. \A d \in Live : d /= depth /\ frames[d].op = "send" => frames[d].who \in Items \ {top.who}
    BY <1>i, <1>0 DEF PInv, SendOnce, Shapes, Shape
  <2>3. IdStack'
    BY <1>i, <1>0, <1>2, <1>9, <2>2 DEF PInv, IdStack, Shapes, Shape, SendPoints, Waiting,
      Moves, IsFrame
  <2> QED BY <2>1, <2>3
<1>18. RecvRegistered'
  BY <1>i, <1>o, <1>0, <1>1, <1>2, <1>9, TypeFacts, RegFacts DEF PInv, RecvRegistered,
    Disconnected, Reg, Shapes, Shape, Moves, IsFrame
<1>19. SendRegs' /\ RecvTerminal'
  BY <1>i, <1>0, <1>1, <1>2, <1>9, TypeFacts, RegFacts DEF PInv, SendRegs, RecvTerminal,
    LiveSend, Disconnected, Moves, IsFrame, Reg
<1>20. SendTerminal'
  <2>1. Closing => Closing'
    BY <1>0, <1>2 DEF Closing, Moves, IsFrame
  <2> SUFFICES ASSUME ClosedToSend', ~Closing', NEW w \in send_wakers'
               PROVE  FALSE
    BY DEF SendTerminal
  <2>2. w \in send_wakers /\ top.who = w[1]
    BY <1>i, <1>1, <2>1 DEF PInv, SendTerminal
  <2>3. w = Reg(top.who)
    BY <1>i, <1>0, <2>2, RegFacts DEF PInv, SendRegs, Reg
  <2> QED BY <1>1, <2>3
<1>21. RecvWakeup'
  <2>1. Notifying => Notifying'
    <3> SUFFICES ASSUME NEW d \in Live, frames[d].at = "drop_commit", sfut[frames[d].who] = "okHeld"
                 PROVE  Notifying'
      BY DEF Notifying
    <3>1. d /= depth /\ frames[d].op = "send" /\ frames[d].who \in Items
      BY <1>i, <1>0 DEF PInv, Shapes, Shape
    <3>2. frames[d].who /= top.who
      BY <1>i, <1>0, <3>1 DEF PInv, SendOnce
    <3> QED BY <1>2, <1>9, <3>1, <3>2 DEF Notifying, Moves
  <2>2. (Disconnected' <=> Disconnected) /\ aborted' = aborted
    BY <1>1, <1>2 DEF Disconnected, Moves
  <2>3. \A t \in Tasks : t /= top.who
    BY <1>0
  <2> QED BY <1>i, <1>o, <1>1, <2>1, <2>2, <2>3 DEF PInv, RecvWakeup, NoLostRecvWakeup
<1>22. SendWakeup'
  <2>1. top.who \notin parked
    BY <1>i, <1>0 DEF PInv, Unparked
  <2>2. \A i \in parked \cap Items : Reg(i) /= Reg(top.who) /\ (Owed(i) => Owed(i)') /\ Reg(i)' = Reg(i)
    BY <1>o, <2>1 DEF Reg
  <2>3. (Closing => Closing') /\ aborted' = aborted
    BY <1>0, <1>2 DEF Closing, Moves, IsFrame
  <2>4. IsFull => IsFull'
    BY <1>1 DEF IsFull
  <2> QED BY <1>i, <1>1, <2>2, <2>3, <2>4 DEF PInv, SendWakeup, SendWaits
<1>23. DisconnectIsFinal' /\ QueueDrained'
  BY <1>i, <1>0, <1>1, <1>2, <1>9, TypeFacts DEF PInv, DisconnectIsFinal, StreamTerminated,
    QueueDrained, ReceiverDropping, Disconnected, Moves, IsFrame
<1>24. OutcomeExact'
  BY <1>i, <1>0, <1>1, <1>2, <1>9, TypeFacts DEF PInv, OutcomeExact, Accepted, Moves, IsFrame
<1> QED
  BY <1>2, <1>10, <1>11, <1>12, <1>13, <1>14, <1>15, <1>16, <1>17, <1>18, <1>19, <1>20, <1>21,
    <1>22, <1>23, <1>24 DEF PInv

\* A send without a registration returns its item at once.
LEMMA SendClosedReturnsInv ==
  ASSUME PInv, SendClosed, Reg(top.who) \notin send_wakers
  PROVE  PInv'
<1> USE MpscAssumption
<1>i. PInv /\ DataType
  BY DEF PInv
<1>0. /\ depth > 0 /\ depth \in Live /\ top = frames[depth] /\ top \in Frames
      /\ top.op = "send" /\ top.who \in Items /\ top.todo = {} /\ sfut[top.who] = "pending"
      /\ top.at \in {"first", "recheck"}
  BY TopFacts DEF SendClosed, Looking, At, Running, Shape, SendState, SendPoints, Waiting,
    TakeOps
<1>1. /\ ClosedToSend
      /\ send_wakers' = send_wakers \ {Reg(top.who)} /\ waker_id' = [waker_id EXCEPT ![top.who] = None]
      /\ sfut' = [sfut EXCEPT ![top.who] = "err"]
      /\ UNCHANGED <<queue, inHand, senders, rxAlive, closed, recv_waker, rfut, parked, woken,
                     pushed, delivered, drained, lost, sawNone, unplugged>>
  BY DEF SendClosed, Deregister, chanVars, wakerVars, taskVars, histVars
<1>2. StackIn(Frames)' /\ Ends
  BY <1>i, <1>0, ReturnStep DEF SendClosed, PInv
<1>o. \A o : o /= top.who => Reg(o)' = Reg(o) /\ (Owed(o) => Owed(o)')
  <2>1. \A o : o /= top.who => Reg(o)' = Reg(o)
    BY <1>i, <1>0, <1>1, TypeFacts DEF Reg
  <2> QED BY <1>0, <1>1, <1>2, <2>1 DEF Owed, Ends
<1>9. /\ sfut'[top.who] = "err" /\ \A i \in Items \ {top.who} : sfut'[i] = sfut[i]
      /\ waker_id'[top.who] = None /\ \A o \in Items \ {top.who} : waker_id'[o] = waker_id[o]
      /\ sfut' \in [Items -> SendStates] /\ waker_id' \in [Items -> WakerIds \cup {None}]
  BY <1>i, <1>0, <1>1, TypeFacts DEF SendStates
<1>n. Notifying => Notifying'
  <2> SUFFICES ASSUME NEW d \in Live, frames[d].at = "drop_commit", sfut[frames[d].who] = "okHeld"
               PROVE  Notifying'
    BY DEF Notifying
  <2>1. d /= depth /\ frames[d].op = "send" /\ frames[d].who \in Items
    BY <1>i, <1>0 DEF PInv, Shapes, Shape
  <2>2. frames[d].who /= top.who
    BY <1>i, <1>0, <2>1 DEF PInv, SendOnce
  <2> QED BY <1>2, <1>9, <2>1, <2>2 DEF Notifying, Ends
<1>10. DataType'
  BY <1>i, <1>0, <1>1, <1>2, <1>9 DEF PInv, DataType, Ends
<1>11. Below' /\ Shapes'
  BY <1>i, <1>0, <1>1, <1>2, <1>9 DEF PInv, Below, Shapes, Shape, Suspended, CallbackPoints,
    SendPoints, Waiting, Ends
<1>12. OneTake' /\ RxBorrows'
  BY <1>i, <1>0, <1>1, <1>2, <1>9 DEF PInv, OneTake, RxBorrows, TakeOps, Ends
<1>13. HandOK'
  BY <1>i, <1>0, <1>1, <1>2, <1>9 DEF PInv, HandOK, TakeOps, Waiting, Ends
<1>14. EmptySeen' /\ Registered'
  BY <1>i, <1>0, <1>1, <1>2, <1>9, TypeFacts DEF PInv, EmptySeen, Registered, Reg, Below,
    Suspended, CallbackPoints, Ends
<1>15. SendOnce' /\ SendStack'
  BY <1>i, <1>0, <1>1, <1>2, <1>9, TypeFacts DEF PInv, SendOnce, SendStack, SendState,
    SendPoints, Waiting, Shapes, Shape, Ends
<1>16. SendersLive'
  BY <1>i, <1>0, <1>1, <1>2, <1>9, TypeFacts DEF PInv, SendersLive, LiveSend, Ends
<1>17. Unparked' /\ IdStack'
  BY <1>i, <1>0, <1>1, <1>2, <1>9, TypeFacts DEF PInv, Unparked, IdStack, Shapes, Shape,
    SendPoints, SendOnce, Ends
<1>18. RecvRegistered'
  BY <1>i, <1>o, <1>0, <1>1, <1>2, <1>9, TypeFacts, RegFacts DEF PInv, RecvRegistered,
    Disconnected, Reg, Shapes, Shape, Ends
<1>19. SendRegs' /\ RecvTerminal'
  BY <1>i, <1>0, <1>1, <1>2, <1>9, TypeFacts, RegFacts DEF PInv, SendRegs, RecvTerminal,
    LiveSend, Disconnected, Ends, Reg
<1>20. SendTerminal'
  <2>1. Closing => Closing'
    BY <1>0, <1>2 DEF Closing, Ends
  <2> SUFFICES ASSUME ClosedToSend', ~Closing', NEW w \in send_wakers'
               PROVE  FALSE
    BY DEF SendTerminal
  <2>2. w \in send_wakers /\ top.who = w[1]
    BY <1>i, <1>1, <2>1 DEF PInv, SendTerminal
  <2>3. w = Reg(top.who)
    BY <1>i, <1>0, <2>2, RegFacts DEF PInv, SendRegs, Reg
  <2> QED BY <1>1, <2>3
<1>21. RecvWakeup'
  BY <1>i, <1>o, <1>o, <1>n, <1>0, <1>1, <1>2 DEF PInv, RecvWakeup, NoLostRecvWakeup,
    Disconnected, Ends
<1>22. SendWakeup'
  <2>1. top.who \notin parked
    BY <1>i, <1>0 DEF PInv, Unparked
  <2>2. \A i \in parked \cap Items : Reg(i) /= Reg(top.who) /\ (Owed(i) => Owed(i)') /\ Reg(i)' = Reg(i)
    BY <1>o, <2>1 DEF Reg
  <2>3. (Closing => Closing') /\ aborted' = aborted
    BY <1>0, <1>2 DEF Closing, Ends
  <2>4. IsFull => IsFull'
    BY <1>1 DEF IsFull
  <2> QED BY <1>i, <1>1, <2>2, <2>3, <2>4 DEF PInv, SendWakeup, SendWaits
<1>23. DisconnectIsFinal' /\ QueueDrained'
  BY <1>i, <1>0, <1>1, <1>2, <1>9, TypeFacts DEF PInv, DisconnectIsFinal, StreamTerminated,
    QueueDrained, ReceiverDropping, Disconnected, Ends
<1>24. OutcomeExact'
  BY <1>i, <1>0, <1>1, <1>2, <1>9, TypeFacts DEF PInv, OutcomeExact, Accepted, Ends
<1> QED
  BY <1>2, <1>10, <1>11, <1>12, <1>13, <1>14, <1>15, <1>16, <1>17, <1>18, <1>19, <1>20, <1>21,
    <1>22, <1>23, <1>24 DEF PInv

\* A send pushes and drops its old waker before it wakes the receiver.
LEMMA SendPushDropsInv ==
  ASSUME PInv, SendPush, Reg(top.who) \in send_wakers
  PROVE  PInv'
<1> USE MpscAssumption
<1>i. PInv /\ DataType
  BY DEF PInv
<1>0. /\ depth > 0 /\ depth \in Live /\ top = frames[depth] /\ top \in Frames
      /\ top.op = "send" /\ top.who \in Items /\ top.todo = {} /\ sfut[top.who] = "pending"
      /\ top.at \in {"first", "recheck"}
  BY TopFacts DEF SendPush, Looking, At, Running, Shape, SendState, SendPoints, Waiting, TakeOps
<1>1. /\ rxAlive /\ ~closed /\ ~IsFull
      /\ queue' = Append(queue, top.who) /\ pushed' = Append(pushed, top.who)
      /\ send_wakers' = send_wakers \ {Reg(top.who)} /\ waker_id' = [waker_id EXCEPT ![top.who] = None]
      /\ sfut' = [sfut EXCEPT ![top.who] = "okHeld"]
      /\ UNCHANGED <<inHand, senders, rxAlive, closed, recv_waker, rfut, parked, woken,
                     delivered, drained, lost, sawNone, unplugged>>
  BY DEF SendPush, Push, MayPush, ClosedToSend, Deregister, chanVars, wakerVars, taskVars,
    histVars
<1>2. StackIn(Frames)' /\ Moves("send", "drop_commit", top.who, {})
  <2>1. "drop_commit" \in Labels
    BY DEF Labels, CallbackPoints
  <2>2. Goto([top EXCEPT !.at = "drop_commit"])
    BY <1>0 DEF SendPush
  <2> QED BY <1>i, <1>0, <2>1, <2>2, GotoAt DEF PInv
<1>o. \A o : o /= top.who => Reg(o)' = Reg(o) /\ (Owed(o) => Owed(o)')
  <2>1. \A o : o /= top.who => Reg(o)' = Reg(o)
    BY <1>i, <1>0, <1>1, TypeFacts DEF Reg
  <2> QED BY <1>0, <1>1, <1>2, <2>1 DEF Owed, Moves, IsFrame
<1>3. /\ queue' /= <<>> /\ queue' \in Seq(Items) /\ pushed' \in Seq(Items) /\ Len(queue') = Len(queue) + 1
      /\ \A j \in Items : Accepted(j)' <=> Accepted(j) \/ j = top.who
  BY <1>i, <1>0, <1>1, AcceptedAppend DEF DataType
<1>4. senders /= 0
  BY <1>i, <1>0 DEF PInv, SendersLive, LiveSend
<1>9. /\ sfut'[top.who] = "okHeld" /\ \A i \in Items \ {top.who} : sfut'[i] = sfut[i]
      /\ waker_id'[top.who] = None /\ \A o \in Items \ {top.who} : waker_id'[o] = waker_id[o]
      /\ sfut' \in [Items -> SendStates] /\ waker_id' \in [Items -> WakerIds \cup {None}]
  BY <1>i, <1>0, <1>1, TypeFacts DEF SendStates
<1>10. DataType'
  BY <1>i, <1>0, <1>1, <1>3, <1>9 DEF PInv, DataType, IsFull
<1>11. Below' /\ Shapes'
  <2>1. Below'
    BY <1>i, <1>0, <1>2 DEF PInv, Below, Moves
  <2>2. Shapes'
    BY <1>i, <1>0, <1>2 DEF PInv, Shapes, Shape, SendPoints, Waiting, Moves, IsFrame
  <2> QED BY <2>1, <2>2
<1>12. OneTake' /\ RxBorrows'
  <2>1. OneTake'
    BY <1>i, <1>0, <1>2 DEF PInv, OneTake, TakeOps, Moves, IsFrame
  <2>2. RxBorrows'
    BY <1>i, <1>0, <1>1, <1>2 DEF PInv, RxBorrows, TakeOps, Moves, IsFrame
  <2> QED BY <2>1, <2>2
<1>13. HandOK'
  BY <1>i, <1>0, <1>1, <1>2, <1>9 DEF PInv, HandOK, TakeOps, Waiting, Moves, IsFrame
<1>14. EmptySeen' /\ Registered'
  BY <1>i, <1>0, <1>1, <1>2, <1>9, TypeFacts DEF PInv, EmptySeen, Registered, Reg, Below,
    Suspended, CallbackPoints, Moves, IsFrame
<1>15. SendOnce' /\ SendStack'
  <2>1. SendOnce'
    BY <1>i, <1>0, <1>2 DEF PInv, SendOnce, Moves, IsFrame
  <2>2. \A d \in Live : d /= depth /\ frames[d].op = "send" => frames[d].who \in Items \ {top.who}
    BY <1>i, <1>0 DEF PInv, SendOnce, Shapes, Shape
  <2>3. SendStack'
    BY <1>i, <1>0, <1>2, <1>9, <2>2 DEF PInv, SendStack, SendState, SendPoints, Waiting, Moves,
      IsFrame
  <2> QED BY <2>1, <2>3
<1>16. SendersLive'
  BY <1>i, <1>0, <1>1, <1>2, <1>9, TypeFacts DEF PInv, SendersLive, LiveSend, Moves, IsFrame
<1>17. Unparked' /\ IdStack'
  <2>1. Unparked'
    BY <1>i, <1>0, <1>1, <1>2 DEF PInv, Unparked, Moves, IsFrame
  <2>2. \A d \in Live : d /= depth /\ frames[d].op = "send" => frames[d].who \in Items \ {top.who}
    BY <1>i, <1>0 DEF PInv, SendOnce, Shapes, Shape
  <2>3. IdStack'
    BY <1>i, <1>0, <1>2, <1>9, <2>2 DEF PInv, IdStack, Shapes, Shape, SendPoints, Waiting,
      Moves, IsFrame
  <2> QED BY <2>1, <2>3
<1>18. RecvRegistered'
  <2>1. Disconnected' <=> Disconnected
    BY <1>1 DEF Disconnected
  <2>2. \A d \in Live : frames[d].op = "poll2" \/ frames[d].at = "drop_replaced" =>
                         frames[d].who \in Tasks /\ frames[d].who /= top.who
    BY <1>i, <1>0 DEF PInv, Shapes, Shape
  <2> QED BY <1>i, <1>o, <1>0, <1>1, <1>2, <2>1, <2>2 DEF PInv, RecvRegistered, Moves, IsFrame
<1>19. SendRegs' /\ RecvTerminal'
  BY <1>i, <1>0, <1>1, <1>2, <1>9, TypeFacts, RegFacts DEF PInv, SendRegs, RecvTerminal,
    LiveSend, Disconnected, Moves, IsFrame, Reg
<1>20. SendTerminal'
  BY <1>i, <1>0, <1>1, <1>2, <1>9, TypeFacts, RegFacts DEF PInv, SendTerminal, ClosedToSend,
    Closing, Below, Suspended, CallbackPoints, Moves, IsFrame
<1>21. RecvWakeup'
  BY <1>i, <1>o, <1>0, <1>1, <1>2, <1>9, TypeFacts, RegFacts DEF PInv, RecvWakeup,
    NoLostRecvWakeup, Notifying, Reg, Disconnected, Shapes, Shape, Moves, IsFrame
<1>22. SendWakeup'
  <2>1. top.who \notin parked
    BY <1>i, <1>0 DEF PInv, Unparked
  <2>2. \A i \in parked \cap Items : Reg(i) /= Reg(top.who) /\ (Owed(i) => Owed(i)') /\ Reg(i)' = Reg(i)
    BY <1>o, <2>1 DEF Reg
  <2>3. (Closing => Closing') /\ aborted' = aborted
    BY <1>0, <1>2 DEF Closing, Moves, IsFrame
  <2>4. IsFull => IsFull'
    BY <1>1
  <2> QED BY <1>i, <1>1, <2>2, <2>3, <2>4 DEF PInv, SendWakeup, SendWaits
<1>23. DisconnectIsFinal' /\ QueueDrained'
  BY <1>i, <1>0, <1>1, <1>2, <1>4, TypeFacts DEF PInv, DisconnectIsFinal, StreamTerminated,
    Disconnected, QueueDrained, Moves
<1>24. OutcomeExact'
  BY <1>i, <1>0, <1>1, <1>3, <1>9, TypeFacts DEF PInv, OutcomeExact
<1> QED
  BY <1>2, <1>10, <1>11, <1>12, <1>13, <1>14, <1>15, <1>16, <1>17, <1>18, <1>19, <1>20, <1>21,
    <1>22, <1>23, <1>24 DEF PInv

\* A send without a registration pushes and takes the receiver's waker.
LEMMA SendPushWakesInv ==
  ASSUME PInv, SendPush, Reg(top.who) \notin send_wakers
  PROVE  PInv'
<1> USE MpscAssumption
<1>i. PInv /\ DataType
  BY DEF PInv
<1>0. /\ depth > 0 /\ depth \in Live /\ top = frames[depth] /\ top \in Frames
      /\ top.op = "send" /\ top.who \in Items /\ top.todo = {} /\ sfut[top.who] = "pending"
      /\ top.at \in {"first", "recheck"}
  BY TopFacts DEF SendPush, Looking, At, Running, Shape, SendState, SendPoints, Waiting, TakeOps
<1>1. /\ rxAlive /\ ~closed /\ ~IsFull
      /\ queue' = Append(queue, top.who) /\ pushed' = Append(pushed, top.who)
      /\ send_wakers' = send_wakers \ {Reg(top.who)} /\ waker_id' = [waker_id EXCEPT ![top.who] = None]
      /\ sfut' = [sfut EXCEPT ![top.who] = "okHeld"]
      /\ recv_waker' = None /\ woken \subseteq woken' /\ woken' \subseteq Items \cup Tasks
      /\ \A t \in Tasks : recv_waker = t => t \in woken'
      /\ UNCHANGED <<inHand, senders, rxAlive, closed, rfut, parked, delivered, drained,
                     lost, sawNone, unplugged>>
  BY <1>i, WokenReceiver DEF SendPush, Push, MayPush, ClosedToSend, Deregister, chanVars,
    wakerVars, taskVars, histVars
<1>2. StackIn(Frames)' /\ Moves(top.op, WakeAt(RecvRegs), top.who, RecvRegs)
  BY <1>i, <1>0, RegFacts, GotoWaking DEF SendPush, PInv
<1>w. WakeAt(RecvRegs) \in Waiting /\ (WakeAt(RecvRegs) = "woke" => RecvRegs = {})
  BY DEF WakeAt, Waiting
<1>o. \A o : o /= top.who => Reg(o)' = Reg(o) /\ (Owed(o) => Owed(o)')
  <2>1. \A o : o /= top.who => Reg(o)' = Reg(o)
    BY <1>i, <1>0, <1>1, TypeFacts DEF Reg
  <2>2. Live' = Live /\ \A d \in Live : frames[d].todo \subseteq frames'[d].todo
    BY <1>0, <1>2 DEF Moves, IsFrame
  <2> QED BY <1>1, <2>1, <2>2 DEF Owed
<1>t. \A t \in Tasks : recv_waker = t => Owed(t)'
  BY <1>1 DEF Owed
<1>3. /\ queue' /= <<>> /\ queue' \in Seq(Items) /\ pushed' \in Seq(Items) /\ Len(queue') = Len(queue) + 1
      /\ \A j \in Items : Accepted(j)' <=> Accepted(j) \/ j = top.who
  BY <1>i, <1>0, <1>1, AcceptedAppend DEF DataType
<1>4. senders /= 0
  BY <1>i, <1>0 DEF PInv, SendersLive, LiveSend
<1>9. /\ sfut'[top.who] = "okHeld" /\ \A i \in Items \ {top.who} : sfut'[i] = sfut[i]
      /\ waker_id'[top.who] = None /\ \A o \in Items \ {top.who} : waker_id'[o] = waker_id[o]
      /\ sfut' \in [Items -> SendStates] /\ waker_id' \in [Items -> WakerIds \cup {None}]
  BY <1>i, <1>0, <1>1, TypeFacts DEF SendStates
<1>10. DataType'
  BY <1>i, <1>0, <1>1, <1>3, <1>9 DEF PInv, DataType, IsFull
<1>11. Below' /\ Shapes'
  <2>1. Below'
    BY <1>i, <1>0, <1>2 DEF PInv, Below, Moves
  <2>2. Shapes'
    BY <1>i, <1>0, <1>2, <1>w DEF PInv, Shapes, Shape, SendPoints, Waiting, WakeAt, TakeOps, Moves, IsFrame
  <2> QED BY <2>1, <2>2
<1>12. OneTake' /\ RxBorrows'
  <2>1. OneTake'
    BY <1>i, <1>0, <1>2 DEF PInv, OneTake, TakeOps, Moves, IsFrame
  <2>2. RxBorrows'
    BY <1>i, <1>0, <1>1, <1>2 DEF PInv, RxBorrows, TakeOps, Moves, IsFrame
  <2> QED BY <2>1, <2>2
<1>13. HandOK'
  BY <1>i, <1>0, <1>1, <1>2, <1>w, <1>9 DEF PInv, HandOK, TakeOps, Waiting, Moves, IsFrame
<1>14. EmptySeen' /\ Registered'
  BY <1>i, <1>0, <1>1, <1>2, <1>w, <1>9, TypeFacts DEF PInv, EmptySeen, Registered, Reg, Below,
    Suspended, CallbackPoints, Moves, IsFrame, Waiting
<1>15. SendOnce' /\ SendStack'
  <2>1. SendOnce'
    BY <1>i, <1>0, <1>2 DEF PInv, SendOnce, Moves, IsFrame
  <2>2. \A d \in Live : d /= depth /\ frames[d].op = "send" => frames[d].who \in Items \ {top.who}
    BY <1>i, <1>0 DEF PInv, SendOnce, Shapes, Shape
  <2>3. SendStack'
    BY <1>i, <1>0, <1>2, <1>w, <1>9, <2>2 DEF PInv, SendStack, SendState, SendPoints, Waiting,
      Moves, IsFrame
  <2> QED BY <2>1, <2>3
<1>16. SendersLive'
  BY <1>i, <1>0, <1>1, <1>2, <1>w, <1>9, TypeFacts DEF PInv, SendersLive, LiveSend, Moves,
    IsFrame, Waiting
<1>17. Unparked' /\ IdStack'
  <2>1. Unparked'
    BY <1>i, <1>0, <1>1, <1>2 DEF PInv, Unparked, Moves, IsFrame
  <2>2. \A d \in Live : d /= depth /\ frames[d].op = "send" => frames[d].who \in Items \ {top.who}
    BY <1>i, <1>0 DEF PInv, SendOnce, Shapes, Shape
  <2>3. IdStack'
    BY <1>i, <1>0, <1>2, <1>w, <1>9, <2>2 DEF PInv, IdStack, Shapes, Shape, SendPoints, Waiting,
      Moves, IsFrame
  <2> QED BY <2>1, <2>3
<1>18. RecvRegistered'
  <2>1. Disconnected' <=> Disconnected
    BY <1>1 DEF Disconnected
  <2>2. \A d \in Live : frames[d].op = "poll2" \/ frames[d].at = "drop_replaced" =>
                         frames[d].who \in Tasks /\ frames[d].who /= top.who
    BY <1>i, <1>0 DEF PInv, Shapes, Shape
  <2>3. \A t \in Tasks : t /= top.who /\ (recv_waker = t \/ Owed(t)) => Owed(t)'
    BY <1>o, <1>t
  <2>4. \A d \in Live : d /= depth => frames'[d] = frames[d]
    BY <1>2 DEF Moves
  <2>5. \A d \in Live' : frames'[d].op = "poll2" \/ frames'[d].at = "drop_replaced" =>
                          Disconnected \/ \E t \in Tasks : t = frames'[d].who /\ Owed(t)'
    BY <1>i, <1>0, <1>2, <1>w, <2>2, <2>3, <2>4 DEF PInv, RecvRegistered, Waiting, Moves, IsFrame
  <2>6. \A d \in Live : frames[d].at = "drop_unstored" => Disconnected
    BY <1>i DEF PInv, RecvRegistered
  <2> QED BY <1>0, <1>2, <1>w, <2>1, <2>5, <2>6 DEF RecvRegistered, Waiting, Moves, IsFrame
<1>19. SendRegs' /\ RecvTerminal'
  BY <1>i, <1>0, <1>1, <1>2, <1>w, <1>9, TypeFacts, RegFacts DEF PInv, SendRegs, RecvTerminal,
    LiveSend, Disconnected, Moves, IsFrame, Reg, Waiting
<1>20. SendTerminal'
  BY <1>i, <1>0, <1>1, <1>2, <1>w, <1>9, TypeFacts, RegFacts DEF PInv, SendTerminal,
    ClosedToSend, Closing, Below, Suspended, CallbackPoints, Moves, IsFrame, Waiting
<1>21. RecvWakeup'
  <2>1. \A t \in Tasks : t /= top.who
    BY <1>0
  <2>2. \A t \in parked \cap Tasks : "drop_commit" \notin Toxic /\ ~aborted /\ ~unplugged => Owed(t)'
    BY <1>i, <1>o, <1>t, <2>1 DEF PInv, RecvWakeup, NoLostRecvWakeup
  <2> QED BY <1>1, <1>2, <2>2 DEF RecvWakeup, NoLostRecvWakeup, Moves
<1>22. SendWakeup'
  <2>1. top.who \notin parked
    BY <1>i, <1>0 DEF PInv, Unparked
  <2>2. \A i \in parked \cap Items : Reg(i) /= Reg(top.who) /\ (Owed(i) => Owed(i)') /\ Reg(i)' = Reg(i)
    BY <1>o, <2>1 DEF Reg
  <2>3. (Closing => Closing') /\ aborted' = aborted
    BY <1>0, <1>2 DEF Closing, Moves, IsFrame
  <2>4. IsFull => IsFull'
    BY <1>1
  <2> QED BY <1>i, <1>1, <2>2, <2>3, <2>4 DEF PInv, SendWakeup, SendWaits
<1>23. DisconnectIsFinal' /\ QueueDrained'
  BY <1>i, <1>0, <1>1, <1>2, <1>4, TypeFacts DEF PInv, DisconnectIsFinal, StreamTerminated,
    Disconnected, QueueDrained, Moves
<1>24. OutcomeExact'
  BY <1>i, <1>0, <1>1, <1>3, <1>9, TypeFacts DEF PInv, OutcomeExact
<1> QED
  BY <1>2, <1>10, <1>11, <1>12, <1>13, <1>14, <1>15, <1>16, <1>17, <1>18, <1>19, <1>20, <1>21,
    <1>22, <1>23, <1>24 DEF PInv

\* commit takes the receiver's waker once its own is dropped.
LEMMA CommitWakesInv ==
  ASSUME PInv, At("drop_commit"), sfut[top.who] = "okHeld", WakeReceiver,
         Goto(Waking(top, RecvRegs)),
         UNCHANGED <<chanVars, inHand, send_wakers, waker_id, sfut, rfut, parked, histVars>>
  PROVE  PInv'
<1> USE MpscAssumption
<1>i. PInv /\ DataType
  BY DEF PInv
<1>0. /\ depth > 0 /\ depth \in Live /\ top = frames[depth] /\ top \in Frames
      /\ top.op = "send" /\ top.who \in Items /\ top.todo = {} /\ top.at = "drop_commit"
  BY TopFacts DEF At, Looking, At, Running, Shape, SendState, SendPoints, Waiting, TakeOps
<1>1. /\ recv_waker' = None /\ woken \subseteq woken' /\ woken' \subseteq Items \cup Tasks
      /\ \A t \in Tasks : recv_waker = t => t \in woken'
      /\ UNCHANGED <<queue, inHand, senders, rxAlive, closed, send_wakers, waker_id, sfut,
                     rfut, parked, pushed, delivered, drained, lost, sawNone, unplugged>>
  BY <1>i, WokenReceiver DEF chanVars, wakerVars, taskVars, histVars
<1>2. StackIn(Frames)' /\ Moves(top.op, WakeAt(RecvRegs), top.who, RecvRegs)
  BY <1>i, <1>0, RegFacts, GotoWaking DEF PInv
<1>w. WakeAt(RecvRegs) \in Waiting /\ (WakeAt(RecvRegs) = "woke" => RecvRegs = {})
  BY DEF WakeAt, Waiting
<1>o. \A o : Reg(o)' = Reg(o) /\ (Owed(o) => Owed(o)')
  BY <1>0, <1>1, <1>2 DEF Owed, Reg, Moves, IsFrame
<1>t. \A t \in Tasks : recv_waker = t => Owed(t)'
  BY <1>1 DEF Owed
<1>10. DataType'
  BY <1>i, <1>0, <1>1, <1>2, <1>w DEF PInv, DataType, Moves, IsFrame, Waiting
<1>11. Below' /\ Shapes'
  BY <1>i, <1>0, <1>1, <1>2, <1>w DEF PInv, Below, Shapes, Shape, Suspended, CallbackPoints,
    SendPoints, Waiting, Moves, IsFrame
<1>12. OneTake' /\ RxBorrows'
  BY <1>i, <1>0, <1>1, <1>2, <1>w DEF PInv, OneTake, RxBorrows, TakeOps, Moves, IsFrame, Waiting
<1>13. HandOK'
  BY <1>i, <1>0, <1>1, <1>2, <1>w DEF PInv, HandOK, TakeOps, Waiting, Moves, IsFrame
<1>14. EmptySeen' /\ Registered'
  BY <1>i, <1>0, <1>1, <1>2, <1>w, TypeFacts DEF PInv, EmptySeen, Registered, Reg, Below,
    Suspended, CallbackPoints, Moves, IsFrame, Waiting
<1>15. SendOnce' /\ SendStack'
  BY <1>i, <1>0, <1>1, <1>2, <1>w, TypeFacts DEF PInv, SendOnce, SendStack, SendState,
    SendPoints, Waiting, Shapes, Shape, Moves, IsFrame
<1>16. SendersLive'
  BY <1>i, <1>0, <1>1, <1>2, <1>w, TypeFacts DEF PInv, SendersLive, LiveSend, Moves, IsFrame,
    Waiting
<1>17. Unparked' /\ IdStack'
  BY <1>i, <1>0, <1>1, <1>2, <1>w, TypeFacts DEF PInv, Unparked, IdStack, Shapes, Shape,
    SendPoints, SendOnce, Moves, IsFrame, Waiting
<1>18. RecvRegistered'
  BY <1>i, <1>o, <1>0, <1>1, <1>2, <1>w, TypeFacts, RegFacts, <1>t DEF PInv, RecvRegistered,
    Disconnected, Reg, Shapes, Shape, Moves, IsFrame, Waiting
<1>19. SendRegs' /\ RecvTerminal'
  BY <1>i, <1>0, <1>1, <1>2, <1>w, TypeFacts, RegFacts DEF PInv, SendRegs, RecvTerminal,
    LiveSend, Disconnected, Moves, IsFrame, Waiting
<1>20. SendTerminal'
  BY <1>i, <1>0, <1>1, <1>2, <1>w, TypeFacts, RegFacts DEF PInv, SendTerminal, ClosedToSend,
    Closing, Below, Suspended, CallbackPoints, Moves, IsFrame, Waiting
<1>21. RecvWakeup'
  BY <1>i, <1>o, <1>0, <1>1, <1>2, <1>w, TypeFacts, RegFacts, <1>t DEF PInv, RecvWakeup,
    NoLostRecvWakeup, Notifying, Reg, Disconnected, Shapes, Shape, Moves, IsFrame, Waiting
<1>22. SendWakeup'
  BY <1>i, <1>o, <1>0, <1>1, <1>2, <1>w, TypeFacts, RegFacts DEF PInv, SendWakeup, SendWaits,
    Reg, IsFull, Closing, Shapes, Shape, Moves, IsFrame, Waiting
<1>23. DisconnectIsFinal' /\ QueueDrained'
  BY <1>i, <1>0, <1>1, <1>2, <1>w, TypeFacts DEF PInv, DisconnectIsFinal, StreamTerminated,
    QueueDrained, ReceiverDropping, Disconnected, Moves, IsFrame, Waiting
<1>24. OutcomeExact'
  BY <1>i, <1>0, <1>1, <1>2, <1>w, TypeFacts DEF PInv, OutcomeExact, Accepted, Moves, IsFrame,
    Waiting
<1> QED
  BY <1>2, <1>10, <1>11, <1>12, <1>13, <1>14, <1>15, <1>16, <1>17, <1>18, <1>19, <1>20, <1>21,
    <1>22, <1>23, <1>24 DEF PInv

\* A send returns its outcome, or keeps it when a panic unwinds.
LEMMA CommitReturnsInv ==
  ASSUME PInv, depth > 0, top.op = "send", Return,
         \/ top.at = "drop_commit" /\ sfut' = [sfut EXCEPT ![top.who] = "err"] /\ sfut[top.who] = "errHeld"
         \/ top.at = "woke" /\ sfut' \in {sfut, [sfut EXCEPT ![top.who] = "ok"]},
         UNCHANGED <<chanVars, inHand, wakerVars, rfut, parked, woken, histVars>>
  PROVE  PInv'
<1> USE MpscAssumption
<1>i. PInv /\ DataType
  BY DEF PInv
<1>0. /\ depth > 0 /\ depth \in Live /\ top = frames[depth] /\ top \in Frames
      /\ top.op = "send" /\ top.who \in Items /\ top.todo = {} /\ top.at \in {"drop_commit", "woke"}
      /\ top.at = "drop_commit" => sfut[top.who] = "errHeld"
      /\ top.at = "woke" => sfut[top.who] = "okHeld"
  BY TopFacts DEF At, Looking, At, Running, Shape, SendState, SendPoints, Waiting, TakeOps
<1>1. /\ sfut'[top.who] \in SendStates /\ \A i \in Items \ {top.who} : sfut'[i] = sfut[i]
      /\ sfut' \in [Items -> SendStates]
      /\ top.at = "drop_commit" => sfut'[top.who] = "err"
      /\ top.at = "woke" => sfut'[top.who] \in {"okHeld", "ok"}
  BY <1>i, <1>0, TypeFacts DEF SendStates
<1>3. UNCHANGED <<queue, inHand, senders, rxAlive, closed, recv_waker, send_wakers, waker_id,
                  rfut, parked, woken, pushed, delivered, drained, lost, sawNone, unplugged>>
  BY DEF chanVars, wakerVars, taskVars, histVars
<1>2. StackIn(Frames)' /\ Ends
  BY <1>i, <1>0, ReturnStep DEF PInv
<1>o. \A o : Reg(o)' = Reg(o) /\ (Owed(o) => Owed(o)')
  BY <1>0, <1>3, <1>2 DEF Owed, Reg, Ends
<1>n. Notifying => Notifying'
  <2> SUFFICES ASSUME NEW d \in Live, frames[d].at = "drop_commit", sfut[frames[d].who] = "okHeld"
               PROVE  Notifying'
    BY DEF Notifying
  <2>1. d /= depth /\ frames[d].op = "send" /\ frames[d].who \in Items
    BY <1>i, <1>0 DEF PInv, Shapes, Shape
  <2>2. frames[d].who /= top.who
    BY <1>i, <1>0, <2>1 DEF PInv, SendOnce
  <2> QED BY <1>2, <1>1, <2>1, <2>2 DEF Notifying, Ends
<1>10. DataType'
  BY <1>i, <1>0, <1>1, <1>2, <1>3 DEF PInv, DataType, Ends
<1>11. Below' /\ Shapes'
  BY <1>i, <1>0, <1>1, <1>2, <1>3 DEF PInv, Below, Shapes, Shape, Suspended, CallbackPoints,
    SendPoints, Waiting, Ends
<1>12. OneTake' /\ RxBorrows'
  BY <1>i, <1>0, <1>1, <1>2, <1>3 DEF PInv, OneTake, RxBorrows, TakeOps, Ends
<1>13. HandOK'
  BY <1>i, <1>0, <1>1, <1>2, <1>3 DEF PInv, HandOK, TakeOps, Waiting, Ends
<1>14. EmptySeen' /\ Registered'
  BY <1>i, <1>0, <1>1, <1>2, <1>3, TypeFacts DEF PInv, EmptySeen, Registered, Reg, Below,
    Suspended, CallbackPoints, Ends
<1>15. SendOnce' /\ SendStack'
  BY <1>i, <1>0, <1>1, <1>2, <1>3, TypeFacts DEF PInv, SendOnce, SendStack, SendState,
    SendPoints, Waiting, Shapes, Shape, Ends
<1>16. SendersLive'
  BY <1>i, <1>0, <1>1, <1>2, <1>3, TypeFacts DEF PInv, SendersLive, LiveSend, Ends
<1>17. Unparked' /\ IdStack'
  BY <1>i, <1>0, <1>1, <1>2, <1>3, TypeFacts DEF PInv, Unparked, IdStack, Shapes, Shape,
    SendPoints, SendOnce, Ends
<1>18. RecvRegistered'
  BY <1>i, <1>o, <1>0, <1>1, <1>2, <1>3, TypeFacts, RegFacts DEF PInv, RecvRegistered,
    Disconnected, Reg, Shapes, Shape, Ends
<1>19. SendRegs' /\ RecvTerminal'
  BY <1>i, <1>0, <1>1, <1>2, <1>3, TypeFacts, RegFacts DEF PInv, SendRegs, RecvTerminal,
    LiveSend, Disconnected, Ends
<1>20. SendTerminal'
  BY <1>i, <1>0, <1>1, <1>2, <1>3, TypeFacts, RegFacts DEF PInv, SendTerminal, ClosedToSend,
    Closing, Below, Suspended, CallbackPoints, Ends
<1>21. RecvWakeup'
  BY <1>i, <1>o, <1>o, <1>n, <1>0, <1>3, <1>2 DEF PInv, RecvWakeup, NoLostRecvWakeup,
    Disconnected, Ends
<1>22. SendWakeup'
  <2>1. (Closing => Closing') /\ aborted' = aborted
    BY <1>0, <1>2 DEF Closing, Ends
  <2>2. IsFull' <=> IsFull
    BY <1>3 DEF IsFull
  <2> QED BY <1>i, <1>o, <1>3, <2>1, <2>2 DEF PInv, SendWakeup, SendWaits
<1>23. DisconnectIsFinal' /\ QueueDrained'
  BY <1>i, <1>0, <1>1, <1>2, <1>3, TypeFacts DEF PInv, DisconnectIsFinal, StreamTerminated,
    QueueDrained, ReceiverDropping, Disconnected, Ends
<1>24. OutcomeExact'
  BY <1>i, <1>0, <1>1, <1>2, <1>3, TypeFacts DEF PInv, OutcomeExact, Accepted, Ends
<1> QED
  BY <1>2, <1>10, <1>11, <1>12, <1>13, <1>14, <1>15, <1>16, <1>17, <1>18, <1>19, <1>20, <1>21,
    <1>22, <1>23, <1>24 DEF PInv

\* A full channel: the old registration goes before a new one is made.
LEMMA SendFullInv ==
  ASSUME PInv, SendFull
  PROVE  PInv'
<1> USE MpscAssumption
<1>i. PInv /\ DataType
  BY DEF PInv
<1>0. /\ depth > 0 /\ depth \in Live /\ top = frames[depth] /\ top \in Frames
      /\ top.op = "send" /\ top.who \in Items /\ top.todo = {} /\ sfut[top.who] = "pending"
      /\ top.at \in {"first", "recheck"} /\ top.at = "first"
  BY TopFacts DEF SendFull, Looking, At, Running, Shape, SendState, SendPoints, Waiting, TakeOps
<1>1. /\ rxAlive /\ ~closed /\ IsFull
      /\ send_wakers' = send_wakers \ {Reg(top.who)} /\ waker_id' = [waker_id EXCEPT ![top.who] = None]
      /\ UNCHANGED <<queue, inHand, senders, rxAlive, closed, recv_waker, sfut, rfut, parked,
                     woken, pushed, delivered, drained, lost, sawNone, unplugged>>
  BY DEF SendFull, ClosedToSend, Deregister, chanVars, wakerVars, taskVars, histVars
<1> DEFINE at == IF Reg(top.who) \in send_wakers THEN "drop_old_send" ELSE "clone_send"
<1>3. at \in {"drop_old_send", "clone_send"}
  OBVIOUS
<1>2. StackIn(Frames)' /\ Moves("send", at, top.who, {})
  <2>1. at \in Labels
    BY <1>3 DEF Labels, CallbackPoints
  <2>2. Goto([top EXCEPT !.at = at])
    BY <1>0, <1>3 DEF SendFull
  <2> QED BY <1>i, <1>0, <2>1, <2>2, GotoAt DEF PInv
<1> HIDE DEF at
<1>o. \A o : o /= top.who => Reg(o)' = Reg(o) /\ (Owed(o) => Owed(o)')
  <2>1. \A o : o /= top.who => Reg(o)' = Reg(o)
    BY <1>i, <1>0, <1>1, TypeFacts DEF Reg
  <2> QED BY <1>0, <1>1, <1>2, <2>1 DEF Owed, Moves, IsFrame
<1>9. /\ sfut'[top.who] = "pending" /\ \A i \in Items \ {top.who} : sfut'[i] = sfut[i]
      /\ waker_id'[top.who] = None /\ \A o \in Items \ {top.who} : waker_id'[o] = waker_id[o]
      /\ sfut' \in [Items -> SendStates] /\ waker_id' \in [Items -> WakerIds \cup {None}]
  BY <1>i, <1>0, <1>1, TypeFacts DEF SendStates
<1>10. DataType'
  BY <1>i, <1>0, <1>1, <1>2, <1>3, <1>9 DEF PInv, DataType, Moves, IsFrame
<1>11. Below' /\ Shapes'
  BY <1>i, <1>0, <1>1, <1>2, <1>3, <1>9 DEF PInv, Below, Shapes, Shape, Suspended,
    CallbackPoints, SendPoints, Waiting, Moves, IsFrame
<1>12. OneTake' /\ RxBorrows'
  BY <1>i, <1>0, <1>1, <1>2, <1>3, <1>9 DEF PInv, OneTake, RxBorrows, TakeOps, Moves, IsFrame
<1>13. HandOK'
  BY <1>i, <1>0, <1>1, <1>2, <1>3, <1>9 DEF PInv, HandOK, TakeOps, Waiting, Moves, IsFrame
<1>14. EmptySeen' /\ Registered'
  BY <1>i, <1>0, <1>1, <1>2, <1>3, <1>9, TypeFacts DEF PInv, EmptySeen, Registered, Reg, Below,
    Suspended, CallbackPoints, Moves, IsFrame
<1>15. SendOnce' /\ SendStack'
  BY <1>i, <1>0, <1>1, <1>2, <1>3, <1>9, TypeFacts DEF PInv, SendOnce, SendStack, SendState,
    SendPoints, Waiting, Shapes, Shape, Moves, IsFrame
<1>16. SendersLive'
  BY <1>i, <1>0, <1>1, <1>2, <1>3, <1>9, TypeFacts DEF PInv, SendersLive, LiveSend, Moves,
    IsFrame
<1>17. Unparked' /\ IdStack'
  BY <1>i, <1>0, <1>1, <1>2, <1>3, <1>9, TypeFacts DEF PInv, Unparked, IdStack, Shapes, Shape,
    SendPoints, SendOnce, Moves, IsFrame
<1>18. RecvRegistered'
  BY <1>i, <1>o, <1>0, <1>1, <1>2, <1>3, <1>9, TypeFacts, RegFacts DEF PInv, RecvRegistered,
    Disconnected, Reg, Shapes, Shape, Moves, IsFrame
<1>19. SendRegs' /\ RecvTerminal'
  BY <1>i, <1>0, <1>1, <1>2, <1>3, <1>9, TypeFacts, RegFacts DEF PInv, SendRegs, RecvTerminal,
    LiveSend, Disconnected, Moves, IsFrame, Reg
<1>20. SendTerminal'
  BY <1>i, <1>0, <1>1, <1>2, <1>3, <1>9, TypeFacts, RegFacts DEF PInv, SendTerminal,
    ClosedToSend, Closing, Below, Suspended, CallbackPoints, Moves, IsFrame
<1>21. RecvWakeup'
  <2>1. Notifying => Notifying'
    BY <1>0, <1>1, <1>2 DEF Notifying, Moves
  <2>2. (Disconnected' <=> Disconnected) /\ aborted' = aborted
    BY <1>1, <1>2 DEF Disconnected, Moves
  <2>3. \A t \in Tasks : t /= top.who
    BY <1>0
  <2> QED BY <1>i, <1>o, <1>1, <2>1, <2>2, <2>3 DEF PInv, RecvWakeup, NoLostRecvWakeup
<1>22. SendWakeup'
  <2>1. top.who \notin parked
    BY <1>i, <1>0 DEF PInv, Unparked
  <2>2. \A i \in parked \cap Items : Reg(i) /= Reg(top.who) /\ (Owed(i) => Owed(i)') /\ Reg(i)' = Reg(i)
    BY <1>o, <2>1 DEF Reg
  <2>3. (Closing => Closing') /\ aborted' = aborted
    BY <1>0, <1>2 DEF Closing, Moves, IsFrame
  <2>4. IsFull => IsFull'
    BY <1>1 DEF IsFull
  <2> QED BY <1>i, <1>1, <2>2, <2>3, <2>4 DEF PInv, SendWakeup, SendWaits
<1>23. DisconnectIsFinal' /\ QueueDrained'
  BY <1>i, <1>0, <1>1, <1>2, <1>3, <1>9, TypeFacts DEF PInv, DisconnectIsFinal,
    StreamTerminated, QueueDrained, ReceiverDropping, Disconnected, Moves, IsFrame
<1>24. OutcomeExact'
  BY <1>i, <1>1 DEF PInv, OutcomeExact, Accepted
<1> QED
  BY <1>2, <1>10, <1>11, <1>12, <1>13, <1>14, <1>15, <1>16, <1>17, <1>18, <1>19, <1>20, <1>21,
    <1>22, <1>23, <1>24 DEF PInv

\* The new registration is in the list when the channel is looked at again.
LEMMA StoreSendInv ==
  ASSUME PInv, NEW k \in WakerIds, At("clone_send"), StoreSend(top.who, k),
         UNCHANGED <<chanVars, inHand, recv_waker, taskVars, histVars>>
  PROVE  PInv'
<1> USE MpscAssumption
<1>i. PInv /\ DataType
  BY DEF PInv
<1>0. /\ depth > 0 /\ depth \in Live /\ top = frames[depth] /\ top \in Frames
      /\ top.op = "send" /\ top.who \in Items /\ top.todo = {} /\ sfut[top.who] = "pending"
      /\ top.at = "clone_send"
  BY TopFacts DEF At, Looking, At, Running, Shape, SendState, SendPoints, Waiting, TakeOps
<1>1. /\ send_wakers' = send_wakers \cup {<<top.who, k>>} /\ waker_id' = [waker_id EXCEPT ![top.who] = k]
      /\ UNCHANGED <<queue, inHand, senders, rxAlive, closed, recv_waker, sfut, rfut, parked,
                     woken, pushed, delivered, drained, lost, sawNone, unplugged>>
  BY DEF StoreSend, chanVars, wakerVars, taskVars, histVars
<1>2. StackIn(Frames)' /\ Moves("send", "recheck", top.who, {})
  <2>1. "recheck" \in Labels
    BY DEF Labels, CallbackPoints
  <2>2. Goto([top EXCEPT !.at = "recheck"])
    BY <1>0 DEF StoreSend
  <2> QED BY <1>i, <1>0, <2>1, <2>2, GotoAt DEF PInv
<1>o. \A o : o /= top.who => Reg(o)' = Reg(o) /\ (Owed(o) => Owed(o)')
  <2>1. \A o : o /= top.who => Reg(o)' = Reg(o)
    BY <1>i, <1>0, <1>1, TypeFacts DEF Reg
  <2> QED BY <1>0, <1>1, <1>2, <2>1 DEF Owed, Moves, IsFrame
<1>9. /\ waker_id'[top.who] = k /\ \A o \in Items \ {top.who} : waker_id'[o] = waker_id[o]
      /\ waker_id' \in [Items -> WakerIds \cup {None}] /\ waker_id[top.who] = None
  BY <1>i, <1>0, <1>1, TypeFacts DEF PInv, IdStack
<1>10. DataType'
  BY <1>i, <1>0, <1>1, <1>2, <1>9 DEF PInv, DataType, Moves, IsFrame
<1>11. Below' /\ Shapes'
  BY <1>i, <1>0, <1>1, <1>2, <1>9 DEF PInv, Below, Shapes, Shape, Suspended, CallbackPoints,
    SendPoints, Waiting, Moves, IsFrame
<1>12. OneTake' /\ RxBorrows'
  BY <1>i, <1>0, <1>1, <1>2, <1>9 DEF PInv, OneTake, RxBorrows, TakeOps, Moves, IsFrame
<1>13. HandOK'
  BY <1>i, <1>0, <1>1, <1>2, <1>9 DEF PInv, HandOK, TakeOps, Waiting, Moves, IsFrame
<1>14. EmptySeen' /\ Registered'
  BY <1>i, <1>0, <1>1, <1>2, <1>9, TypeFacts DEF PInv, EmptySeen, Registered, Reg, Below,
    Suspended, CallbackPoints, Moves, IsFrame
<1>15. SendOnce' /\ SendStack'
  BY <1>i, <1>0, <1>1, <1>2, <1>9, TypeFacts DEF PInv, SendOnce, SendStack, SendState,
    SendPoints, Waiting, Shapes, Shape, Moves, IsFrame
<1>16. SendersLive'
  BY <1>i, <1>0, <1>1, <1>2, <1>9, TypeFacts DEF PInv, SendersLive, LiveSend, Moves, IsFrame
<1>17. Unparked' /\ IdStack'
  BY <1>i, <1>0, <1>1, <1>2, <1>9, TypeFacts DEF PInv, Unparked, IdStack, Shapes, Shape,
    SendPoints, SendOnce, Moves, IsFrame
<1>18. RecvRegistered'
  BY <1>i, <1>o, <1>0, <1>1, <1>2, <1>9, TypeFacts, RegFacts DEF PInv, RecvRegistered,
    Disconnected, Reg, Shapes, Shape, Moves, IsFrame
<1>19. SendRegs' /\ RecvTerminal'
  BY <1>i, <1>0, <1>1, <1>2, <1>9, TypeFacts, RegFacts DEF PInv, SendRegs, RecvTerminal,
    LiveSend, Disconnected, Moves, IsFrame
<1>20. SendTerminal'
  <2>1. Closing => Closing'
    BY <1>0, <1>2 DEF Closing, Moves, IsFrame
  <2>2. depth' > 0 /\ top'.at = "recheck" /\ top'.who = top.who
    BY <1>2 DEF Moves, IsFrame
  <2>3. ASSUME ClosedToSend', ~Closing' PROVE send_wakers = {}
    BY <1>i, <1>0, <1>1, <2>1, <2>3 DEF PInv, SendTerminal, ClosedToSend
  <2> QED BY <1>1, <2>2, <2>3 DEF SendTerminal
<1>21. RecvWakeup'
  BY <1>i, <1>o, <1>0, <1>1, <1>2, <1>9, TypeFacts, RegFacts DEF PInv, RecvWakeup,
    NoLostRecvWakeup, Notifying, Reg, Disconnected, Shapes, Shape, Moves, IsFrame
<1>22. SendWakeup'
  <2>1. top.who \notin parked
    BY <1>i, <1>0 DEF PInv, Unparked
  <2>2. \A i \in parked \cap Items : Reg(i) /= Reg(top.who) /\ (Owed(i) => Owed(i)') /\ Reg(i)' = Reg(i)
    BY <1>o, <2>1 DEF Reg
  <2>3. (Closing => Closing') /\ aborted' = aborted
    BY <1>0, <1>2 DEF Closing, Moves, IsFrame
  <2>4. IsFull => IsFull'
    BY <1>1 DEF IsFull
  <2> QED BY <1>i, <1>1, <2>2, <2>3, <2>4 DEF PInv, SendWakeup, SendWaits
<1>23. DisconnectIsFinal' /\ QueueDrained'
  BY <1>i, <1>0, <1>1, <1>2, <1>9, TypeFacts DEF PInv, DisconnectIsFinal, StreamTerminated,
    QueueDrained, ReceiverDropping, Disconnected, Moves, IsFrame
<1>24. OutcomeExact'
  BY <1>i, <1>0, <1>1, <1>2, <1>9, TypeFacts DEF PInv, OutcomeExact, Accepted, Moves, IsFrame
<1> QED
  BY <1>2, <1>10, <1>11, <1>12, <1>13, <1>14, <1>15, <1>16, <1>17, <1>18, <1>19, <1>20, <1>21,
    <1>22, <1>23, <1>24 DEF PInv

\* A send parks only while it is registered and the channel is still full and open.
LEMMA SendPendingInv ==
  ASSUME PInv, SendPending
  PROVE  PInv'
<1> USE MpscAssumption
<1>i. PInv /\ DataType
  BY DEF PInv
<1>0. /\ depth > 0 /\ depth \in Live /\ top = frames[depth] /\ top \in Frames
      /\ top.op = "send" /\ top.who \in Items /\ top.todo = {} /\ sfut[top.who] = "pending"
      /\ top.at \in {"first", "recheck"} /\ top.at = "recheck"
  BY TopFacts DEF SendPending, Looking, At, Running, Shape, SendState, SendPoints, Waiting,
    TakeOps
<1>1. /\ rxAlive /\ ~closed /\ IsFull /\ parked' = parked \cup {top.who}
      /\ UNCHANGED <<queue, inHand, senders, rxAlive, closed, recv_waker, send_wakers,
                     waker_id, sfut, rfut, woken, pushed, delivered, drained, lost,
                     sawNone, unplugged>>
  BY DEF SendPending, StillFull, ClosedToSend, chanVars, wakerVars, taskVars, histVars
<1>2. StackIn(Frames)' /\ Ends
  BY <1>i, <1>0, ReturnStep DEF SendPending, PInv
<1>o. \A o : Reg(o)' = Reg(o) /\ (Owed(o) => Owed(o)')
  BY <1>0, <1>1, <1>2 DEF Owed, Reg, Ends
<1>10. DataType'
  BY <1>i, <1>0, <1>1, <1>2 DEF PInv, DataType, Ends
<1>11. Below' /\ Shapes'
  BY <1>i, <1>0, <1>1, <1>2 DEF PInv, Below, Shapes, Shape, Suspended, CallbackPoints,
    SendPoints, Waiting, Ends
<1>12. OneTake' /\ RxBorrows'
  BY <1>i, <1>0, <1>1, <1>2 DEF PInv, OneTake, RxBorrows, TakeOps, Ends
<1>13. HandOK'
  BY <1>i, <1>0, <1>1, <1>2 DEF PInv, HandOK, TakeOps, Waiting, Ends
<1>14. EmptySeen' /\ Registered'
  BY <1>i, <1>0, <1>1, <1>2, TypeFacts DEF PInv, EmptySeen, Registered, Reg, Below, Suspended,
    CallbackPoints, Ends
<1>15. SendOnce' /\ SendStack'
  BY <1>i, <1>0, <1>1, <1>2, TypeFacts DEF PInv, SendOnce, SendStack, SendState, SendPoints,
    Waiting, Shapes, Shape, Ends
<1>16. SendersLive'
  BY <1>i, <1>0, <1>1, <1>2, TypeFacts DEF PInv, SendersLive, LiveSend, Ends
<1>17. Unparked' /\ IdStack'
  BY <1>i, <1>0, <1>1, <1>2, TypeFacts DEF PInv, Unparked, IdStack, Shapes, Shape, SendPoints,
    SendOnce, Ends
<1>18. RecvRegistered'
  BY <1>i, <1>o, <1>0, <1>1, <1>2, TypeFacts, RegFacts DEF PInv, RecvRegistered, Disconnected,
    Reg, Shapes, Shape, Ends
<1>19. SendRegs' /\ RecvTerminal'
  BY <1>i, <1>0, <1>1, <1>2, TypeFacts, RegFacts DEF PInv, SendRegs, RecvTerminal, LiveSend,
    Disconnected, Ends
<1>20. SendTerminal'
  BY <1>i, <1>0, <1>1, <1>2, TypeFacts, RegFacts DEF PInv, SendTerminal, ClosedToSend, Closing,
    Below, Suspended, CallbackPoints, Ends
<1>21. RecvWakeup'
  BY <1>i, <1>o, <1>0, <1>1, <1>2, TypeFacts, RegFacts DEF PInv, RecvWakeup, NoLostRecvWakeup,
    Notifying, Reg, Disconnected, Shapes, Shape, Ends
<1>22. SendWakeup'
  BY <1>i, <1>o, <1>0, <1>1, <1>2, TypeFacts, RegFacts DEF PInv, SendWakeup, SendWaits, Reg,
    IsFull, Closing, Shapes, Shape, Ends, Registered
<1>23. DisconnectIsFinal' /\ QueueDrained'
  BY <1>i, <1>0, <1>1, <1>2, TypeFacts DEF PInv, DisconnectIsFinal, StreamTerminated,
    QueueDrained, ReceiverDropping, Disconnected, Ends
<1>24. OutcomeExact'
  BY <1>i, <1>0, <1>1, <1>2, TypeFacts DEF PInv, OutcomeExact, Accepted, Ends
<1> QED
  BY <1>2, <1>10, <1>11, <1>12, <1>13, <1>14, <1>15, <1>16, <1>17, <1>18, <1>19, <1>20, <1>21,
    <1>22, <1>23, <1>24 DEF PInv

\* A receive pops an item and takes every sender's waker.
LEMMA TakeItemInv ==
  ASSUME PInv, TakeItem
  PROVE  PInv'
<1> USE MpscAssumption
<1>i. PInv /\ DataType
  BY DEF PInv
<1>0. /\ depth > 0 /\ depth \in Live /\ top = frames[depth] /\ top \in Frames
      /\ top.at = "take" /\ top.op \in TakeOps /\ top.todo = {}
  BY TopFacts DEF TakeItem, Looking, At, Running, Shape, SendState, SendPoints, Waiting, TakeOps
<1>1. /\ queue /= <<>> /\ queue' = Tail(queue) /\ inHand' = <<Head(queue)>> /\ send_wakers' = {}
      /\ UNCHANGED <<senders, rxAlive, closed, recv_waker, waker_id, sfut, rfut, parked, woken,
                     pushed, delivered, drained, lost, sawNone, unplugged>>
  BY DEF TakeItem, chanVars, wakerVars, taskVars, histVars
<1>2. StackIn(Frames)' /\ Moves(top.op, WakeAt(send_wakers), top.who, send_wakers)
  BY <1>i, <1>0, RegFacts, GotoWaking DEF TakeItem, PInv
<1>w. WakeAt(send_wakers) \in Waiting /\ (WakeAt(send_wakers) = "woke" => send_wakers = {})
  BY DEF WakeAt, Waiting
<1>o. \A o : Reg(o)' = Reg(o) /\ (Owed(o) => Owed(o)')
  BY <1>0, <1>1, <1>2 DEF Owed, Reg, Moves, IsFrame
<1>t. \A o \in Items : Reg(o) \in send_wakers => Owed(o)'
  BY <1>i, <1>0, <1>2, <1>o, RegFacts DEF Owed, Moves, IsFrame
<1>3. /\ queue' \in Seq(Items) /\ Len(queue') = Len(queue) - 1 /\ Len(queue) \in Nat
      /\ inHand' \in Seq(Items) /\ Len(inHand') = 1 /\ inHand' /= <<>>
  BY <1>i, <1>1 DEF DataType
<1>r. rxAlive /\ \A d \in Live : frames[d].op /= "receiver_drop"
  BY <1>i, <1>0 DEF PInv, RxBorrows, TakeOps
<1>10. DataType'
  BY <1>i, <1>1, <1>3 DEF PInv, DataType
<1>11. Below' /\ Shapes'
  BY <1>i, <1>0, <1>1, <1>2, <1>w DEF PInv, Below, Shapes, Shape, Suspended, CallbackPoints,
    SendPoints, Waiting, Moves, IsFrame, TakeOps
<1>12. OneTake' /\ RxBorrows'
  BY <1>i, <1>0, <1>1, <1>2, <1>w DEF PInv, OneTake, RxBorrows, TakeOps, Moves, IsFrame, Waiting
<1>13. HandOK'
  BY <1>0, <1>2, <1>3, <1>w DEF HandOK, Waiting, Moves, IsFrame
<1>14. EmptySeen' /\ Registered'
  BY <1>i, <1>0, <1>1, <1>2, <1>w, TypeFacts DEF PInv, EmptySeen, Registered, Reg, Below,
    Suspended, CallbackPoints, Moves, IsFrame, Waiting, TakeOps
<1>15. SendOnce' /\ SendStack'
  <2>1. SendOnce'
    BY <1>i, <1>0, <1>2 DEF PInv, SendOnce, TakeOps, Moves, IsFrame
  <2>2. SendStack'
    BY <1>i, <1>0, <1>1, <1>2 DEF PInv, SendStack, SendState, TakeOps, Moves, IsFrame
  <2> QED BY <2>1, <2>2
<1>16. SendersLive'
  BY <1>i, <1>0, <1>1, <1>2, <1>w, TypeFacts DEF PInv, SendersLive, LiveSend, Moves, IsFrame,
    Waiting, TakeOps
<1>17. Unparked' /\ IdStack'
  <2>1. Unparked'
    BY <1>i, <1>0, <1>1, <1>2 DEF PInv, Unparked, Moves, IsFrame
  <2>2. IdStack'
    BY <1>i, <1>0, <1>1, <1>2, <1>w DEF PInv, IdStack, Waiting, Moves, IsFrame
  <2> QED BY <2>1, <2>2
<1>18. RecvRegistered'
  BY <1>i, <1>o, <1>0, <1>1, <1>2, <1>w, TypeFacts, RegFacts DEF PInv, RecvRegistered,
    Disconnected, Reg, Shapes, Shape, Moves, IsFrame, Waiting, TakeOps
<1>19. SendRegs' /\ RecvTerminal'
  BY <1>i, <1>0, <1>1, <1>2, <1>w, TypeFacts, RegFacts DEF PInv, SendRegs, RecvTerminal,
    LiveSend, Disconnected, Moves, IsFrame, Waiting, TakeOps
<1>20. SendTerminal'
  BY <1>i, <1>0, <1>1, <1>2, <1>w, TypeFacts, RegFacts DEF PInv, SendTerminal, ClosedToSend,
    Closing, Below, Suspended, CallbackPoints, Moves, IsFrame, Waiting, TakeOps
<1>21. RecvWakeup'
  <2>1. Notifying => Notifying'
    BY <1>0, <1>1, <1>2 DEF Notifying, Moves, TakeOps
  <2>2. (Disconnected' <=> Disconnected) /\ aborted' = aborted
    BY <1>1, <1>2 DEF Disconnected, Moves
  <2>3. queue = <<>> => queue' = <<>>
    BY <1>1
  <2> QED BY <1>i, <1>o, <1>1, <2>1, <2>2, <2>3 DEF PInv, RecvWakeup, NoLostRecvWakeup
<1>22. SendWakeup'
  BY <1>i, <1>o, <1>0, <1>1, <1>2, <1>w, TypeFacts, RegFacts, <1>t DEF PInv, SendWakeup,
    SendWaits, Reg, IsFull, Closing, Shapes, Shape, Moves, IsFrame, Waiting, TakeOps
<1>23. DisconnectIsFinal' /\ QueueDrained'
  BY <1>i, <1>0, <1>1, <1>2, <1>w, TypeFacts, <1>r DEF PInv, DisconnectIsFinal,
    StreamTerminated, QueueDrained, ReceiverDropping, Disconnected, Moves, IsFrame, Waiting,
    TakeOps
<1>24. OutcomeExact'
  BY <1>i, <1>1 DEF PInv, OutcomeExact, Accepted
<1> QED
  BY <1>2, <1>10, <1>11, <1>12, <1>13, <1>14, <1>15, <1>16, <1>17, <1>18, <1>19, <1>20, <1>21,
    <1>22, <1>23, <1>24 DEF PInv

\* A receive hands its item over.
LEMMA DeliverItemInv ==
  ASSUME PInv, DeliverItem
  PROVE  PInv'
<1> USE MpscAssumption
<1>i. PInv /\ DataType
  BY DEF PInv
<1>0. /\ depth > 0 /\ depth \in Live /\ top = frames[depth] /\ top \in Frames
      /\ top.at = "woke" /\ top.op \in TakeOps /\ top.todo = {}
  BY TopFacts DEF DeliverItem, Looking, At, Running, Shape, SendState, SendPoints, Waiting,
    TakeOps
<1>1. /\ inHand' = <<>> /\ delivered' = delivered \o inHand
      /\ rfut' = IF rfut = "live" THEN "done" ELSE rfut
      /\ UNCHANGED <<queue, senders, rxAlive, closed, recv_waker, send_wakers, waker_id, sfut,
                     parked, woken, pushed, drained, lost, sawNone, unplugged>>
  BY <1>0 DEF DeliverItem, Finished, chanVars, wakerVars, taskVars, histVars
<1>3. inHand' \in Seq(Items) /\ Len(inHand') = 0 /\ delivered' \in Seq(Items)
  BY <1>i, <1>1 DEF DataType
<1>2. StackIn(Frames)' /\ Ends
  BY <1>i, <1>0, ReturnStep DEF DeliverItem, PInv
<1>o. \A o : Reg(o)' = Reg(o) /\ (Owed(o) => Owed(o)')
  BY <1>0, <1>1, <1>2 DEF Owed, Reg, Ends
<1>a. \A d \in Live : frames[d].op \in TakeOps <=> d = depth
  BY <1>i, <1>0 DEF PInv, OneTake, TakeOps
<1>10. DataType'
  BY <1>i, <1>1, <1>3 DEF PInv, DataType, RecvStates
<1>11. Below' /\ Shapes'
  BY <1>i, <1>0, <1>1, <1>2 DEF PInv, Below, Shapes, Shape, Suspended, CallbackPoints,
    SendPoints, Waiting, Ends, TakeOps
<1>12. OneTake' /\ RxBorrows'
  BY <1>i, <1>0, <1>1, <1>2 DEF PInv, OneTake, RxBorrows, TakeOps, Ends
<1>13. HandOK'
  BY <1>1, <1>2, <1>a DEF HandOK, Ends
<1>14. EmptySeen' /\ Registered'
  BY <1>i, <1>0, <1>1, <1>2, TypeFacts DEF PInv, EmptySeen, Registered, Reg, Below, Suspended,
    CallbackPoints, Ends, TakeOps
<1>15. SendOnce' /\ SendStack'
  <2>1. SendOnce'
    BY <1>i, <1>0, <1>2 DEF PInv, SendOnce, TakeOps, Ends
  <2>2. SendStack'
    BY <1>i, <1>0, <1>1, <1>2 DEF PInv, SendStack, SendState, TakeOps, Ends
  <2> QED BY <2>1, <2>2
<1>16. SendersLive'
  BY <1>i, <1>0, <1>1, <1>2, TypeFacts DEF PInv, SendersLive, LiveSend, Ends, TakeOps
<1>17. Unparked' /\ IdStack'
  <2>1. Unparked'
    BY <1>i, <1>1, <1>2 DEF PInv, Unparked, Ends
  <2>2. IdStack'
    BY <1>i, <1>1, <1>2 DEF PInv, IdStack, Ends
  <2> QED BY <2>1, <2>2
<1>18. RecvRegistered'
  BY <1>i, <1>o, <1>0, <1>1, <1>2, TypeFacts, RegFacts DEF PInv, RecvRegistered, Disconnected,
    Reg, Shapes, Shape, Ends, TakeOps
<1>19. SendRegs' /\ RecvTerminal'
  BY <1>i, <1>0, <1>1, <1>2, TypeFacts, RegFacts DEF PInv, SendRegs, RecvTerminal, LiveSend,
    Disconnected, Ends, TakeOps
<1>20. SendTerminal'
  BY <1>i, <1>0, <1>1, <1>2, TypeFacts, RegFacts DEF PInv, SendTerminal, ClosedToSend, Closing,
    Below, Suspended, CallbackPoints, Ends, TakeOps
<1>21. RecvWakeup'
  BY <1>i, <1>o, <1>0, <1>1, <1>2, TypeFacts, RegFacts DEF PInv, RecvWakeup, NoLostRecvWakeup,
    Notifying, Reg, Disconnected, Shapes, Shape, Ends, TakeOps
<1>22. SendWakeup'
  <2>1. (Closing => Closing') /\ aborted' = aborted
    BY <1>0, <1>2 DEF Closing, Ends, TakeOps
  <2> QED BY <1>i, <1>o, <1>1, <2>1 DEF PInv, SendWakeup, SendWaits, IsFull
<1>23. DisconnectIsFinal' /\ QueueDrained'
  BY <1>i, <1>0, <1>1, <1>2, TypeFacts DEF PInv, DisconnectIsFinal, StreamTerminated,
    QueueDrained, ReceiverDropping, Disconnected, Ends, TakeOps
<1>24. OutcomeExact'
  BY <1>i, <1>1 DEF PInv, OutcomeExact, Accepted
<1> QED
  BY <1>2, <1>10, <1>11, <1>12, <1>13, <1>14, <1>15, <1>16, <1>17, <1>18, <1>19, <1>20, <1>21,
    <1>22, <1>23, <1>24 DEF PInv

\* An unwinding receive drops its item.
LEMMA LoseItemInv ==
  ASSUME PInv, LoseItem
  PROVE  PInv'
<1> USE MpscAssumption
<1>i. PInv /\ DataType
  BY DEF PInv
<1>0. /\ depth > 0 /\ depth \in Live /\ top = frames[depth] /\ top \in Frames
      /\ top.at = "woke" /\ top.op \in TakeOps /\ top.todo = {}
  BY TopFacts DEF LoseItem, Looking, At, Running, Shape, SendState, SendPoints, Waiting, TakeOps
<1>1. /\ inHand' = <<>> /\ lost' = lost \cup {Head(inHand)}
      /\ UNCHANGED <<queue, senders, rxAlive, closed, recv_waker, send_wakers, waker_id, sfut,
                     rfut, parked, woken, pushed, delivered, drained, sawNone, unplugged>>
  BY DEF LoseItem, chanVars, wakerVars, taskVars, histVars
<1>3. inHand' \in Seq(Items) /\ Len(inHand') = 0 /\ Head(inHand) \in Items
  <2>1. inHand /= <<>>
    BY <1>i, <1>0 DEF PInv, HandOK, Waiting
  <2> QED BY <1>i, <1>1, <2>1 DEF DataType
<1>2. StackIn(Frames)' /\ Moves(top.op, "lost_item", top.who, {})
  <2>1. "lost_item" \in Labels
    BY DEF Labels, CallbackPoints
  <2>2. Goto([top EXCEPT !.at = "lost_item"])
    BY <1>0 DEF LoseItem
  <2> QED BY <1>i, <1>0, <2>1, <2>2, GotoAt DEF PInv
<1>o. \A o : Reg(o)' = Reg(o) /\ (Owed(o) => Owed(o)')
  BY <1>0, <1>1, <1>2 DEF Owed, Reg, Moves, IsFrame
<1>a. \A d \in Live : frames[d].op \in TakeOps <=> d = depth
  BY <1>i, <1>0 DEF PInv, OneTake, TakeOps
<1>10. DataType'
  BY <1>i, <1>1, <1>3 DEF PInv, DataType
<1>11. Below' /\ Shapes'
  BY <1>i, <1>0, <1>1, <1>2 DEF PInv, Below, Shapes, Shape, Suspended, CallbackPoints,
    SendPoints, Waiting, Moves, IsFrame, TakeOps
<1>12. OneTake' /\ RxBorrows'
  BY <1>i, <1>0, <1>1, <1>2 DEF PInv, OneTake, RxBorrows, TakeOps, Moves, IsFrame
<1>13. HandOK'
  BY <1>1, <1>2, <1>a DEF HandOK, Waiting, Moves, IsFrame
<1>14. EmptySeen' /\ Registered'
  BY <1>i, <1>0, <1>1, <1>2, TypeFacts DEF PInv, EmptySeen, Registered, Reg, Below, Suspended,
    CallbackPoints, Moves, IsFrame, TakeOps
<1>15. SendOnce' /\ SendStack'
  <2>1. SendOnce'
    BY <1>i, <1>0, <1>2 DEF PInv, SendOnce, TakeOps, Moves, IsFrame
  <2>2. SendStack'
    BY <1>i, <1>0, <1>1, <1>2 DEF PInv, SendStack, SendState, TakeOps, Moves, IsFrame
  <2> QED BY <2>1, <2>2
<1>16. SendersLive'
  BY <1>i, <1>0, <1>1, <1>2, TypeFacts DEF PInv, SendersLive, LiveSend, Moves, IsFrame, TakeOps
<1>17. Unparked' /\ IdStack'
  BY <1>i, <1>0, <1>1, <1>2, TypeFacts DEF PInv, Unparked, IdStack, Shapes, Shape, SendPoints,
    SendOnce, Moves, IsFrame, TakeOps
<1>18. RecvRegistered'
  BY <1>i, <1>o, <1>0, <1>1, <1>2, TypeFacts, RegFacts DEF PInv, RecvRegistered, Disconnected,
    Reg, Shapes, Shape, Moves, IsFrame, TakeOps
<1>19. SendRegs' /\ RecvTerminal'
  BY <1>i, <1>0, <1>1, <1>2, TypeFacts, RegFacts DEF PInv, SendRegs, RecvTerminal, LiveSend,
    Disconnected, Moves, IsFrame, TakeOps
<1>20. SendTerminal'
  BY <1>i, <1>0, <1>1, <1>2, TypeFacts, RegFacts DEF PInv, SendTerminal, ClosedToSend, Closing,
    Below, Suspended, CallbackPoints, Moves, IsFrame, TakeOps
<1>21. RecvWakeup'
  <2>1. Notifying => Notifying'
    BY <1>0, <1>1, <1>2 DEF Notifying, Moves, TakeOps
  <2>2. (Disconnected' <=> Disconnected) /\ aborted' = aborted
    BY <1>1, <1>2 DEF Disconnected, Moves
  <2> QED BY <1>i, <1>o, <1>1, <2>1, <2>2 DEF PInv, RecvWakeup, NoLostRecvWakeup
<1>22. SendWakeup'
  BY <1>i, <1>o, <1>0, <1>1, <1>2, TypeFacts, RegFacts DEF PInv, SendWakeup, SendWaits, Reg,
    IsFull, Closing, Shapes, Shape, Moves, IsFrame, TakeOps
<1>23. DisconnectIsFinal' /\ QueueDrained'
  BY <1>i, <1>0, <1>1, <1>2, TypeFacts DEF PInv, DisconnectIsFinal, StreamTerminated,
    QueueDrained, ReceiverDropping, Disconnected, Moves, IsFrame, TakeOps
<1>24. OutcomeExact'
  BY <1>i, <1>1 DEF PInv, OutcomeExact, Accepted
<1> QED
  BY <1>2, <1>10, <1>11, <1>12, <1>13, <1>14, <1>15, <1>16, <1>17, <1>18, <1>19, <1>20, <1>21,
    <1>22, <1>23, <1>24 DEF PInv

\* register_recv_waker puts the waker of the poll in the slot of an open channel.
LEMMA StoreRecvInv ==
  ASSUME PInv, NEW op, NEW at, At("clone_recv"), ~Terminal, recv_waker' = top.who,
         StackIn(Frames)', Moves(op, at, top.who, {}),
         (op = "poll2" /\ at = "take") \/ (op = "poll1" /\ at = "drop_replaced"),
         UNCHANGED <<chanVars, inHand, send_wakers, waker_id, taskVars, histVars>>
  PROVE  PInv'
<1> USE MpscAssumption
<1>i. PInv /\ DataType
  BY DEF PInv
<1>0. /\ depth > 0 /\ depth \in Live /\ top = frames[depth] /\ top \in Frames
      /\ top.at = "clone_recv" /\ top.op = "poll1" /\ top.who \in Tasks /\ top.todo = {}
  BY TopFacts DEF At, Looking, At, Running, Shape, SendState, SendPoints, Waiting, TakeOps
<1>1. /\ ~Disconnected /\ rxAlive /\ recv_waker' = top.who /\ op \in {"poll1", "poll2"}
      /\ at \in {"take", "drop_replaced"} /\ (at = "drop_replaced" <=> op = "poll1")
      /\ UNCHANGED <<queue, inHand, senders, rxAlive, closed, send_wakers, waker_id, sfut,
                     rfut, parked, woken, pushed, delivered, drained, lost, sawNone, unplugged>>
  BY DEF Terminal, chanVars, wakerVars, taskVars, histVars
<1>2. StackIn(Frames)' /\ Moves(op, at, top.who, {})
  OBVIOUS
<1>o. \A o : Reg(o)' = Reg(o) /\ (Owed(o) => Owed(o)')
  BY <1>0, <1>1, <1>2 DEF Owed, Reg, Moves, IsFrame
<1>a. \A d \in Live : frames[d].op \in TakeOps <=> d = depth
  BY <1>i, <1>0 DEF PInv, OneTake, TakeOps
<1>10. DataType'
  BY <1>i, <1>0, <1>1, <1>2 DEF PInv, DataType, Moves, IsFrame, TakeOps
<1>11. Below' /\ Shapes'
  BY <1>i, <1>0, <1>1, <1>2 DEF PInv, Below, Shapes, Shape, Suspended, CallbackPoints,
    SendPoints, Waiting, Moves, IsFrame, TakeOps
<1>12. OneTake' /\ RxBorrows'
  BY <1>i, <1>0, <1>1, <1>2 DEF PInv, OneTake, RxBorrows, TakeOps, Moves, IsFrame
<1>13. HandOK'
  BY <1>i, <1>0, <1>1, <1>2 DEF PInv, HandOK, TakeOps, Waiting, Moves, IsFrame
<1>14. EmptySeen' /\ Registered'
  BY <1>i, <1>0, <1>1, <1>2, TypeFacts DEF PInv, EmptySeen, Registered, Reg, Below, Suspended,
    CallbackPoints, Moves, IsFrame, TakeOps
<1>15. SendOnce' /\ SendStack'
  <2>1. SendOnce'
    BY <1>i, <1>0, <1>1, <1>2 DEF PInv, SendOnce, Moves, IsFrame
  <2>2. SendStack'
    BY <1>i, <1>0, <1>1, <1>2 DEF PInv, SendStack, SendState, Moves, IsFrame
  <2> QED BY <2>1, <2>2
<1>16. SendersLive'
  BY <1>i, <1>0, <1>1, <1>2, TypeFacts DEF PInv, SendersLive, LiveSend, Moves, IsFrame, TakeOps
<1>17. Unparked' /\ IdStack'
  <2>1. Unparked'
    BY <1>i, <1>0, <1>1, <1>2 DEF PInv, Unparked, Moves, IsFrame
  <2>2. IdStack'
    BY <1>i, <1>0, <1>1, <1>2 DEF PInv, IdStack, Moves, IsFrame
  <2> QED BY <2>1, <2>2
<1>18. RecvRegistered'
  <2>1. \A d \in Live' : frames'[d].op = "poll2" \/ frames'[d].at \in {"drop_replaced", "drop_unstored"} => d = depth
    BY <1>i, <1>1, <1>2, <1>a DEF PInv, Shapes, Shape, TakeOps, Moves
  <2>2. frames'[depth].who = top.who /\ frames'[depth].at /= "drop_unstored"
    BY <1>1, <1>2 DEF Moves, IsFrame
  <2> QED BY <1>1, <2>1, <2>2 DEF RecvRegistered
<1>19. SendRegs' /\ RecvTerminal'
  BY <1>i, <1>0, <1>1, <1>2, TypeFacts, RegFacts DEF PInv, SendRegs, RecvTerminal, LiveSend,
    Disconnected, Moves, IsFrame, TakeOps
<1>20. SendTerminal'
  BY <1>i, <1>0, <1>1, <1>2, TypeFacts, RegFacts DEF PInv, SendTerminal, ClosedToSend, Closing,
    Below, Suspended, CallbackPoints, Moves, IsFrame, TakeOps
<1>21. RecvWakeup'
  <2>1. parked' \cap Tasks = {}
    BY <1>i, <1>0, <1>1 DEF PInv, Unparked
  <2> QED BY <2>1 DEF RecvWakeup, NoLostRecvWakeup
<1>22. SendWakeup'
  BY <1>i, <1>o, <1>0, <1>1, <1>2, TypeFacts, RegFacts DEF PInv, SendWakeup, SendWaits, Reg,
    IsFull, Closing, Shapes, Shape, Moves, IsFrame, TakeOps
<1>23. DisconnectIsFinal' /\ QueueDrained'
  BY <1>i, <1>0, <1>1, <1>2, TypeFacts DEF PInv, DisconnectIsFinal, StreamTerminated,
    QueueDrained, ReceiverDropping, Disconnected, Moves, IsFrame, TakeOps
<1>24. OutcomeExact'
  BY <1>i, <1>1 DEF PInv, OutcomeExact, Accepted
<1> QED
  BY <1>2, <1>10, <1>11, <1>12, <1>13, <1>14, <1>15, <1>16, <1>17, <1>18, <1>19, <1>20, <1>21,
    <1>22, <1>23, <1>24 DEF PInv

\* A receive parks only while it is registered, or already woken, on an empty open channel.
LEMMA RecvPendingInv ==
  ASSUME PInv, RecvPending
  PROVE  PInv'
<1> USE MpscAssumption
<1>i. PInv /\ DataType
  BY DEF PInv
<1>0. /\ depth > 0 /\ depth \in Live /\ top = frames[depth] /\ top \in Frames
      /\ top.at = "empty" /\ top.op = "poll2" /\ top.who \in Tasks /\ top.todo = {}
  BY TopFacts DEF RecvPending, Looking, At, Running, Shape, SendState, SendPoints, Waiting,
    TakeOps
<1>1. /\ ~Disconnected /\ parked' = parked \cup {top.who}
      /\ UNCHANGED <<queue, inHand, senders, rxAlive, closed, recv_waker, send_wakers,
                     waker_id, sfut, rfut, woken, pushed, delivered, drained, lost,
                     sawNone, unplugged>>
  BY DEF RecvPending, chanVars, wakerVars, taskVars, histVars
<1>2. StackIn(Frames)' /\ Ends
  BY <1>i, <1>0, ReturnStep DEF RecvPending, PInv
<1>o. \A o : Reg(o)' = Reg(o) /\ (Owed(o) => Owed(o)')
  BY <1>0, <1>1, <1>2 DEF Owed, Reg, Ends
<1>a. \A d \in Live : frames[d].op \in TakeOps <=> d = depth
  BY <1>i, <1>0 DEF PInv, OneTake, TakeOps
<1>r. rxAlive /\ \A d \in Live : frames[d].op /= "receiver_drop"
  BY <1>i, <1>0 DEF PInv, RxBorrows, TakeOps
<1>10. DataType'
  BY <1>i, <1>0, <1>1, <1>2, <1>r DEF PInv, DataType, Ends, TakeOps
<1>11. Below' /\ Shapes'
  BY <1>i, <1>0, <1>1, <1>2, <1>r DEF PInv, Below, Shapes, Shape, Suspended, CallbackPoints,
    SendPoints, Waiting, Ends, TakeOps
<1>12. OneTake' /\ RxBorrows'
  BY <1>i, <1>0, <1>1, <1>2, <1>r DEF PInv, OneTake, RxBorrows, TakeOps, Ends
<1>13. HandOK'
  BY <1>i, <1>0, <1>1, <1>2, <1>r DEF PInv, HandOK, TakeOps, Waiting, Ends
<1>14. EmptySeen' /\ Registered'
  BY <1>i, <1>0, <1>1, <1>2, <1>r, TypeFacts DEF PInv, EmptySeen, Registered, Reg, Below,
    Suspended, CallbackPoints, Ends, TakeOps
<1>15. SendOnce' /\ SendStack'
  <2>1. SendOnce'
    BY <1>i, <1>2 DEF PInv, SendOnce, Ends
  <2>2. SendStack'
    BY <1>i, <1>1, <1>2 DEF PInv, SendStack, SendState, Ends
  <2> QED BY <2>1, <2>2
<1>16. SendersLive'
  BY <1>i, <1>0, <1>1, <1>2, <1>r, TypeFacts DEF PInv, SendersLive, LiveSend, Ends, TakeOps
<1>17. Unparked' /\ IdStack'
  BY <1>i, <1>0, <1>1, <1>2, <1>r, TypeFacts, <1>a DEF PInv, Unparked, IdStack, Shapes, Shape,
    SendPoints, SendOnce, Ends, TakeOps
<1>18. RecvRegistered'
  BY <1>i, <1>o, <1>0, <1>1, <1>2, <1>r, TypeFacts, RegFacts DEF PInv, RecvRegistered,
    Disconnected, Reg, Shapes, Shape, Ends, TakeOps
<1>19. SendRegs' /\ RecvTerminal'
  BY <1>i, <1>0, <1>1, <1>2, <1>r, TypeFacts, RegFacts DEF PInv, SendRegs, RecvTerminal,
    LiveSend, Disconnected, Ends, TakeOps
<1>20. SendTerminal'
  BY <1>i, <1>0, <1>1, <1>2, <1>r, TypeFacts, RegFacts DEF PInv, SendTerminal, ClosedToSend,
    Closing, Below, Suspended, CallbackPoints, Ends, TakeOps
<1>21. RecvWakeup'
  <2>1. recv_waker = top.who \/ Owed(top.who)
    BY <1>i, <1>0, <1>1 DEF PInv, RecvRegistered
  <2>2. parked \cap Tasks = {} /\ queue = <<>>
    BY <1>i, <1>0 DEF PInv, Unparked, EmptySeen
  <2>3. parked' \cap Tasks = {top.who} /\ Disconnected' = Disconnected /\ queue' = queue /\ recv_waker' = recv_waker
    BY <1>0, <1>1, <2>2 DEF Disconnected
  <2> QED BY <1>1, <1>o, <2>1, <2>2, <2>3 DEF RecvWakeup, NoLostRecvWakeup
<1>22. SendWakeup'
  BY <1>i, <1>o, <1>0, <1>1, <1>2, <1>r, TypeFacts, RegFacts DEF PInv, SendWakeup, SendWaits,
    Reg, IsFull, Closing, Shapes, Shape, Ends, TakeOps
<1>23. DisconnectIsFinal' /\ QueueDrained'
  BY <1>i, <1>0, <1>1, <1>2, <1>r, TypeFacts DEF PInv, DisconnectIsFinal, StreamTerminated,
    QueueDrained, ReceiverDropping, Disconnected, Ends, TakeOps
<1>24. OutcomeExact'
  BY <1>i, <1>1 DEF PInv, OutcomeExact, Accepted
<1> QED
  BY <1>2, <1>10, <1>11, <1>12, <1>13, <1>14, <1>15, <1>16, <1>17, <1>18, <1>19, <1>20, <1>21,
    <1>22, <1>23, <1>24 DEF PInv

\* The Receiver's drop clears the slot unless a sender's waker has panicked.
LEMMA ClearRecvWakerInv ==
  ASSUME PInv, ClearRecvWaker
  PROVE  PInv'
<1> USE MpscAssumption
<1>i. PInv /\ DataType
  BY DEF PInv
<1>0. /\ depth > 0 /\ depth \in Live /\ top = frames[depth] /\ top \in Frames
      /\ top.at = "woke" /\ top.op = "receiver_drop" /\ top.todo = {}
  BY TopFacts DEF ClearRecvWaker, Looking, At, Running, Shape, SendState, SendPoints, Waiting,
    TakeOps
<1>1. /\ recv_waker' \in {None, recv_waker}
      /\ UNCHANGED <<queue, inHand, senders, rxAlive, closed, send_wakers, waker_id, sfut,
                     rfut, parked, woken, pushed, delivered, drained, lost, sawNone, unplugged>>
  BY DEF ClearRecvWaker, chanVars, wakerVars, taskVars, histVars
<1> DEFINE at == IF top.panicked \/ recv_waker = None THEN "drain" ELSE "drop_cleared"
<1>3. at \in {"drain", "drop_cleared"}
  OBVIOUS
<1>2. StackIn(Frames)' /\ Moves(top.op, at, top.who, {})
  <2>1. at \in Labels
    BY <1>3 DEF Labels, CallbackPoints
  <2>2. Goto([top EXCEPT !.at = at])
    BY <1>0, <1>3 DEF ClearRecvWaker
  <2> QED BY <1>i, <1>0, <2>1, <2>2, GotoAt DEF PInv
<1> HIDE DEF at
<1>o. \A o : Reg(o)' = Reg(o) /\ (Owed(o) => Owed(o)')
  BY <1>0, <1>1, <1>2 DEF Owed, Reg, Moves, IsFrame
<1>r. ~rxAlive /\ (\A d \in Live : frames[d].op \notin TakeOps) /\ parked \cap Tasks = {}
  BY <1>i, <1>0 DEF PInv, RxBorrows
<1>10. DataType'
  BY <1>i, <1>0, <1>1, <1>2, <1>3, <1>r DEF PInv, DataType, Moves, IsFrame, TakeOps
<1>11. Below' /\ Shapes'
  BY <1>i, <1>0, <1>1, <1>2, <1>3, <1>r DEF PInv, Below, Shapes, Shape, Suspended,
    CallbackPoints, SendPoints, Waiting, Moves, IsFrame, TakeOps
<1>12. OneTake' /\ RxBorrows'
  BY <1>i, <1>0, <1>1, <1>2, <1>3, <1>r DEF PInv, OneTake, RxBorrows, TakeOps, Moves, IsFrame
<1>13. HandOK'
  BY <1>i, <1>0, <1>1, <1>2, <1>3, <1>r DEF PInv, HandOK, TakeOps, Waiting, Moves, IsFrame
<1>14. EmptySeen' /\ Registered'
  BY <1>i, <1>0, <1>1, <1>2, <1>3, <1>r, TypeFacts DEF PInv, EmptySeen, Registered, Reg, Below,
    Suspended, CallbackPoints, Moves, IsFrame, TakeOps
<1>15. SendOnce' /\ SendStack'
  BY <1>i, <1>0, <1>1, <1>2, <1>3, <1>r, TypeFacts DEF PInv, SendOnce, SendStack, SendState,
    SendPoints, Waiting, Shapes, Shape, Moves, IsFrame, TakeOps
<1>16. SendersLive'
  BY <1>i, <1>0, <1>1, <1>2, <1>3, <1>r, TypeFacts DEF PInv, SendersLive, LiveSend, Moves,
    IsFrame, TakeOps
<1>17. Unparked' /\ IdStack'
  BY <1>i, <1>0, <1>1, <1>2, <1>3, <1>r, TypeFacts DEF PInv, Unparked, IdStack, Shapes, Shape,
    SendPoints, SendOnce, Moves, IsFrame, TakeOps
<1>18. RecvRegistered'
  BY <1>i, <1>o, <1>0, <1>1, <1>2, <1>3, <1>r, TypeFacts, RegFacts DEF PInv, RecvRegistered,
    Disconnected, Reg, Shapes, Shape, Moves, IsFrame, TakeOps
<1>19. SendRegs' /\ RecvTerminal'
  BY <1>i, <1>0, <1>1, <1>2, <1>3, <1>r, TypeFacts, RegFacts DEF PInv, SendRegs, RecvTerminal,
    LiveSend, Disconnected, Moves, IsFrame, TakeOps
<1>20. SendTerminal'
  BY <1>i, <1>0, <1>1, <1>2, <1>3, <1>r, TypeFacts, RegFacts DEF PInv, SendTerminal,
    ClosedToSend, Closing, Below, Suspended, CallbackPoints, Moves, IsFrame, TakeOps
<1>21. RecvWakeup'
  BY <1>i, <1>o, <1>0, <1>1, <1>2, <1>3, <1>r, TypeFacts, RegFacts DEF PInv, RecvWakeup,
    NoLostRecvWakeup, Notifying, Reg, Disconnected, Shapes, Shape, Moves, IsFrame, TakeOps
<1>22. SendWakeup'
  BY <1>i, <1>o, <1>0, <1>1, <1>2, <1>3, <1>r, TypeFacts, RegFacts DEF PInv, SendWakeup,
    SendWaits, Reg, IsFull, Closing, Shapes, Shape, Moves, IsFrame, TakeOps
<1>23. DisconnectIsFinal' /\ QueueDrained'
  BY <1>i, <1>0, <1>1, <1>2, <1>3, <1>r, TypeFacts DEF PInv, DisconnectIsFinal,
    StreamTerminated, QueueDrained, ReceiverDropping, Disconnected, Moves, IsFrame, TakeOps
<1>24. OutcomeExact'
  BY <1>i, <1>1 DEF PInv, OutcomeExact, Accepted
<1> QED
  BY <1>2, <1>10, <1>11, <1>12, <1>13, <1>14, <1>15, <1>16, <1>17, <1>18, <1>19, <1>20, <1>21,
    <1>22, <1>23, <1>24 DEF PInv

\* The Receiver's drop takes an item out of the channel.
LEMMA DrainItemInv ==
  ASSUME PInv, DrainItem
  PROVE  PInv'
<1> USE MpscAssumption
<1>i. PInv /\ DataType
  BY DEF PInv
<1>0. /\ depth > 0 /\ depth \in Live /\ top = frames[depth] /\ top \in Frames
      /\ top.at = "drain" /\ top.op = "receiver_drop" /\ top.todo = {}
  BY TopFacts DEF DrainItem, Looking, At, Running, Shape, SendState, SendPoints, Waiting,
    TakeOps
<1>1. /\ queue /= <<>> /\ queue' = Tail(queue) /\ drained' = Append(drained, Head(queue))
      /\ UNCHANGED <<inHand, senders, rxAlive, closed, recv_waker, send_wakers, waker_id, sfut,
                     rfut, parked, woken, pushed, delivered, lost, sawNone, unplugged>>
  BY DEF DrainItem, chanVars, wakerVars, taskVars, histVars
<1>2. StackIn(Frames)' /\ Moves(top.op, "payload", top.who, {})
  <2>1. "payload" \in Labels
    BY DEF Labels, CallbackPoints
  <2>2. Goto([top EXCEPT !.at = "payload"])
    BY <1>0 DEF DrainItem
  <2> QED BY <1>i, <1>0, <2>1, <2>2, GotoAt DEF PInv
<1>o. \A o : Reg(o)' = Reg(o) /\ (Owed(o) => Owed(o)')
  BY <1>0, <1>1, <1>2 DEF Owed, Reg, Moves, IsFrame
<1>3. /\ queue' \in Seq(Items) /\ Len(queue') = Len(queue) - 1 /\ Len(queue) \in Nat
      /\ drained' \in Seq(Items)
  BY <1>i, <1>1 DEF DataType
<1>r. ~rxAlive /\ (\A d \in Live : frames[d].op \notin TakeOps) /\ parked \cap Tasks = {}
  BY <1>i, <1>0 DEF PInv, RxBorrows
<1>10. DataType'
  BY <1>i, <1>1, <1>3 DEF PInv, DataType
<1>11. Below' /\ Shapes'
  <2>1. Below'
    BY <1>i, <1>0, <1>2 DEF PInv, Below, Moves
  <2>2. Shapes'
    BY <1>i, <1>0, <1>2 DEF PInv, Shapes, Shape, SendPoints, Waiting, Moves, IsFrame
  <2> QED BY <2>1, <2>2
<1>12. OneTake' /\ RxBorrows'
  BY <1>i, <1>0, <1>1, <1>2, <1>r DEF PInv, OneTake, RxBorrows, TakeOps, Moves, IsFrame
<1>13. HandOK'
  BY <1>i, <1>0, <1>1, <1>2, <1>r DEF PInv, HandOK, TakeOps, Waiting, Moves, IsFrame
<1>14. EmptySeen' /\ Registered'
  BY <1>i, <1>0, <1>1, <1>2, <1>r, TypeFacts DEF PInv, EmptySeen, Registered, Reg, Below,
    Suspended, CallbackPoints, Moves, IsFrame, TakeOps
<1>15. SendOnce' /\ SendStack'
  <2>1. SendOnce'
    BY <1>i, <1>0, <1>2 DEF PInv, SendOnce, TakeOps, Moves, IsFrame
  <2>2. SendStack'
    BY <1>i, <1>0, <1>1, <1>2 DEF PInv, SendStack, SendState, TakeOps, Moves, IsFrame
  <2> QED BY <2>1, <2>2
<1>16. SendersLive'
  BY <1>i, <1>0, <1>1, <1>2, <1>r, TypeFacts DEF PInv, SendersLive, LiveSend, Moves, IsFrame,
    TakeOps
<1>17. Unparked' /\ IdStack'
  <2>1. Unparked'
    BY <1>i, <1>0, <1>1, <1>2 DEF PInv, Unparked, Moves, IsFrame
  <2>2. IdStack'
    BY <1>i, <1>0, <1>1, <1>2 DEF PInv, IdStack, Moves, IsFrame
  <2> QED BY <2>1, <2>2
<1>18. RecvRegistered'
  BY <1>i, <1>o, <1>0, <1>1, <1>2, <1>r, TypeFacts, RegFacts DEF PInv, RecvRegistered,
    Disconnected, Reg, Shapes, Shape, Moves, IsFrame, TakeOps
<1>19. SendRegs' /\ RecvTerminal'
  BY <1>i, <1>0, <1>1, <1>2, <1>r, TypeFacts, RegFacts DEF PInv, SendRegs, RecvTerminal,
    LiveSend, Disconnected, Moves, IsFrame, TakeOps
<1>20. SendTerminal'
  BY <1>i, <1>0, <1>1, <1>2, <1>r, TypeFacts, RegFacts DEF PInv, SendTerminal, ClosedToSend,
    Closing, Below, Suspended, CallbackPoints, Moves, IsFrame, TakeOps
<1>21. RecvWakeup'
  BY <1>i, <1>o, <1>0, <1>1, <1>2, <1>r, TypeFacts, RegFacts DEF PInv, RecvWakeup,
    NoLostRecvWakeup, Notifying, Reg, Disconnected, Shapes, Shape, Moves, IsFrame, TakeOps
<1>22. SendWakeup'
  BY <1>i, <1>o, <1>0, <1>1, <1>2, <1>r, TypeFacts, RegFacts DEF PInv, SendWakeup, SendWaits,
    Reg, IsFull, Closing, Shapes, Shape, Moves, IsFrame, TakeOps
<1>23. DisconnectIsFinal' /\ QueueDrained'
  BY <1>i, <1>0, <1>1, <1>2 DEF PInv, DisconnectIsFinal, StreamTerminated, Disconnected,
    QueueDrained, ReceiverDropping, Moves, IsFrame
<1>24. OutcomeExact'
  BY <1>i, <1>1 DEF PInv, OutcomeExact, Accepted
<1> QED
  BY <1>2, <1>10, <1>11, <1>12, <1>13, <1>14, <1>15, <1>16, <1>17, <1>18, <1>19, <1>20, <1>21,
    <1>22, <1>23, <1>24 DEF PInv

\* A step of the stack alone.
LEMMA Unseen ==
  ASSUME PInv, UNCHANGED <<chanVars, inHand, wakerVars, taskVars, histVars>>
  PROVE  Quiet
BY DEF PInv, DataType, RxBorrows, Quiet, chanVars, wakerVars, taskVars, histVars

\* The running call goes on: which frames it may go to without a change of state.
LEMMA QuietGoto ==
  ASSUME PInv, Quiet, depth > 0, NEW at \in Labels, Goto([top EXCEPT !.at = at]),
         \/ top.at = "take" /\ at = "empty" /\ queue = <<>>
         \/ top.at = "empty" /\ at = "clone_recv" /\ top.op = "poll1"
         \/ top.at = "drop_old_send" /\ at = "clone_send"
         \/ top.at = "clone_recv" /\ at = "drop_unstored" /\ Disconnected
  PROVE  PInv'
<1>1. Shape(top) /\ top.todo = {}
  BY TopFacts DEF Shape
<1>2. StackIn(Frames)' /\ Moves(top.op, at, top.who, {})
  BY <1>1, GotoAt DEF PInv
<1> QED BY <1>1, <1>2, QuietMovesInv DEF Shape, SendPoints, TakeOps

LEMMA QuietReturn ==
  ASSUME PInv, Quiet, depth > 0, Return, top.at \notin {"wake", "recheck"},
         top.at = "woke" => top.op \notin TakeOps, top.op /= "close",
         top.op = "receiver_drop" => queue = <<>>,
         top.at = "drop_commit" => "drop_commit" \in Toxic \/ sfut[top.who] /= "okHeld"
  PROVE  PInv'
<1>1. StackIn(Frames)' /\ Ends
  BY ReturnStep DEF PInv
<1> QED BY <1>1, QuietEndsInv

\* The drop of the Receiver goes on to drain.
LEMMA DrainsOn ==
  ASSUME PInv, Quiet, depth > 0, top.at \in {"drop_cleared", "payload"}, NEW q \in BOOLEAN,
         Goto([top EXCEPT !.at = "drain", !.panicked = q])
  PROVE  PInv'
<1> DEFINE f == [top EXCEPT !.at = "drain", !.panicked = q]
<1>1. Shape(top) /\ top \in Frames
  BY TopFacts
<1>2. /\ f \in Frames /\ f.op = top.op /\ f.at = "drain" /\ f.who = top.who /\ f.todo = {}
      /\ top.op = "receiver_drop"
  BY <1>1 DEF Frames, Labels, Shape
<1>3. Goto(f)
  OBVIOUS
<1> HIDE DEF f
<1>4. StackIn(Frames)' /\ Moves(top.op, "drain", top.who, {})
  BY <1>2, <1>3, GotoStep DEF PInv
<1> QED BY <1>2, <1>4, QuietMovesInv

\* A poll_recv has registered, or found that it need not, and looks again.
LEMMA RecheckFrame ==
  ASSUME PInv, depth > 0, top.at \in {"clone_recv", "drop_replaced", "drop_unstored"},
         Goto(Rechecking)
  PROVE  StackIn(Frames)' /\ Moves("poll2", "take", top.who, {})
<1> DEFINE f == [top EXCEPT !.op = "poll2", !.at = "take"]
<1>1. Shape(top) /\ top \in Frames
  BY TopFacts
<1>2. f \in Frames /\ f.op = "poll2" /\ f.at = "take" /\ f.who = top.who /\ f.todo = {}
  BY <1>1 DEF Frames, Labels, Ops, TakeOps, Shape
<1>3. Goto(f)
  BY DEF Rechecking
<1> HIDE DEF f
<1> QED BY <1>2, <1>3, GotoStep DEF PInv

LEMMA SenderCallsInv ==
  ASSUME PInv, SendCalls \/ SenderCalls
  PROVE  PInv'
<1>1. ASSUME NEW i \in Items,
             TrySend(i) \/ NewSend(i) \/ PollSend(i) \/ ReplayOutcome(i) \/ DropSend(i)
      PROVE  PInv'
  BY <1>1, TrySendInv, NewSendInv, PollSendInv, ReplayOutcomeInv, DropSendInv
<1>2. CASE CloneSender \/ DropSender
  <2>1. StackIn(Frames)' /\ Stays
    BY <1>2, SameStep DEF CloneSender, DropSender, PInv
  <2>2. senders \in Nat /\ senders' \in 0..MaxSenders /\ senders' /= 0 /\ senders /= 0
    BY <1>2, MpscAssumption DEF CloneSender, DropSender, PInv, DataType
  <2>3. UNCHANGED <<queue, inHand, rxAlive, closed, wakerVars, taskVars, histVars>>
    BY <1>2 DEF CloneSender, DropSender
  <2>4. Quiet
    BY <2>2, <2>3 DEF Quiet, PInv, DataType, RxBorrows, taskVars, histVars
  <2> QED BY <2>1, <2>4, QuietStaysInv
<1>3. CASE DropLastSender
  BY <1>3, DropLastSenderInv
<1>4. CASE SenderClose
  BY <1>4, ClosingInv DEF SenderClose
<1> QED BY <1>1, <1>2, <1>3, <1>4 DEF SendCalls, SenderCalls

LEMMA ReceiverCallsInv ==
  ASSUME PInv, ReceiverCalls
  PROVE  PInv'
<1>1. CASE NewRecv
  <2>1. StackIn(Frames)' /\ Stays
    BY <1>1, SameStep DEF NewRecv, PInv
  <2>2. Quiet
    BY <1>1 DEF NewRecv, RxFree, RxShared, Quiet, PInv, DataType, RecvStates, chanVars,
      wakerVars, histVars
  <2> QED BY <2>1, <2>2, QuietStaysInv
<1>2. CASE ReceiverClose
  BY <1>2, ClosingInv DEF ReceiverClose
<1> QED BY <1>1, <1>2, TryRecvInv, DropRecvInv, DropReceiverInv, PollingInv DEF ReceiverCalls

LEMMA CallbackInv ==
  ASSUME PInv, NEW p \in Panics, p => top.at \in Toxic, CallbackSteps(p)
  PROVE  PInv'
<1>p. p \in BOOLEAN
  BY ReentryAssumption
<1>1. CASE WakeNext(p)
  BY <1>1, WakeNextInv
<1>2. CASE WakeAborts(p)
  BY <1>2, Unseen, AbortInv DEF WakeAborts, WakeAborted
<1>3. CASE AfterDropOldSend(p)
  <2>1. Quiet /\ depth > 0 /\ top.at = "drop_old_send" /\ top.op = "send"
    BY <1>3, Unseen, TopFacts DEF AfterDropOldSend, At, Shape, SendPoints
  <2>2. CASE p
    BY <1>3, <2>1, <2>2, QuietReturn DEF AfterDropOldSend
  <2>3. CASE ~p
    BY <1>3, <2>1, <2>3, QuietGoto DEF AfterDropOldSend, Labels, CallbackPoints
  <2> QED BY <1>p, <2>2, <2>3
<1>4. CASE AfterCloneSend(p)
  <2>1. depth > 0 /\ top.at = "clone_send" /\ top.op = "send"
    BY <1>4, TopFacts DEF AfterCloneSend, At, Shape, SendPoints
  <2>2. CASE p
    <3>1. Quiet /\ Return
      BY <1>4, <2>2, Unseen DEF AfterCloneSend, wakerVars
    <3> QED BY <2>1, <3>1, QuietReturn
  <2>3. CASE ~p
    BY <1>4, <2>3, StoreSendInv DEF AfterCloneSend
  <2> QED BY <1>p, <2>2, <2>3
<1>5. CASE AfterDropCommit(p)
  <2>1. depth > 0 /\ top.at = "drop_commit" /\ top.op = "send"
    BY <1>5, TopFacts DEF AfterDropCommit, At, Shape, SendPoints
  <2>2. CASE p
    <3>1. Quiet /\ Return /\ "drop_commit" \in Toxic
      BY <1>5, <2>1, <2>2, Unseen DEF AfterDropCommit, wakerVars, taskVars
    <3> QED BY <2>1, <3>1, QuietReturn
  <2>3. CASE ~p /\ sfut[top.who] = "okHeld"
    <3>1. /\ At("drop_commit") /\ WakeReceiver /\ Goto(Waking(top, RecvRegs))
          /\ UNCHANGED <<chanVars, inHand, send_wakers, waker_id, sfut, rfut, parked, histVars>>
      BY <1>5, <2>3 DEF AfterDropCommit
    <3> QED BY <2>3, <3>1, CommitWakesInv
  <2>4. CASE ~p /\ sfut[top.who] = "errHeld"
    <3>1. /\ Return /\ sfut' = [sfut EXCEPT ![top.who] = "err"]
          /\ UNCHANGED <<chanVars, inHand, wakerVars, rfut, parked, woken, histVars>>
      BY <1>5, <2>4 DEF AfterDropCommit, wakerVars
    <3> QED BY <2>1, <2>4, <3>1, CommitReturnsInv
  <2> QED BY <1>5, <1>p, <2>2, <2>3, <2>4 DEF AfterDropCommit
<1>6. CASE AfterCloneRecv(p)
  <2>1. depth > 0 /\ top.at = "clone_recv" /\ top.op = "poll1" /\ rxAlive /\ top.todo = {}
    <3>1. depth \in Live /\ top = frames[depth] /\ Shape(top) /\ depth > 0 /\ top.at = "clone_recv"
      BY <1>6, TopFacts DEF AfterCloneRecv, At
    <3> QED BY <3>1 DEF Shape, PInv, RxBorrows, TakeOps
  <2>2. CASE p
    <3>1. Quiet /\ Return
      BY <1>6, <2>2, Unseen DEF AfterCloneRecv, wakerVars
    <3> QED BY <2>1, <3>1, QuietReturn
  <2>3. CASE ~p /\ Terminal
    <3>1. Quiet /\ Goto([top EXCEPT !.at = "drop_unstored"]) /\ Disconnected
      BY <1>6, <2>1, <2>3, Unseen DEF AfterCloneRecv, wakerVars, Terminal
    <3> QED BY <2>1, <3>1, QuietGoto DEF Labels, CallbackPoints
  <2>4. CASE ~p /\ ~Terminal
    <3>1. /\ At("clone_recv") /\ recv_waker' = top.who
          /\ UNCHANGED <<chanVars, inHand, send_wakers, waker_id, taskVars, histVars>>
      BY <1>6, <2>4 DEF AfterCloneRecv
    <3>2. CASE recv_waker = None
      <4>1. Goto(Rechecking)
        BY <1>6, <2>4, <3>2 DEF AfterCloneRecv
      <4>2. StackIn(Frames)' /\ Moves("poll2", "take", top.who, {})
        BY <2>1, <4>1, RecheckFrame
      <4> QED BY <2>4, <3>1, <4>2, StoreRecvInv
    <3>3. CASE recv_waker /= None
      <4>1. Goto([top EXCEPT !.at = "drop_replaced"]) /\ "drop_replaced" \in Labels
        BY <1>6, <2>4, <3>3 DEF AfterCloneRecv, Labels, CallbackPoints
      <4>2. StackIn(Frames)' /\ Moves("poll1", "drop_replaced", top.who, {})
        BY <2>1, <4>1, GotoAt DEF PInv
      <4> QED BY <2>4, <3>1, <4>2, StoreRecvInv
    <3> QED BY <3>2, <3>3
  <2> QED BY <1>p, <2>2, <2>3, <2>4
<1>7. CASE AfterDropRegister(p)
  <2>1. /\ Quiet /\ depth > 0 /\ top.at \in {"drop_unstored", "drop_replaced"}
        /\ top.op = "poll1" /\ top.todo = {}
    BY <1>7, Unseen, TopFacts DEF AfterDropRegister, Shape
  <2>2. CASE p
    BY <1>7, <2>1, <2>2, QuietReturn DEF AfterDropRegister
  <2>3. CASE ~p
    <3>1. StackIn(Frames)' /\ Moves("poll2", "take", top.who, {})
      BY <1>7, <2>1, <2>3, RecheckFrame DEF AfterDropRegister
    <3> QED BY <2>1, <3>1, QuietMovesInv DEF TakeOps
  <2> QED BY <1>p, <2>2, <2>3
<1>8. CASE AfterLostItem(p)
  <2>1. Quiet /\ depth > 0 /\ top.at = "lost_item" /\ top.op \in TakeOps
    BY <1>8, Unseen, TopFacts DEF AfterLostItem, At, Shape
  <2>2. Abort \/ Return
    BY <1>8 DEF AfterLostItem
  <2> QED BY <2>1, <2>2, AbortInv, QuietReturn DEF TakeOps
<1>9. CASE AfterDropCleared(p)
  BY <1>9, <1>p, Unseen, DrainsOn DEF AfterDropCleared, At
<1>10. CASE AfterPayload(p)
  <2>1. Quiet /\ depth > 0 /\ top.at = "payload"
    BY <1>10, Unseen DEF AfterPayload, At
  <2>2. CASE p /\ top.panicked
    BY <1>10, <2>1, <2>2, AbortInv DEF AfterPayload
  <2>3. CASE ~(p /\ top.panicked)
    <3> DEFINE q == top.panicked \/ p
    <3>1. q \in BOOLEAN
      BY <1>p
    <3>2. Goto([top EXCEPT !.at = "drain", !.panicked = q])
      <4>1. Goto([top EXCEPT !.at = "drain", !.panicked = @ \/ p])
        BY <1>10, <2>3 DEF AfterPayload
      <4>2. top \in Frames
        BY <2>1, TopFacts
      <4>3. [top EXCEPT !.at = "drain", !.panicked = @ \/ p] = [top EXCEPT !.at = "drain", !.panicked = q]
        BY <4>2 DEF Frames
      <4> QED BY <4>1, <4>3
    <3> HIDE DEF q
    <3> QED BY <2>1, <3>1, <3>2, DrainsOn
  <2> QED BY <2>2, <2>3
<1> QED BY <1>1, <1>2, <1>3, <1>4, <1>5, <1>6, <1>7, <1>8, <1>9, <1>10 DEF CallbackSteps

LEMMA LibraryInv ==
  ASSUME PInv, LibrarySteps
  PROVE  PInv'
<1>1. CASE WakesReturn
  <2>1. Quiet /\ depth > 0 /\ top.at = "woke" /\ Return /\ top.op \in {"try_send", "sender_drop", "close2"}
    BY <1>1, Unseen DEF WakesReturn, At, Running
  <2> QED BY <2>1, QuietReturn DEF TakeOps
<1>2. CASE WakesCommit
  <2>1. /\ depth > 0 /\ top.op = "send" /\ top.at = "woke" /\ Return
        /\ sfut' \in {sfut, [sfut EXCEPT ![top.who] = "ok"]}
        /\ UNCHANGED <<chanVars, inHand, wakerVars, rfut, parked, woken, histVars>>
    BY <1>2 DEF WakesCommit, At, Running
  <2> QED BY <2>1, CommitReturnsInv
<1>3. CASE SendClosed
  BY <1>3, SendClosedDropsInv, SendClosedReturnsInv
<1>4. CASE SendPush
  BY <1>4, SendPushDropsInv, SendPushWakesInv
<1>5. CASE TakeNothing
  <2>1. /\ Quiet /\ depth > 0 /\ top.at = "take" /\ queue = <<>>
        /\ Goto([top EXCEPT !.at = "empty"])
    BY <1>5, Unseen DEF TakeNothing, At
  <2> QED BY <2>1, QuietGoto DEF Labels
<1>6. CASE TryRecvEmpty
  <2>1. /\ depth > 0 /\ top.at = "empty" /\ top.op = "try_recv" /\ Return /\ queue = <<>>
    BY <1>6 DEF TryRecvEmpty, At, Running, PInv, EmptySeen
  <2>2. /\ sawNone' \in BOOLEAN /\ (sawNone' => sawNone \/ Disconnected)
        /\ UNCHANGED <<chanVars, inHand, wakerVars, taskVars, pushed, delivered, drained, lost,
                       unplugged>>
    BY <1>6 DEF TryRecvEmpty
  <2>3. Quiet
    BY <2>1, <2>2 DEF PInv, DataType, RxBorrows, Quiet, chanVars, taskVars
  <2> QED BY <2>1, <2>3, QuietReturn
<1>7. CASE PollDisconnected
  <2>1. /\ depth > 0 /\ top.at = "empty" /\ top.op \in {"poll1", "poll2"} /\ Return
        /\ queue = <<>> /\ Disconnected /\ recv_waker' = None /\ recv_waker = None
    BY <1>7 DEF PollDisconnected, At, Running, PInv, EmptySeen, RecvTerminal
  <2>2. /\ sawNone' = TRUE /\ rfut' = IF rfut = "live" THEN "done" ELSE rfut
        /\ UNCHANGED <<chanVars, inHand, send_wakers, waker_id, sfut, parked, woken,
                       pushed, delivered, drained, lost, unplugged>>
    BY <1>7 DEF PollDisconnected, Finished
  <2>3. Quiet
    BY <2>1, <2>2 DEF PInv, DataType, RecvStates, RxBorrows, Quiet, chanVars, wakerVars
  <2> QED BY <2>1, <2>3, QuietReturn
<1>8. CASE PollRegister
  <2>1. /\ Quiet /\ depth > 0 /\ top.at = "empty" /\ top.op = "poll1"
        /\ Goto([top EXCEPT !.at = "clone_recv"])
    BY <1>8, Unseen DEF PollRegister, At, Running
  <2> QED BY <2>1, QuietGoto DEF Labels, CallbackPoints
<1>9. CASE DrainDone
  <2>1. Quiet /\ depth > 0 /\ top.at = "drain" /\ queue = <<>> /\ Return /\ top.op = "receiver_drop"
    BY <1>9, Unseen, TopFacts DEF DrainDone, At, Shape
  <2> QED BY <2>1, QuietReturn
<1> QED
  BY <1>1, <1>2, <1>3, <1>4, <1>5, <1>6, <1>7, <1>8, <1>9, CloseSendersInv, SendFullInv,
    SendPendingInv, TakeItemInv, DeliverItemInv, LoseItemInv, RecvPendingInv, ClearRecvWakerInv,
    DrainItemInv
    DEF LibrarySteps

LEMMA StutterInv ==
  ASSUME PInv, UNCHANGED vars
  PROVE  PInv'
<1>1. Quiet
  BY Unseen DEF vars
<1>2. StackIn(Frames)' /\ Stays
  BY SameStep DEF PInv, vars
<1> QED BY <1>1, <1>2, QuietStaysInv

LEMMA NextInv ==
  ASSUME PInv, [Next]_vars
  PROVE  PInv'
<1>1. CASE Over \/ UNCHANGED vars
  BY <1>1, StutterInv DEF Over
<1> QED BY <1>1, SenderCallsInv, ReceiverCallsInv, CallbackInv, LibraryInv DEF Next

LEMMA InitInv == Init => PInv
<1> SUFFICES ASSUME Init PROVE PInv
  OBVIOUS
<1> USE MpscAssumption
<1>1. depth = 0 /\ Live = {} /\ StackIn(Frames)
  BY IdleFrame, InitStack DEF Init
<1>2. DataType
  <2>1. <<>> \in Seq(Items) /\ Len(<<>>) = 0
    OBVIOUS
  <2>2. 0 <= Cap /\ 1 \in 0..MaxSenders
    OBVIOUS
  <2>3. /\ waker_id \in [Items -> WakerIds \cup {None}]
        /\ sfut \in [Items -> SendStates]
    BY DEF Init, SendStates
  <2>4. /\ queue \in Seq(Items) /\ (Bounded => Len(queue) <= Cap)
        /\ inHand \in Seq(Items) /\ Len(inHand) <= 1
        /\ pushed \in Seq(Items) /\ delivered \in Seq(Items) /\ drained \in Seq(Items)
    BY <2>1, <2>2 DEF Init
  <2>5. senders \in 0..MaxSenders /\ recv_waker \in Tasks \cup {None}
    BY <2>2 DEF Init
  <2>6. /\ send_wakers \subseteq Items \X WakerIds /\ lost \subseteq Items
        /\ parked \subseteq Items \cup Tasks /\ woken \subseteq Items \cup Tasks
    BY DEF Init
  <2>7. /\ rxAlive \in BOOLEAN /\ closed \in BOOLEAN
        /\ sawNone \in BOOLEAN /\ unplugged \in BOOLEAN
    BY DEF Init
  <2>8. rfut \in RecvStates
    BY DEF Init, RecvStates
  <2> QED BY <2>3, <2>4, <2>5, <2>6, <2>7, <2>8 DEF DataType
<1>3. Below /\ Shapes /\ OneTake /\ RxBorrows /\ HandOK /\ EmptySeen /\ Registered
  BY <1>1 DEF Init, Below, Shapes, OneTake, RxBorrows, HandOK, EmptySeen, Registered
<1>4. SendOnce /\ SendStack /\ Unparked /\ IdStack /\ RecvRegistered
  BY <1>1 DEF SendOnce, SendStack, Unparked, IdStack, RecvRegistered
<1>5. SendersLive /\ SendRegs /\ RecvTerminal /\ SendTerminal
  BY DEF Init, SendersLive, SendRegs, RecvTerminal, SendTerminal
<1>6. RecvWakeup /\ SendWakeup
  BY DEF Init, RecvWakeup, NoLostRecvWakeup, SendWakeup
<1>7. DisconnectIsFinal /\ QueueDrained
  BY DEF Init, DisconnectIsFinal, QueueDrained
<1>8. OutcomeExact
  BY DEF Init, OutcomeExact, Accepted
<1> QED BY <1>1, <1>2, <1>3, <1>4, <1>5, <1>6, <1>7, <1>8 DEF PInv

\* The invariant holds in every reachable state.
LEMMA Invariance == Spec => []PInv
<1> QED BY InitInv, NextInv, PTL DEF Spec

-----------------------------------------------------------------------------
(* Theorems *)

\* Every variable has its type: a bounded queue never exceeds its capacity and
\* a receive holds at most one popped item.
THEOREM TypeCorrect == Spec => []TypeOK
<1>1. PInv => TypeOK
  BY DEF PInv, DataType, StackIn, TypeOK
<1> QED BY <1>1, Invariance, PTL

\* A send says what became of its item: Ok exactly if it went into the channel,
\* whatever panicked on the way.
THEOREM OutcomeCorrect == Spec => []OutcomeExact
<1>1. PInv => OutcomeExact
  BY DEF PInv
<1> QED BY <1>1, Invariance, PTL

\* No send is left parked on a channel that has room or is closed to it.
THEOREM SendWakeupCorrect == Spec => []NoLostSendWakeup
<1>1. PInv => NoLostSendWakeup
  BY DEF PInv, SendWakeup, SendWaits, NoLostSendWakeup, ClosedToSend
<1> QED BY <1>1, Invariance, PTL

\* If the waker that commit drops does not panic, the consumer is not left parked
\* on a channel that has an item or a disconnection for it: that drop is the only
\* callback whose panic can lose the wakeup, and but for panics only the drop of a
\* Recv that was never polled can take a waiting Stream's waker away.
THEOREM RecvWakeupCorrect ==
  ASSUME "drop_commit" \notin Toxic
  PROVE  Spec => []NoLostRecvWakeup
<1>1. PInv => NoLostRecvWakeup
  BY DEF PInv, RecvWakeup
<1> QED BY <1>1, Invariance, PTL

\* No waker outlives its use.
THEOREM WakersCorrect == Spec => []NoStaleWaker
<1>1. PInv => NoStaleWaker
  <2> SUFFICES ASSUME PInv PROVE NoStaleWaker
    OBVIOUS
  <2>1. depth = 0 => ~Closing
    BY DEF Closing, Live
  <2> QED BY <2>1 DEF PInv, SendRegs, RecvTerminal, SendTerminal, NoStaleWaker
<1> QED BY <1>1, Invariance, PTL

\* A receive that reported disconnection never has to be taken back.
THEOREM DisconnectCorrect == Spec => []DisconnectIsFinal
<1>1. PInv => DisconnectIsFinal
  BY DEF PInv
<1> QED BY <1>1, Invariance, PTL

-----------------------------------------------------------------------------
(* The waker slot of a Receiver that is dropped *)

\* While the Receiver drains, a panic apart, and while the waker it has cleared is
\* dropped, the slot is empty.
Draining == {"drain", "payload", "drop_cleared"}
SlotEmpty(f) == f.at = "drop_cleared" \/ (f.at \in Draining /\ ~f.panicked)
SlotInv == \A d \in Live : SlotEmpty(frames[d]) => recv_waker = None

\* Every call on the stack is as it was, but for one that is now f.
Tops(f) == \A d \in Live' : frames'[d] = f \/ (d \in Live /\ frames'[d] = frames[d])

LEMMA StackTops ==
  ASSUME StackIn(Frames), NEW f,
         (Call(f) /\ depth < MaxDepth) \/ Goto(f) \/ Return \/ Abort \/ UNCHANGED stackVars
  PROVE  Tops(f)
<1>0. depth \in 0..MaxDepth /\ MaxDepth \in Nat /\ DOMAIN frames = 0..MaxDepth
  BY ReentryAssumption DEF StackIn
<1>1. CASE Call(f) /\ depth < MaxDepth
  BY <1>0, <1>1 DEF Tops, Live, Call, StackIn
<1>2. CASE Goto(f)
  BY <1>0, <1>2 DEF Tops, Live, Goto, StackIn
<1>3. CASE Return
  BY <1>0, <1>3 DEF Tops, Live, Return, StackIn
<1>4. CASE Abort \/ UNCHANGED stackVars
  BY <1>0, <1>4 DEF Tops, Live, Abort, stackVars
<1> QED BY <1>1, <1>2, <1>3, <1>4

\* A step that stores no waker keeps the invariant, if the call it leaves on top
\* may be where it is.
LEMMA SlotStep ==
  ASSUME SlotInv, NEW f, Tops(f), recv_waker' \in {None, recv_waker},
         SlotEmpty(f) => recv_waker' = None
  PROVE  SlotInv'
BY DEF SlotInv, Tops, SlotEmpty

\* Neither a new call nor one at its wakes drains.
LEMMA WakingAt ==
  ASSUME NEW f, f \in Frames \/ \E op, at, who : f = Frame(op, at, who), NEW list
  PROVE  ~SlotEmpty(Waking(f, list))
<1>1. Waking(f, list).at \in {"woke", "wake"}
  BY DEF Waking, Frame, Frames
<1> QED BY <1>1 DEF SlotEmpty, Draining

LEMMA IdleAt == ~SlotEmpty(Idle)
BY DEF Idle, Frame, SlotEmpty, Draining

LEMMA RecheckAt ==
  ASSUME top \in Frames
  PROVE  ~SlotEmpty(Rechecking)
<1>1. Rechecking.at = "take"
  BY DEF Rechecking, Frames
<1> QED BY <1>1 DEF SlotEmpty, Draining

LEMMA CallsSlot ==
  ASSUME PInv, SlotInv, SendCalls \/ SenderCalls \/ ReceiverCalls
  PROVE  SlotInv'
<1>0. StackIn(Frames)
  BY DEF PInv
<1>1. CASE CloneSender \/ DropSender \/ NewRecv \/ DropRecv
           \/ \E i \in Items : NewSend(i) \/ ReplayOutcome(i) \/ DropSend(i)
  <2>1. UNCHANGED stackVars /\ recv_waker' \in {None, recv_waker}
    BY <1>1 DEF CloneSender, DropSender, NewRecv, DropRecv, NewSend, ReplayOutcome, DropSend,
      wakerVars
  <2> QED BY <1>0, <2>1, StackTops, IdleAt, SlotStep
<1>2. CASE TryRecv \/ (\E t \in Tasks : PollRecv(t) \/ PollNext(t)) \/ \E i \in Items : PollSend(i)
  <2>1. PICK op, who : \E at \in {"take", "first"} : Call(Frame(op, at, who))
    BY <1>2 DEF TryRecv, PollRecv, PollNext, Polling, PollSend
  <2>2. PICK at \in {"take", "first"} : Call(Frame(op, at, who))
    BY <2>1
  <2>3. depth < MaxDepth /\ recv_waker' = recv_waker
    BY <1>2 DEF TryRecv, PollRecv, PollNext, Polling, PollSend, MayCall, UserCode, wakerVars
  <2>4. ~SlotEmpty(Frame(op, at, who))
    BY <2>2 DEF Frame, SlotEmpty, Draining
  <2> QED BY <1>0, <2>2, <2>3, <2>4, StackTops, SlotStep
<1>3. CASE DropLastSender \/ SenderClose \/ ReceiverClose \/ DropReceiver
           \/ \E i \in Items : TrySend(i)
  <2>1. PICK op, who, list : Call(Waking(Frame(op, "woke", who), list))
    BY <1>3 DEF DropLastSender, SenderClose, ReceiverClose, ClosingVia, DropReceiver, TrySend
  <2>2. depth < MaxDepth /\ recv_waker' \in {None, recv_waker}
    BY <1>3 DEF DropLastSender, SenderClose, ReceiverClose, ClosingVia, DropReceiver, TrySend,
      WakeReceiver, MayCall, UserCode
  <2>3. ~SlotEmpty(Waking(Frame(op, "woke", who), list))
    BY WakingAt
  <2> QED BY <1>0, <2>1, <2>2, <2>3, StackTops, SlotStep
<1> QED BY <1>1, <1>2, <1>3 DEF SendCalls, SenderCalls, ReceiverCalls

\* A waker is stored by a poll_recv, which holds the living Receiver.
LEMMA StoreSlot ==
  ASSUME PInv, NEW p \in Panics, AfterCloneRecv(p)
  PROVE  SlotInv'
<1>1. depth > 0 /\ top.op = "poll1" /\ StackIn(Frames) /\ depth \in Live /\ top \in Frames
  BY TopFacts DEF AfterCloneRecv, At, PInv, Shape
<1>2. \A d \in Live : ~SlotEmpty(frames[d])
  BY <1>1, TopFacts DEF PInv, RxBorrows, Shapes, Shape, TakeOps, SlotEmpty, Draining
<1>3. PICK f : (Goto(f) \/ Return) /\ ~SlotEmpty(f)
  <2>1. CASE Return
    BY <2>1, IdleAt
  <2>2. CASE \E at \in {"drop_unstored", "drop_replaced"} : Goto([top EXCEPT !.at = at])
    BY <1>1, <2>2 DEF SlotEmpty, Draining, Frames
  <2>3. CASE Goto(Rechecking)
    BY <1>1, <2>3, RecheckAt
  <2> QED BY <2>1, <2>2, <2>3 DEF AfterCloneRecv
<1>4. Tops(f)
  BY <1>1, <1>3, StackTops
<1> QED BY <1>2, <1>3, <1>4 DEF SlotInv, Tops, SlotEmpty

LEMMA CallbackSlot ==
  ASSUME PInv, SlotInv, NEW p \in Panics, CallbackSteps(p)
  PROVE  SlotInv'
<1>0. StackIn(Frames) /\ top \in Frames
  BY LiveStack DEF PInv
<1>1. CASE AfterDropCleared(p) \/ AfterPayload(p)
  <2>1. depth \in Live /\ (SlotEmpty(top) => recv_waker = None) /\ recv_waker' = recv_waker
    BY <1>1, TopFacts DEF AfterDropCleared, AfterPayload, At, SlotInv, wakerVars
  <2>2. CASE Abort
    BY <1>0, <2>1, <2>2, StackTops, IdleAt, SlotStep
  <2>3. CASE ~Abort
    <3>1. PICK g \in {[top EXCEPT !.at = "drain", !.panicked = p],
                      [top EXCEPT !.at = "drain", !.panicked = top.panicked \/ p]} :
            Goto(g) /\ (SlotEmpty(g) => SlotEmpty(top))
      BY <1>0, <1>1, <2>3 DEF AfterDropCleared, AfterPayload, At, SlotEmpty, Draining, Frames
    <3>2. Tops(g)
      BY <1>0, <3>1, StackTops
    <3> QED BY <2>1, <3>1, <3>2, SlotStep
  <2> QED BY <2>2, <2>3
<1>2. CASE AfterCloneRecv(p)
  BY <1>2, StoreSlot
<1>3. CASE WakeNext(p) \/ AfterDropCommit(p)
  <2>1. recv_waker' \in {None, recv_waker}
    BY <1>3 DEF WakeNext, AfterDropCommit, WakeReceiver, wakerVars
  <2>2. CASE Return
    BY <1>0, <2>1, <2>2, StackTops, IdleAt, SlotStep
  <2>3. CASE ~Return
    <3>1. PICK g \in Frames : \E list : Goto(Waking(g, list))
      <4>1. [top EXCEPT !.panicked = @ \/ p] \in Frames
        BY <1>0, ReentryAssumption DEF Frames
      <4> QED BY <1>0, <1>3, <2>3, <4>1 DEF WakeNext, AfterDropCommit
    <3>2. PICK list : Goto(Waking(g, list))
      BY <3>1
    <3>3. ~SlotEmpty(Waking(g, list))
      BY <3>1, WakingAt
    <3> QED BY <1>0, <2>1, <3>2, <3>3, StackTops, SlotStep
  <2> QED BY <2>2, <2>3
<1>4. CASE WakeAborts(p) \/ AfterDropOldSend(p) \/ AfterCloneSend(p) \/ AfterDropRegister(p)
           \/ AfterLostItem(p)
  <2>1. recv_waker' = recv_waker
    BY <1>4 DEF WakeAborts, AfterDropOldSend, AfterCloneSend, AfterDropRegister, AfterLostItem,
      StoreSend, wakerVars
  <2>2. PICK f : (Goto(f) \/ Return \/ Abort) /\ ~SlotEmpty(f)
    <3>1. CASE Return \/ Abort
      BY <3>1, IdleAt
    <3>2. CASE \E at \in {"clone_send", "recheck"} : Goto([top EXCEPT !.at = at])
      BY <1>0, <3>2 DEF SlotEmpty, Draining, Frames
    <3>3. CASE Goto(Rechecking)
      BY <1>0, <3>3, RecheckAt
    <3> QED BY <1>4, <3>1, <3>2, <3>3 DEF WakeAborts, WakeAborted, AfterDropOldSend,
      AfterCloneSend, StoreSend, AfterDropRegister, AfterLostItem
  <2> QED BY <1>0, <2>1, <2>2, StackTops, SlotStep
<1> QED BY <1>1, <1>2, <1>3, <1>4 DEF CallbackSteps

LEMMA LibrarySlot ==
  ASSUME PInv, SlotInv, LibrarySteps
  PROVE  SlotInv'
<1>0. StackIn(Frames) /\ top \in Frames
  BY LiveStack DEF PInv
<1>1. CASE ClearRecvWaker
  <2> DEFINE at == IF top.panicked \/ recv_waker = None THEN "drain" ELSE "drop_cleared"
             f == [top EXCEPT !.at = at]
  <2>1. Goto(f) /\ recv_waker' = IF top.panicked THEN recv_waker ELSE None
    BY <1>1 DEF ClearRecvWaker
  <2>2. f.at = at /\ f.panicked = top.panicked
    BY <1>0 DEF Frames
  <2>3. SlotEmpty(f) => recv_waker' = None
    BY <2>1, <2>2 DEF SlotEmpty
  <2>4. Tops(f)
    BY <1>0, <2>1, StackTops
  <2> QED BY <2>1, <2>3, <2>4, SlotStep
<1>2. CASE DrainItem
  <2> DEFINE f == [top EXCEPT !.at = "payload"]
  <2>1. Goto(f) /\ recv_waker' = recv_waker /\ depth > 0 /\ top.at = "drain"
    BY <1>2 DEF DrainItem, At, wakerVars
  <2>2. f.at = "payload" /\ f.panicked = top.panicked
    BY <1>0 DEF Frames
  <2>3. SlotEmpty(f) => recv_waker = None
    BY <2>1, <2>2, TopFacts DEF SlotInv, SlotEmpty, Draining
  <2>4. Tops(f)
    BY <1>0, <2>1, StackTops
  <2> QED BY <2>1, <2>3, <2>4, SlotStep
<1>3. CASE CloseSenders \/ SendPush \/ TakeItem
  <2>1. recv_waker' \in {None, recv_waker}
    BY <1>3 DEF CloseSenders, SendPush, TakeItem, WakeReceiver
  <2>2. CASE Goto([top EXCEPT !.at = "drop_commit"])
    <3>1. ~SlotEmpty([top EXCEPT !.at = "drop_commit"])
      BY <1>0 DEF SlotEmpty, Draining, Frames
    <3> QED BY <1>0, <2>1, <2>2, <3>1, StackTops, SlotStep
  <2>3. CASE ~Goto([top EXCEPT !.at = "drop_commit"])
    <3>1. PICK g \in Frames : \E list : Goto(Waking(g, list))
      <4>1. [top EXCEPT !.op = "close2"] \in Frames
        BY <1>0 DEF Frames, Ops
      <4> QED BY <1>0, <1>3, <2>3, <4>1 DEF CloseSenders, SendPush, TakeItem
    <3>2. PICK list : Goto(Waking(g, list))
      BY <3>1
    <3>3. ~SlotEmpty(Waking(g, list))
      BY <3>1, WakingAt
    <3> QED BY <1>0, <2>1, <3>2, <3>3, StackTops, SlotStep
  <2> QED BY <2>2, <2>3
<1>4. CASE WakesReturn \/ WakesCommit \/ SendClosed \/ SendFull \/ SendPending \/ DeliverItem
           \/ LoseItem \/ TakeNothing \/ TryRecvEmpty \/ PollDisconnected \/ PollRegister
           \/ RecvPending \/ DrainDone
  <2>1. recv_waker' \in {None, recv_waker}
    BY <1>4 DEF WakesReturn, WakesCommit, SendClosed, SendFull, SendPending, DeliverItem, LoseItem,
      TakeNothing, TryRecvEmpty, PollDisconnected, PollRegister, RecvPending, DrainDone, wakerVars
  <2>2. \/ Return
        \/ \E at \in {"drop_commit", "drop_old_send", "clone_send", "lost_item", "empty",
                      "clone_recv"} : Goto([top EXCEPT !.at = at])
    BY <1>4 DEF WakesReturn, WakesCommit, SendClosed, SendFull, SendPending, DeliverItem, LoseItem,
      TakeNothing, TryRecvEmpty, PollDisconnected, PollRegister, RecvPending, DrainDone
  <2>3. PICK f : (Goto(f) \/ Return) /\ ~SlotEmpty(f)
    BY <1>0, <2>2, IdleAt DEF SlotEmpty, Draining, Frames
  <2> QED BY <1>0, <2>1, <2>3, StackTops, SlotStep
<1> QED BY <1>1, <1>2, <1>3, <1>4 DEF LibrarySteps

LEMMA NextSlot == PInv /\ SlotInv /\ [Next]_vars => SlotInv'
<1> SUFFICES ASSUME PInv, SlotInv, [Next]_vars PROVE SlotInv'
  OBVIOUS
<1>1. CASE Over \/ UNCHANGED vars
  <2>1. UNCHANGED stackVars /\ recv_waker' = recv_waker /\ StackIn(Frames)
    BY <1>1 DEF Over, vars, wakerVars, PInv
  <2> QED BY <2>1, StackTops, IdleAt, SlotStep
<1> QED BY <1>1, CallsSlot, CallbackSlot, LibrarySlot DEF Next

\* The Receiver's drop empties the channel even when wakers and payloads panic, and
\* the slot of its waker too unless a panic is unwinding.
THEOREM DrainCorrect == Spec => []ReceiverDrains
<1>1. Init => SlotInv
  BY InitInv DEF Init, StackInit, SlotInv, Live
<1>2. PInv /\ SlotInv => ReceiverDrains
  BY DEF PInv, SlotInv, SlotEmpty, Draining, SlotCleared, ReceiverDrains
<1> QED BY <1>1, <1>2, NextSlot, Invariance, PTL DEF Spec

-----------------------------------------------------------------------------
(* The channel implements the abstract one *)

\* The items between senders and receiver, the popped one first.
buffer == inHand \o queue

LEMMA Stutter ==
  ASSUME UNCHANGED <<queue, inHand, closed>>,
         senders' > 0 <=> senders > 0, rxAlive' = rxAlive
  PROVE  UNCHANGED Ch!vars
BY DEF Ch!vars

\* A running receive holds the living Receiver and has nothing in hand before its take.
LEMMA TakingFacts ==
  ASSUME PInv, depth > 0, top.op \in TakeOps
  PROVE  rxAlive /\ (inHand /= <<>> <=> top.at \in Waiting)
<1>1. depth \in Live /\ top = frames[depth]
  BY TopFacts
<1>2. rxAlive
  BY <1>1 DEF PInv, RxBorrows
<1>3. \A d \in Live : frames[d].op \in TakeOps => d = depth
  BY <1>1 DEF PInv, OneTake
<1> QED BY <1>1, <1>2, <1>3 DEF PInv, HandOK

\* A Receiver that is being dropped has no receive running.
LEMMA DroppedFacts ==
  ASSUME PInv, ~rxAlive
  PROVE  inHand = <<>>
BY DEF PInv, HandOK, RxBorrows

LEMMA PushChannel ==
  ASSUME PInv, NEW i \in Items, senders > 0, rxAlive, ~closed, ~IsFull, Push(i), inHand' = inHand
  PROVE  Ch!Next
<1>1. queue \in Seq(Items) /\ inHand \in Seq(Items) /\ Len(inHand) <= 1
  BY DEF PInv, DataType
<1>2. buffer' = Append(buffer, i)
  BY <1>1 DEF Push, buffer
<1>3. Bounded => Len(buffer) <= Cap
  <2>1. Len(buffer) = Len(inHand) + Len(queue) /\ Len(queue) \in Nat /\ Len(inHand) \in Nat
    BY <1>1 DEF buffer
  <2>2. Bounded => Len(queue) <= Cap /\ Len(queue) /= Cap
    BY DEF PInv, DataType, IsFull
  <2> QED BY <1>1, <2>1, <2>2, MpscAssumption
<1>4. Ch!Send(i)
  BY <1>2, <1>3 DEF Push, Ch!Send, buffer
<1> QED BY <1>4 DEF Ch!Next

\* An item leaves in front, to the Receiver while it lives and dropped after.
LEMMA LeaveChannel ==
  ASSUME buffer /= <<>>, buffer' = Tail(buffer), UNCHANGED <<senders, rxAlive, closed>>
  PROVE  Ch!Next
<1>1. CASE rxAlive
  BY <1>1 DEF Ch!Next, Ch!Receive, buffer
<1>2. CASE ~rxAlive
  BY <1>2 DEF Ch!Next, Ch!Discard, buffer
<1> QED BY <1>1, <1>2

LEMMA CallsChannel ==
  ASSUME PInv, SendCalls \/ SenderCalls \/ ReceiverCalls
  PROVE  [Ch!Next]_(Ch!vars)
<1>1. ASSUME NEW i \in Items, TrySend(i) PROVE Ch!Next
  BY <1>1, PushChannel DEF TrySend, ClosedToSend
<1>2. ASSUME NEW i \in Items, NewSend(i) \/ PollSend(i) \/ ReplayOutcome(i) \/ DropSend(i)
      PROVE  UNCHANGED Ch!vars
  BY <1>2, Stutter DEF NewSend, PollSend, ReplayOutcome, DropSend, chanVars
<1>3. CASE TryRecv \/ NewRecv \/ DropRecv
  BY <1>3, Stutter DEF TryRecv, NewRecv, DropRecv, chanVars
<1>4. CASE CloneSender \/ DropSender
  <2>1. senders \in Nat
    BY MpscAssumption DEF PInv, DataType
  <2> QED BY <1>4, <2>1, Stutter DEF CloneSender, DropSender
<1>5. CASE DropLastSender
  <2>1. Ch!LastSenderLeaves
    BY <1>5 DEF DropLastSender, Ch!LastSenderLeaves
  <2> QED BY <2>1 DEF Ch!Next
<1>6. ASSUME NEW who, ~closed, ClosingVia(who) PROVE Ch!Next
  <2>1. Ch!Close
    BY <1>6 DEF ClosingVia, Ch!Close
  <2> QED BY <2>1 DEF Ch!Next
<1>7. ASSUME NEW t \in Tasks, PollRecv(t) \/ PollNext(t) PROVE UNCHANGED Ch!vars
  BY <1>7, Stutter DEF PollRecv, PollNext, Polling, chanVars
<1>8. CASE DropReceiver
  <2>1. Ch!LastReceiverLeaves
    BY <1>8 DEF DropReceiver, RxFree, RxShared, Ch!LastReceiverLeaves
  <2> QED BY <2>1 DEF Ch!Next
<1>9. CASE SendCalls
  BY <1>1, <1>2, <1>9 DEF SendCalls
<1>10. CASE SenderCalls
  BY <1>4, <1>5, <1>6, <1>10 DEF SenderCalls, SenderClose, ClosedToSend
<1>11. CASE ReceiverCalls
  BY <1>3, <1>6, <1>7, <1>8, <1>11 DEF ReceiverCalls, ReceiverClose, Disconnected
<1> QED BY <1>9, <1>10, <1>11

LEMMA LibraryChannel ==
  ASSUME PInv, LibrarySteps
  PROVE  [Ch!Next]_(Ch!vars)
<1>q. queue \in Seq(Items) /\ inHand \in Seq(Items) /\ Len(inHand) <= 1
  BY DEF PInv, DataType
<1>1. CASE SendPush
  <2>1. depth > 0 /\ top.at \in SendPoints /\ ~closed /\ rxAlive /\ ~IsFull
    BY <1>1 DEF SendPush, Looking, MayPush, ClosedToSend, SendPoints
  <2>2. top.who \in Items /\ sfut[top.who] = "pending"
    BY <2>1, TopFacts DEF Shape, SendState
  <2>3. senders > 0
    <3>1. senders /= 0
      BY <2>2 DEF PInv, SendersLive, LiveSend
    <3>2. senders \in Nat
      BY MpscAssumption DEF PInv, DataType
    <3> QED BY <3>1, <3>2
  <2> QED BY <1>1, <2>1, <2>2, <2>3, PushChannel DEF SendPush
<1>2. CASE TakeItem
  <2>1. depth > 0 /\ top.at = "take" /\ top.op \in TakeOps
    BY <1>2, TopFacts DEF TakeItem, At, Shape
  <2>2. inHand = <<>>
    BY <2>1, TakingFacts DEF Waiting
  <2>3. /\ queue /= <<>> /\ queue' = Tail(queue) /\ inHand' = <<Head(queue)>>
        /\ UNCHANGED <<senders, rxAlive, closed>>
    BY <1>2 DEF TakeItem
  <2>4. buffer' = buffer
    BY <1>q, <2>2, <2>3, HeadThenTail DEF buffer
  <2> QED BY <2>3, <2>4 DEF Ch!vars, buffer
<1>3. CASE DeliverItem \/ LoseItem
  <2>1. depth > 0 /\ top.at = "woke" /\ top.op \in TakeOps
    BY <1>3 DEF DeliverItem, LoseItem, At, Running
  <2>2. inHand /= <<>>
    BY <2>1, TakingFacts DEF Waiting
  <2>3. inHand' = <<>> /\ UNCHANGED <<queue, senders, rxAlive, closed>>
    BY <1>3 DEF DeliverItem, LoseItem, chanVars
  <2>4. PICK x \in Items : inHand = <<x>>
    BY <1>q, <2>2, FullSlot
  <2>5. <<x>> \o queue /= <<>> /\ Tail(<<x>> \o queue) = queue /\ <<>> \o queue = queue
    BY <1>q
  <2>6. buffer /= <<>> /\ buffer' = Tail(buffer)
    BY <2>3, <2>4, <2>5 DEF buffer
  <2> QED BY <2>3, <2>6, LeaveChannel
<1>4. CASE DrainItem
  <2>1. ~rxAlive
    BY <1>4, TopFacts DEF DrainItem, At, Shape, PInv, RxBorrows
  <2>2. /\ queue /= <<>> /\ queue' = Tail(queue) /\ inHand = <<>>
        /\ UNCHANGED <<inHand, senders, rxAlive, closed>>
    BY <1>4, <2>1, DroppedFacts DEF DrainItem
  <2>3. buffer /= <<>> /\ buffer' = Tail(buffer)
    BY <1>q, <2>2 DEF buffer
  <2> QED BY <2>2, <2>3, LeaveChannel
<1>5. CASE WakesReturn \/ CloseSenders \/ WakesCommit \/ SendClosed \/ SendFull \/ SendPending
  BY <1>5, Stutter DEF WakesReturn, CloseSenders, WakesCommit, SendClosed, SendFull, SendPending,
                       chanVars
<1>6. CASE TakeNothing \/ TryRecvEmpty \/ PollDisconnected \/ PollRegister \/ RecvPending
             \/ ClearRecvWaker \/ DrainDone
  BY <1>6, Stutter DEF TakeNothing, TryRecvEmpty, PollDisconnected, PollRegister, RecvPending,
                       ClearRecvWaker, DrainDone, chanVars
<1> QED BY <1>1, <1>2, <1>3, <1>4, <1>5, <1>6 DEF LibrarySteps

LEMMA CallbackUnseen ==
  ASSUME NEW p \in Panics, CallbackSteps(p)
  PROVE  UNCHANGED <<chanVars, inHand, histVars>>
BY DEF CallbackSteps, WakeNext, WakeAborts, AfterDropOldSend, AfterCloneSend, AfterDropCommit,
  AfterCloneRecv, AfterDropRegister, AfterLostItem, AfterDropCleared, AfterPayload

LEMMA StepSimulation == PInv /\ [Next]_vars => [Ch!Next]_(Ch!vars)
<1> SUFFICES ASSUME PInv, [Next]_vars PROVE [Ch!Next]_(Ch!vars)
  OBVIOUS
<1>1. CASE SendCalls \/ SenderCalls \/ ReceiverCalls
  BY <1>1, CallsChannel
<1>2. CASE \E p \in Panics : CallbackSteps(p)
  BY <1>2, CallbackUnseen, Stutter DEF chanVars
<1>3. CASE LibrarySteps
  BY <1>3, LibraryChannel
<1>4. CASE Over \/ UNCHANGED vars
  BY <1>4, Stutter DEF Over, vars, chanVars
<1> QED BY <1>1, <1>2, <1>3, <1>4 DEF Next

\* With futures, wakers, callbacks and panics taken away what is left is the
\* first-in first-out channel, in which the item an unwinding receive drops has
\* been received: every step is one of its steps or changes nothing.
THEOREM MpscImplementsChannel == Spec => ImplementsChannel
<1>1. Init => Ch!Init
  <2> SUFFICES ASSUME Init PROVE Ch!Init
    OBVIOUS
  <2>1. closed = FALSE /\ rxAlive = TRUE
    BY Zenon DEF Init
  <2>2. queue = <<>> /\ inHand = <<>> /\ senders = 1
    BY DEF Init
  <2> QED BY <2>1, <2>2 DEF Ch!Init
<1> QED BY <1>1, StepSimulation, Invariance, PTL DEF Spec, ImplementsChannel, Ch!Spec

-----------------------------------------------------------------------------
(* First in, first out but for what panics lose *)

\* FifoButForPanics, with where a lost item comes from and that nothing is
\* drained before the Receiver is dropped.
FInv ==
  /\ FifoButForPanics
  /\ lost \subseteq Elems(pushed)
  /\ rxAlive => drained = <<>>

LEMMA TakenType ==
  ASSUME DataType
  PROVE  /\ Taken = Chain(delivered, inHand, drained, queue) /\ Taken \in Seq(Items)
         /\ Len(Taken) \in Nat /\ Len(pushed) \in Nat /\ pushed \in Seq(Items)
<1>1. Taken \in Seq(Items)
  <2>1. delivered \o inHand \in Seq(Items)
    BY DEF DataType
  <2>2. delivered \o inHand \o drained \in Seq(Items)
    BY <2>1 DEF DataType
  <2> QED BY <2>2 DEF Taken, DataType
<1> QED BY <1>1 DEF Taken, Chain, DataType

LEMMA KeepFifo ==
  ASSUME FInv, UNCHANGED <<pushed, lost>>, Taken' = Taken, rxAlive' => drained' = <<>>
  PROVE  FInv'
BY DEF FInv, FifoButForPanics, Elems, Before

\* An accepted item is a new one and goes behind all others.
LEMMA PushFifo ==
  ASSUME PInv, FInv, NEW i \in Items, ~Accepted(i), Push(i), inHand' = inHand
  PROVE  FInv'
<1> DEFINE t == Taken
           u == Taken'
           p == pushed
           r == pushed'
<1>0. DataType
  BY DEF PInv
<1>1. t \in Seq(Items) /\ p \in Seq(Items) /\ Len(t) \in Nat /\ Len(p) \in Nat
  BY <1>0, TakenType
<1>2. r = Append(p, i) /\ UNCHANGED <<lost, drained, rxAlive>>
  BY DEF Push
<1>3. u = Append(t, i)
  <2> DEFINE v == Append(t, i)
  <2>1. Pushed(queue, i, queue') /\ Pushed(Chain(delivered, inHand, drained, queue), i, v)
    BY <1>0, TakenType DEF Push, Pushed
  <2>2. /\ delivered \in Seq(Items) /\ inHand \in Seq(Items) /\ drained \in Seq(Items)
        /\ queue \in Seq(Items)
    BY <1>0 DEF DataType
  <2> HIDE DEF v
  <2>3. v = Chain(delivered, inHand, drained, queue')
    BY <2>1, <2>2, PushAtEnd
  <2>4. u = Chain(delivered, inHand, drained, queue')
    BY DEF Push, Taken, Chain
  <2> QED BY <2>3, <2>4 DEF v
<1> HIDE DEF t, u, p, r
<1>4. /\ Len(r) = Len(p) + 1 /\ r[Len(p) + 1] = i /\ \A n \in 1..Len(p) : r[n] = p[n]
      /\ Len(u) = Len(t) + 1 /\ u[Len(t) + 1] = i /\ \A n \in 1..Len(t) : u[n] = t[n]
  BY <1>1, <1>2, <1>3
<1>5. Elems(r) = Elems(p) \cup {i} /\ Elems(u) = Elems(t) \cup {i}
  <2>1. /\ 1..Len(r) = 1..Len(p) \cup {Len(p) + 1}
        /\ 1..Len(u) = 1..Len(t) \cup {Len(t) + 1}
    BY <1>1, <1>4
  <2> QED BY <1>4, <2>1 DEF Elems
<1>6. i \notin Elems(p)
  BY DEF Accepted, Elems, p
<1>7. Elems(t) = Elems(p) \ lost /\ lost \subseteq Elems(p)
  BY DEF FInv, FifoButForPanics, t, p
<1>8. Elems(u) = Elems(r) \ lost' /\ lost' \subseteq Elems(r)
  BY <1>2, <1>5, <1>6, <1>7
<1>9. \A m, n \in 1..Len(r) : r[m] = r[n] => m = n
  <2>1. \A m, n \in 1..Len(p) : p[m] = p[n] => m = n
    BY DEF FInv, FifoButForPanics, p
  <2>2. \A m \in 1..Len(p) : p[m] /= i
    BY <1>6 DEF Elems
  <2>3. \A m \in 1..Len(r) : m \in 1..Len(p) \/ m = Len(p) + 1
    BY <1>1, <1>4
  <2> QED BY <1>4, <2>1, <2>2, <2>3
<1>10. ASSUME NEW m \in 1..Len(u), NEW n \in 1..Len(u), m < n
       PROVE  \E a, b \in 1..Len(r) : a < b /\ r[a] = u[m] /\ r[b] = u[n]
  <2>1. m \in 1..Len(t) /\ u[m] = t[m]
    BY <1>1, <1>4, <1>10
  <2>2. CASE n \in 1..Len(t)
    <3>1. PICK a, b \in 1..Len(p) : a < b /\ p[a] = t[m] /\ p[b] = t[n]
      BY <1>10, <2>1, <2>2 DEF FInv, FifoButForPanics, Before, t, p
    <3> QED BY <1>1, <1>4, <2>1, <2>2, <3>1
  <2>3. CASE n = Len(t) + 1
    <3>1. t[m] \in Elems(p)
      BY <1>7, <2>1 DEF Elems
    <3>2. PICK a \in 1..Len(p) : p[a] = t[m]
      BY <3>1 DEF Elems
    <3> QED BY <1>1, <1>4, <2>1, <2>3, <3>2
  <2> QED BY <1>1, <1>4, <2>2, <2>3
<1>11. FifoButForPanics'
  BY <1>8, <1>9, <1>10 DEF FifoButForPanics, Before, Elems, u, r
<1> QED BY <1>2, <1>8, <1>11 DEF FInv, Elems, r

\* Without its middle element a sequence keeps the order of the others.
LEMMA WithoutMiddle ==
  ASSUME NEW S, NEW a \in Seq(S), NEW b \in Seq(S), NEW x \in S,
         NEW t, t = a \o <<x>> \o b, NEW u, u = a \o b
  PROVE  /\ Len(u) \in Nat /\ Len(t) = Len(u) + 1 /\ Len(a) \in 0..Len(u) /\ t[Len(a) + 1] = x
         /\ \A n \in 1..Len(u) : u[n] = IF n <= Len(a) THEN t[n] ELSE t[n + 1]
<1>1. a \o <<x>> \in Seq(S) /\ Len(a \o <<x>>) = Len(a) + 1 /\ Len(a) \in Nat /\ Len(b) \in Nat
  OBVIOUS
<1>2. /\ \A n \in 1..Len(a) : (a \o <<x>>)[n] = a[n]
      /\ (a \o <<x>>)[Len(a) + 1] = x
  OBVIOUS
<1>3. Len(t) = Len(a) + 1 + Len(b) /\ Len(u) = Len(a) + Len(b)
  BY <1>1
<1>4. \A n \in 1..Len(t) : t[n] = IF n <= Len(a) + 1 THEN (a \o <<x>>)[n] ELSE b[n - (Len(a) + 1)]
  BY <1>1, <1>3
<1>5. \A n \in 1..Len(u) : u[n] = IF n <= Len(a) THEN a[n] ELSE b[n - Len(a)]
  BY <1>1, <1>3
<1>6. t[Len(a) + 1] = x
  BY <1>1, <1>2, <1>3, <1>4
<1>7. ASSUME NEW n \in 1..Len(u) PROVE u[n] = IF n <= Len(a) THEN t[n] ELSE t[n + 1]
  <2>1. CASE n <= Len(a)
    BY <1>1, <1>2, <1>3, <1>4, <1>5, <2>1
  <2>2. CASE n > Len(a)
    <3>1. n + 1 \in 1..Len(t) /\ ~(n + 1 <= Len(a) + 1) /\ n + 1 - (Len(a) + 1) = n - Len(a)
      BY <1>1, <1>3, <2>2
    <3>2. t[n + 1] = b[n - Len(a)]
      BY <1>4, <3>1
    <3> QED BY <1>1, <1>5, <2>2, <3>2
  <2> QED BY <1>1, <1>3, <2>1, <2>2
<1> QED BY <1>1, <1>3, <1>6, <1>7

\* The item an unwind drops leaves the others in their order.
LEMMA LoseFifo ==
  ASSUME PInv, FInv, LoseItem
  PROVE  FInv'
<1>0. DataType
  BY DEF PInv
<1>1. /\ depth > 0 /\ top.op \in TakeOps /\ top.at = "woke"
      /\ inHand' = <<>> /\ lost' = lost \cup {Head(inHand)}
      /\ UNCHANGED <<queue, rxAlive, pushed, delivered, drained>>
  BY DEF LoseItem, At, Running, chanVars
<1>2. rxAlive /\ drained = <<>> /\ inHand /= <<>>
  BY <1>1, TakingFacts DEF Waiting, FInv
<1>3. PICK x \in Items : inHand = <<x>>
  BY <1>0, <1>2, FullSlot DEF DataType
<1> DEFINE t == Taken
           u == Taken'
           p == pushed'
           k == Len(delivered)
<1>4. t = delivered \o <<x>> \o queue
  <2>1. delivered \o <<x>> \in Seq(Items)
    BY <1>0 DEF DataType
  <2>2. delivered \o <<x>> \o <<>> = delivered \o <<x>>
    BY <2>1
  <2> QED BY <1>2, <1>3, <2>2 DEF Taken
<1>5. u = delivered \o queue
  <2>1. delivered \o <<>> = delivered
    BY <1>0 DEF DataType
  <2> QED BY <1>1, <1>2, <2>1 DEF Taken
<1>6. Len(p) \in Nat /\ delivered \in Seq(Items) /\ queue \in Seq(Items)
  BY <1>0, <1>1 DEF DataType
<1>7. \A m, n \in 1..Len(p) : p[m] = p[n] => m = n
  BY <1>1 DEF FInv, FifoButForPanics
<1>8. Elems(t) = Elems(p) \ lost /\ lost \subseteq Elems(p)
  BY <1>1 DEF FInv, FifoButForPanics
<1>9. \A m, n \in 1..Len(t) : m < n =>
         \E a, b \in 1..Len(p) : a < b /\ p[a] = t[m] /\ p[b] = t[n]
  BY <1>1 DEF FInv, FifoButForPanics, Before
<1>10. lost' = lost \cup {x}
  BY <1>1, <1>3
<1> HIDE DEF t, u, p
<1>11. /\ Len(u) \in Nat /\ Len(t) = Len(u) + 1 /\ k \in 0..Len(u) /\ t[k + 1] = x
       /\ \A n \in 1..Len(u) : u[n] = IF n <= k THEN t[n] ELSE t[n + 1]
  BY <1>4, <1>5, <1>6, WithoutMiddle
<1> HIDE DEF k
<1>12. \A m, n \in 1..Len(t) : t[m] = t[n] => m = n
  <2> SUFFICES ASSUME NEW m \in 1..Len(t), NEW n \in 1..Len(t), m < n, t[m] = t[n] PROVE FALSE
    BY <1>11
  <2>1. PICK a, b \in 1..Len(p) : a < b /\ p[a] = t[m] /\ p[b] = t[n]
    BY <1>9
  <2> QED BY <1>6, <1>7, <2>1
<1>13. Elems(u) = Elems(t) \ {x}
  <2>1. ASSUME NEW n \in 1..Len(u) PROVE u[n] \in Elems(t) \ {x}
    <3>1. CASE n <= k
      BY <1>11, <1>12, <3>1 DEF Elems
    <3>2. CASE ~(n <= k)
      BY <1>11, <1>12, <3>2 DEF Elems
    <3> QED BY <3>1, <3>2
  <2>2. ASSUME NEW n \in 1..Len(t), t[n] /= x PROVE t[n] \in Elems(u)
    <3>1. CASE n <= k
      <4>1. n \in 1..Len(u) /\ u[n] = t[n]
        BY <1>11, <3>1
      <4> QED BY <4>1 DEF Elems
    <3>2. CASE n > k + 1
      <4>1. n - 1 \in 1..Len(u) /\ u[n - 1] = t[n]
        BY <1>11, <3>2
      <4> QED BY <4>1 DEF Elems
    <3> QED BY <1>11, <2>2, <3>1, <3>2
  <2> QED BY <2>1, <2>2 DEF Elems
<1>14. x \in Elems(p)
  <2>1. x \in Elems(t)
    BY <1>11 DEF Elems
  <2> QED BY <1>8, <2>1
<1>15. Elems(u) = Elems(p) \ lost' /\ lost' \subseteq Elems(p)
  BY <1>8, <1>10, <1>13, <1>14
<1>16. ASSUME NEW m \in 1..Len(u), NEW n \in 1..Len(u), m < n
       PROVE  \E a, b \in 1..Len(p) : a < b /\ p[a] = u[m] /\ p[b] = u[n]
  <2>1. PICK i, j \in 1..Len(t) : i < j /\ u[m] = t[i] /\ u[n] = t[j]
    <3>1. CASE n <= k
      BY <1>11, <1>16, <3>1
    <3>2. CASE m <= k /\ ~(n <= k)
      BY <1>11, <1>16, <3>2
    <3>3. CASE ~(m <= k)
      <4>1. m + 1 \in 1..Len(t) /\ n + 1 \in 1..Len(t) /\ m + 1 < n + 1
        BY <1>11, <1>16
      <4>2. u[m] = t[m + 1] /\ u[n] = t[n + 1]
        BY <1>11, <1>16, <3>3
      <4> QED BY <4>1, <4>2
    <3> QED BY <1>11, <1>16, <3>1, <3>2, <3>3
  <2> QED BY <1>9, <2>1
<1>17. FifoButForPanics'
  BY <1>7, <1>15, <1>16 DEF FifoButForPanics, Before, Elems, u, p
<1> QED BY <1>1, <1>2, <1>15, <1>17 DEF FInv, Elems, p

\* An item that moves from one part to the next keeps its place.
LEMMA MoveFifo ==
  ASSUME PInv, FInv, TakeItem \/ DeliverItem \/ DrainItem
  PROVE  FInv'
<1>0. DataType
  BY DEF PInv
<1>1. CASE TakeItem
  <2>1. depth > 0 /\ top.at = "take" /\ top.op \in TakeOps
    BY <1>1, TopFacts DEF TakeItem, At, Shape
  <2>2. inHand = <<>> /\ drained = <<>>
    BY <2>1, TakingFacts DEF Waiting, FInv
  <2>3. /\ queue /= <<>> /\ queue' = Tail(queue) /\ inHand' = <<Head(queue)>>
        /\ UNCHANGED <<rxAlive, pushed, delivered, drained, lost>>
    BY <1>1 DEF TakeItem, histVars
  <2>4. Chain(delivered, <<>>, <<>>, queue) = Chain(delivered, <<>>, <<Head(queue)>>, Tail(queue))
    <3>1. delivered \in Seq(Items) /\ queue \in Seq(Items) /\ <<>> \in Seq(Items)
      BY <1>0 DEF DataType
    <3> QED BY <2>3, <3>1, FillSlot
  <2>5. Chain(delivered, <<>>, <<Head(queue)>>, Tail(queue))
          = Chain(delivered, <<Head(queue)>>, <<>>, Tail(queue))
    <3>1. /\ delivered \o <<>> = delivered
          /\ delivered \o <<Head(queue)>> \o <<>> = delivered \o <<Head(queue)>>
      BY <1>0, <2>3 DEF DataType
    <3> QED BY <3>1 DEF Chain
  <2>6. Taken' = Taken
    BY <2>2, <2>3, <2>4, <2>5 DEF Taken, Chain
  <2> QED BY <2>2, <2>3, <2>6, KeepFifo
<1>2. CASE DeliverItem
  <2>1. /\ delivered' = delivered \o inHand /\ inHand' = <<>>
        /\ UNCHANGED <<queue, rxAlive, pushed, drained, lost>>
    BY <1>2 DEF DeliverItem, chanVars
  <2>2. delivered \o inHand \o <<>> = delivered \o inHand
    BY <1>0 DEF DataType
  <2>3. Taken' = Taken
    BY <2>1, <2>2 DEF Taken
  <2> QED BY <2>1, <2>3, KeepFifo DEF FInv
<1>3. CASE DrainItem
  <2>1. ~rxAlive
    BY <1>3, TopFacts DEF DrainItem, At, Shape, PInv, RxBorrows
  <2>2. /\ inHand = <<>> /\ queue /= <<>>
        /\ queue' = Tail(queue) /\ drained' = Append(drained, Head(queue))
        /\ UNCHANGED <<inHand, rxAlive, pushed, delivered, lost>>
    BY <1>3, <2>1, DroppedFacts DEF DrainItem
  <2>3. /\ Head(queue) \in Items /\ Tail(queue) \in Seq(Items)
        /\ queue \in Seq(Items) /\ delivered \in Seq(Items) /\ drained \in Seq(Items)
    BY <1>0, <2>2, HeadThenTail DEF DataType
  <2>4. Chain(delivered, drained, <<>>, queue) = Chain(delivered, drained, <<Head(queue)>>, Tail(queue))
    BY <2>2, <2>3, FillSlot
  <2>5. Chain(delivered, drained, <<Head(queue)>>, Tail(queue))
          = Chain(delivered, drained', <<>>, queue')
    <3>1. Chain(delivered, drained, <<Head(queue)>>, Tail(queue))
            = Chain(delivered, Append(drained, Head(queue)), <<>>, Tail(queue))
      BY <2>3, DrainSlot
    <3> QED BY <2>2, <3>1
  <2>6. Taken = Chain(delivered, drained, <<>>, queue)
    <3>1. delivered \o <<>> \o drained = delivered \o drained \o <<>>
      BY <2>3
    <3> QED BY <2>2, <3>1 DEF Taken, Chain
  <2>7. Taken' = Chain(delivered, drained', <<>>, queue')
    <3>1. drained' \in Seq(Items)
      BY <2>2, <2>3
    <3>2. delivered \o <<>> \o drained' = delivered \o drained' \o <<>>
      BY <2>3, <3>1
    <3> QED BY <2>2, <3>2 DEF Taken, Chain
  <2>8. Taken' = Taken
    BY <2>4, <2>5, <2>6, <2>7
  <2> QED BY <2>1, <2>2, <2>8, KeepFifo
<1> QED BY <1>1, <1>2, <1>3

LEMMA UnseenFifo ==
  ASSUME FInv, UNCHANGED <<queue, inHand, pushed, delivered, drained, lost>>, rxAlive' => rxAlive
  PROVE  FInv'
<1>1. Taken' = Taken
  BY DEF Taken
<1> QED BY <1>1, KeepFifo DEF FInv

LEMMA FifoStep == PInv /\ FInv /\ [Next]_vars => FInv'
<1> SUFFICES ASSUME PInv, FInv, [Next]_vars PROVE FInv'
  OBVIOUS
<1>1. ASSUME NEW i \in Items, TrySend(i) PROVE FInv'
  <2>1. ~Accepted(i) /\ Push(i) /\ inHand' = inHand
    BY <1>1 DEF TrySend, PInv, OutcomeExact
  <2> QED BY <2>1, PushFifo
<1>2. CASE SendPush
  <2>1. depth > 0 /\ top.at \in SendPoints
    BY <1>2 DEF SendPush, Looking, SendPoints
  <2>2. top.who \in Items /\ sfut[top.who] = "pending"
    BY <2>1, TopFacts DEF Shape, SendState
  <2>3. ~Accepted(top.who) /\ Push(top.who) /\ inHand' = inHand
    BY <1>2, <2>2 DEF SendPush, PInv, OutcomeExact
  <2> QED BY <2>2, <2>3, PushFifo
<1>3. CASE \E i \in Items : NewSend(i) \/ PollSend(i) \/ ReplayOutcome(i) \/ DropSend(i)
  BY <1>3, UnseenFifo DEF NewSend, PollSend, ReplayOutcome, DropSend, chanVars, histVars
<1>4. CASE SenderCalls
  BY <1>4, UnseenFifo DEF SenderCalls, CloneSender, DropSender, DropLastSender, SenderClose,
    ClosingVia, histVars
<1>5. CASE ReceiverCalls
  BY <1>5, UnseenFifo DEF ReceiverCalls, TryRecv, NewRecv, DropRecv, ReceiverClose, ClosingVia,
    DropReceiver, PollRecv, PollNext, Polling, chanVars, histVars
<1>6. CASE \E p \in Panics : CallbackSteps(p)
  BY <1>6, CallbackUnseen, UnseenFifo DEF chanVars, histVars
<1>7. CASE WakesReturn \/ CloseSenders \/ WakesCommit \/ SendClosed \/ SendFull \/ SendPending
  BY <1>7, UnseenFifo DEF WakesReturn, CloseSenders, WakesCommit, SendClosed, SendFull,
    SendPending, chanVars, histVars
<1>8. CASE TakeNothing \/ TryRecvEmpty \/ PollDisconnected \/ PollRegister \/ RecvPending
             \/ ClearRecvWaker \/ DrainDone
  BY <1>8, UnseenFifo DEF TakeNothing, TryRecvEmpty, PollDisconnected, PollRegister, RecvPending,
    ClearRecvWaker, DrainDone, chanVars, histVars
<1>9. CASE Over \/ UNCHANGED vars
  BY <1>9, UnseenFifo DEF Over, vars, chanVars, histVars
<1>10. CASE SendCalls
  BY <1>1, <1>3, <1>10 DEF SendCalls
<1>11. CASE LibrarySteps
  BY <1>2, <1>7, <1>8, <1>11, MoveFifo, LoseFifo DEF LibrarySteps
<1> QED BY <1>4, <1>5, <1>6, <1>9, <1>10, <1>11 DEF Next

\* What was accepted is what was delivered, is in hand, was dropped with the
\* Receiver or is queued, in this order and once, but for what an unwinding
\* receive dropped.
THEOREM FifoCorrect == Spec => []FifoButForPanics
<1>1. Init => FInv
  <2> SUFFICES ASSUME Init PROVE FInv
    OBVIOUS
  <2>1. pushed = <<>> /\ Taken = <<>> /\ lost = {} /\ drained = <<>>
    BY DEF Init, Taken
  <2>2. Len(<<>>) = 0 /\ 1..0 = {}
    OBVIOUS
  <2> QED BY <2>1, <2>2 DEF FInv, FifoButForPanics, Elems
<1>2. FInv => FifoButForPanics
  BY DEF FInv
<1> QED BY <1>1, <1>2, FifoStep, Invariance, PTL DEF Spec

=============================================================================
