--------------------------- MODULE OneshotProofs ---------------------------
(***************************************************************************)
(* Proofs about Oneshot for every set of tasks and every depth of nested   *)
(* calls: the slot is read exactly once, the outcome is exact, no wakeup   *)
(* is lost, the Receiver leaves nothing behind, and the channel implements *)
(* the abstract one.                                                       *)
(***************************************************************************)
EXTENDS Oneshot, ChannelFacts

-----------------------------------------------------------------------------
(* The inductive invariant *)

PollPoints == {"first", "clone_recv", "drop_replaced", "recheck"}
DropPoints == {"drop_cleared", "drop_value", "payload"}

RawFrames == [op : Ops, at : Labels, who : Tasks \cup {None}, todo : SUBSET Tasks,
              panicked : BOOLEAN, id : {None}]

\* Which call can be at a point. Only a call that is at its wakes has wakes to do.
Fits(op, at, who, todo) ==
  /\ op \in SenderOps <=> at \in {"wake", "woke"}
  /\ op = "poll" <=> at \in PollPoints
  /\ op = "receiver_drop" <=> at \in DropPoints
  /\ op = "poll" => who \in Tasks
  /\ at /= "wake" => todo = {}
Shape(f) == Fits(f.op, f.at, f.who, f.todo)
Frames == {f \in RawFrames : Shape(f)}

Types ==
  /\ value_present \in BOOLEAN /\ sender_dropped \in BOOLEAN /\ receiver_dropped \in BOOLEAN
  /\ recv_waker \in Tasks \cup {None}
  /\ done \in BOOLEAN /\ txOwned \in BOOLEAN /\ rxOwned \in BOOLEAN
  /\ parked \subseteq Tasks /\ woken \subseteq Tasks
  /\ sent \in BOOLEAN
  /\ StackIn(Frames)

\* What a call on the stack relies on. A Sender's call has consumed the Sender.
\* A poll holds the Receiver, and once it has registered its waker stays in the
\* slot unless a value or a cancellation took it. A Receiver's drop that is past
\* the value, or skips it, has none left in the slot.
FrameOK(f) ==
  /\ f.op \in SenderOps => ~txOwned
  /\ f.op = "poll" =>
       /\ rxOwned /\ ~done /\ parked = {}
       /\ f.at \in {"drop_replaced", "recheck"} => recv_waker = f.who \/ ~Nothing
  /\ f.op = "receiver_drop" => ~rxOwned /\ (f.at /= "drop_value" => ~value_present)

StackOK ==
  /\ \A d \in Live : FrameOK(frames[d])
  /\ \A d, e \in Live : frames[d].op = "poll" /\ frames[e].op = "poll" => d = e

\* What the handles and the flags of Inner say of each other.
SenderOK ==
  /\ sent => ~txOwned
  /\ sender_dropped => ~txOwned
  /\ outcome = "canceled" => sender_dropped
ReceiverOK ==
  /\ rxOwned <=> ~receiver_dropped
  /\ reads = 1 => done \/ ~rxOwned
  /\ recv_waker /= None => rxOwned /\ (value_present => top.at = "recheck")
  /\ ~rxOwned => parked = {}
  /\ ~rxOwned /\ ~ReceiverDropping => ~value_present

IInv ==
  Types /\ StackOK /\ SenderOK /\ ReceiverOK /\ SlotFlagExact /\ OutcomeExact /\ NoLostWakeup


-----------------------------------------------------------------------------
(* Frames *)

\* A frame starts with nothing to wake and no panic.
LEMMA NewFrame ==
  ASSUME NEW op \in Ops, NEW at \in Labels, NEW who \in Tasks \cup {None},
         Fits(op, at, who, {})
  PROVE  /\ Frame(op, at, who) \in Frames
         /\ Frame(op, at, who).op = op /\ Frame(op, at, who).at = at
         /\ Frame(op, at, who).who = who /\ Frame(op, at, who).todo = {}
BY DEF Frame, Frames, RawFrames, Shape, Fits

\* A call moved to another of its points.
Moved(f, at) == [f EXCEPT !.at = at]
LEMMA MovedFrame ==
  ASSUME NEW f \in Frames, NEW at \in Labels, Fits(f.op, at, f.who, f.todo)
  PROVE  /\ Moved(f, at) \in Frames
         /\ Moved(f, at).op = f.op /\ Moved(f, at).at = at
         /\ Moved(f, at).who = f.who /\ Moved(f, at).todo = f.todo
<1> DEFINE g == [f EXCEPT !.at = at]
<1>1. f \in RawFrames
  BY DEF Frames
<1>2. g \in RawFrames /\ g.op = f.op /\ g.at = at /\ g.who = f.who /\ g.todo = f.todo
  BY <1>1 DEF RawFrames
<1>3. Shape(g)
  <2> HIDE DEF g
  <2> QED BY <1>2 DEF Shape
<1> QED BY <1>2, <1>3 DEF Frames, Moved

\* A Sender's call that has the wakers of list to call.
LEMMA WakingFrame ==
  ASSUME NEW f \in RawFrames, f.op \in SenderOps, NEW list \in SUBSET Tasks
  PROVE  LET g == Waking(f, list)
         IN  /\ g \in Frames /\ g.op = f.op /\ g.todo = list
             /\ g.at \in {"wake", "woke"} /\ g.panicked = f.panicked
<1> DEFINE g == Waking(f, list)
<1>1. g \in RawFrames /\ g.op = f.op /\ g.todo = list /\ g.panicked = f.panicked
  BY DEF Waking, RawFrames, Labels, CallbackPoints
<1>2. g.at = IF list = {} THEN "woke" ELSE "wake"
  BY DEF Waking, RawFrames
<1>3. Shape(g)
  <2> HIDE DEF g
  <2> QED BY <1>1, <1>2 DEF Shape, Fits, SenderOps, PollPoints, DropPoints
<1> QED BY <1>1, <1>2, <1>3 DEF Frames

LEMMA IdleFrame == Idle \in Frames
BY DEF Idle, Frame, Frames, RawFrames, Shape, Fits, Ops, SenderOps, Labels, PollPoints, DropPoints

-----------------------------------------------------------------------------
(* The invariant, action by action *)

\* send writes an empty slot that was never written, and takes the waker.
LEMMA SendValueInv ==
  ASSUME IInv, SendValue
  PROVE  IInv'
<1> USE OneshotAssumption
<1> DEFINE f == Waking(Frame("send", "woke", None), Taken)
<1>1. Types /\ depth < MaxDepth /\ Taken \in SUBSET Tasks
  BY DEF IInv, Types, SendValue, MayCall, UserCode, Taken
<1>2. Frame("send", "woke", None) \in RawFrames /\ Frame("send", "woke", None).op = "send"
  BY NewFrame DEF Ops, Labels, Frames, Shape, Fits, SenderOps, PollPoints, DropPoints
<1>3. f \in Frames /\ f.op = "send" /\ f.todo = Taken /\ f.at \in {"wake", "woke"}
  BY <1>1, <1>2, WakingFrame DEF SenderOps
<1> HIDE DEF f
<1>4. /\ StackIn(Frames)' /\ depth' = depth + 1 /\ top' = f /\ aborted' = aborted
      /\ Live' = Live \cup {depth'} /\ depth' \notin Live
      /\ frames'[depth'] = f
      /\ \A d \in Live : frames'[d] = frames[d]
  BY <1>1, <1>3, CallStack DEF SendValue, Types, f
<1>5. Types'
  BY <1>1, <1>2, <1>3, <1>4 DEF Types, SendValue, Taken, SenderOps, taskVars
<1>6. StackOK'
  BY <1>1, <1>2, <1>3, <1>4 DEF IInv, Types, StackOK, FrameOK, ReceiverOK, Nothing, SendValue, Taken, SenderOps, taskVars
<1>7. SenderOK'
  BY <1>1, <1>2, <1>3, <1>4 DEF IInv, Types, SenderOK, StackOK, FrameOK, SendValue, Taken, SenderOps, taskVars
<1>8. ReceiverOK'
  BY <1>1, <1>2, <1>3, <1>4 DEF IInv, Types, StackOK, FrameOK, ReceiverOK, SlotFlagExact, ReceiverDropping, SendValue, Taken, SenderOps, taskVars
<1>9. SlotFlagExact' /\ OutcomeExact'
  <2>1. ~sent /\ reads = 0 /\ outcome \notin {"canceled", "value"}
    BY <1>1 DEF IInv, SlotFlagExact, OutcomeExact, SenderOK, SendValue, Types
  <2> QED BY <2>1 DEF SlotFlagExact, OutcomeExact, SendValue
<1>10. NoLostWakeup'
  BY <1>1, <1>2, <1>3, <1>4 DEF IInv, Types, NoLostWakeup, Owed, Nothing, StackOK, FrameOK, ReceiverOK, SendValue, Taken, SenderOps, taskVars
<1> QED BY <1>5, <1>6, <1>7, <1>8, <1>9, <1>10 DEF IInv

\* Dropping the Sender takes the waker unless a value is there.
LEMMA DropSenderInv ==
  ASSUME IInv, DropSender
  PROVE  IInv'
<1> USE OneshotAssumption
<1> DEFINE f == Waking(Frame("sender_drop", "woke", None), CancelWakes)
<1>1. Types /\ depth < MaxDepth /\ CancelWakes \in SUBSET Tasks
  BY DEF IInv, Types, DropSender, MayCall, UserCode, CancelWakes, Taken
<1>2. /\ Frame("sender_drop", "woke", None) \in RawFrames
      /\ Frame("sender_drop", "woke", None).op = "sender_drop"
  BY NewFrame DEF Ops, Labels, Frames, Shape, Fits, SenderOps, PollPoints, DropPoints
<1>3. f \in Frames /\ f.op = "sender_drop" /\ f.todo = CancelWakes /\ f.at \in {"wake", "woke"}
  BY <1>1, <1>2, WakingFrame DEF SenderOps
<1> HIDE DEF f
<1>4. /\ StackIn(Frames)' /\ depth' = depth + 1 /\ top' = f /\ aborted' = aborted
      /\ Live' = Live \cup {depth'} /\ depth' \notin Live
      /\ frames'[depth'] = f
      /\ \A d \in Live : frames'[d] = frames[d]
  BY <1>1, <1>3, CallStack DEF DropSender, Types, f
<1>5. Types'
  BY <1>1, <1>2, <1>3, <1>4 DEF Types, DropSender, Leaving, CancelWakes, Taken, SenderOps, MayCall, UserCode, CallbackPoints, taskVars, histVars
<1>6. StackOK'
  BY <1>1, <1>2, <1>3, <1>4 DEF IInv, Types, StackOK, FrameOK, ReceiverOK, Nothing, DropSender, Leaving, CancelWakes, Taken, SenderOps, MayCall, UserCode, CallbackPoints, taskVars, histVars
<1>7. SenderOK'
  BY <1>1, <1>2, <1>3, <1>4 DEF IInv, Types, SenderOK, StackOK, FrameOK, DropSender, Leaving, CancelWakes, Taken, SenderOps, MayCall, UserCode, CallbackPoints, taskVars, histVars
<1>8. ReceiverOK'
  BY <1>1, <1>2, <1>3, <1>4 DEF IInv, Types, StackOK, FrameOK, ReceiverOK, SlotFlagExact, ReceiverDropping, DropSender, Leaving, CancelWakes, Taken, SenderOps, MayCall, UserCode, CallbackPoints, taskVars, histVars
<1>9. SlotFlagExact' /\ OutcomeExact'
  BY <1>1, <1>2, <1>3, <1>4 DEF IInv, Types, StackOK, FrameOK, SenderOK, ReceiverOK, SlotFlagExact, OutcomeExact, DropSender, Leaving, CancelWakes, Taken, SenderOps, MayCall, UserCode, CallbackPoints, taskVars, histVars
<1>10. NoLostWakeup'
  BY <1>1, <1>2, <1>3, <1>4 DEF IInv, Types, NoLostWakeup, Owed, Nothing, StackOK, FrameOK, ReceiverOK, DropSender, Leaving, CancelWakes, Taken, SenderOps, MayCall, UserCode, CallbackPoints, taskVars, histVars
<1> QED BY <1>5, <1>6, <1>7, <1>8, <1>9, <1>10 DEF IInv

\* The Sender that send consumed is dropped after the wake.
LEMMA SendReturnsInv ==
  ASSUME IInv, SendReturns
  PROVE  IInv'
<1> USE OneshotAssumption
<1> DEFINE e == [top EXCEPT !.op = "sender_drop"]
           f == Waking(e, CancelWakes)
<1>1. /\ Types /\ depth > 0 /\ CancelWakes \in SUBSET Tasks
      /\ top \in Frames /\ top.op = "send" /\ top.at = "woke" /\ top.todo = {}
  BY LiveStack DEF IInv, Types, SendReturns, At, Running, CancelWakes, Taken, Frames, Shape, Fits
<1>2. e \in RawFrames /\ e.op = "sender_drop"
  BY <1>1 DEF Frames, RawFrames, Ops, SenderOps
<1>3. f \in Frames /\ f.op = "sender_drop" /\ f.todo = CancelWakes /\ f.at \in {"wake", "woke"}
  BY <1>1, <1>2, WakingFrame DEF SenderOps
<1> HIDE DEF f
<1>4. /\ StackIn(Frames)' /\ depth' = depth /\ top' = f /\ aborted' = aborted
      /\ Live' = Live /\ depth \in Live
      /\ frames'[depth] = f
      /\ \A d \in Live : d /= depth => frames'[d] = frames[d]
  BY <1>1, <1>3, GotoStack DEF SendReturns, Types, f
<1>t. top = frames[depth]
  BY DEF top
<1>5. Types'
  BY <1>1, <1>3, <1>4, <1>t DEF Types, SendReturns, Leaving, CancelWakes, Taken, SenderOps, taskVars, histVars
<1>6. StackOK'
  BY <1>1, <1>3, <1>4, <1>t DEF IInv, Types, StackOK, FrameOK, ReceiverOK, Nothing, SendReturns, Leaving, CancelWakes, Taken, SenderOps, taskVars, histVars
<1>7. SenderOK'
  BY <1>1, <1>3, <1>4, <1>t DEF IInv, Types, SenderOK, StackOK, FrameOK, SendReturns, Leaving, CancelWakes, Taken, SenderOps, taskVars, histVars
<1>8. ReceiverOK'
  BY <1>1, <1>3, <1>4, <1>t DEF IInv, Types, StackOK, FrameOK, ReceiverOK, SlotFlagExact, ReceiverDropping, SendReturns, Leaving, CancelWakes, Taken, SenderOps, taskVars, histVars
<1>9. SlotFlagExact' /\ OutcomeExact'
  BY <1>1, <1>3, <1>4, <1>t DEF IInv, Types, StackOK, FrameOK, SenderOK, ReceiverOK, SlotFlagExact, OutcomeExact, SendReturns, Leaving, CancelWakes, Taken, SenderOps, taskVars, histVars
<1>10. NoLostWakeup'
  BY <1>1, <1>3, <1>4, <1>t DEF IInv, Types, NoLostWakeup, Owed, Nothing, StackOK, FrameOK, ReceiverOK, SendReturns, Leaving, CancelWakes, Taken, SenderOps, taskVars, histVars
<1> QED BY <1>5, <1>6, <1>7, <1>8, <1>9, <1>10 DEF IInv

\* When the Sender's last call ends a value stays only if the Receiver can still take it.
LEMMA SenderGoneInv ==
  ASSUME IInv, SenderGone
  PROVE  IInv'
<1> USE OneshotAssumption
<1>1. /\ Types /\ depth > 0 /\ top = frames[depth]
      /\ top \in Frames /\ top.op = "sender_drop" /\ top.at = "woke" /\ top.todo = {}
  BY LiveStack DEF IInv, Types, SenderGone, At, Running, top, Frames, Shape, Fits
<1>4. /\ StackIn(Frames)' /\ depth' = depth - 1 /\ aborted' = aborted
      /\ Live' = Live \ {depth} /\ depth \in Live
      /\ \A d \in Live' : frames'[d] = frames[d]
  BY <1>1, IdleFrame, ReturnStack DEF SenderGone, Types
<1>r. rxOwned => ReceiverHolds
  BY DEF ReceiverHolds, Holding
<1>5. Types'
  BY <1>1, <1>4, <1>r DEF Types, SenderGone, LastHolder, SenderOps, handleVars, taskVars
<1>6. StackOK'
  BY <1>1, <1>4, <1>r DEF IInv, Types, StackOK, FrameOK, ReceiverOK, Nothing, SenderGone, LastHolder, SenderOps, handleVars, taskVars
<1>7. SenderOK'
  BY <1>1, <1>4, <1>r DEF IInv, Types, SenderOK, StackOK, FrameOK, SenderGone, LastHolder, SenderOps, handleVars, taskVars
<1>8. ReceiverOK'
  BY <1>1, <1>4, <1>r DEF IInv, Types, StackOK, FrameOK, ReceiverOK, SlotFlagExact, ReceiverDropping, SenderGone, LastHolder, SenderOps, handleVars, taskVars
<1>9. SlotFlagExact' /\ OutcomeExact'
  BY <1>1, <1>4, <1>r DEF IInv, Types, StackOK, FrameOK, SenderOK, ReceiverOK, SlotFlagExact, OutcomeExact, SenderGone, LastHolder, SenderOps, handleVars, taskVars
<1>10. NoLostWakeup'
  BY <1>1, <1>4, <1>r DEF IInv, Types, NoLostWakeup, Owed, Nothing, StackOK, FrameOK, ReceiverOK, SenderGone, LastHolder, SenderOps, handleVars, taskVars
<1> QED BY <1>5, <1>6, <1>7, <1>8, <1>9, <1>10 DEF IInv

\* The waker is called: its task is woken, or the process is gone.
LEMMA WakeNextInv ==
  ASSUME IInv, NEW p \in BOOLEAN, WakeNext(p)
  PROVE  IInv'
<1> USE OneshotAssumption
<1>1. /\ Types /\ depth > 0 /\ top = frames[depth] /\ top \in Frames
      /\ top.at = "wake" /\ top.op \in SenderOps
  BY LiveStack DEF IInv, Types, WakeNext, At, Running, top, Labels, Frames, Shape, Fits, SenderOps, PollPoints, DropPoints
<1> DEFINE e == [top EXCEPT !.panicked = p]
           f == Waking(e, {})
<1>a. CASE Abort
  <2>1. Types'
    BY <1>a, <1>1 DEF Types, WakeNext, Abort, StackIn, Frames, RawFrames, innerVars, handleVars, histVars
  <2>2. StackOK' /\ SenderOK' /\ ReceiverOK' /\ SlotFlagExact' /\ OutcomeExact'
    BY <1>a, <1>1 DEF IInv, StackOK, FrameOK, SenderOK, ReceiverOK, ReceiverDropping, SlotFlagExact,
      OutcomeExact, WakeNext, Abort, Live, Nothing, top, innerVars, handleVars, histVars
  <2>3. NoLostWakeup'
    BY <1>a DEF Abort, NoLostWakeup
  <2> QED BY <2>1, <2>2, <2>3 DEF IInv
<1>b. CASE Goto(f)
  <2>2. e \in RawFrames /\ e.op = top.op
    BY <1>1 DEF Frames, RawFrames
  <2>3. f \in Frames /\ f.op = top.op /\ f.todo = {} /\ f.at \in {"wake", "woke"}
    BY <1>1, <2>2, WakingFrame
  <2> HIDE DEF f
  <2>4. /\ StackIn(Frames)' /\ depth' = depth /\ top' = f /\ aborted' = aborted
        /\ Live' = Live /\ depth \in Live
        /\ frames'[depth] = f
        /\ \A d \in Live : d /= depth => frames'[d] = frames[d]
    BY <1>1, <1>b, <2>3, GotoStack DEF Types, f
  <2>5. Types'
    BY <1>1, <2>4 DEF Types, WakeNext, Frames, RawFrames, innerVars, handleVars, histVars
  <2>6. StackOK' /\ SenderOK'
    BY <1>1, <2>3, <2>4 DEF IInv, StackOK, FrameOK, SenderOK, WakeNext, Nothing, innerVars,
      handleVars, histVars
  <2>7. ReceiverOK'
    BY <1>1, <2>3, <2>4 DEF IInv, ReceiverOK, ReceiverDropping, WakeNext, innerVars, handleVars, histVars, SenderOps
  <2>8. SlotFlagExact' /\ OutcomeExact'
    BY DEF IInv, SlotFlagExact, OutcomeExact, WakeNext, innerVars, histVars
  <2>9. NoLostWakeup'
    BY <1>1, <2>4 DEF IInv, NoLostWakeup, Owed, WakeNext, Nothing, innerVars, handleVars
  <2> QED BY <2>5, <2>6, <2>7, <2>8, <2>9 DEF IInv
<1> QED BY <1>a, <1>b DEF WakeNext

\* try_recv or the iterator takes the value.
LEMMA TakeValueInv ==
  ASSUME IInv, TakeValue
  PROVE  IInv'
<1> USE OneshotAssumption
<1>1. Types /\ top.at \in CallbackPoints \cup {"idle"}
  BY DEF IInv, TakeValue, MayCall, UserCode
<1>2. rxOwned /\ ~done /\ \A d \in Live : frames[d].op /= "poll"
  BY DEF TakeValue, RxFree
<1>4. /\ StackIn(Frames)' /\ depth' = depth /\ top' = top /\ aborted' = aborted
      /\ Live' = Live /\ \A d \in Live : frames'[d] = frames[d]
  BY <1>1, SameStack DEF TakeValue, Types
<1>5. Types'
  BY <1>1, <1>2, <1>4 DEF Types, TakeValue, ReadValue, ReportCanceled, innerVars, taskVars
<1>6. StackOK'
  BY <1>1, <1>2, <1>4 DEF IInv, Types, StackOK, FrameOK, ReceiverOK, Nothing, TakeValue, ReadValue, ReportCanceled, innerVars, taskVars
<1>7. SenderOK'
  BY <1>1, <1>2, <1>4 DEF IInv, Types, SenderOK, StackOK, FrameOK, TakeValue, ReadValue, ReportCanceled, innerVars, taskVars
<1>8. ReceiverOK'
  BY <1>1, <1>2, <1>4 DEF IInv, Types, StackOK, FrameOK, ReceiverOK, SlotFlagExact, ReceiverDropping, TakeValue, ReadValue, ReportCanceled, innerVars, taskVars
<1>9. SlotFlagExact' /\ OutcomeExact'
  BY <1>1, <1>2, <1>4 DEF IInv, Types, StackOK, FrameOK, SenderOK, ReceiverOK, SlotFlagExact, OutcomeExact, TakeValue, ReadValue, ReportCanceled, innerVars, taskVars
<1>10. NoLostWakeup'
  BY <1>1, <1>2, <1>4 DEF IInv, Types, NoLostWakeup, Owed, Nothing, StackOK, FrameOK, ReceiverOK, TakeValue, ReadValue, ReportCanceled, innerVars, taskVars
<1> QED BY <1>5, <1>6, <1>7, <1>8, <1>9, <1>10 DEF IInv

\* try_recv reports the cancellation of a channel that never had a value.
LEMMA TryRecvCanceledInv ==
  ASSUME IInv, TryRecvCanceled
  PROVE  IInv'
<1> USE OneshotAssumption
<1>1. Types /\ top.at \in CallbackPoints \cup {"idle"}
  BY DEF IInv, TryRecvCanceled, MayCall, UserCode
<1>2. rxOwned /\ ~done /\ \A d \in Live : frames[d].op /= "poll"
  BY DEF TryRecvCanceled, RxFree
<1>4. /\ StackIn(Frames)' /\ depth' = depth /\ top' = top /\ aborted' = aborted
      /\ Live' = Live /\ \A d \in Live : frames'[d] = frames[d]
  BY <1>1, SameStack DEF TryRecvCanceled, Types
<1>5. Types'
  BY <1>1, <1>2, <1>4 DEF Types, TryRecvCanceled, ReadValue, ReportCanceled, innerVars, taskVars
<1>6. StackOK'
  BY <1>1, <1>2, <1>4 DEF IInv, Types, StackOK, FrameOK, ReceiverOK, Nothing, TryRecvCanceled, ReadValue, ReportCanceled, innerVars, taskVars
<1>7. SenderOK'
  BY <1>1, <1>2, <1>4 DEF IInv, Types, SenderOK, StackOK, FrameOK, TryRecvCanceled, ReadValue, ReportCanceled, innerVars, taskVars
<1>8. ReceiverOK'
  BY <1>1, <1>2, <1>4 DEF IInv, Types, StackOK, FrameOK, ReceiverOK, SlotFlagExact, ReceiverDropping, TryRecvCanceled, ReadValue, ReportCanceled, innerVars, taskVars
<1>9. SlotFlagExact' /\ OutcomeExact'
  BY <1>1, <1>2, <1>4 DEF IInv, Types, StackOK, FrameOK, SenderOK, ReceiverOK, SlotFlagExact, OutcomeExact, TryRecvCanceled, ReadValue, ReportCanceled, innerVars, taskVars
<1>10. NoLostWakeup'
  BY <1>1, <1>2, <1>4 DEF IInv, Types, NoLostWakeup, Owed, Nothing, StackOK, FrameOK, ReceiverOK, TryRecvCanceled, ReadValue, ReportCanceled, innerVars, taskVars
<1> QED BY <1>5, <1>6, <1>7, <1>8, <1>9, <1>10 DEF IInv

\* A poll starts: its task no longer waits.
LEMMA PollInv ==
  ASSUME IInv, NEW t \in Tasks, Poll(t)
  PROVE  IInv'
<1> USE OneshotAssumption
<1> DEFINE f == Frame("poll", "first", t)
<1>1. Types /\ depth < MaxDepth /\ top.at \in CallbackPoints \cup {"idle"}
  BY DEF IInv, Poll, MayCall, UserCode
<1>2. rxOwned /\ ~done /\ \A d \in Live : frames[d].op /= "poll"
  BY DEF Poll, RxFree
<1>3. f \in Frames /\ f.op = "poll" /\ f.at = "first" /\ f.who = t
  BY NewFrame DEF Ops, Labels, Frames, Shape, Fits, SenderOps, PollPoints, DropPoints
<1> HIDE DEF f
<1>4. /\ StackIn(Frames)' /\ depth' = depth + 1 /\ top' = f /\ aborted' = aborted
      /\ Live' = Live \cup {depth'} /\ depth' \notin Live
      /\ frames'[depth'] = f
      /\ \A d \in Live : frames'[d] = frames[d]
  BY <1>1, <1>3, CallStack DEF Poll, Types, f
<1>5. Types'
  BY <1>1, <1>2, <1>3, <1>4 DEF Types, Poll, CallbackPoints, SenderOps, innerVars, handleVars, histVars
<1>6. StackOK'
  BY <1>1, <1>2, <1>3, <1>4 DEF IInv, Types, StackOK, FrameOK, ReceiverOK, Nothing, Poll, CallbackPoints, SenderOps, innerVars, handleVars, histVars
<1>7. SenderOK'
  BY <1>1, <1>2, <1>3, <1>4 DEF IInv, Types, SenderOK, StackOK, FrameOK, Poll, CallbackPoints, SenderOps, innerVars, handleVars, histVars
<1>8. ReceiverOK'
  BY <1>1, <1>2, <1>3, <1>4 DEF IInv, Types, StackOK, FrameOK, ReceiverOK, SlotFlagExact, ReceiverDropping, Poll, CallbackPoints, SenderOps, innerVars, handleVars, histVars
<1>9. SlotFlagExact' /\ OutcomeExact'
  BY <1>1, <1>2, <1>3, <1>4 DEF IInv, Types, StackOK, FrameOK, SenderOK, ReceiverOK, SlotFlagExact, OutcomeExact, Poll, CallbackPoints, SenderOps, innerVars, handleVars, histVars
<1>10. NoLostWakeup'
  BY <1>1, <1>2, <1>3, <1>4 DEF IInv, Types, NoLostWakeup, Owed, Nothing, StackOK, FrameOK, ReceiverOK, Poll, CallbackPoints, SenderOps, innerVars, handleVars, histVars
<1> QED BY <1>5, <1>6, <1>7, <1>8, <1>9, <1>10 DEF IInv

\* A poll returns the value.
LEMMA PollValueInv ==
  ASSUME IInv, PollValue
  PROVE  IInv'
<1> USE OneshotAssumption
<1>1. /\ Types /\ depth > 0 /\ top = frames[depth] /\ top \in Frames
      /\ top.at \in {"first", "recheck"} /\ top.op = "poll"
  BY LiveStack DEF IInv, Types, PollValue, Looking, At, Running, top, Labels, Frames, Shape, Fits, SenderOps, PollPoints, DropPoints
<1>4. /\ StackIn(Frames)' /\ depth' = depth - 1 /\ aborted' = aborted
      /\ Live' = Live \ {depth} /\ depth \in Live
      /\ \A d \in Live' : frames'[d] = frames[d]
  BY <1>1, IdleFrame, ReturnStack DEF PollValue, Types
<1>r. rxOwned /\ ~done /\ \A d \in Live : frames[d].op = "poll" => d = depth
  BY <1>1, <1>4 DEF IInv, StackOK, FrameOK
<1>5. Types'
  BY <1>1, <1>4, <1>r DEF Types, PollValue, ReadValue, ReportCanceled, innerVars, taskVars
<1>6. StackOK'
  BY <1>1, <1>4, <1>r DEF IInv, Types, StackOK, FrameOK, ReceiverOK, Nothing, PollValue, ReadValue, ReportCanceled, innerVars, taskVars
<1>7. SenderOK'
  BY <1>1, <1>4, <1>r DEF IInv, Types, SenderOK, StackOK, FrameOK, PollValue, ReadValue, ReportCanceled, innerVars, taskVars
<1>8. ReceiverOK'
  BY <1>1, <1>4, <1>r DEF IInv, Types, StackOK, FrameOK, ReceiverOK, SlotFlagExact, ReceiverDropping, PollValue, ReadValue, ReportCanceled, innerVars, taskVars
<1>9. SlotFlagExact' /\ OutcomeExact'
  BY <1>1, <1>4, <1>r DEF IInv, Types, StackOK, FrameOK, SenderOK, ReceiverOK, SlotFlagExact, OutcomeExact, PollValue, ReadValue, ReportCanceled, innerVars, taskVars
<1>10. NoLostWakeup'
  BY <1>1, <1>4, <1>r DEF IInv, Types, NoLostWakeup, Owed, Nothing, StackOK, FrameOK, ReceiverOK, PollValue, ReadValue, ReportCanceled, innerVars, taskVars
<1> QED BY <1>5, <1>6, <1>7, <1>8, <1>9, <1>10 DEF IInv

\* A poll reports the cancellation of a channel that never had a value.
LEMMA PollCanceledInv ==
  ASSUME IInv, PollCanceled
  PROVE  IInv'
<1> USE OneshotAssumption
<1>1. /\ Types /\ depth > 0 /\ top = frames[depth] /\ top \in Frames
      /\ top.at \in {"first", "recheck"} /\ top.op = "poll"
  BY LiveStack DEF IInv, Types, PollCanceled, Looking, At, Running, top, Labels, Frames, Shape, Fits, SenderOps, PollPoints, DropPoints
<1>4. /\ StackIn(Frames)' /\ depth' = depth - 1 /\ aborted' = aborted
      /\ Live' = Live \ {depth} /\ depth \in Live
      /\ \A d \in Live' : frames'[d] = frames[d]
  BY <1>1, IdleFrame, ReturnStack DEF PollCanceled, Types
<1>r. rxOwned /\ ~done /\ \A d \in Live : frames[d].op = "poll" => d = depth
  BY <1>1, <1>4 DEF IInv, StackOK, FrameOK
<1>5. Types'
  BY <1>1, <1>4, <1>r DEF Types, PollCanceled, ReadValue, ReportCanceled, innerVars, taskVars
<1>6. StackOK'
  BY <1>1, <1>4, <1>r DEF IInv, Types, StackOK, FrameOK, ReceiverOK, Nothing, PollCanceled, ReadValue, ReportCanceled, innerVars, taskVars
<1>7. SenderOK'
  BY <1>1, <1>4, <1>r DEF IInv, Types, SenderOK, StackOK, FrameOK, PollCanceled, ReadValue, ReportCanceled, innerVars, taskVars
<1>8. ReceiverOK'
  BY <1>1, <1>4, <1>r DEF IInv, Types, StackOK, FrameOK, ReceiverOK, SlotFlagExact, ReceiverDropping, PollCanceled, ReadValue, ReportCanceled, innerVars, taskVars
<1>9. SlotFlagExact' /\ OutcomeExact'
  BY <1>1, <1>4, <1>r DEF IInv, Types, StackOK, FrameOK, SenderOK, ReceiverOK, SlotFlagExact, OutcomeExact, PollCanceled, ReadValue, ReportCanceled, innerVars, taskVars
<1>10. NoLostWakeup'
  BY <1>1, <1>4, <1>r DEF IInv, Types, NoLostWakeup, Owed, Nothing, StackOK, FrameOK, ReceiverOK, PollCanceled, ReadValue, ReportCanceled, innerVars, taskVars
<1> QED BY <1>5, <1>6, <1>7, <1>8, <1>9, <1>10 DEF IInv

\* A poll that found nothing goes on to clone its waker.
LEMMA PollRegisterInv ==
  ASSUME IInv, PollRegister
  PROVE  IInv'
<1> USE OneshotAssumption
<1>1. /\ Types /\ depth > 0 /\ top = frames[depth] /\ top \in Frames
      /\ top.at = "first" /\ top.op = "poll"
  BY LiveStack DEF IInv, Types, PollRegister, At, Running, top, Labels, Frames, Shape, Fits, SenderOps, PollPoints, DropPoints
<1> DEFINE f == Moved(top, "clone_recv")
<1>2. Fits(top.op, "clone_recv", top.who, top.todo)
  BY <1>1 DEF Frames, Shape, Fits, SenderOps, PollPoints, DropPoints
<1>3. f \in Frames /\ f.op = "poll" /\ f.at = "clone_recv" /\ f.who = top.who /\ f.todo = top.todo
  BY <1>1, <1>2, MovedFrame DEF Labels, CallbackPoints
<1> HIDE DEF f
<1>4. /\ StackIn(Frames)' /\ depth' = depth /\ top' = f /\ aborted' = aborted
      /\ Live' = Live /\ depth \in Live
      /\ frames'[depth] = f
      /\ \A d \in Live : d /= depth => frames'[d] = frames[d]
  BY <1>1, <1>3, GotoStack DEF PollRegister, Types, f, Moved
<1>5. Types'
  BY <1>1, <1>3, <1>4 DEF Types, PollRegister, innerVars, handleVars, taskVars, histVars
<1>6. StackOK'
  BY <1>1, <1>3, <1>4 DEF IInv, Types, StackOK, FrameOK, ReceiverOK, Nothing, PollRegister, innerVars, handleVars, taskVars, histVars
<1>7. SenderOK'
  BY <1>1, <1>3, <1>4 DEF IInv, Types, SenderOK, StackOK, FrameOK, PollRegister, innerVars, handleVars, taskVars, histVars
<1>8. ReceiverOK'
  BY <1>1, <1>3, <1>4 DEF IInv, Types, StackOK, FrameOK, ReceiverOK, SlotFlagExact, ReceiverDropping, PollRegister, innerVars, handleVars, taskVars, histVars
<1>9. SlotFlagExact' /\ OutcomeExact'
  BY <1>1, <1>3, <1>4 DEF IInv, Types, StackOK, FrameOK, SenderOK, ReceiverOK, SlotFlagExact, OutcomeExact, PollRegister, innerVars, handleVars, taskVars, histVars
<1>10. NoLostWakeup'
  BY <1>1, <1>3, <1>4 DEF IInv, Types, NoLostWakeup, Owed, Nothing, StackOK, FrameOK, ReceiverOK, PollRegister, innerVars, handleVars, taskVars, histVars
<1> QED BY <1>5, <1>6, <1>7, <1>8, <1>9, <1>10 DEF IInv

\* A poll unwinds from a callback: what it has stored stays.
LEMMA PollUnwindsInv ==
  ASSUME IInv, depth > 0, top.at \in {"clone_recv", "drop_replaced"}, Return,
         UNCHANGED <<innerVars, handleVars, taskVars, histVars>>
  PROVE  IInv'
<1> USE OneshotAssumption
<1>1. /\ Types /\ depth > 0 /\ top = frames[depth] /\ top \in Frames
      /\ top.op = "poll"
  BY LiveStack DEF IInv, Types, top, Labels, Frames, Shape, Fits, SenderOps, PollPoints, DropPoints
<1>4. /\ StackIn(Frames)' /\ depth' = depth - 1 /\ aborted' = aborted
      /\ Live' = Live \ {depth} /\ depth \in Live
      /\ \A d \in Live' : frames'[d] = frames[d]
  BY <1>1, IdleFrame, ReturnStack DEF Return, Types
<1>5. Types'
  BY <1>1, <1>4 DEF Types, innerVars, handleVars, taskVars, histVars
<1>6. StackOK'
  BY <1>1, <1>4 DEF IInv, Types, StackOK, FrameOK, ReceiverOK, Nothing, innerVars, handleVars, taskVars, histVars
<1>7. SenderOK'
  BY <1>1, <1>4 DEF IInv, Types, SenderOK, StackOK, FrameOK, innerVars, handleVars, taskVars, histVars
<1>8. ReceiverOK'
  BY <1>1, <1>4 DEF IInv, Types, StackOK, FrameOK, ReceiverOK, SlotFlagExact, ReceiverDropping, innerVars, handleVars, taskVars, histVars
<1>9. SlotFlagExact' /\ OutcomeExact'
  BY <1>1, <1>4 DEF IInv, Types, StackOK, FrameOK, SenderOK, ReceiverOK, SlotFlagExact, OutcomeExact, innerVars, handleVars, taskVars, histVars
<1>10. NoLostWakeup'
  BY <1>1, <1>4 DEF IInv, Types, NoLostWakeup, Owed, Nothing, StackOK, FrameOK, ReceiverOK, innerVars, handleVars, taskVars, histVars
<1> QED BY <1>5, <1>6, <1>7, <1>8, <1>9, <1>10 DEF IInv

\* register_recv_waker stores the waker: nothing was parked on the one it replaces.
LEMMA StoreInv ==
  ASSUME IInv, At("clone_recv"), NEW l \in {"recheck", "drop_replaced"},
         l = (IF recv_waker = None THEN "recheck" ELSE "drop_replaced"),
         recv_waker' = top.who, Goto([top EXCEPT !.at = l]),
         UNCHANGED <<value_present, sender_dropped, receiver_dropped, handleVars, taskVars, histVars>>
  PROVE  IInv'
<1> USE OneshotAssumption
<1>1. /\ Types /\ depth > 0 /\ top = frames[depth] /\ top \in Frames
      /\ top.at = "clone_recv" /\ top.op = "poll" /\ top.who \in Tasks
  BY LiveStack DEF IInv, Types, At, Running, top, Labels, Frames, Shape, Fits, SenderOps, PollPoints, DropPoints
<1> DEFINE f == Moved(top, l)
<1>2. Fits(top.op, l, top.who, top.todo)
  BY <1>1 DEF Frames, Shape, Fits, SenderOps, PollPoints, DropPoints
<1>3. f \in Frames /\ f.op = "poll" /\ f.at = l /\ f.who = top.who /\ f.todo = top.todo
  BY <1>1, <1>2, MovedFrame DEF Labels, CallbackPoints
<1> HIDE DEF f
<1>4. /\ StackIn(Frames)' /\ depth' = depth /\ top' = f /\ aborted' = aborted
      /\ Live' = Live /\ depth \in Live
      /\ frames'[depth] = f
      /\ \A d \in Live : d /= depth => frames'[d] = frames[d]
  BY <1>1, <1>3, GotoStack DEF Types, f, Moved
<1>5. Types'
  BY <1>1, <1>3, <1>4 DEF Types, handleVars, taskVars, histVars
<1>6. StackOK'
  BY <1>1, <1>3, <1>4 DEF IInv, Types, StackOK, FrameOK, ReceiverOK, Nothing, handleVars, taskVars, histVars
<1>7. SenderOK'
  BY <1>1, <1>3, <1>4 DEF IInv, Types, SenderOK, StackOK, FrameOK, handleVars, taskVars, histVars
<1>8. ReceiverOK'
  BY <1>1, <1>3, <1>4 DEF IInv, Types, StackOK, FrameOK, ReceiverOK, SlotFlagExact, ReceiverDropping, handleVars, taskVars, histVars
<1>9. SlotFlagExact' /\ OutcomeExact'
  BY <1>1, <1>3, <1>4 DEF IInv, Types, StackOK, FrameOK, SenderOK, ReceiverOK, SlotFlagExact, OutcomeExact, handleVars, taskVars, histVars
<1>10. NoLostWakeup'
  BY <1>1, <1>3, <1>4 DEF IInv, Types, NoLostWakeup, Owed, Nothing, StackOK, FrameOK, ReceiverOK, handleVars, taskVars, histVars
<1> QED BY <1>5, <1>6, <1>7, <1>8, <1>9, <1>10 DEF IInv

\* The replaced waker is dropped: the poll looks again.
LEMMA RegisteredInv ==
  ASSUME IInv, At("drop_replaced"), Goto([top EXCEPT !.at = "recheck"]),
         UNCHANGED <<innerVars, handleVars, taskVars, histVars>>
  PROVE  IInv'
<1> USE OneshotAssumption
<1>1. /\ Types /\ depth > 0 /\ top = frames[depth] /\ top \in Frames
      /\ top.at = "drop_replaced" /\ top.op = "poll"
  BY LiveStack DEF IInv, Types, At, Running, top, Labels, Frames, Shape, Fits, SenderOps, PollPoints, DropPoints
<1> DEFINE f == Moved(top, "recheck")
<1>2. Fits(top.op, "recheck", top.who, top.todo)
  BY <1>1 DEF Frames, Shape, Fits, SenderOps, PollPoints, DropPoints
<1>3. f \in Frames /\ f.op = "poll" /\ f.at = "recheck" /\ f.who = top.who /\ f.todo = top.todo
  BY <1>1, <1>2, MovedFrame DEF Labels, CallbackPoints
<1> HIDE DEF f
<1>4. /\ StackIn(Frames)' /\ depth' = depth /\ top' = f /\ aborted' = aborted
      /\ Live' = Live /\ depth \in Live
      /\ frames'[depth] = f
      /\ \A d \in Live : d /= depth => frames'[d] = frames[d]
  BY <1>1, <1>3, GotoStack DEF Types, f, Moved
<1>5. Types'
  BY <1>1, <1>3, <1>4 DEF Types, innerVars, handleVars, taskVars, histVars
<1>6. StackOK'
  BY <1>1, <1>3, <1>4 DEF IInv, Types, StackOK, FrameOK, ReceiverOK, Nothing, innerVars, handleVars, taskVars, histVars
<1>7. SenderOK'
  BY <1>1, <1>3, <1>4 DEF IInv, Types, SenderOK, StackOK, FrameOK, innerVars, handleVars, taskVars, histVars
<1>8. ReceiverOK'
  BY <1>1, <1>3, <1>4 DEF IInv, Types, StackOK, FrameOK, ReceiverOK, SlotFlagExact, ReceiverDropping, innerVars, handleVars, taskVars, histVars
<1>9. SlotFlagExact' /\ OutcomeExact'
  BY <1>1, <1>3, <1>4 DEF IInv, Types, StackOK, FrameOK, SenderOK, ReceiverOK, SlotFlagExact, OutcomeExact, innerVars, handleVars, taskVars, histVars
<1>10. NoLostWakeup'
  BY <1>1, <1>3, <1>4 DEF IInv, Types, NoLostWakeup, Owed, Nothing, StackOK, FrameOK, ReceiverOK, innerVars, handleVars, taskVars, histVars
<1> QED BY <1>5, <1>6, <1>7, <1>8, <1>9, <1>10 DEF IInv

\* A poll is Pending with its waker in the slot, or with nothing in the channel's way.
LEMMA PollPendingInv ==
  ASSUME IInv, PollPending
  PROVE  IInv'
<1> USE OneshotAssumption
<1>1. /\ Types /\ depth > 0 /\ top = frames[depth] /\ top \in Frames
      /\ top.at = "recheck" /\ top.op = "poll" /\ top.who \in Tasks
  BY LiveStack DEF IInv, Types, PollPending, At, Running, top, Labels, Frames, Shape, Fits, SenderOps, PollPoints, DropPoints
<1>4. /\ StackIn(Frames)' /\ depth' = depth - 1 /\ aborted' = aborted
      /\ Live' = Live \ {depth} /\ depth \in Live
      /\ \A d \in Live' : frames'[d] = frames[d]
  BY <1>1, IdleFrame, ReturnStack DEF PollPending, Types
<1>r. /\ \A d \in Live : frames[d].op = "poll" => d = depth
      /\ rxOwned /\ (recv_waker = top.who \/ ~Nothing)
  BY <1>1, <1>4 DEF IInv, StackOK, FrameOK
<1>5. Types'
  BY <1>1, <1>4, <1>r DEF Types, PollPending, Nothing, innerVars, handleVars, histVars
<1>6. StackOK'
  BY <1>1, <1>4, <1>r DEF IInv, Types, StackOK, FrameOK, ReceiverOK, Nothing, PollPending, Nothing, innerVars, handleVars, histVars
<1>7. SenderOK'
  BY <1>1, <1>4, <1>r DEF IInv, Types, SenderOK, StackOK, FrameOK, PollPending, Nothing, innerVars, handleVars, histVars
<1>8. ReceiverOK'
  BY <1>1, <1>4, <1>r DEF IInv, Types, StackOK, FrameOK, ReceiverOK, SlotFlagExact, ReceiverDropping, PollPending, Nothing, innerVars, handleVars, histVars
<1>9. SlotFlagExact' /\ OutcomeExact'
  BY <1>1, <1>4, <1>r DEF IInv, Types, StackOK, FrameOK, SenderOK, ReceiverOK, SlotFlagExact, OutcomeExact, PollPending, Nothing, innerVars, handleVars, histVars
<1>10. NoLostWakeup'
  BY <1>1, <1>4, <1>r DEF IInv, Types, NoLostWakeup, Owed, Nothing, StackOK, FrameOK, ReceiverOK, PollPending, Nothing, innerVars, handleVars, histVars
<1> QED BY <1>5, <1>6, <1>7, <1>8, <1>9, <1>10 DEF IInv

\* The Receiver's drop takes its waker and marks the channel first.
LEMMA DropReceiverInv ==
  ASSUME IInv, DropReceiver
  PROVE  IInv'
<1> USE OneshotAssumption
<1> DEFINE l == IF recv_waker = None THEN "drop_value" ELSE "drop_cleared"
           f == Frame("receiver_drop", l, None)
<1>1. Types /\ depth < MaxDepth /\ top.at \in CallbackPoints \cup {"idle"}
  BY DEF IInv, DropReceiver, MayCall, UserCode
<1>2. rxOwned /\ \A d \in Live : frames[d].op /= "poll"
  BY DEF DropReceiver, RxFree
<1>3. f \in Frames /\ f.op = "receiver_drop" /\ f.at = l
  BY NewFrame DEF Ops, Labels, CallbackPoints, Frames, Shape, Fits, SenderOps, PollPoints, DropPoints
<1> HIDE DEF f
<1>4. /\ StackIn(Frames)' /\ depth' = depth + 1 /\ top' = f /\ aborted' = aborted
      /\ Live' = Live \cup {depth'} /\ depth' \notin Live
      /\ frames'[depth'] = f
      /\ \A d \in Live : frames'[d] = frames[d]
  BY <1>1, <1>3, CallStack DEF DropReceiver, Types, f
<1>5. Types'
  BY <1>1, <1>2, <1>3, <1>4 DEF Types, DropReceiver, CallbackPoints, SenderOps, histVars
<1>6. StackOK'
  BY <1>1, <1>2, <1>3, <1>4 DEF IInv, Types, StackOK, FrameOK, ReceiverOK, Nothing, DropReceiver, CallbackPoints, SenderOps, histVars
<1>7. SenderOK'
  BY <1>1, <1>2, <1>3, <1>4 DEF IInv, Types, SenderOK, StackOK, FrameOK, DropReceiver, CallbackPoints, SenderOps, histVars
<1>8. ReceiverOK'
  BY <1>1, <1>2, <1>3, <1>4 DEF IInv, Types, StackOK, FrameOK, ReceiverOK, SlotFlagExact, ReceiverDropping, DropReceiver, CallbackPoints, SenderOps, histVars
<1>9. SlotFlagExact' /\ OutcomeExact'
  BY <1>1, <1>2, <1>3, <1>4 DEF IInv, Types, StackOK, FrameOK, SenderOK, ReceiverOK, SlotFlagExact, OutcomeExact, DropReceiver, CallbackPoints, SenderOps, histVars
<1>10. NoLostWakeup'
  BY <1>1, <1>2, <1>3, <1>4 DEF IInv, Types, NoLostWakeup, Owed, Nothing, StackOK, FrameOK, ReceiverOK, DropReceiver, CallbackPoints, SenderOps, histVars
<1> QED BY <1>5, <1>6, <1>7, <1>8, <1>9, <1>10 DEF IInv

\* The Receiver's drop ends only with an empty slot.
LEMMA ReceiverGoneInv ==
  ASSUME IInv, depth > 0, top.at \in DropPoints, top.at = "drop_value" => ~value_present, ReceiverGone
  PROVE  IInv'
<1> USE OneshotAssumption
<1>1. /\ Types /\ depth > 0 /\ top = frames[depth] /\ top \in Frames
      /\ top.op = "receiver_drop"
  BY LiveStack DEF IInv, Types, top, Labels, Frames, Shape, Fits, SenderOps, PollPoints, DropPoints
<1>4. /\ StackIn(Frames)' /\ depth' = depth - 1 /\ aborted' = aborted
      /\ Live' = Live \ {depth} /\ depth \in Live
      /\ \A d \in Live' : frames'[d] = frames[d]
  BY <1>1, IdleFrame, ReturnStack DEF ReceiverGone, Types
<1>r. ~value_present /\ ~rxOwned
  BY <1>1, <1>4 DEF IInv, StackOK, FrameOK
<1>5. Types'
  BY <1>1, <1>4, <1>r DEF Types, ReceiverGone, LastHolder, handleVars, taskVars
<1>6. StackOK'
  BY <1>1, <1>4, <1>r DEF IInv, Types, StackOK, FrameOK, ReceiverOK, Nothing, ReceiverGone, LastHolder, handleVars, taskVars
<1>7. SenderOK'
  BY <1>1, <1>4, <1>r DEF IInv, Types, SenderOK, StackOK, FrameOK, ReceiverGone, LastHolder, handleVars, taskVars
<1>8. ReceiverOK'
  BY <1>1, <1>4, <1>r DEF IInv, Types, StackOK, FrameOK, ReceiverOK, SlotFlagExact, ReceiverDropping, ReceiverGone, LastHolder, handleVars, taskVars
<1>9. SlotFlagExact' /\ OutcomeExact'
  BY <1>1, <1>4, <1>r DEF IInv, Types, StackOK, FrameOK, SenderOK, ReceiverOK, SlotFlagExact, OutcomeExact, ReceiverGone, LastHolder, handleVars, taskVars
<1>10. NoLostWakeup'
  BY <1>1, <1>4, <1>r DEF IInv, Types, NoLostWakeup, Owed, Nothing, StackOK, FrameOK, ReceiverOK, ReceiverGone, LastHolder, handleVars, taskVars
<1> QED BY <1>5, <1>6, <1>7, <1>8, <1>9, <1>10 DEF IInv

\* The cleared waker is dropped: the value comes next.
LEMMA ClearedInv ==
  ASSUME IInv, At("drop_cleared"), Goto([top EXCEPT !.at = "drop_value"]),
         UNCHANGED <<innerVars, handleVars, taskVars, histVars>>
  PROVE  IInv'
<1> USE OneshotAssumption
<1>1. /\ Types /\ depth > 0 /\ top = frames[depth] /\ top \in Frames
      /\ top.at = "drop_cleared" /\ top.op = "receiver_drop"
  BY LiveStack DEF IInv, Types, At, Running, top, Labels, Frames, Shape, Fits, SenderOps, PollPoints, DropPoints
<1> DEFINE f == Moved(top, "drop_value")
<1>2. Fits(top.op, "drop_value", top.who, top.todo)
  BY <1>1 DEF Frames, Shape, Fits, SenderOps, PollPoints, DropPoints
<1>3. f \in Frames /\ f.op = "receiver_drop" /\ f.at = "drop_value" /\ f.who = top.who /\ f.todo = top.todo
  BY <1>1, <1>2, MovedFrame DEF Labels, CallbackPoints
<1> HIDE DEF f
<1>4. /\ StackIn(Frames)' /\ depth' = depth /\ top' = f /\ aborted' = aborted
      /\ Live' = Live /\ depth \in Live
      /\ frames'[depth] = f
      /\ \A d \in Live : d /= depth => frames'[d] = frames[d]
  BY <1>1, <1>3, GotoStack DEF Types, f, Moved
<1>5. Types'
  BY <1>1, <1>3, <1>4 DEF Types, innerVars, handleVars, taskVars, histVars
<1>6. StackOK'
  BY <1>1, <1>3, <1>4 DEF IInv, Types, StackOK, FrameOK, ReceiverOK, Nothing, innerVars, handleVars, taskVars, histVars
<1>7. SenderOK'
  BY <1>1, <1>3, <1>4 DEF IInv, Types, SenderOK, StackOK, FrameOK, innerVars, handleVars, taskVars, histVars
<1>8. ReceiverOK'
  BY <1>1, <1>3, <1>4 DEF IInv, Types, StackOK, FrameOK, ReceiverOK, SlotFlagExact, ReceiverDropping, innerVars, handleVars, taskVars, histVars
<1>9. SlotFlagExact' /\ OutcomeExact'
  BY <1>1, <1>3, <1>4 DEF IInv, Types, StackOK, FrameOK, SenderOK, ReceiverOK, SlotFlagExact, OutcomeExact, innerVars, handleVars, taskVars, histVars
<1>10. NoLostWakeup'
  BY <1>1, <1>3, <1>4 DEF IInv, Types, NoLostWakeup, Owed, Nothing, StackOK, FrameOK, ReceiverOK, innerVars, handleVars, taskVars, histVars
<1> QED BY <1>5, <1>6, <1>7, <1>8, <1>9, <1>10 DEF IInv

\* The unreceived value is dropped once.
LEMMA DropValueInv ==
  ASSUME IInv, DropValue
  PROVE  IInv'
<1> USE OneshotAssumption
<1>1. /\ Types /\ depth > 0 /\ top = frames[depth] /\ top \in Frames
      /\ top.at = "drop_value" /\ top.op = "receiver_drop"
  BY LiveStack DEF IInv, Types, DropValue, At, Running, top, Labels, Frames, Shape, Fits, SenderOps, PollPoints, DropPoints
<1> DEFINE f == Moved(top, "payload")
<1>2. Fits(top.op, "payload", top.who, top.todo)
  BY <1>1 DEF Frames, Shape, Fits, SenderOps, PollPoints, DropPoints
<1>3. f \in Frames /\ f.op = "receiver_drop" /\ f.at = "payload" /\ f.who = top.who /\ f.todo = top.todo
  BY <1>1, <1>2, MovedFrame DEF Labels, CallbackPoints
<1> HIDE DEF f
<1>4. /\ StackIn(Frames)' /\ depth' = depth /\ top' = f /\ aborted' = aborted
      /\ Live' = Live /\ depth \in Live
      /\ frames'[depth] = f
      /\ \A d \in Live : d /= depth => frames'[d] = frames[d]
  BY <1>1, <1>3, GotoStack DEF DropValue, Types, f, Moved
<1>5. Types'
  BY <1>1, <1>3, <1>4 DEF Types, DropValue, handleVars, taskVars
<1>6. StackOK'
  BY <1>1, <1>3, <1>4 DEF IInv, Types, StackOK, FrameOK, ReceiverOK, Nothing, DropValue, handleVars, taskVars
<1>7. SenderOK'
  BY <1>1, <1>3, <1>4 DEF IInv, Types, SenderOK, StackOK, FrameOK, DropValue, handleVars, taskVars
<1>8. ReceiverOK'
  BY <1>1, <1>3, <1>4 DEF IInv, Types, StackOK, FrameOK, ReceiverOK, SlotFlagExact, ReceiverDropping, DropValue, handleVars, taskVars
<1>9. SlotFlagExact' /\ OutcomeExact'
  BY <1>1, <1>3, <1>4 DEF IInv, Types, StackOK, FrameOK, SenderOK, ReceiverOK, SlotFlagExact, OutcomeExact, DropValue, handleVars, taskVars
<1>10. NoLostWakeup'
  BY <1>1, <1>3, <1>4 DEF IInv, Types, NoLostWakeup, Owed, Nothing, StackOK, FrameOK, ReceiverOK, DropValue, handleVars, taskVars
<1> QED BY <1>5, <1>6, <1>7, <1>8, <1>9, <1>10 DEF IInv

\* Nothing happens.
LEMMA StutterInv == ASSUME IInv, UNCHANGED vars PROVE IInv'
<1>1. UNCHANGED <<innerVars, handleVars, taskVars, histVars>> /\ UNCHANGED <<depth, frames, aborted>>
  BY DEF vars, stackVars
<1>2. Types'
  BY <1>1 DEF IInv, Types, StackIn, innerVars, handleVars, taskVars, histVars
<1>3. StackOK' /\ SenderOK' /\ ReceiverOK' /\ SlotFlagExact' /\ OutcomeExact' /\ NoLostWakeup'
  BY <1>1 DEF IInv, StackOK, FrameOK, SenderOK, ReceiverOK, ReceiverDropping, SlotFlagExact,
    OutcomeExact, NoLostWakeup, Owed, Live, Nothing, top, innerVars, handleVars, taskVars, histVars
<1> QED BY <1>2, <1>3 DEF IInv

\* A callback ends.
LEMMA CallbackInv ==
  ASSUME IInv, NEW p \in BOOLEAN, CallbackSteps(p)
  PROVE  IInv'
<1>1. CASE WakeNext(p)
  BY <1>1, WakeNextInv
<1>2. CASE AfterCloneRecv(p)
  <2>1. CASE p
    BY <1>2, <2>1, PollUnwindsInv DEF AfterCloneRecv, At, innerVars
  <2>2. CASE ~p
    BY <1>2, <2>2, StoreInv DEF AfterCloneRecv
  <2> QED BY <2>1, <2>2
<1>3. CASE AfterDropReplaced(p)
  <2>1. CASE p
    BY <1>3, <2>1, PollUnwindsInv DEF AfterDropReplaced, At
  <2>2. CASE ~p
    BY <1>3, <2>2, RegisteredInv DEF AfterDropReplaced
  <2> QED BY <2>1, <2>2
<1>4. CASE AfterDropCleared(p)
  <2>1. CASE p
    BY <1>4, <2>1, ReceiverGoneInv DEF AfterDropCleared, At, DropPoints
  <2>2. CASE ~p
    BY <1>4, <2>2, ClearedInv DEF AfterDropCleared
  <2> QED BY <2>1, <2>2
<1>5. CASE AfterPayload(p)
  BY <1>5, ReceiverGoneInv DEF AfterPayload, At, DropPoints
<1> QED BY <1>1, <1>2, <1>3, <1>4, <1>5 DEF CallbackSteps

\* Every step of the channel keeps the invariant.
LEMMA NextInv ==
  ASSUME IInv, [Next]_vars
  PROVE  IInv'
<1>1. CASE Calls
  BY <1>1, SendValueInv, DropSenderInv, TakeValueInv, TryRecvCanceledInv, DropReceiverInv, PollInv
    DEF Calls
<1>2. ASSUME NEW p \in Panics, CallbackSteps(p) PROVE IInv'
  BY <1>2, CallbackInv, ReentryAssumption
<1>3. CASE LibrarySteps
  <2>1. CASE DropNoValue
    BY <2>1, ReceiverGoneInv DEF DropNoValue, At, DropPoints
  <2> QED BY <1>3, <2>1, SendReturnsInv, SenderGoneInv, PollValueInv, PollCanceledInv,
       PollRegisterInv, PollPendingInv, DropValueInv DEF LibrarySteps
<1>4. CASE Over \/ UNCHANGED vars
  BY <1>4, StutterInv DEF Over
<1> QED BY <1>1, <1>2, <1>3, <1>4 DEF Next

\* A fresh channel has it.
LEMMA InitInv == Init => IInv
<1> SUFFICES ASSUME Init PROVE IInv
  OBVIOUS
<1> USE OneshotAssumption, ReentryAssumption
<1>1. depth = 0 /\ Live = {} /\ StackIn(Frames)
  BY IdleFrame, InitStack DEF Init
<1>2. Types
  BY <1>1 DEF Init, Types
<1>3. StackOK /\ SenderOK /\ ReceiverOK /\ SlotFlagExact /\ OutcomeExact /\ NoLostWakeup
  BY <1>1 DEF Init, StackOK, SenderOK, ReceiverOK, SlotFlagExact, OutcomeExact, NoLostWakeup
<1> QED BY <1>2, <1>3 DEF IInv

\* The inductive invariant holds throughout.
LEMMA Invariance == Spec => []IInv
BY InitInv, NextInv, PTL DEF Spec

-----------------------------------------------------------------------------
(* Theorems *)

\* The unsafe slot is flagged exactly while it holds a sent value, and is read
\* out or dropped at most once.
THEOREM SlotCorrect == Spec => []SlotFlagExact
<1>1. IInv => SlotFlagExact
  BY DEF IInv
<1> QED BY <1>1, Invariance, PTL

\* The Receiver reports a cancellation only if nothing was sent, and a value
\* only if it read one out.
THEOREM OutcomeCorrect == Spec => []OutcomeExact
<1>1. IInv => OutcomeExact
  BY DEF IInv
<1> QED BY <1>1, Invariance, PTL

\* A parked Receiver is woken, or about to be, or registered on a channel that
\* has nothing for it.
THEOREM WakeupCorrect == Spec => []NoLostWakeup
<1>1. IInv => NoLostWakeup
  BY DEF IInv
<1> QED BY <1>1, Invariance, PTL

\* After the Receiver's drop neither a waker nor a value is left, whatever
\* panicked.
THEOREM ReceiverCorrect == Spec => []ReceiverLeavesNothing
<1>1. IInv => ReceiverLeavesNothing
  BY DEF IInv, ReceiverOK, ReceiverLeavesNothing
<1> QED BY <1>1, Invariance, PTL

-----------------------------------------------------------------------------
(* Refinement: every step is a step of the abstract channel or none *)

\* What the abstract channel sees of a state.
buffer == IF value_present THEN <<"value">> ELSE <<>>

\* A step that changes none of what the abstract channel sees.
LEMMA Unseen ==
  ASSUME UNCHANGED <<value_present, sender_dropped, receiver_dropped>>
  PROVE  UNCHANGED Ch!vars
BY DEF Ch!vars

\* The value leaves the slot.
LEMMA SlotEmptied ==
  ASSUME Types, value_present, value_present' = FALSE,
         UNCHANGED <<sender_dropped, receiver_dropped>>
  PROVE  Ch!Next
<1>1. buffer = <<"value">> /\ buffer' = Tail(buffer) /\ buffer /= <<>>
  BY DEF buffer
<1>2. CASE receiver_dropped
  BY <1>1, <1>2 DEF Ch!Next, Ch!Discard, buffer
<1>3. CASE ~receiver_dropped
  BY <1>1, <1>3 DEF Ch!Next, Ch!Receive, buffer
<1> QED BY <1>2, <1>3

\* The last holder of Inner drops what is left, after the Receiver is gone.
LEMMA SlotDropped ==
  ASSUME Types, NEW holds \in BOOLEAN, LastHolder(holds), UNCHANGED <<sender_dropped, receiver_dropped>>
  PROVE  [Ch!Next]_(Ch!vars)
<1>1. CASE value_present /\ ~holds
  BY <1>1, SlotEmptied DEF LastHolder
<1>2. CASE ~(value_present /\ ~holds)
  BY <1>2, Unseen DEF LastHolder, Types
<1> QED BY <1>1, <1>2

\* A Sender leaves once.
LEMMA SenderLeaves ==
  ASSUME Types, Leaving
  PROVE  [Ch!Next]_(Ch!vars)
<1>1. CASE sender_dropped
  BY <1>1, Unseen DEF Leaving, Types
<1>2. CASE ~sender_dropped
  BY <1>2 DEF Leaving, Ch!Next, Ch!LastSenderLeaves
<1> QED BY <1>1, <1>2

\* A step of a channel that satisfies the invariant is one of the abstract channel.
LEMMA StepSimulation ==
  ASSUME IInv, [Next]_vars
  PROVE  [Ch!Next]_(Ch!vars)
<1>t. Types
  BY DEF IInv
<1>1. CASE SendValue
  <2>1. ~value_present /\ ~sender_dropped /\ ~receiver_dropped
    BY <1>1 DEF IInv, SenderOK, SlotFlagExact, SendValue
  <2>2. buffer = <<>> /\ buffer' = Append(buffer, "value") /\ Len(buffer) <= 0
    BY <1>1, <2>1 DEF SendValue, buffer
  <2> QED BY <1>1, <2>1, <2>2 DEF SendValue, Ch!Next, Ch!Send, buffer
<1>2. CASE DropSender \/ SendReturns
  BY <1>t, <1>2, SenderLeaves DEF DropSender, SendReturns
<1>3. CASE TakeValue \/ PollValue
  BY <1>t, <1>3, SlotEmptied DEF TakeValue, PollValue, ReadValue
<1>4. CASE DropValue
  BY <1>t, <1>4, SlotEmptied DEF DropValue
<1>5. CASE DropReceiver
  BY <1>5 DEF IInv, ReceiverOK, DropReceiver, RxFree, Ch!Next, Ch!LastReceiverLeaves
<1>6. CASE SenderGone
  <2>1. ReceiverHolds \in BOOLEAN
    BY DEF ReceiverHolds, Holding
  <2> QED BY <1>t, <1>6, <2>1, SlotDropped DEF SenderGone
<1>7. ASSUME ReceiverGone PROVE [Ch!Next]_(Ch!vars)
  <2>1. SenderHolds \in BOOLEAN
    BY DEF SenderHolds, Holding
  <2> QED BY <1>t, <1>7, <2>1, SlotDropped DEF ReceiverGone
<1>8. CASE TryRecvCanceled \/ PollCanceled \/ PollRegister \/ PollPending
  BY <1>8, Unseen DEF TryRecvCanceled, PollCanceled, ReportCanceled, PollRegister, PollPending, innerVars
<1>9. ASSUME NEW t \in Tasks, Poll(t) PROVE [Ch!Next]_(Ch!vars)
  BY <1>9, Unseen DEF Poll, innerVars
<1>10. ASSUME NEW p \in Panics, CallbackSteps(p) PROVE [Ch!Next]_(Ch!vars)
  BY <1>7, <1>10, Unseen DEF CallbackSteps, WakeNext, AfterCloneRecv, AfterDropReplaced,
    AfterDropCleared, AfterPayload, innerVars
<1>11. CASE Over \/ UNCHANGED vars
  BY <1>11, Unseen DEF Over, vars, innerVars
<1> QED BY <1>1, <1>2, <1>3, <1>4, <1>5, <1>6, <1>7, <1>8, <1>9, <1>10, <1>11
     DEF Next, Calls, LibrarySteps, DropNoValue

\* Seen without wakers and callbacks the oneshot channel is the abstract one,
\* for a single item.
THEOREM OneshotImplementsChannel == Spec => ImplementsChannel
<1>1. Init => Ch!Init
  BY DEF Init, Ch!Init
<1> QED BY <1>1, StepSimulation, Invariance, PTL DEF Spec, ImplementsChannel, Ch!Spec

=============================================================================
