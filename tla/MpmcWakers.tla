----------------------------- MODULE MpmcWakers -----------------------------
(***************************************************************************)
(* Proofs about the wakers and the outcomes of Mpmc, for every number of   *)
(* items, futures, handles, ids and nested calls and every capacity: no    *)
(* wakeup is lost, no registration outlives its future or the channel, the *)
(* outcome of a send is exact and a reported disconnection is final.       *)
(***************************************************************************)
EXTENDS MpmcFifo

-----------------------------------------------------------------------------
(* The inductive invariant *)

\* A call that is not the running one is in a callback.
Suspended == CallbackPoints \cup {"idle"}
Below == \A d \in Live : d /= depth => frames[d].at \in Suspended

\* Only a call that is at its wakes has wakes to do, and a poll of a Send has
\* its registration in the drop guard only while it commits.
SendPoints == {"first", "recheck", "drop_old_send", "clone_send"}
Guarding == {"wake", "woke", "deregister"}
PointOK(f) ==
  /\ f.at /= "wake" => f.todo = {}
  /\ f.op = "send" /\ f.at \notin Guarding => f.id = None
Points == \A d \in Live : PointOK(frames[d])

\* What the running call has just seen or done.
EmptySeen == depth > 0 /\ top.at = "empty" => IsEmpty
Registered == depth > 0 /\ top.at = "recheck" => Reg(top.who) \in send_wakers

\* These calls hold their future, or the Receiver, mutably.
MutOps == {"send", "poll1", "poll2", "recv_done"}
Exclusive ==
  \A d, e \in Live :
    frames[d].op \in MutOps /\ frames[e].op \in MutOps /\ frames[d].who = frames[e].who => d = e

\* A poll on the stack: whether the future still holds its item, that it is not
\* parked, and that its old registration is gone before a new one is made.
SendState(f) ==
  f.op = "send" => IF f.at \in SendPoints THEN sfut[f.who] = "pending"
                   ELSE sfut[f.who] \in {"okHeld", "errHeld"}
SendStack == \A d \in Live : SendState(frames[d])
Unparked ==
  \A d \in Live : frames[d].op \in {"send", "poll1", "poll2"} => frames[d].who \notin parked
Unregistered(f) ==
  f.at \in {"drop_old_send", "clone_send"} \/ f.op \in {"poll1", "receiver_drop"} =>
    waker_id[f.who] = None
IdStack == \A d \in Live : Unregistered(frames[d])

\* A poll_recv past its registration is registered, woken, or will find the
\* channel disconnected; one that stored nothing already has.
RecvRegistered ==
  \A d \in Live :
    /\ frames[d].op = "poll2" =>
         Disconnected \/ Reg(frames[d].who) \in recv_wakers \/ Owed(frames[d].who)
    /\ frames[d].at = "drop_unstored" => Disconnected

\* Send futures hold an id only while they hold their item, and borrow a Sender.
SendIds == \A i \in Items : sfut[i] /= "pending" => waker_id[i] = None
SendersLive == senders = 0 => \A i \in Items : ~LiveSend(i)

\* Each list has the wakers of its own side.
Sides ==
  /\ \A w \in recv_wakers : w[1] \notin Items
  /\ \A w \in send_wakers : w[1] \in Items

RecvTerminal == Disconnected => recv_wakers = {}

\* What is still registered on a channel closed to sends is what a poll on the
\* stack has just stored or is about to remove.
Removing(w) ==
  \E d \in Live :
    /\ frames[d].op = "send" /\ frames[d].who = w[1]
    /\ (frames[d].at = "recheck" /\ waker_id[w[1]] = w[2]) \/ frames[d].id = w[2]
SendTerminal == ClosedToSend /\ ~Closing => \A w \in send_wakers : Removing(w)

\* NoLostSendWakeup, with the receivers and the close told apart.
SendWaits(i) ==
  Reg(i) \in send_wakers /\ IsFull /\ rxLive /= {} /\ (closed => Closing)
SendWakeup == ~aborted => \A i \in parked \cap Items : Owed(i) \/ SendWaits(i)

WInv ==
  /\ Below /\ Points /\ EmptySeen /\ Registered /\ Exclusive
  /\ SendStack /\ Unparked /\ IdStack /\ RecvRegistered
  /\ SendIds /\ SendersLive /\ Sides /\ NoOrphanWaker
  /\ RecvTerminal /\ SendTerminal /\ NoLostRecvWakeup /\ SendWakeup
  /\ DisconnectIsFinal /\ LastReceiverDrains /\ OutcomeExact

-----------------------------------------------------------------------------
(* What a step does to the stack, field by field *)

IsFrame(f, op, at, who, todo, id) ==
  f.op = op /\ f.at = at /\ f.who = who /\ f.todo = todo /\ f.id = id

WakeAt(list) == IF list = {} THEN "woke" ELSE "wake"

Pushes(op, at, who, todo, id) ==
  /\ depth' > 0 /\ depth' \notin Live /\ Live' = Live \cup {depth'} /\ aborted' = aborted
  /\ top' = frames'[depth'] /\ IsFrame(frames'[depth'], op, at, who, todo, id)
  /\ \A d \in Live : frames'[d] = frames[d]
  /\ depth \in Live => frames[depth].at \in Suspended

Moves(op, at, who, todo, id) ==
  /\ depth > 0 /\ depth \in Live /\ top = frames[depth]
  /\ depth' = depth /\ Live' = Live /\ aborted' = aborted
  /\ top' = frames'[depth] /\ IsFrame(frames'[depth], op, at, who, todo, id)
  /\ \A d \in Live : d /= depth => frames'[d] = frames[d]

Ends ==
  /\ depth > 0 /\ depth \in Live /\ top = frames[depth]
  /\ Live' = Live \ {depth} /\ aborted' = aborted
  /\ \A d \in Live' : frames'[d] = frames[d]
  /\ depth' > 0 => depth' \in Live' /\ top' = frames[depth']

Stays ==
  /\ depth' = depth /\ top' = top /\ aborted' = aborted /\ Live' = Live
  /\ \A d \in Live : frames'[d] = frames[d]

\* The steps of Reentry in this form.
LEMMA CallStep ==
  ASSUME TypeOK, MayCall, NEW f, Call(f)
  PROVE  Pushes(f.op, f.at, f.who, f.todo, f.id)
<1> DEFINE FS == Frames \cup {f}
<1>1. StackIn(FS) /\ depth < MaxDepth /\ f \in FS
  BY DEF TypeOK, StackType, StackIn, MayCall, UserCode
<1> HIDE DEF FS
<1>2. /\ depth' = depth + 1 /\ top' = f /\ aborted' = aborted
      /\ Live' = Live \cup {depth'} /\ depth' \notin Live
      /\ frames'[depth'] = f
      /\ \A d \in Live : frames'[d] = frames[d]
  BY <1>1, CallStack
<1>3. depth \in Nat
  BY <1>1, LiveStack
<1>4. frames[depth].at \in Suspended
  BY DEF MayCall, UserCode, top, Suspended
<1> QED BY <1>2, <1>3, <1>4 DEF Pushes, IsFrame

LEMMA GotoStep ==
  ASSUME TypeOK, depth > 0, NEW f, Goto(f)
  PROVE  Moves(f.op, f.at, f.who, f.todo, f.id)
<1> DEFINE FS == Frames \cup {f}
<1>1. StackIn(FS) /\ f \in FS
  BY DEF TypeOK, StackType, StackIn
<1> HIDE DEF FS
<1>2. /\ depth' = depth /\ top' = f /\ aborted' = aborted
      /\ Live' = Live /\ depth \in Live
      /\ frames'[depth] = f
      /\ \A d \in Live : d /= depth => frames'[d] = frames[d]
  BY <1>1, GotoStack
<1> QED BY <1>2 DEF Moves, IsFrame, top

LEMMA ReturnStep ==
  ASSUME TypeOK, depth > 0, Return
  PROVE  Ends
<1>1. StackIn(Frames) /\ Idle \in Frames
  BY DEF TypeOK, StackType, StackIn, Idle, Frame, Frames, RawFrames, Shape, Ops, TakeOps, Labels
<1>2. /\ depth' = depth - 1 /\ aborted' = aborted
      /\ Live' = Live \ {depth} /\ depth \in Live
      /\ \A d \in Live' : frames'[d] = frames[d]
  BY <1>1, ReturnStack
<1>3. depth' > 0 => depth' \in Live'
  BY <1>1, <1>2, LiveStack DEF Live
<1> QED BY <1>2, <1>3 DEF Ends, top

LEMMA SameStep ==
  ASSUME TypeOK, UNCHANGED stackVars
  PROVE  Stays
BY DEF Stays, stackVars, top, Live

\* The frame of a call that starts, or goes on to, wake the wakers of a list.
LEMMA WakingFields ==
  ASSUME NEW op, NEW at, NEW who, NEW list
  PROVE  IsFrame(Waking(Frame(op, at, who), list), op, WakeAt(list), who, list, None)
BY DEF IsFrame, WakeAt, Waking, Frame

LEMMA FrameFields ==
  ASSUME NEW op, NEW at, NEW who
  PROVE  IsFrame(Frame(op, at, who), op, at, who, {}, None)
BY DEF IsFrame, Frame

LEMMA WakingAgain ==
  ASSUME NEW f \in RawFrames, NEW list
  PROVE  IsFrame(Waking(f, list), f.op, WakeAt(list), f.who, list, f.id)
BY DEF IsFrame, WakeAt, Waking, RawFrames

\* The frame of a call moved to another of its points.
LEMMA MovedFields ==
  ASSUME NEW f \in RawFrames, NEW at
  PROVE  IsFrame([f EXCEPT !.at = at], f.op, at, f.who, f.todo, f.id)
BY DEF IsFrame, RawFrames

\* Registrations are pairs of an owner and an id, which is not None.
LEMMA RegFacts ==
  ASSUME TypeOK
  PROVE  \A w \in recv_wakers \cup send_wakers :
           w = <<w[1], w[2]>> /\ w[1] \in Owners /\ w[2] \in WakerIds /\ w[2] /= None
BY MpmcAssumption DEF TypeOK, WakerType, Regs

\* What a call on the stack holds.
LEMMA LiveFacts ==
  ASSUME TypeOK
  PROVE  /\ \A d \in Live : frames[d] \in Frames
         /\ \A d \in Live : frames[d].op = "send" => frames[d].who \in Items
         /\ \A d \in Live : frames[d].at \in SendPoints => frames[d].op = "send"
         /\ \A d \in Live : frames[d].op \in {"poll1", "poll2", "recv_done", "receiver_drop"} =>
                              frames[d].who \notin Items /\ frames[d].who \in Owners
         /\ \A d \in Live : \A w \in frames[d].todo :
              w = <<w[1], w[2]>> /\ w[1] \in Owners /\ w[2] \in WakerIds
<1>1. StackIn(Frames)
  BY DEF TypeOK, StackType, StackIn
<1>2. \A d \in Live : frames[d] \in Frames
  BY <1>1, LiveStack
<1>3. ASSUME NEW f \in Frames
      PROVE  /\ f.op = "send" => f.who \in Items
             /\ f.at \in SendPoints => f.op = "send"
             /\ f.op \in {"poll1", "poll2", "recv_done", "receiver_drop"} =>
                  f.who \notin Items /\ f.who \in Owners
             /\ \A w \in f.todo : w = <<w[1], w[2]>> /\ w[1] \in Owners /\ w[2] \in WakerIds
  BY MpmcAssumption DEF Frames, RawFrames, Shape, SendPoints, Owners, Regs
<1> QED BY <1>2, <1>3

\* The running call is one, and if it is a receive there is a Receiver.
LEMMA TopFacts ==
  ASSUME TypeOK, Borrows, depth > 0
  PROVE  /\ depth \in Live /\ top = frames[depth] /\ top \in Frames /\ top \in RawFrames
         /\ Shape(top)
         /\ top.op \in TakeOps => rxLive /= {}
         /\ top.op = "receiver_drop" => rxLive = {}
<1>1. StackIn(Frames) /\ top = frames[depth]
  BY DEF TypeOK, StackType, StackIn, top
<1>2. depth \in Live /\ top \in Frames /\ top \in RawFrames /\ Shape(top)
  BY <1>1, LiveStack DEF Frames
<1>3. FrameBorrows(top)
  BY <1>1, <1>2 DEF Borrows
<1> QED BY <1>1, <1>2, <1>3 DEF FrameBorrows, Keeps, Shape, TakeOps

\* What is accepted when an item is pushed.
LEMMA AcceptedAppend ==
  ASSUME pushed \in Seq(Items), queue \in Seq(Items), NEW i \in Items,
         pushed' = Append(pushed, i), queue' = Append(queue, i)
  PROVE  queue' /= <<>> /\ \A j \in Items : Accepted(j)' <=> Accepted(j) \/ j = i
<1>1. /\ Len(pushed) \in Nat /\ Len(pushed') = Len(pushed) + 1
      /\ \A n \in 1..Len(pushed) : pushed'[n] = pushed[n]
      /\ pushed'[Len(pushed) + 1] = i
  OBVIOUS
<1>2. queue' /= <<>>
  OBVIOUS
<1>3. ASSUME NEW j \in Items PROVE Accepted(j)' <=> Accepted(j) \/ j = i
  BY <1>1 DEF Accepted
<1> QED BY <1>2, <1>3


LEMMA TypeFacts ==
  ASSUME TypeOK
  PROVE  /\ sfut \in [Items -> SendStates] /\ waker_id \in [Owners -> WakerIds \cup {None}]
         /\ senders \in Nat /\ parked \subseteq Owners /\ Items \subseteq Owners
         /\ rxLive \subseteq Receivers
         /\ \A o \in RecvFuts \cup Receivers : o \in Owners /\ o \notin Items
BY MpmcAssumption DEF TypeOK, TaskType, WakerType, ChanType, Owners

-----------------------------------------------------------------------------
(* The invariant, action by action *)

\* A step that changes nothing the invariant speaks of, the stack apart.
Quiet ==
  /\ UNCHANGED <<queue, redelivery, closed, wakerVars, sfut, parked, woken, pushed>>
  /\ senders' = 0 <=> senders = 0
  /\ rxLive' = {} <=> rxLive = {}
  /\ sawNone' => sawNone \/ (IsEmpty /\ Disconnected)

\* The running call goes on to a point with the same obligations.
LEMMA QuietMovesInv ==
  ASSUME TypeOK, WInv, Quiet, NEW at, top.at /= "wake", top.at /= "recheck",
         Moves(top.op, at, top.who, {}, top.id),
         at \notin {"wake", "recheck", "drop_old_send"},
         at = "empty" => IsEmpty,
         top.op = "send" => /\ at \in SendPoints <=> top.at \in SendPoints
                            /\ at \notin Guarding => top.at \notin Guarding,
         at = "clone_send" => top.at = "drop_old_send",
         at = "drop_unstored" => Disconnected
  PROVE  WInv'
<1> USE MpmcAssumption
<1>w. WInv
  OBVIOUS
<1>10. Below' /\ Points'
  BY <1>w DEF WInv, Below, Points, PointOK, Suspended, CallbackPoints, Guarding, Moves, IsFrame,
    Quiet, wakerVars
<1>11. Exclusive'
  BY <1>w DEF WInv, Exclusive, MutOps, Moves, IsFrame, Quiet, wakerVars
<1>12. EmptySeen' /\ Registered'
  BY <1>w, TypeFacts DEF WInv, EmptySeen, Registered, IsEmpty, Reg, Below, Suspended,
    CallbackPoints, Moves, IsFrame, Quiet, wakerVars
<1>13. SendStack' /\ SendIds'
  BY <1>w, TypeFacts, LiveFacts DEF WInv, SendStack, SendState, SendIds, SendPoints, Exclusive,
    MutOps, Moves, IsFrame, Quiet, wakerVars
<1>14. SendersLive'
  BY <1>w, TypeFacts DEF WInv, SendersLive, LiveSend, Moves, IsFrame, Quiet, wakerVars
<1>15. Unparked' /\ IdStack'
  BY <1>w, TypeFacts, LiveFacts DEF WInv, Unparked, IdStack, Unregistered, Exclusive, MutOps,
    Moves, IsFrame, Quiet, wakerVars
<1>16. RecvRegistered'
  BY <1>w, TypeFacts, LiveFacts DEF WInv, RecvRegistered, Disconnected, Owed, Reg, Exclusive,
    MutOps, Points, PointOK, Moves, IsFrame, Quiet, wakerVars
<1>17. Sides' /\ RecvTerminal'
  BY <1>w, RegFacts DEF WInv, Sides, RecvTerminal, Disconnected, Moves, IsFrame, Quiet,
    wakerVars
<1>18. NoOrphanWaker'
  BY <1>w, TypeFacts, RegFacts DEF WInv, NoOrphanWaker, Guarded, Sides, IdStack, Unregistered,
    Points, PointOK, Moves, IsFrame, Quiet, wakerVars
<1>19. SendTerminal'
  BY <1>w, TypeFacts, LiveFacts, RegFacts DEF WInv, SendTerminal, Removing, ClosedToSend,
    Closing, Sides, Points, PointOK, Below, Suspended, CallbackPoints, Moves, IsFrame, Quiet,
    wakerVars
<1>20. NoLostRecvWakeup'
  BY <1>w, TypeFacts, RegFacts DEF WInv, NoLostRecvWakeup, Owed, Reg, IsEmpty, Disconnected,
    Unparked, Points, PointOK, Moves, IsFrame, Quiet, wakerVars
<1>21. SendWakeup'
  BY <1>w, TypeFacts DEF WInv, SendWakeup, SendWaits, Owed, Reg, IsFull, Closing, Unparked,
    Points, PointOK, Moves, IsFrame, Quiet, wakerVars
<1>22. DisconnectIsFinal' /\ LastReceiverDrains'
  BY <1>w, TypeFacts DEF WInv, DisconnectIsFinal, LastReceiverDrains, IsEmpty, Disconnected,
    Moves, IsFrame, Quiet, wakerVars
<1>23. OutcomeExact'
  BY <1>w DEF WInv, OutcomeExact, Accepted, Quiet
<1> QED
  BY <1>10, <1>11, <1>12, <1>13, <1>14, <1>15, <1>16, <1>17, <1>18, <1>19, <1>20, <1>21, <1>22,
    <1>23 DEF WInv

\* A call returns or unwinds and leaves nothing behind.
LEMMA QuietEndsInv ==
  ASSUME TypeOK, WInv, Quiet, Ends, top.at \notin {"wake", "recheck"},
         top.op \notin {"close", "receiver_drop"},
         top.op = "send" => top.at \notin Guarding
  PROVE  WInv'
<1> USE MpmcAssumption
<1>w. WInv
  OBVIOUS
<1>10. Below' /\ Points'
  BY <1>w DEF WInv, Below, Points, PointOK, Suspended, CallbackPoints, Guarding, Ends, Quiet,
    wakerVars
<1>11. Exclusive'
  BY <1>w DEF WInv, Exclusive, MutOps, Ends, Quiet, wakerVars
<1>12. EmptySeen' /\ Registered'
  BY <1>w, TypeFacts DEF WInv, EmptySeen, Registered, IsEmpty, Reg, Below, Suspended,
    CallbackPoints, Ends, Quiet, wakerVars
<1>13. SendStack' /\ SendIds'
  BY <1>w, TypeFacts, LiveFacts DEF WInv, SendStack, SendState, SendIds, SendPoints, Exclusive,
    MutOps, Ends, Quiet, wakerVars
<1>14. SendersLive'
  BY <1>w, TypeFacts DEF WInv, SendersLive, LiveSend, Ends, Quiet, wakerVars
<1>15. Unparked' /\ IdStack'
  BY <1>w, TypeFacts, LiveFacts DEF WInv, Unparked, IdStack, Unregistered, Exclusive, MutOps,
    Ends, Quiet, wakerVars
<1>16. RecvRegistered'
  BY <1>w, TypeFacts, LiveFacts DEF WInv, RecvRegistered, Disconnected, Owed, Reg, Exclusive,
    MutOps, Points, PointOK, Ends, Quiet, wakerVars
<1>17. Sides' /\ RecvTerminal'
  BY <1>w, RegFacts DEF WInv, Sides, RecvTerminal, Disconnected, Ends, Quiet, wakerVars
<1>18. NoOrphanWaker'
  BY <1>w, TypeFacts, RegFacts DEF WInv, NoOrphanWaker, Guarded, Sides, IdStack, Unregistered,
    Points, PointOK, Ends, Quiet, wakerVars
<1>19. SendTerminal'
  BY <1>w, TypeFacts, LiveFacts, RegFacts DEF WInv, SendTerminal, Removing, ClosedToSend,
    Closing, Sides, Points, PointOK, Below, Suspended, CallbackPoints, Ends, Quiet, wakerVars
<1>20. NoLostRecvWakeup'
  BY <1>w, TypeFacts, RegFacts DEF WInv, NoLostRecvWakeup, Owed, Reg, IsEmpty, Disconnected,
    Unparked, Points, PointOK, Ends, Quiet, wakerVars
<1>21. SendWakeup'
  BY <1>w, TypeFacts DEF WInv, SendWakeup, SendWaits, Owed, Reg, IsFull, Closing, Unparked,
    Points, PointOK, Ends, Quiet, wakerVars
<1>22. DisconnectIsFinal' /\ LastReceiverDrains'
  BY <1>w, TypeFacts DEF WInv, DisconnectIsFinal, LastReceiverDrains, IsEmpty, Disconnected,
    Ends, Quiet, wakerVars
<1>23. OutcomeExact'
  BY <1>w DEF WInv, OutcomeExact, Accepted, Quiet
<1> QED
  BY <1>10, <1>11, <1>12, <1>13, <1>14, <1>15, <1>16, <1>17, <1>18, <1>19, <1>20, <1>21, <1>22,
    <1>23 DEF WInv

\* A step that does not touch the stack either.
LEMMA QuietStaysInv ==
  ASSUME TypeOK, WInv, Quiet, Stays
  PROVE  WInv'
<1> USE MpmcAssumption
<1>w. WInv
  OBVIOUS
<1>10. Below' /\ Points'
  BY <1>w DEF WInv, Below, Points, PointOK, Suspended, CallbackPoints, Guarding, Stays, Quiet,
    wakerVars
<1>11. Exclusive'
  BY <1>w DEF WInv, Exclusive, MutOps, Stays, Quiet, wakerVars
<1>12. EmptySeen' /\ Registered'
  BY <1>w, TypeFacts DEF WInv, EmptySeen, Registered, IsEmpty, Reg, Below, Suspended,
    CallbackPoints, Stays, Quiet, wakerVars
<1>13. SendStack' /\ SendIds'
  BY <1>w, TypeFacts, LiveFacts DEF WInv, SendStack, SendState, SendIds, SendPoints, Exclusive,
    MutOps, Stays, Quiet, wakerVars
<1>14. SendersLive'
  BY <1>w, TypeFacts DEF WInv, SendersLive, LiveSend, Stays, Quiet, wakerVars
<1>15. Unparked' /\ IdStack'
  BY <1>w, TypeFacts, LiveFacts DEF WInv, Unparked, IdStack, Unregistered, Exclusive, MutOps,
    Stays, Quiet, wakerVars
<1>16. RecvRegistered'
  BY <1>w, TypeFacts, LiveFacts DEF WInv, RecvRegistered, Disconnected, Owed, Reg, Exclusive,
    MutOps, Points, PointOK, Stays, Quiet, wakerVars
<1>17. Sides' /\ RecvTerminal'
  BY <1>w, RegFacts DEF WInv, Sides, RecvTerminal, Disconnected, Stays, Quiet, wakerVars
<1>18. NoOrphanWaker'
  BY <1>w, TypeFacts, RegFacts DEF WInv, NoOrphanWaker, Guarded, Sides, IdStack, Unregistered,
    Points, PointOK, Stays, Quiet, wakerVars
<1>19. SendTerminal'
  BY <1>w, TypeFacts, LiveFacts, RegFacts DEF WInv, SendTerminal, Removing, ClosedToSend,
    Closing, Sides, Points, PointOK, Below, Suspended, CallbackPoints, Stays, Quiet, wakerVars
<1>20. NoLostRecvWakeup'
  BY <1>w, TypeFacts, RegFacts DEF WInv, NoLostRecvWakeup, Owed, Reg, IsEmpty, Disconnected,
    Unparked, Points, PointOK, Stays, Quiet, wakerVars
<1>21. SendWakeup'
  BY <1>w, TypeFacts DEF WInv, SendWakeup, SendWaits, Owed, Reg, IsFull, Closing, Unparked,
    Points, PointOK, Stays, Quiet, wakerVars
<1>22. DisconnectIsFinal' /\ LastReceiverDrains'
  BY <1>w, TypeFacts DEF WInv, DisconnectIsFinal, LastReceiverDrains, IsEmpty, Disconnected,
    Stays, Quiet, wakerVars
<1>23. OutcomeExact'
  BY <1>w DEF WInv, OutcomeExact, Accepted, Quiet
<1> QED
  BY <1>10, <1>11, <1>12, <1>13, <1>14, <1>15, <1>16, <1>17, <1>18, <1>19, <1>20, <1>21, <1>22,
    <1>23 DEF WInv

\* A second panic: the stack stays as it is for good.
LEMMA AbortInv ==
  ASSUME TypeOK, WInv, Quiet, Abort
  PROVE  WInv'
<1> USE MpmcAssumption
<1>w. WInv
  OBVIOUS
<1>1. depth' = depth /\ frames' = frames /\ top' = top /\ Live' = Live /\ aborted'
  BY DEF Abort, top, Live
<1>10. Below' /\ Points'
  BY <1>w, <1>1 DEF WInv, Below, Points, PointOK, Suspended, CallbackPoints, Guarding, Quiet,
    wakerVars
<1>11. Exclusive'
  BY <1>w, <1>1 DEF WInv, Exclusive, MutOps, Quiet, wakerVars
<1>12. EmptySeen' /\ Registered'
  BY <1>w, <1>1, TypeFacts DEF WInv, EmptySeen, Registered, IsEmpty, Reg, Below, Suspended,
    CallbackPoints, Quiet, wakerVars
<1>13. SendStack' /\ SendIds'
  BY <1>w, <1>1, TypeFacts, LiveFacts DEF WInv, SendStack, SendState, SendIds, SendPoints,
    Exclusive, MutOps, Quiet, wakerVars
<1>14. SendersLive'
  BY <1>w, <1>1, TypeFacts DEF WInv, SendersLive, LiveSend, Quiet, wakerVars
<1>15. Unparked' /\ IdStack'
  BY <1>w, <1>1, TypeFacts, LiveFacts DEF WInv, Unparked, IdStack, Unregistered, Exclusive,
    MutOps, Quiet, wakerVars
<1>16. RecvRegistered'
  BY <1>w, <1>1, TypeFacts, LiveFacts DEF WInv, RecvRegistered, Disconnected, Owed, Reg,
    Exclusive, MutOps, Points, PointOK, Quiet, wakerVars
<1>17. Sides' /\ RecvTerminal'
  BY <1>w, <1>1, RegFacts DEF WInv, Sides, RecvTerminal, Disconnected, Quiet, wakerVars
<1>18. NoOrphanWaker'
  BY <1>w, <1>1, TypeFacts, RegFacts DEF WInv, NoOrphanWaker, Guarded, Sides, IdStack,
    Unregistered, Points, PointOK, Quiet, wakerVars
<1>19. SendTerminal'
  BY <1>w, <1>1, TypeFacts, LiveFacts, RegFacts DEF WInv, SendTerminal, Removing, ClosedToSend,
    Closing, Sides, Points, PointOK, Below, Suspended, CallbackPoints, Quiet, wakerVars
<1>20. NoLostRecvWakeup'
  BY <1>w, <1>1, TypeFacts, RegFacts DEF WInv, NoLostRecvWakeup, Owed, Reg, IsEmpty,
    Disconnected, Unparked, Points, PointOK, Quiet, wakerVars
<1>21. SendWakeup'
  BY <1>w, <1>1, TypeFacts DEF WInv, SendWakeup, SendWaits, Owed, Reg, IsFull, Closing,
    Unparked, Points, PointOK, Quiet, wakerVars
<1>22. DisconnectIsFinal' /\ LastReceiverDrains'
  BY <1>w, <1>1, TypeFacts DEF WInv, DisconnectIsFinal, LastReceiverDrains, IsEmpty,
    Disconnected, Quiet, wakerVars
<1>23. OutcomeExact'
  BY <1>w DEF WInv, OutcomeExact, Accepted, Quiet
<1> QED
  BY <1>10, <1>11, <1>12, <1>13, <1>14, <1>15, <1>16, <1>17, <1>18, <1>19, <1>20, <1>21, <1>22,
    <1>23 DEF WInv

\* try_send pushes into a channel that is open and takes every receiver's waker.
LEMMA TrySendInv ==
  ASSUME TypeOK, Borrows, WInv, NEW i \in Items, TrySend(i)
  PROVE  WInv'
<1> USE MpmcAssumption
<1>w. WInv
  OBVIOUS
<1>1. /\ MayCall /\ senders > 0 /\ sfut[i] = "new" /\ rxLive /= {} /\ ~closed /\ ~IsFull
      /\ queue' = Append(queue, i) /\ pushed' = Append(pushed, i) /\ recv_wakers' = {}
      /\ sfut' = [sfut EXCEPT ![i] = "gone"]
      /\ UNCHANGED <<redelivery, senders, rxLive, closed, send_wakers, waker_id, parked, woken,
                     sawNone>>
  BY DEF TrySend, Accept, SomeSender, ClosedToSend
<1>2. Pushes("try_send", WakeAt(recv_wakers), i, recv_wakers, None)
  BY <1>1, CallStep, WakingFields DEF TrySend, IsFrame
<1>3. queue' /= <<>> /\ \A j \in Items : Accepted(j)' <=> Accepted(j) \/ j = i
  BY <1>1, AcceptedAppend DEF TypeOK, ChanType, HistType
<1>10. Below' /\ Points'
  BY <1>w, <1>1, <1>2 DEF WInv, Below, Points, PointOK, Suspended, CallbackPoints, Guarding,
    Pushes, IsFrame, WakeAt
<1>11. Exclusive'
  BY <1>w, <1>1, <1>2 DEF WInv, Exclusive, MutOps, Pushes, IsFrame, WakeAt
<1>12. EmptySeen' /\ Registered'
  BY <1>w, <1>1, <1>2, TypeFacts DEF WInv, EmptySeen, Registered, IsEmpty, Reg, Below,
    Suspended, CallbackPoints, Pushes, IsFrame, WakeAt
<1>13. SendStack' /\ SendIds'
  BY <1>w, <1>1, <1>2, TypeFacts, LiveFacts DEF WInv, SendStack, SendState, SendIds, SendPoints,
    Exclusive, MutOps, Pushes, IsFrame, WakeAt
<1>14. SendersLive'
  BY <1>w, <1>1, <1>2, TypeFacts DEF WInv, SendersLive, LiveSend, Pushes, IsFrame, WakeAt
<1>15. Unparked' /\ IdStack'
  BY <1>w, <1>1, <1>2, TypeFacts, LiveFacts DEF WInv, Unparked, IdStack, Unregistered,
    Exclusive, MutOps, Pushes, IsFrame, WakeAt
<1>16. RecvRegistered'
  BY <1>w, <1>1, <1>2, TypeFacts, LiveFacts DEF WInv, RecvRegistered, Disconnected, Owed, Reg,
    Exclusive, MutOps, Points, PointOK, Pushes, IsFrame, WakeAt
<1>17. Sides' /\ RecvTerminal'
  BY <1>w, <1>1, <1>2, RegFacts DEF WInv, Sides, RecvTerminal, Disconnected, Pushes, IsFrame,
    WakeAt
<1>18. NoOrphanWaker'
  BY <1>w, <1>1, <1>2, TypeFacts, RegFacts DEF WInv, NoOrphanWaker, Guarded, Sides, IdStack,
    Unregistered, Points, PointOK, Pushes, IsFrame, WakeAt
<1>19. SendTerminal'
  BY <1>w, <1>1, <1>2, TypeFacts, LiveFacts, RegFacts DEF WInv, SendTerminal, Removing,
    ClosedToSend, Closing, Sides, Points, PointOK, Below, Suspended, CallbackPoints, Pushes,
    IsFrame, WakeAt
<1>20. NoLostRecvWakeup'
  BY <1>w, <1>1, <1>2, TypeFacts, RegFacts DEF WInv, NoLostRecvWakeup, Owed, Reg, IsEmpty,
    Disconnected, Unparked, Points, PointOK, Pushes, IsFrame, WakeAt
<1>21. SendWakeup'
  BY <1>w, <1>1, <1>2, TypeFacts DEF WInv, SendWakeup, SendWaits, Owed, Reg, IsFull, Closing,
    Unparked, Points, PointOK, Pushes, IsFrame, WakeAt
<1>22. DisconnectIsFinal' /\ LastReceiverDrains'
  BY <1>w, <1>1, <1>2, <1>3, TypeFacts DEF WInv, DisconnectIsFinal, LastReceiverDrains,
    Disconnected, Pushes
<1>23. OutcomeExact'
  BY <1>w, <1>1, <1>3, TypeFacts DEF WInv, OutcomeExact
<1> QED
  BY <1>10, <1>11, <1>12, <1>13, <1>14, <1>15, <1>16, <1>17, <1>18, <1>19, <1>20, <1>21, <1>22,
    <1>23 DEF WInv

\* A Send future is made while a Sender is alive.
LEMMA NewSendInv ==
  ASSUME TypeOK, Borrows, WInv, NEW i \in Items, NewSend(i)
  PROVE  WInv'
<1> USE MpmcAssumption
<1>w. WInv
  OBVIOUS
<1>1. /\ senders > 0 /\ sfut[i] = "new" /\ sfut' = [sfut EXCEPT ![i] = "pending"]
      /\ UNCHANGED <<queue, redelivery, senders, rxLive, closed, recv_wakers, send_wakers,
                     waker_id, parked, woken, pushed, sawNone>>
  BY DEF NewSend, SomeSender, chanVars, wakerVars, histVars
<1>2. Stays
  BY SameStep DEF NewSend
<1>10. Below' /\ Points'
  BY <1>w, <1>1, <1>2 DEF WInv, Below, Points, PointOK, Suspended, CallbackPoints, Guarding,
    Stays
<1>11. Exclusive'
  BY <1>w, <1>1, <1>2 DEF WInv, Exclusive, MutOps, Stays
<1>12. EmptySeen' /\ Registered'
  BY <1>w, <1>1, <1>2, TypeFacts DEF WInv, EmptySeen, Registered, IsEmpty, Reg, Below,
    Suspended, CallbackPoints, Stays
<1>13. SendStack' /\ SendIds'
  BY <1>w, <1>1, <1>2, TypeFacts, LiveFacts DEF WInv, SendStack, SendState, SendIds, SendPoints,
    Exclusive, MutOps, Stays
<1>14. SendersLive'
  BY <1>w, <1>1, <1>2, TypeFacts DEF WInv, SendersLive, LiveSend, Stays
<1>15. Unparked' /\ IdStack'
  BY <1>w, <1>1, <1>2, TypeFacts, LiveFacts DEF WInv, Unparked, IdStack, Unregistered,
    Exclusive, MutOps, Stays
<1>16. RecvRegistered'
  BY <1>w, <1>1, <1>2, TypeFacts, LiveFacts DEF WInv, RecvRegistered, Disconnected, Owed, Reg,
    Exclusive, MutOps, Points, PointOK, Stays
<1>17. Sides' /\ RecvTerminal'
  BY <1>w, <1>1, <1>2, RegFacts DEF WInv, Sides, RecvTerminal, Disconnected, Stays
<1>18. NoOrphanWaker'
  BY <1>w, <1>1, <1>2, TypeFacts, RegFacts DEF WInv, NoOrphanWaker, Guarded, Sides, IdStack,
    Unregistered, Points, PointOK, Stays
<1>19. SendTerminal'
  BY <1>w, <1>1, <1>2, TypeFacts, LiveFacts, RegFacts DEF WInv, SendTerminal, Removing,
    ClosedToSend, Closing, Sides, Points, PointOK, Below, Suspended, CallbackPoints, Stays
<1>20. NoLostRecvWakeup'
  BY <1>w, <1>1, <1>2, TypeFacts, RegFacts DEF WInv, NoLostRecvWakeup, Owed, Reg, IsEmpty,
    Disconnected, Unparked, Points, PointOK, Stays
<1>21. SendWakeup'
  BY <1>w, <1>1, <1>2, TypeFacts DEF WInv, SendWakeup, SendWaits, Owed, Reg, IsFull, Closing,
    Unparked, Points, PointOK, Stays
<1>22. DisconnectIsFinal' /\ LastReceiverDrains'
  BY <1>w, <1>1, <1>2, TypeFacts DEF WInv, DisconnectIsFinal, LastReceiverDrains, IsEmpty,
    Disconnected, Stays
<1>23. OutcomeExact'
  BY <1>w, <1>1, <1>2, TypeFacts DEF WInv, OutcomeExact, Accepted, Stays
<1> QED
  BY <1>10, <1>11, <1>12, <1>13, <1>14, <1>15, <1>16, <1>17, <1>18, <1>19, <1>20, <1>21, <1>22,
    <1>23 DEF WInv

\* A poll of a Send begins: the task is neither parked nor woken any more.
LEMMA PollSendInv ==
  ASSUME TypeOK, Borrows, WInv, NEW i \in Items, PollSend(i)
  PROVE  WInv'
<1> USE MpmcAssumption
<1>w. WInv
  OBVIOUS
<1>1. /\ MayCall /\ sfut[i] = "pending" /\ \A d \in Live : frames[d].who /= i
      /\ parked' = parked \ {i} /\ woken' = woken \ {i}
      /\ UNCHANGED <<queue, redelivery, senders, rxLive, closed, recv_wakers, send_wakers,
                     waker_id, sfut, pushed, sawNone>>
  BY DEF PollSend, Busy, chanVars, wakerVars, histVars
<1>2. Pushes("send", "first", i, {}, None)
  <2> DEFINE f == Frame("send", "first", i)
  <2>1. Call(f) /\ IsFrame(f, "send", "first", i, {}, None)
    BY FrameFields DEF PollSend
  <2> HIDE DEF f
  <2> QED BY <1>1, <2>1, CallStep DEF IsFrame
<1>10. Below' /\ Points'
  BY <1>w, <1>1, <1>2 DEF WInv, Below, Points, PointOK, Suspended, CallbackPoints, Guarding,
    Pushes, IsFrame
<1>11. Exclusive'
  BY <1>w, <1>1, <1>2 DEF WInv, Exclusive, MutOps, Pushes, IsFrame
<1>12. EmptySeen' /\ Registered'
  BY <1>w, <1>1, <1>2, TypeFacts DEF WInv, EmptySeen, Registered, IsEmpty, Reg, Below,
    Suspended, CallbackPoints, Pushes, IsFrame
<1>13. SendStack' /\ SendIds'
  BY <1>w, <1>1, <1>2, TypeFacts, LiveFacts DEF WInv, SendStack, SendState, SendIds, SendPoints,
    Exclusive, MutOps, Pushes, IsFrame
<1>14. SendersLive'
  BY <1>w, <1>1, <1>2, TypeFacts DEF WInv, SendersLive, LiveSend, Pushes, IsFrame
<1>15. Unparked' /\ IdStack'
  BY <1>w, <1>1, <1>2, TypeFacts, LiveFacts DEF WInv, Unparked, IdStack, Unregistered,
    Exclusive, MutOps, Pushes, IsFrame
<1>16. RecvRegistered'
  BY <1>w, <1>1, <1>2, TypeFacts, LiveFacts DEF WInv, RecvRegistered, Disconnected, Owed, Reg,
    Exclusive, MutOps, Points, PointOK, Pushes, IsFrame
<1>17. Sides' /\ RecvTerminal'
  BY <1>w, <1>1, <1>2, RegFacts DEF WInv, Sides, RecvTerminal, Disconnected, Pushes, IsFrame
<1>18. NoOrphanWaker'
  BY <1>w, <1>1, <1>2, TypeFacts, RegFacts DEF WInv, NoOrphanWaker, Guarded, Sides, IdStack,
    Unregistered, Points, PointOK, Pushes, IsFrame
<1>19. SendTerminal'
  BY <1>w, <1>1, <1>2, TypeFacts, LiveFacts, RegFacts DEF WInv, SendTerminal, Removing,
    ClosedToSend, Closing, Sides, Points, PointOK, Below, Suspended, CallbackPoints, Pushes,
    IsFrame
<1>20. NoLostRecvWakeup'
  BY <1>w, <1>1, <1>2, TypeFacts, RegFacts DEF WInv, NoLostRecvWakeup, Owed, Reg, IsEmpty,
    Disconnected, Unparked, Points, PointOK, Pushes, IsFrame
<1>21. SendWakeup'
  BY <1>w, <1>1, <1>2, TypeFacts DEF WInv, SendWakeup, SendWaits, Owed, Reg, IsFull, Closing,
    Unparked, Points, PointOK, Pushes, IsFrame
<1>22. DisconnectIsFinal' /\ LastReceiverDrains'
  BY <1>w, <1>1, <1>2, TypeFacts DEF WInv, DisconnectIsFinal, LastReceiverDrains, IsEmpty,
    Disconnected, Pushes, IsFrame
<1>23. OutcomeExact'
  BY <1>w, <1>1, <1>2, TypeFacts DEF WInv, OutcomeExact, Accepted, Pushes, IsFrame
<1> QED
  BY <1>10, <1>11, <1>12, <1>13, <1>14, <1>15, <1>16, <1>17, <1>18, <1>19, <1>20, <1>21, <1>22,
    <1>23 DEF WInv

\* A replayed outcome is the recorded one.
LEMMA ReplayOutcomeInv ==
  ASSUME TypeOK, Borrows, WInv, NEW i \in Items, ReplayOutcome(i)
  PROVE  WInv'
<1> USE MpmcAssumption
<1>w. WInv
  OBVIOUS
<1>1. /\ sfut[i] \in {"okHeld", "errHeld"} /\ \A d \in Live : frames[d].who /= i
      /\ sfut' = [sfut EXCEPT ![i] = IF sfut[i] = "okHeld" THEN "ok" ELSE "err"]
      /\ UNCHANGED <<queue, redelivery, senders, rxLive, closed, recv_wakers, send_wakers,
                     waker_id, parked, woken, pushed, sawNone>>
  BY DEF ReplayOutcome, Reported, Busy, chanVars, wakerVars, histVars
<1>2. Stays
  BY SameStep DEF ReplayOutcome
<1>10. Below' /\ Points'
  BY <1>w, <1>1, <1>2 DEF WInv, Below, Points, PointOK, Suspended, CallbackPoints, Guarding,
    Stays
<1>11. Exclusive'
  BY <1>w, <1>1, <1>2 DEF WInv, Exclusive, MutOps, Stays
<1>12. EmptySeen' /\ Registered'
  BY <1>w, <1>1, <1>2, TypeFacts DEF WInv, EmptySeen, Registered, IsEmpty, Reg, Below,
    Suspended, CallbackPoints, Stays
<1>13. SendStack' /\ SendIds'
  BY <1>w, <1>1, <1>2, TypeFacts, LiveFacts DEF WInv, SendStack, SendState, SendIds, SendPoints,
    Exclusive, MutOps, Stays
<1>14. SendersLive'
  BY <1>w, <1>1, <1>2, TypeFacts DEF WInv, SendersLive, LiveSend, Stays
<1>15. Unparked' /\ IdStack'
  BY <1>w, <1>1, <1>2, TypeFacts, LiveFacts DEF WInv, Unparked, IdStack, Unregistered,
    Exclusive, MutOps, Stays
<1>16. RecvRegistered'
  BY <1>w, <1>1, <1>2, TypeFacts, LiveFacts DEF WInv, RecvRegistered, Disconnected, Owed, Reg,
    Exclusive, MutOps, Points, PointOK, Stays
<1>17. Sides' /\ RecvTerminal'
  BY <1>w, <1>1, <1>2, RegFacts DEF WInv, Sides, RecvTerminal, Disconnected, Stays
<1>18. NoOrphanWaker'
  BY <1>w, <1>1, <1>2, TypeFacts, RegFacts DEF WInv, NoOrphanWaker, Guarded, Sides, IdStack,
    Unregistered, Points, PointOK, Stays
<1>19. SendTerminal'
  BY <1>w, <1>1, <1>2, TypeFacts, LiveFacts, RegFacts DEF WInv, SendTerminal, Removing,
    ClosedToSend, Closing, Sides, Points, PointOK, Below, Suspended, CallbackPoints, Stays
<1>20. NoLostRecvWakeup'
  BY <1>w, <1>1, <1>2, TypeFacts, RegFacts DEF WInv, NoLostRecvWakeup, Owed, Reg, IsEmpty,
    Disconnected, Unparked, Points, PointOK, Stays
<1>21. SendWakeup'
  BY <1>w, <1>1, <1>2, TypeFacts DEF WInv, SendWakeup, SendWaits, Owed, Reg, IsFull, Closing,
    Unparked, Points, PointOK, Stays
<1>22. DisconnectIsFinal' /\ LastReceiverDrains'
  BY <1>w, <1>1, <1>2, TypeFacts DEF WInv, DisconnectIsFinal, LastReceiverDrains, IsEmpty,
    Disconnected, Stays
<1>23. OutcomeExact'
  BY <1>w, <1>1, <1>2, TypeFacts DEF WInv, OutcomeExact, Accepted, Stays
<1> QED
  BY <1>10, <1>11, <1>12, <1>13, <1>14, <1>15, <1>16, <1>17, <1>18, <1>19, <1>20, <1>21, <1>22,
    <1>23 DEF WInv

\* A Send that is dropped takes its registration along.
LEMMA DropSendInv ==
  ASSUME TypeOK, Borrows, WInv, NEW i \in Items, DropSend(i)
  PROVE  WInv'
<1> USE MpmcAssumption
<1>w. WInv
  OBVIOUS
<1>1. /\ top.at \in Suspended /\ LiveSend(i) /\ \A d \in Live : frames[d].who /= i
      /\ sfut' = [sfut EXCEPT ![i] = "gone"]
      /\ send_wakers' = send_wakers \ {Reg(i)} /\ waker_id' = [waker_id EXCEPT ![i] = None]
      /\ parked' = parked \ {i} /\ woken' = woken \ {i}
      /\ UNCHANGED <<queue, redelivery, senders, rxLive, closed, recv_wakers, pushed, sawNone>>
  BY DEF DropSend, MayCall, UserCode, Suspended, Busy, chanVars, histVars
<1>2. Stays
  BY SameStep DEF DropSend
<1>10. Below' /\ Points'
  BY <1>w, <1>1, <1>2 DEF WInv, Below, Points, PointOK, Suspended, CallbackPoints, Guarding,
    Stays
<1>11. Exclusive'
  BY <1>w, <1>1, <1>2 DEF WInv, Exclusive, MutOps, Stays
<1>12. EmptySeen' /\ Registered'
  BY <1>w, <1>1, <1>2, TypeFacts DEF WInv, EmptySeen, Registered, IsEmpty, Reg, Below,
    Suspended, CallbackPoints, Stays
<1>13. SendStack' /\ SendIds'
  BY <1>w, <1>1, <1>2, TypeFacts, LiveFacts DEF WInv, SendStack, SendState, SendIds, SendPoints,
    Exclusive, MutOps, Stays
<1>14. SendersLive'
  BY <1>w, <1>1, <1>2, TypeFacts DEF WInv, SendersLive, LiveSend, Stays
<1>15. Unparked' /\ IdStack'
  BY <1>w, <1>1, <1>2, TypeFacts, LiveFacts DEF WInv, Unparked, IdStack, Unregistered,
    Exclusive, MutOps, Stays
<1>16. RecvRegistered'
  BY <1>w, <1>1, <1>2, TypeFacts, LiveFacts DEF WInv, RecvRegistered, Disconnected, Owed, Reg,
    Exclusive, MutOps, Points, PointOK, Stays
<1>17. Sides' /\ RecvTerminal'
  BY <1>w, <1>1, <1>2, RegFacts DEF WInv, Sides, RecvTerminal, Disconnected, Stays
<1>18. NoOrphanWaker'
  BY <1>w, <1>1, <1>2, TypeFacts, RegFacts DEF WInv, NoOrphanWaker, Guarded, Sides, IdStack,
    Unregistered, Points, PointOK, Stays, Reg
<1>19. SendTerminal'
  BY <1>w, <1>1, <1>2, TypeFacts, LiveFacts, RegFacts DEF WInv, SendTerminal, Removing,
    ClosedToSend, Closing, Sides, Points, PointOK, Below, Suspended, CallbackPoints, Stays
<1>20. NoLostRecvWakeup'
  BY <1>w, <1>1, <1>2, TypeFacts, RegFacts DEF WInv, NoLostRecvWakeup, Owed, Reg, IsEmpty,
    Disconnected, Unparked, Points, PointOK, Stays
<1>21. SendWakeup'
  BY <1>w, <1>1, <1>2, TypeFacts DEF WInv, SendWakeup, SendWaits, Owed, Reg, IsFull, Closing,
    Unparked, Points, PointOK, Stays
<1>22. DisconnectIsFinal' /\ LastReceiverDrains'
  BY <1>w, <1>1, <1>2, TypeFacts DEF WInv, DisconnectIsFinal, LastReceiverDrains, IsEmpty,
    Disconnected, Stays
<1>23. OutcomeExact'
  BY <1>w, <1>1, <1>2, TypeFacts DEF WInv, OutcomeExact, Accepted, Stays
<1> QED
  BY <1>10, <1>11, <1>12, <1>13, <1>14, <1>15, <1>16, <1>17, <1>18, <1>19, <1>20, <1>21, <1>22,
    <1>23 DEF WInv

\* The last Sender goes when no Send borrows it, and takes every receiver's waker.
LEMMA DropLastSenderInv ==
  ASSUME TypeOK, Borrows, WInv, DropLastSender
  PROVE  WInv'
<1> USE MpmcAssumption
<1>w. WInv
  OBVIOUS
<1>1. /\ MayCall /\ senders' = 0 /\ recv_wakers' = {} /\ \A i \in Items : ~LiveSend(i)
      /\ UNCHANGED <<queue, redelivery, rxLive, closed, send_wakers, waker_id, sfut, parked,
                     woken, pushed, sawNone>>
  BY DEF DropLastSender, SenderBorrowed, chanVars, wakerVars, taskVars, histVars
<1>2. Pushes("sender_drop", WakeAt(recv_wakers), None, recv_wakers, None)
  BY <1>1, CallStep, WakingFields DEF DropLastSender, IsFrame
<1>10. Below' /\ Points'
  BY <1>w, <1>1, <1>2 DEF WInv, Below, Points, PointOK, Suspended, CallbackPoints, Guarding,
    Pushes, IsFrame, WakeAt
<1>11. Exclusive'
  BY <1>w, <1>1, <1>2 DEF WInv, Exclusive, MutOps, Pushes, IsFrame, WakeAt
<1>12. EmptySeen' /\ Registered'
  BY <1>w, <1>1, <1>2, TypeFacts DEF WInv, EmptySeen, Registered, IsEmpty, Reg, Below,
    Suspended, CallbackPoints, Pushes, IsFrame, WakeAt
<1>13. SendStack' /\ SendIds'
  BY <1>w, <1>1, <1>2, TypeFacts, LiveFacts DEF WInv, SendStack, SendState, SendIds, SendPoints,
    Exclusive, MutOps, Pushes, IsFrame, WakeAt
<1>14. SendersLive'
  BY <1>w, <1>1, <1>2, TypeFacts DEF WInv, SendersLive, LiveSend, Pushes, IsFrame, WakeAt
<1>15. Unparked' /\ IdStack'
  BY <1>w, <1>1, <1>2, TypeFacts, LiveFacts DEF WInv, Unparked, IdStack, Unregistered,
    Exclusive, MutOps, Pushes, IsFrame, WakeAt
<1>16. RecvRegistered'
  BY <1>w, <1>1, <1>2, TypeFacts, LiveFacts DEF WInv, RecvRegistered, Disconnected, Owed, Reg,
    Exclusive, MutOps, Points, PointOK, Pushes, IsFrame, WakeAt
<1>17. Sides' /\ RecvTerminal'
  BY <1>w, <1>1, <1>2, RegFacts DEF WInv, Sides, RecvTerminal, Disconnected, Pushes, IsFrame,
    WakeAt
<1>18. NoOrphanWaker'
  BY <1>w, <1>1, <1>2, TypeFacts, RegFacts DEF WInv, NoOrphanWaker, Guarded, Sides, IdStack,
    Unregistered, Points, PointOK, Pushes, IsFrame, WakeAt
<1>19. SendTerminal'
  BY <1>w, <1>1, <1>2, TypeFacts, LiveFacts, RegFacts DEF WInv, SendTerminal, Removing,
    ClosedToSend, Closing, Sides, Points, PointOK, Below, Suspended, CallbackPoints, Pushes,
    IsFrame, WakeAt
<1>20. NoLostRecvWakeup'
  BY <1>w, <1>1, <1>2, TypeFacts, RegFacts DEF WInv, NoLostRecvWakeup, Owed, Reg, IsEmpty,
    Disconnected, Unparked, Points, PointOK, Pushes, IsFrame, WakeAt
<1>21. SendWakeup'
  BY <1>w, <1>1, <1>2, TypeFacts DEF WInv, SendWakeup, SendWaits, Owed, Reg, IsFull, Closing,
    Unparked, Points, PointOK, Pushes, IsFrame, WakeAt
<1>22. DisconnectIsFinal' /\ LastReceiverDrains'
  BY <1>w, <1>1, <1>2, TypeFacts DEF WInv, DisconnectIsFinal, LastReceiverDrains, IsEmpty,
    Disconnected, Pushes, IsFrame, WakeAt
<1>23. OutcomeExact'
  BY <1>w, <1>1, <1>2, TypeFacts DEF WInv, OutcomeExact, Accepted, Pushes, IsFrame, WakeAt
<1> QED
  BY <1>10, <1>11, <1>12, <1>13, <1>14, <1>15, <1>16, <1>17, <1>18, <1>19, <1>20, <1>21, <1>22,
    <1>23 DEF WInv

\* close takes every receiver's waker and has the senders still to wake.
LEMMA ClosingInv ==
  ASSUME TypeOK, Borrows, WInv, NEW who, MayCall, ClosingVia(who)
  PROVE  WInv'
<1> USE MpmcAssumption
<1>w. WInv
  OBVIOUS
<1>1. /\ closed' = TRUE /\ recv_wakers' = {}
      /\ UNCHANGED <<queue, redelivery, senders, rxLive, send_wakers, waker_id, sfut, parked,
                     woken, pushed, sawNone>>
  BY DEF ClosingVia, chanVars, wakerVars, taskVars, histVars
<1>2. Pushes("close", WakeAt(recv_wakers), who, recv_wakers, None)
  BY <1>1, CallStep, WakingFields DEF ClosingVia, IsFrame
<1>10. Below' /\ Points'
  BY <1>w, <1>1, <1>2 DEF WInv, Below, Points, PointOK, Suspended, CallbackPoints, Guarding,
    Pushes, IsFrame, WakeAt
<1>11. Exclusive'
  BY <1>w, <1>1, <1>2 DEF WInv, Exclusive, MutOps, Pushes, IsFrame, WakeAt
<1>12. EmptySeen' /\ Registered'
  BY <1>w, <1>1, <1>2, TypeFacts DEF WInv, EmptySeen, Registered, IsEmpty, Reg, Below,
    Suspended, CallbackPoints, Pushes, IsFrame, WakeAt
<1>13. SendStack' /\ SendIds'
  BY <1>w, <1>1, <1>2, TypeFacts, LiveFacts DEF WInv, SendStack, SendState, SendIds, SendPoints,
    Exclusive, MutOps, Pushes, IsFrame, WakeAt
<1>14. SendersLive'
  BY <1>w, <1>1, <1>2, TypeFacts DEF WInv, SendersLive, LiveSend, Pushes, IsFrame, WakeAt
<1>15. Unparked' /\ IdStack'
  BY <1>w, <1>1, <1>2, TypeFacts, LiveFacts DEF WInv, Unparked, IdStack, Unregistered,
    Exclusive, MutOps, Pushes, IsFrame, WakeAt
<1>16. RecvRegistered'
  BY <1>w, <1>1, <1>2, TypeFacts, LiveFacts DEF WInv, RecvRegistered, Disconnected, Owed, Reg,
    Exclusive, MutOps, Points, PointOK, Pushes, IsFrame, WakeAt
<1>17. Sides' /\ RecvTerminal'
  BY <1>w, <1>1, <1>2, RegFacts DEF WInv, Sides, RecvTerminal, Disconnected, Pushes, IsFrame,
    WakeAt
<1>18. NoOrphanWaker'
  BY <1>w, <1>1, <1>2, TypeFacts, RegFacts DEF WInv, NoOrphanWaker, Guarded, Sides, IdStack,
    Unregistered, Points, PointOK, Pushes, IsFrame, WakeAt
<1>19. SendTerminal'
  BY <1>w, <1>1, <1>2, TypeFacts, LiveFacts, RegFacts DEF WInv, SendTerminal, Removing,
    ClosedToSend, Closing, Sides, Points, PointOK, Below, Suspended, CallbackPoints, Pushes,
    IsFrame, WakeAt
<1>20. NoLostRecvWakeup'
  BY <1>w, <1>1, <1>2, TypeFacts, RegFacts DEF WInv, NoLostRecvWakeup, Owed, Reg, IsEmpty,
    Disconnected, Unparked, Points, PointOK, Pushes, IsFrame, WakeAt
<1>21. SendWakeup'
  BY <1>w, <1>1, <1>2, TypeFacts DEF WInv, SendWakeup, SendWaits, Owed, Reg, IsFull, Closing,
    Unparked, Points, PointOK, Pushes, IsFrame, WakeAt
<1>22. DisconnectIsFinal' /\ LastReceiverDrains'
  BY <1>w, <1>1, <1>2, TypeFacts DEF WInv, DisconnectIsFinal, LastReceiverDrains, IsEmpty,
    Disconnected, Pushes, IsFrame, WakeAt
<1>23. OutcomeExact'
  BY <1>w, <1>1, <1>2, TypeFacts DEF WInv, OutcomeExact, Accepted, Pushes, IsFrame, WakeAt
<1> QED
  BY <1>10, <1>11, <1>12, <1>13, <1>14, <1>15, <1>16, <1>17, <1>18, <1>19, <1>20, <1>21, <1>22,
    <1>23 DEF WInv

\* A poll_recv begins: its old registration goes first.
LEMMA PollingRecvInv ==
  ASSUME TypeOK, Borrows, WInv, NEW o \in RecvFuts \cup Receivers, MayCall, ~Busy(o), PollingRecv(o)
  PROVE  WInv'
<1> USE MpmcAssumption
<1>w. WInv
  OBVIOUS
<1>1. /\ \A d \in Live : frames[d].who /= o
      /\ recv_wakers' = recv_wakers \ {Reg(o)} /\ waker_id' = [waker_id EXCEPT ![o] = None]
      /\ parked' = parked \ {o} /\ woken' = woken \ {o}
      /\ UNCHANGED <<queue, redelivery, senders, rxLive, closed, send_wakers, sfut, pushed,
                     sawNone>>
  BY DEF PollingRecv, Busy, chanVars, wakerVars, taskVars, histVars
<1> DEFINE at == IF Reg(o) \in recv_wakers THEN "drop_old_recv" ELSE "take"
<1>3. at \in {"drop_old_recv", "take"}
  OBVIOUS
<1>2. Pushes("poll1", at, o, {}, None)
  <2> DEFINE f == Frame("poll1", at, o)
  <2>1. Call(f) /\ IsFrame(f, "poll1", at, o, {}, None)
    BY FrameFields DEF PollingRecv
  <2> HIDE DEF f
  <2> QED BY <1>1, <2>1, CallStep DEF IsFrame
<1> HIDE DEF at
<1>10. Below' /\ Points'
  BY <1>w, <1>1, <1>2, <1>3 DEF WInv, Below, Points, PointOK, Suspended, CallbackPoints,
    Guarding, Pushes, IsFrame
<1>11. Exclusive'
  BY <1>w, <1>1, <1>2, <1>3 DEF WInv, Exclusive, MutOps, Pushes, IsFrame
<1>12. EmptySeen' /\ Registered'
  BY <1>w, <1>1, <1>2, <1>3, TypeFacts DEF WInv, EmptySeen, Registered, IsEmpty, Reg, Below,
    Suspended, CallbackPoints, Pushes, IsFrame
<1>13. SendStack' /\ SendIds'
  BY <1>w, <1>1, <1>2, <1>3, TypeFacts, LiveFacts DEF WInv, SendStack, SendState, SendIds,
    SendPoints, Exclusive, MutOps, Pushes, IsFrame
<1>14. SendersLive'
  BY <1>w, <1>1, <1>2, <1>3, TypeFacts DEF WInv, SendersLive, LiveSend, Pushes, IsFrame
<1>15. Unparked' /\ IdStack'
  BY <1>w, <1>1, <1>2, <1>3, TypeFacts, LiveFacts DEF WInv, Unparked, IdStack, Unregistered,
    Exclusive, MutOps, Pushes, IsFrame
<1>16. RecvRegistered'
  BY <1>w, <1>1, <1>2, <1>3, TypeFacts, LiveFacts DEF WInv, RecvRegistered, Disconnected, Owed,
    Reg, Exclusive, MutOps, Points, PointOK, Pushes, IsFrame
<1>17. Sides' /\ RecvTerminal'
  BY <1>w, <1>1, <1>2, <1>3, RegFacts DEF WInv, Sides, RecvTerminal, Disconnected, Pushes,
    IsFrame
<1>18. NoOrphanWaker'
  BY <1>w, <1>1, <1>2, <1>3, TypeFacts, RegFacts DEF WInv, NoOrphanWaker, Guarded, Sides,
    IdStack, Unregistered, Points, PointOK, Pushes, IsFrame, Reg
<1>19. SendTerminal'
  BY <1>w, <1>1, <1>2, <1>3, TypeFacts, LiveFacts, RegFacts DEF WInv, SendTerminal, Removing,
    ClosedToSend, Closing, Sides, Points, PointOK, Below, Suspended, CallbackPoints, Pushes,
    IsFrame
<1>20. NoLostRecvWakeup'
  BY <1>w, <1>1, <1>2, <1>3, TypeFacts, RegFacts DEF WInv, NoLostRecvWakeup, Owed, Reg, IsEmpty,
    Disconnected, Unparked, Points, PointOK, Pushes, IsFrame
<1>21. SendWakeup'
  BY <1>w, <1>1, <1>2, <1>3, TypeFacts DEF WInv, SendWakeup, SendWaits, Owed, Reg, IsFull,
    Closing, Unparked, Points, PointOK, Pushes, IsFrame
<1>22. DisconnectIsFinal' /\ LastReceiverDrains'
  BY <1>w, <1>1, <1>2, <1>3, TypeFacts DEF WInv, DisconnectIsFinal, LastReceiverDrains, IsEmpty,
    Disconnected, Pushes, IsFrame
<1>23. OutcomeExact'
  BY <1>w, <1>1, <1>2, <1>3, TypeFacts DEF WInv, OutcomeExact, Accepted, Pushes, IsFrame
<1> QED
  BY <1>10, <1>11, <1>12, <1>13, <1>14, <1>15, <1>16, <1>17, <1>18, <1>19, <1>20, <1>21, <1>22,
    <1>23 DEF WInv

\* A completed Recv gives its registration back.
LEMMA PollDoneInv ==
  ASSUME TypeOK, Borrows, WInv, NEW s \in RecvFuts, PollDone(s)
  PROVE  WInv'
<1> USE MpmcAssumption
<1>w. WInv
  OBVIOUS
<1>1. /\ MayCall /\ \A d \in Live : frames[d].who /= s
      /\ recv_wakers' = recv_wakers \ {Reg(s)} /\ waker_id' = [waker_id EXCEPT ![s] = None]
      /\ parked' = parked \ {s} /\ woken' = woken \ {s}
      /\ UNCHANGED <<queue, redelivery, senders, rxLive, closed, send_wakers, sfut, pushed,
                     sawNone>>
  BY DEF PollDone, Busy, chanVars, wakerVars, taskVars, histVars
<1>2. Pushes("recv_done", "drop_done", s, {}, None)
  <2> DEFINE f == Frame("recv_done", "drop_done", s)
  <2>1. Call(f) /\ IsFrame(f, "recv_done", "drop_done", s, {}, None)
    BY FrameFields DEF PollDone
  <2> HIDE DEF f
  <2> QED BY <1>1, <2>1, CallStep DEF IsFrame
<1>10. Below' /\ Points'
  BY <1>w, <1>1, <1>2 DEF WInv, Below, Points, PointOK, Suspended, CallbackPoints, Guarding,
    Pushes, IsFrame
<1>11. Exclusive'
  BY <1>w, <1>1, <1>2 DEF WInv, Exclusive, MutOps, Pushes, IsFrame
<1>12. EmptySeen' /\ Registered'
  BY <1>w, <1>1, <1>2, TypeFacts DEF WInv, EmptySeen, Registered, IsEmpty, Reg, Below,
    Suspended, CallbackPoints, Pushes, IsFrame
<1>13. SendStack' /\ SendIds'
  BY <1>w, <1>1, <1>2, TypeFacts, LiveFacts DEF WInv, SendStack, SendState, SendIds, SendPoints,
    Exclusive, MutOps, Pushes, IsFrame
<1>14. SendersLive'
  BY <1>w, <1>1, <1>2, TypeFacts DEF WInv, SendersLive, LiveSend, Pushes, IsFrame
<1>15. Unparked' /\ IdStack'
  BY <1>w, <1>1, <1>2, TypeFacts, LiveFacts DEF WInv, Unparked, IdStack, Unregistered,
    Exclusive, MutOps, Pushes, IsFrame
<1>16. RecvRegistered'
  BY <1>w, <1>1, <1>2, TypeFacts, LiveFacts DEF WInv, RecvRegistered, Disconnected, Owed, Reg,
    Exclusive, MutOps, Points, PointOK, Pushes, IsFrame
<1>17. Sides' /\ RecvTerminal'
  BY <1>w, <1>1, <1>2, RegFacts DEF WInv, Sides, RecvTerminal, Disconnected, Pushes, IsFrame
<1>18. NoOrphanWaker'
  BY <1>w, <1>1, <1>2, TypeFacts, RegFacts DEF WInv, NoOrphanWaker, Guarded, Sides, IdStack,
    Unregistered, Points, PointOK, Pushes, IsFrame, Reg
<1>19. SendTerminal'
  BY <1>w, <1>1, <1>2, TypeFacts, LiveFacts, RegFacts DEF WInv, SendTerminal, Removing,
    ClosedToSend, Closing, Sides, Points, PointOK, Below, Suspended, CallbackPoints, Pushes,
    IsFrame
<1>20. NoLostRecvWakeup'
  BY <1>w, <1>1, <1>2, TypeFacts, RegFacts DEF WInv, NoLostRecvWakeup, Owed, Reg, IsEmpty,
    Disconnected, Unparked, Points, PointOK, Pushes, IsFrame
<1>21. SendWakeup'
  BY <1>w, <1>1, <1>2, TypeFacts DEF WInv, SendWakeup, SendWaits, Owed, Reg, IsFull, Closing,
    Unparked, Points, PointOK, Pushes, IsFrame
<1>22. DisconnectIsFinal' /\ LastReceiverDrains'
  BY <1>w, <1>1, <1>2, TypeFacts DEF WInv, DisconnectIsFinal, LastReceiverDrains, IsEmpty,
    Disconnected, Pushes, IsFrame
<1>23. OutcomeExact'
  BY <1>w, <1>1, <1>2, TypeFacts DEF WInv, OutcomeExact, Accepted, Pushes, IsFrame
<1> QED
  BY <1>10, <1>11, <1>12, <1>13, <1>14, <1>15, <1>16, <1>17, <1>18, <1>19, <1>20, <1>21, <1>22,
    <1>23 DEF WInv

\* A Recv, or a Receiver that is not the last, takes its registration along.
LEMMA DropRecvInv ==
  ASSUME TypeOK, Borrows, WInv, NEW o \in RecvFuts \cup Receivers, DropRecv(o) \/ DropReceiver(o)
  PROVE  WInv'
<1> USE MpmcAssumption
<1>w. WInv
  OBVIOUS
<1>1. /\ top.at \in Suspended /\ \A d \in Live : frames[d].who /= o
      /\ recv_wakers' = recv_wakers \ {Reg(o)} /\ waker_id' = [waker_id EXCEPT ![o] = None]
      /\ parked' = parked \ {o} /\ woken' = woken \ {o} /\ (rxLive' = {} <=> rxLive = {})
      /\ UNCHANGED <<queue, redelivery, senders, closed, send_wakers, sfut, pushed, sawNone>>
  BY DEF DropRecv, DropReceiver, MayCall, UserCode, Suspended, Borrowed, Busy, chanVars,
    wakerVars, taskVars, histVars
<1>2. Stays
  BY SameStep DEF DropRecv, DropReceiver
<1>10. Below' /\ Points'
  BY <1>w, <1>1, <1>2 DEF WInv, Below, Points, PointOK, Suspended, CallbackPoints, Guarding,
    Stays
<1>11. Exclusive'
  BY <1>w, <1>1, <1>2 DEF WInv, Exclusive, MutOps, Stays
<1>12. EmptySeen' /\ Registered'
  BY <1>w, <1>1, <1>2, TypeFacts DEF WInv, EmptySeen, Registered, IsEmpty, Reg, Below,
    Suspended, CallbackPoints, Stays
<1>13. SendStack' /\ SendIds'
  BY <1>w, <1>1, <1>2, TypeFacts, LiveFacts DEF WInv, SendStack, SendState, SendIds, SendPoints,
    Exclusive, MutOps, Stays
<1>14. SendersLive'
  BY <1>w, <1>1, <1>2, TypeFacts DEF WInv, SendersLive, LiveSend, Stays
<1>15. Unparked' /\ IdStack'
  BY <1>w, <1>1, <1>2, TypeFacts, LiveFacts DEF WInv, Unparked, IdStack, Unregistered,
    Exclusive, MutOps, Stays
<1>16. RecvRegistered'
  BY <1>w, <1>1, <1>2, TypeFacts, LiveFacts DEF WInv, RecvRegistered, Disconnected, Owed, Reg,
    Exclusive, MutOps, Points, PointOK, Stays
<1>17. Sides' /\ RecvTerminal'
  BY <1>w, <1>1, <1>2, RegFacts DEF WInv, Sides, RecvTerminal, Disconnected, Stays
<1>18. NoOrphanWaker'
  BY <1>w, <1>1, <1>2, TypeFacts, RegFacts DEF WInv, NoOrphanWaker, Guarded, Sides, IdStack,
    Unregistered, Points, PointOK, Stays, Reg
<1>19. SendTerminal'
  BY <1>w, <1>1, <1>2, TypeFacts, LiveFacts, RegFacts DEF WInv, SendTerminal, Removing,
    ClosedToSend, Closing, Sides, Points, PointOK, Below, Suspended, CallbackPoints, Stays
<1>20. NoLostRecvWakeup'
  BY <1>w, <1>1, <1>2, TypeFacts, RegFacts DEF WInv, NoLostRecvWakeup, Owed, Reg, IsEmpty,
    Disconnected, Unparked, Points, PointOK, Stays
<1>21. SendWakeup'
  BY <1>w, <1>1, <1>2, TypeFacts DEF WInv, SendWakeup, SendWaits, Owed, Reg, IsFull, Closing,
    Unparked, Points, PointOK, Stays
<1>22. DisconnectIsFinal' /\ LastReceiverDrains'
  BY <1>w, <1>1, <1>2, TypeFacts DEF WInv, DisconnectIsFinal, LastReceiverDrains, IsEmpty,
    Disconnected, Stays
<1>23. OutcomeExact'
  BY <1>w, <1>1, <1>2, TypeFacts DEF WInv, OutcomeExact, Accepted, Stays
<1> QED
  BY <1>10, <1>11, <1>12, <1>13, <1>14, <1>15, <1>16, <1>17, <1>18, <1>19, <1>20, <1>21, <1>22,
    <1>23 DEF WInv

\* The last Receiver's drop takes every sender's waker and keeps its own registration in a guard.
LEMMA DropLastReceiverInv ==
  ASSUME TypeOK, Borrows, WInv, NEW r \in Receivers, DropLastReceiver(r)
  PROVE  WInv'
<1> USE MpmcAssumption
<1>w. WInv
  OBVIOUS
<1>1. /\ MayCall /\ rxLive' = {} /\ \A d \in Live : frames[d].who /= r
      /\ send_wakers' = {} /\ waker_id' = [waker_id EXCEPT ![r] = None]
      /\ parked' = parked \ {r} /\ woken' = woken \ {r}
      /\ UNCHANGED <<queue, redelivery, senders, closed, recv_wakers, sfut, pushed, sawNone>>
  BY DEF DropLastReceiver, Borrowed, Busy, chanVars, wakerVars, taskVars, histVars
<1>2. Pushes("receiver_drop", WakeAt(send_wakers), r, send_wakers, waker_id[r])
  <2> DEFINE f == Waking([Frame("receiver_drop", "woke", r) EXCEPT !.id = waker_id[r]], send_wakers)
  <2>1. Call(f) /\ IsFrame(f, "receiver_drop", WakeAt(send_wakers), r, send_wakers, waker_id[r])
    BY DEF DropLastReceiver, Waking, Frame, IsFrame, WakeAt
  <2> HIDE DEF f
  <2> QED BY <1>1, <2>1, CallStep DEF IsFrame
<1>10. Below' /\ Points'
  BY <1>w, <1>1, <1>2 DEF WInv, Below, Points, PointOK, Suspended, CallbackPoints, Guarding,
    Pushes, IsFrame, WakeAt
<1>11. Exclusive'
  BY <1>w, <1>1, <1>2 DEF WInv, Exclusive, MutOps, Pushes, IsFrame, WakeAt
<1>12. EmptySeen' /\ Registered'
  BY <1>w, <1>1, <1>2, TypeFacts DEF WInv, EmptySeen, Registered, IsEmpty, Reg, Below,
    Suspended, CallbackPoints, Pushes, IsFrame, WakeAt
<1>13. SendStack' /\ SendIds'
  BY <1>w, <1>1, <1>2, TypeFacts, LiveFacts DEF WInv, SendStack, SendState, SendIds, SendPoints,
    Exclusive, MutOps, Pushes, IsFrame, WakeAt
<1>14. SendersLive'
  BY <1>w, <1>1, <1>2, TypeFacts DEF WInv, SendersLive, LiveSend, Pushes, IsFrame, WakeAt
<1>15. Unparked' /\ IdStack'
  BY <1>w, <1>1, <1>2, TypeFacts, LiveFacts DEF WInv, Unparked, IdStack, Unregistered,
    Exclusive, MutOps, Pushes, IsFrame, WakeAt
<1>16. RecvRegistered'
  BY <1>w, <1>1, <1>2, TypeFacts, LiveFacts DEF WInv, RecvRegistered, Disconnected, Owed, Reg,
    Exclusive, MutOps, Points, PointOK, Pushes, IsFrame, WakeAt
<1>17. Sides' /\ RecvTerminal'
  BY <1>w, <1>1, <1>2, RegFacts DEF WInv, Sides, RecvTerminal, Disconnected, Pushes, IsFrame,
    WakeAt
<1>18. NoOrphanWaker'
  BY <1>w, <1>1, <1>2, TypeFacts, RegFacts DEF WInv, NoOrphanWaker, Guarded, Sides, IdStack,
    Unregistered, Points, PointOK, Pushes, IsFrame, WakeAt
<1>19. SendTerminal'
  BY <1>w, <1>1, <1>2, TypeFacts, LiveFacts, RegFacts DEF WInv, SendTerminal, Removing,
    ClosedToSend, Closing, Sides, Points, PointOK, Below, Suspended, CallbackPoints, Pushes,
    IsFrame, WakeAt
<1>20. NoLostRecvWakeup'
  BY <1>w, <1>1, <1>2, TypeFacts, RegFacts DEF WInv, NoLostRecvWakeup, Owed, Reg, IsEmpty,
    Disconnected, Unparked, Points, PointOK, Pushes, IsFrame, WakeAt
<1>21. SendWakeup'
  BY <1>w, <1>1, <1>2, TypeFacts DEF WInv, SendWakeup, SendWaits, Owed, Reg, IsFull, Closing,
    Unparked, Points, PointOK, Pushes, IsFrame, WakeAt
<1>22. DisconnectIsFinal' /\ LastReceiverDrains'
  BY <1>w, <1>1, <1>2, TypeFacts DEF WInv, DisconnectIsFinal, LastReceiverDrains, IsEmpty,
    Disconnected, Pushes, IsFrame, WakeAt
<1>23. OutcomeExact'
  BY <1>w, <1>1, <1>2, TypeFacts DEF WInv, OutcomeExact, Accepted, Pushes, IsFrame, WakeAt
<1> QED
  BY <1>10, <1>11, <1>12, <1>13, <1>14, <1>15, <1>16, <1>17, <1>18, <1>19, <1>20, <1>21, <1>22,
    <1>23 DEF WInv

\* A waker is called: a task that waits for it is woken.
LEMMA WakeNextInv ==
  ASSUME TypeOK, Borrows, WInv, NEW p \in Panics, WakeNext(p)
  PROVE  WInv'
<1> USE MpmcAssumption
<1>w. WInv
  OBVIOUS
<1>0. PICK w \in top.todo :
        /\ Goto([top EXCEPT !.todo = @ \ {w},
                            !.at = IF top.todo = {w} THEN "woke" ELSE "wake",
                            !.panicked = @ \/ p])
        /\ woken' = IF w = Reg(w[1]) THEN woken \cup {w[1]} ELSE woken
  BY DEF WakeNext
<1>1. /\ top.at = "wake" /\ depth > 0
      /\ UNCHANGED <<queue, redelivery, senders, rxLive, closed, recv_wakers, send_wakers,
                     waker_id, sfut, parked, pushed, sawNone>>
  BY DEF WakeNext, At, chanVars, wakerVars, taskVars, histVars
<1> DEFINE at == IF top.todo = {w} THEN "woke" ELSE "wake"
           f == [top EXCEPT !.todo = @ \ {w}, !.at = at, !.panicked = @ \/ p]
<1>2. Moves(top.op, at, top.who, top.todo \ {w}, top.id)
  <2>1. IsFrame(f, top.op, at, top.who, top.todo \ {w}, top.id)
    BY <1>1, TopFacts DEF RawFrames, IsFrame
  <2>2. Goto(f)
    BY <1>0
  <2> HIDE DEF f
  <2> QED BY <1>1, <2>1, <2>2, GotoStep DEF IsFrame
<1>3. at \in {"woke", "wake"} /\ (at = "woke" => top.todo = {w})
  OBVIOUS
<1>4. woken \subseteq woken' /\ (w = Reg(w[1]) => w[1] \in woken')
  BY <1>0
<1> HIDE DEF at
<1>10. Below' /\ Points'
  BY <1>w, <1>1, <1>2, <1>3, <1>4 DEF WInv, Below, Points, PointOK, Suspended, CallbackPoints,
    Guarding, Moves, IsFrame
<1>11. Exclusive'
  BY <1>w, <1>1, <1>2, <1>3, <1>4 DEF WInv, Exclusive, MutOps, Moves, IsFrame
<1>12. EmptySeen' /\ Registered'
  BY <1>w, <1>1, <1>2, <1>3, <1>4, TypeFacts DEF WInv, EmptySeen, Registered, IsEmpty, Reg,
    Below, Suspended, CallbackPoints, Moves, IsFrame
<1>13. SendStack' /\ SendIds'
  BY <1>w, <1>1, <1>2, <1>3, <1>4, TypeFacts, LiveFacts DEF WInv, SendStack, SendState, SendIds,
    SendPoints, Exclusive, MutOps, Moves, IsFrame
<1>14. SendersLive'
  BY <1>w, <1>1, <1>2, <1>3, <1>4, TypeFacts DEF WInv, SendersLive, LiveSend, Moves, IsFrame
<1>15. Unparked' /\ IdStack'
  BY <1>w, <1>1, <1>2, <1>3, <1>4, TypeFacts, LiveFacts DEF WInv, Unparked, IdStack,
    Unregistered, Exclusive, MutOps, Moves, IsFrame
<1>16. RecvRegistered'
  BY <1>w, <1>1, <1>2, <1>3, <1>4, TypeFacts, LiveFacts DEF WInv, RecvRegistered, Disconnected,
    Owed, Reg, Exclusive, MutOps, Points, PointOK, Moves, IsFrame
<1>17. Sides' /\ RecvTerminal'
  BY <1>w, <1>1, <1>2, <1>3, <1>4, RegFacts DEF WInv, Sides, RecvTerminal, Disconnected, Moves,
    IsFrame
<1>18. NoOrphanWaker'
  BY <1>w, <1>1, <1>2, <1>3, <1>4, TypeFacts, RegFacts DEF WInv, NoOrphanWaker, Guarded, Sides,
    IdStack, Unregistered, Points, PointOK, Moves, IsFrame
<1>19. SendTerminal'
  BY <1>w, <1>1, <1>2, <1>3, <1>4, TypeFacts, LiveFacts, RegFacts DEF WInv, SendTerminal,
    Removing, ClosedToSend, Closing, Sides, Points, PointOK, Below, Suspended, CallbackPoints,
    Moves, IsFrame
<1>20. NoLostRecvWakeup'
  BY <1>w, <1>1, <1>2, <1>3, <1>4, TypeFacts, RegFacts DEF WInv, NoLostRecvWakeup, Owed, Reg,
    IsEmpty, Disconnected, Unparked, Points, PointOK, Moves, IsFrame
<1>21. SendWakeup'
  BY <1>w, <1>1, <1>2, <1>3, <1>4, TypeFacts DEF WInv, SendWakeup, SendWaits, Owed, Reg, IsFull,
    Closing, Unparked, Points, PointOK, Moves, IsFrame
<1>22. DisconnectIsFinal' /\ LastReceiverDrains'
  BY <1>w, <1>1, <1>2, <1>3, <1>4, TypeFacts DEF WInv, DisconnectIsFinal, LastReceiverDrains,
    IsEmpty, Disconnected, Moves, IsFrame
<1>23. OutcomeExact'
  BY <1>w, <1>1, <1>2, <1>3, <1>4, TypeFacts DEF WInv, OutcomeExact, Accepted, Moves, IsFrame
<1> QED
  BY <1>10, <1>11, <1>12, <1>13, <1>14, <1>15, <1>16, <1>17, <1>18, <1>19, <1>20, <1>21, <1>22,
    <1>23 DEF WInv

\* close goes on to the senders, whose wakers it takes.
LEMMA CloseSendersInv ==
  ASSUME TypeOK, Borrows, WInv, CloseSenders
  PROVE  WInv'
<1> USE MpmcAssumption
<1>w. WInv
  OBVIOUS
<1>0. depth > 0 /\ top \in RawFrames /\ top.op = "close" /\ top.todo = {} /\ top.at = "woke"
  BY TopFacts DEF CloseSenders, Looking, At, Running, Shape, WInv, Points, PointOK, Guarding,
    SendStack, SendState, SendPoints
<1>1. /\ send_wakers' = {}
      /\ UNCHANGED <<queue, redelivery, senders, rxLive, closed, recv_wakers, waker_id, sfut,
                     parked, woken, pushed, sawNone>>
  BY DEF CloseSenders, chanVars, wakerVars, taskVars, histVars
<1>2. Moves("close2", WakeAt(send_wakers), top.who, send_wakers, top.id)
  <2> DEFINE e == [top EXCEPT !.op = "close2"]
             f == Waking(e, send_wakers)
  <2>1. e \in RawFrames /\ e.op = "close2" /\ e.who = top.who /\ e.id = top.id
    BY <1>0 DEF RawFrames, Ops
  <2>2. Goto(f)
    BY DEF CloseSenders
  <2> HIDE DEF e
  <2>3. IsFrame(f, "close2", WakeAt(send_wakers), top.who, send_wakers, top.id)
    BY <2>1, WakingAgain
  <2> HIDE DEF f
  <2> QED BY <1>0, <2>2, <2>3, GotoStep DEF IsFrame
<1>10. Below' /\ Points'
  BY <1>w, <1>0, <1>1, <1>2 DEF WInv, Below, Points, PointOK, Suspended, CallbackPoints,
    Guarding, Moves, IsFrame, WakeAt
<1>11. Exclusive'
  BY <1>w, <1>0, <1>1, <1>2 DEF WInv, Exclusive, MutOps, Moves, IsFrame, WakeAt
<1>12. EmptySeen' /\ Registered'
  BY <1>w, <1>0, <1>1, <1>2, TypeFacts DEF WInv, EmptySeen, Registered, IsEmpty, Reg, Below,
    Suspended, CallbackPoints, Moves, IsFrame, WakeAt
<1>13. SendStack' /\ SendIds'
  BY <1>w, <1>0, <1>1, <1>2, TypeFacts, LiveFacts DEF WInv, SendStack, SendState, SendIds,
    SendPoints, Exclusive, MutOps, Moves, IsFrame, WakeAt
<1>14. SendersLive'
  BY <1>w, <1>0, <1>1, <1>2, TypeFacts DEF WInv, SendersLive, LiveSend, Moves, IsFrame, WakeAt
<1>15. Unparked' /\ IdStack'
  BY <1>w, <1>0, <1>1, <1>2, TypeFacts, LiveFacts DEF WInv, Unparked, IdStack, Unregistered,
    Exclusive, MutOps, Moves, IsFrame, WakeAt
<1>16. RecvRegistered'
  BY <1>w, <1>0, <1>1, <1>2, TypeFacts, LiveFacts DEF WInv, RecvRegistered, Disconnected, Owed,
    Reg, Exclusive, MutOps, Points, PointOK, Moves, IsFrame, WakeAt
<1>17. Sides' /\ RecvTerminal'
  BY <1>w, <1>0, <1>1, <1>2, RegFacts DEF WInv, Sides, RecvTerminal, Disconnected, Moves,
    IsFrame, WakeAt
<1>18. NoOrphanWaker'
  BY <1>w, <1>0, <1>1, <1>2, TypeFacts, RegFacts DEF WInv, NoOrphanWaker, Guarded, Sides,
    IdStack, Unregistered, Points, PointOK, Moves, IsFrame, WakeAt
<1>19. SendTerminal'
  BY <1>w, <1>0, <1>1, <1>2, TypeFacts, LiveFacts, RegFacts DEF WInv, SendTerminal, Removing,
    ClosedToSend, Closing, Sides, Points, PointOK, Below, Suspended, CallbackPoints, Moves,
    IsFrame, WakeAt
<1>20. NoLostRecvWakeup'
  BY <1>w, <1>0, <1>1, <1>2, TypeFacts, RegFacts DEF WInv, NoLostRecvWakeup, Owed, Reg, IsEmpty,
    Disconnected, Unparked, Points, PointOK, Moves, IsFrame, WakeAt
<1>21. SendWakeup'
  BY <1>w, <1>0, <1>1, <1>2, TypeFacts DEF WInv, SendWakeup, SendWaits, Owed, Reg, IsFull,
    Closing, Unparked, Points, PointOK, Moves, IsFrame, WakeAt
<1>22. DisconnectIsFinal' /\ LastReceiverDrains'
  BY <1>w, <1>0, <1>1, <1>2, TypeFacts DEF WInv, DisconnectIsFinal, LastReceiverDrains, IsEmpty,
    Disconnected, Moves, IsFrame, WakeAt
<1>23. OutcomeExact'
  BY <1>w, <1>0, <1>1, <1>2, TypeFacts DEF WInv, OutcomeExact, Accepted, Moves, IsFrame, WakeAt
<1> QED
  BY <1>10, <1>11, <1>12, <1>13, <1>14, <1>15, <1>16, <1>17, <1>18, <1>19, <1>20, <1>21, <1>22,
    <1>23 DEF WInv

\* A send that finds the channel closed keeps its item; the guard takes the registration.
LEMMA SendClosedInv ==
  ASSUME TypeOK, Borrows, WInv, SendClosed
  PROVE  WInv'
<1> USE MpmcAssumption
<1>w. WInv
  OBVIOUS
<1>0. /\ depth > 0 /\ top \in RawFrames /\ top.op = "send" /\ top.who \in Items /\ top.todo = {}
      /\ top.id = None /\ sfut[top.who] = "pending" /\ top.at \in {"first", "recheck"}
  BY TopFacts DEF SendClosed, Looking, At, Running, Shape, WInv, Points, PointOK, Guarding,
    SendStack, SendState, SendPoints
<1>1. /\ ClosedToSend /\ sfut' = [sfut EXCEPT ![top.who] = "errHeld"]
      /\ waker_id' = [waker_id EXCEPT ![top.who] = None]
      /\ UNCHANGED <<queue, redelivery, senders, rxLive, closed, recv_wakers, send_wakers,
                     parked, woken, pushed, sawNone>>
  BY DEF SendClosed, Committing, chanVars, wakerVars, taskVars, histVars
<1>2. Moves("send", "deregister", top.who, {}, waker_id[top.who])
  <2> DEFINE f == [top EXCEPT !.at = "deregister", !.id = waker_id[top.who]]
  <2>1. IsFrame(f, "send", "deregister", top.who, {}, waker_id[top.who])
    BY <1>0, WakingAgain DEF RawFrames, IsFrame
  <2>2. Goto(f)
    BY DEF SendClosed
  <2> HIDE DEF f
  <2> QED BY <1>0, <2>1, <2>2, GotoStep DEF IsFrame
<1>5. \A o \in Owners \ {top.who} : Reg(o)' = Reg(o) /\ (Owed(o) => Owed(o)')
  <2>1. \A o \in Owners \ {top.who} : Reg(o)' = Reg(o)
    BY <1>0, <1>1, TypeFacts DEF Reg
  <2>2. woken' = woken /\ Live' = Live /\ \A d \in Live : frames[d].todo \subseteq frames'[d].todo
    BY <1>0, <1>1, <1>2 DEF Moves, IsFrame
  <2> QED BY <2>1, <2>2 DEF Owed
<1>10. Below' /\ Points'
  BY <1>w, <1>0, <1>1, <1>2 DEF WInv, Below, Points, PointOK, Suspended, CallbackPoints,
    Guarding, Moves, IsFrame
<1>11. Exclusive'
  BY <1>w, <1>0, <1>1, <1>2 DEF WInv, Exclusive, MutOps, Moves, IsFrame
<1>12. EmptySeen' /\ Registered'
  BY <1>w, <1>0, <1>1, <1>2, TypeFacts DEF WInv, EmptySeen, Registered, IsEmpty, Reg, Below,
    Suspended, CallbackPoints, Moves, IsFrame
<1>13. SendStack' /\ SendIds'
  BY <1>w, <1>0, <1>1, <1>2, TypeFacts, LiveFacts DEF WInv, SendStack, SendState, SendIds,
    SendPoints, Exclusive, MutOps, Moves, IsFrame
<1>14. SendersLive'
  BY <1>w, <1>0, <1>1, <1>2, TypeFacts DEF WInv, SendersLive, LiveSend, Moves, IsFrame
<1>15. Unparked' /\ IdStack'
  BY <1>w, <1>0, <1>1, <1>2, TypeFacts, LiveFacts DEF WInv, Unparked, IdStack, Unregistered,
    Exclusive, MutOps, Moves, IsFrame
<1>16. RecvRegistered'
  <2>1. \A d \in Live : frames'[d].op = "poll2" =>
          /\ frames[d].op = "poll2"
          /\ frames'[d].who = frames[d].who
          /\ frames[d].who \in Owners \ {top.who}
    BY <1>0, <1>2, LiveFacts DEF Moves, IsFrame
  <2>2. \A d \in Live : frames'[d].at = "drop_unstored" => frames[d].at = "drop_unstored"
    BY <1>0, <1>2 DEF Moves, IsFrame, WakeAt
  <2>3. Disconnected' <=> Disconnected
    BY <1>1 DEF Disconnected
  <2> QED BY <1>w, <1>1, <1>2, <1>5, <2>1, <2>2, <2>3 DEF WInv, RecvRegistered, Moves
<1>17. Sides' /\ RecvTerminal'
  BY <1>w, <1>0, <1>1, <1>2, RegFacts DEF WInv, Sides, RecvTerminal, Disconnected, Moves,
    IsFrame
<1>18. NoOrphanWaker'
  BY <1>w, <1>0, <1>1, <1>2, TypeFacts, RegFacts DEF WInv, NoOrphanWaker, Guarded, Sides,
    IdStack, Unregistered, Points, PointOK, Moves, IsFrame
<1>19. SendTerminal'
  BY <1>w, <1>0, <1>1, <1>2, TypeFacts, LiveFacts, RegFacts DEF WInv, SendTerminal, Removing,
    ClosedToSend, Closing, Sides, Points, PointOK, Below, Suspended, CallbackPoints, Moves,
    IsFrame, Exclusive, MutOps
<1>20. NoLostRecvWakeup'
  BY <1>w, <1>0, <1>1, <1>2, TypeFacts, RegFacts DEF WInv, NoLostRecvWakeup, Owed, Reg, IsEmpty,
    Disconnected, Unparked, Points, PointOK, Moves, IsFrame
<1>21. SendWakeup'
  BY <1>w, <1>0, <1>1, <1>2, TypeFacts DEF WInv, SendWakeup, SendWaits, Owed, Reg, IsFull,
    Closing, Unparked, Points, PointOK, Moves, IsFrame
<1>22. DisconnectIsFinal' /\ LastReceiverDrains'
  BY <1>w, <1>0, <1>1, <1>2, TypeFacts DEF WInv, DisconnectIsFinal, LastReceiverDrains, IsEmpty,
    Disconnected, Moves, IsFrame
<1>23. OutcomeExact'
  BY <1>w, <1>0, <1>1, <1>2, TypeFacts DEF WInv, OutcomeExact, Accepted, Moves, IsFrame
<1> QED
  BY <1>10, <1>11, <1>12, <1>13, <1>14, <1>15, <1>16, <1>17, <1>18, <1>19, <1>20, <1>21, <1>22,
    <1>23 DEF WInv

\* A send pushes into a channel that is open and takes every receiver's waker.
LEMMA SendPushInv ==
  ASSUME TypeOK, Borrows, WInv, SendPush
  PROVE  WInv'
<1> USE MpmcAssumption
<1>w. WInv
  OBVIOUS
<1>0. /\ depth > 0 /\ top \in RawFrames /\ top.op = "send" /\ top.who \in Items /\ top.todo = {}
      /\ top.id = None /\ sfut[top.who] = "pending" /\ top.at \in {"first", "recheck"}
  BY TopFacts DEF SendPush, Looking, At, Running, Shape, WInv, Points, PointOK, Guarding,
    SendStack, SendState, SendPoints
<1>1. /\ rxLive /= {} /\ ~closed /\ ~IsFull
      /\ queue' = Append(queue, top.who) /\ pushed' = Append(pushed, top.who) /\ recv_wakers' = {}
      /\ sfut' = [sfut EXCEPT ![top.who] = "okHeld"]
      /\ waker_id' = [waker_id EXCEPT ![top.who] = None]
      /\ UNCHANGED <<redelivery, senders, rxLive, closed, send_wakers, parked, woken, sawNone>>
  BY DEF SendPush, MayPush, ClosedToSend, Accept, Committing, chanVars, wakerVars, taskVars,
    histVars
<1>2. Moves("send", WakeAt(recv_wakers), top.who, recv_wakers, waker_id[top.who])
  <2> DEFINE e == [top EXCEPT !.id = waker_id[top.who]]
             f == Waking(e, recv_wakers)
  <2>1. e \in RawFrames /\ e.op = "send" /\ e.who = top.who /\ e.id = waker_id[top.who]
    BY <1>0, TypeFacts DEF RawFrames
  <2>2. Goto(f)
    BY DEF SendPush
  <2> HIDE DEF e
  <2>3. IsFrame(f, "send", WakeAt(recv_wakers), top.who, recv_wakers, waker_id[top.who])
    BY <2>1, WakingAgain
  <2> HIDE DEF f
  <2> QED BY <1>0, <2>2, <2>3, GotoStep DEF IsFrame
<1>3. queue' /= <<>> /\ \A j \in Items : Accepted(j)' <=> Accepted(j) \/ j = top.who
  BY <1>0, <1>1, AcceptedAppend DEF TypeOK, ChanType, HistType
<1>4. senders /= 0
  BY <1>w, <1>0 DEF WInv, SendersLive, LiveSend
<1>5. \A o \in Owners \ {top.who} : Reg(o)' = Reg(o) /\ (Owed(o) => Owed(o)')
  <2>1. \A o \in Owners \ {top.who} : Reg(o)' = Reg(o)
    BY <1>0, <1>1, TypeFacts DEF Reg
  <2>2. woken' = woken /\ Live' = Live /\ \A d \in Live : frames[d].todo \subseteq frames'[d].todo
    BY <1>0, <1>1, <1>2 DEF Moves, IsFrame
  <2> QED BY <2>1, <2>2 DEF Owed
<1>6. \A o \in Owners \ {top.who} : Reg(o) \in recv_wakers => Owed(o)'
  <2>1. depth \in Live' /\ frames'[depth].todo = recv_wakers
    BY <1>2 DEF Moves, IsFrame
  <2> QED BY <1>5, <2>1 DEF Owed
<1>7. WakeAt(recv_wakers) \in {"woke", "wake"} /\ (WakeAt(recv_wakers) = "woke" => recv_wakers = {})
  BY DEF WakeAt
<1>8. \A o \in parked : o \in Owners \ {top.who}
  BY <1>w, <1>0, <1>2, TypeFacts DEF WInv, Unparked, Moves
<1>9. /\ sfut'[top.who] = "okHeld" /\ \A i \in Items \ {top.who} : sfut'[i] = sfut[i]
      /\ waker_id'[top.who] = None /\ \A o \in Owners \ {top.who} : waker_id'[o] = waker_id[o]
  BY <1>0, <1>1, TypeFacts
<1>a. parked' = parked
  BY <1>1
<1>10. Below' /\ Points'
  <2>1. Below'
    BY <1>w, <1>0, <1>2 DEF WInv, Below, Moves
  <2>2. Points'
    BY <1>w, <1>0, <1>2, <1>7 DEF WInv, Points, PointOK, Guarding, Moves, IsFrame
  <2> QED BY <2>1, <2>2
<1>11. Exclusive'
  BY <1>w, <1>0, <1>1, <1>2, <1>7 DEF WInv, Exclusive, MutOps, Moves, IsFrame
<1>12. EmptySeen' /\ Registered'
  BY <1>w, <1>0, <1>1, <1>2, <1>7, TypeFacts DEF WInv, EmptySeen, Registered, IsEmpty, Reg,
    Below, Suspended, CallbackPoints, Moves, IsFrame
<1>13. SendStack' /\ SendIds'
  <2>1. SendStack'
    BY <1>w, <1>0, <1>2, <1>7, <1>9, LiveFacts DEF WInv, SendStack, SendState, SendPoints,
      Exclusive, MutOps, Moves, IsFrame
  <2>2. SendIds'
    BY <1>w, <1>0, <1>9, TypeFacts DEF WInv, SendIds
  <2> QED BY <2>1, <2>2
<1>14. SendersLive'
  BY <1>w, <1>0, <1>1, <1>2, <1>7, TypeFacts DEF WInv, SendersLive, LiveSend, Moves, IsFrame
<1>15. Unparked' /\ IdStack'
  <2>1. Unparked'
    BY <1>w, <1>0, <1>2, <1>7, <1>9, <1>a DEF WInv, Unparked, Exclusive, MutOps, Moves, IsFrame
  <2>2. IdStack'
    BY <1>w, <1>0, <1>2, <1>7, <1>9, <1>a, TypeFacts, LiveFacts DEF WInv, IdStack, Unregistered,
      Exclusive, MutOps, Moves, IsFrame, SendPoints
  <2> QED BY <2>1, <2>2
<1>16. RecvRegistered'
  <2>1. \A d \in Live : frames'[d].op = "poll2" =>
          /\ frames[d].op = "poll2"
          /\ frames'[d].who = frames[d].who
          /\ frames[d].who \in Owners \ {top.who}
    BY <1>0, <1>2, LiveFacts DEF Moves, IsFrame
  <2>2. \A d \in Live : frames'[d].at = "drop_unstored" => frames[d].at = "drop_unstored"
    BY <1>0, <1>2 DEF Moves, IsFrame, WakeAt
  <2>3. Disconnected' <=> Disconnected
    BY <1>1 DEF Disconnected
  <2> QED BY <1>w, <1>1, <1>2, <1>5, <1>6, <2>1, <2>2, <2>3 DEF WInv, RecvRegistered, Moves
<1>17. Sides' /\ RecvTerminal'
  BY <1>w, <1>0, <1>1, <1>2, <1>7, RegFacts DEF WInv, Sides, RecvTerminal, Disconnected, Moves,
    IsFrame
<1>18. NoOrphanWaker'
  <2>1. ASSUME NEW v \in send_wakers PROVE waker_id'[v[1]] = v[2] \/ Guarded(v[1], v[2], "send")'
    <3>1. CASE v[1] = top.who
      <4>1. ~Guarded(v[1], v[2], "send")
        BY <1>w, <1>0, <1>2, <3>1, <2>1, RegFacts DEF WInv, Guarded, Exclusive, MutOps, Moves
      <4>2. v[2] = waker_id[top.who]
        BY <1>w, <3>1, <4>1 DEF WInv, NoOrphanWaker
      <4> QED BY <1>2, <3>1, <4>2 DEF Guarded, Moves, IsFrame
    <3>2. CASE v[1] /= top.who
      BY <1>w, <1>0, <1>2, <1>9, <3>2, RegFacts DEF WInv, NoOrphanWaker, Guarded, Moves, IsFrame
    <3> QED BY <3>1, <3>2
  <2> QED BY <1>1, <2>1 DEF NoOrphanWaker
<1>19. SendTerminal'
  BY <1>w, <1>0, <1>1, <1>2, <1>7, TypeFacts, LiveFacts, RegFacts DEF WInv, SendTerminal,
    Removing, ClosedToSend, Closing, Sides, Points, PointOK, Below, Suspended, CallbackPoints,
    Moves, IsFrame
<1>20. NoLostRecvWakeup'
  BY <1>w, <1>1, <1>2, <1>5, <1>6, <1>8 DEF WInv, NoLostRecvWakeup, Moves
<1>21. SendWakeup'
  BY <1>w, <1>1, <1>2, <1>5, <1>8, TypeFacts DEF WInv, SendWakeup, SendWaits, Moves
<1>22. DisconnectIsFinal' /\ LastReceiverDrains'
  BY <1>w, <1>0, <1>1, <1>2, <1>7, <1>3, <1>4 DEF WInv, DisconnectIsFinal, LastReceiverDrains,
    IsEmpty, Disconnected, Moves, IsFrame
<1>23. OutcomeExact'
  BY <1>w, <1>0, <1>1, <1>3, TypeFacts DEF WInv, OutcomeExact
<1> QED
  BY <1>10, <1>11, <1>12, <1>13, <1>14, <1>15, <1>16, <1>17, <1>18, <1>19, <1>20, <1>21, <1>22,
    <1>23 DEF WInv

\* A full channel: the old registration goes before a new one is made.
LEMMA SendFullInv ==
  ASSUME TypeOK, Borrows, WInv, SendFull
  PROVE  WInv'
<1> USE MpmcAssumption
<1>w. WInv
  OBVIOUS
<1>0. /\ depth > 0 /\ top \in RawFrames /\ top.op = "send" /\ top.who \in Items /\ top.todo = {}
      /\ top.id = None /\ sfut[top.who] = "pending" /\ top.at \in {"first", "recheck"}
  BY TopFacts DEF SendFull, Looking, At, Running, Shape, WInv, Points, PointOK, Guarding,
    SendStack, SendState, SendPoints
<1>1. /\ ~ClosedToSend /\ send_wakers' = send_wakers \ {Reg(top.who)}
      /\ waker_id' = [waker_id EXCEPT ![top.who] = None]
      /\ UNCHANGED <<queue, redelivery, senders, rxLive, closed, recv_wakers, sfut, parked,
                     woken, pushed, sawNone>>
  BY DEF SendFull, chanVars, wakerVars, taskVars, histVars
<1> DEFINE at == IF Reg(top.who) \in send_wakers THEN "drop_old_send" ELSE "clone_send"
<1>3. at \in {"drop_old_send", "clone_send"}
  OBVIOUS
<1>2. Moves("send", at, top.who, {}, None)
  <2> DEFINE f == [top EXCEPT !.at = at]
  <2>1. IsFrame(f, "send", at, top.who, {}, None)
    BY <1>0, WakingAgain DEF RawFrames, IsFrame
  <2>2. Goto(f)
    BY DEF SendFull
  <2> HIDE DEF f
  <2> QED BY <1>0, <2>1, <2>2, GotoStep DEF IsFrame
<1> HIDE DEF at
<1>5. \A o \in Owners \ {top.who} : Reg(o)' = Reg(o) /\ (Owed(o) => Owed(o)')
  <2>1. \A o \in Owners \ {top.who} : Reg(o)' = Reg(o)
    BY <1>0, <1>1, TypeFacts DEF Reg
  <2>2. woken' = woken /\ Live' = Live /\ \A d \in Live : frames[d].todo \subseteq frames'[d].todo
    BY <1>0, <1>1, <1>2 DEF Moves, IsFrame
  <2> QED BY <2>1, <2>2 DEF Owed
<1>10. Below' /\ Points'
  BY <1>w, <1>0, <1>1, <1>2, <1>3 DEF WInv, Below, Points, PointOK, Suspended, CallbackPoints,
    Guarding, Moves, IsFrame
<1>11. Exclusive'
  BY <1>w, <1>0, <1>1, <1>2, <1>3 DEF WInv, Exclusive, MutOps, Moves, IsFrame
<1>12. EmptySeen' /\ Registered'
  BY <1>w, <1>0, <1>1, <1>2, <1>3, TypeFacts DEF WInv, EmptySeen, Registered, IsEmpty, Reg,
    Below, Suspended, CallbackPoints, Moves, IsFrame
<1>13. SendStack' /\ SendIds'
  BY <1>w, <1>0, <1>1, <1>2, <1>3, TypeFacts, LiveFacts DEF WInv, SendStack, SendState, SendIds,
    SendPoints, Exclusive, MutOps, Moves, IsFrame
<1>14. SendersLive'
  BY <1>w, <1>0, <1>1, <1>2, <1>3, TypeFacts DEF WInv, SendersLive, LiveSend, Moves, IsFrame
<1>15. Unparked' /\ IdStack'
  BY <1>w, <1>0, <1>1, <1>2, <1>3, TypeFacts, LiveFacts DEF WInv, Unparked, IdStack,
    Unregistered, Exclusive, MutOps, Moves, IsFrame
<1>16. RecvRegistered'
  <2>1. \A d \in Live : frames'[d].op = "poll2" =>
          /\ frames[d].op = "poll2"
          /\ frames'[d].who = frames[d].who
          /\ frames[d].who \in Owners \ {top.who}
    BY <1>0, <1>2, LiveFacts DEF Moves, IsFrame
  <2>2. \A d \in Live : frames'[d].at = "drop_unstored" => frames[d].at = "drop_unstored"
    BY <1>0, <1>2, <1>3 DEF Moves, IsFrame, WakeAt
  <2>3. Disconnected' <=> Disconnected
    BY <1>1 DEF Disconnected
  <2> QED BY <1>w, <1>1, <1>2, <1>5, <2>1, <2>2, <2>3 DEF WInv, RecvRegistered, Moves
<1>17. Sides' /\ RecvTerminal'
  BY <1>w, <1>0, <1>1, <1>2, <1>3, RegFacts DEF WInv, Sides, RecvTerminal, Disconnected, Moves,
    IsFrame
<1>18. NoOrphanWaker'
  BY <1>w, <1>0, <1>1, <1>2, <1>3, TypeFacts, RegFacts DEF WInv, NoOrphanWaker, Guarded, Sides,
    IdStack, Unregistered, Points, PointOK, Moves, IsFrame, Reg
<1>19. SendTerminal'
  BY <1>w, <1>0, <1>1, <1>2, <1>3, TypeFacts, LiveFacts, RegFacts DEF WInv, SendTerminal,
    Removing, ClosedToSend, Closing, Sides, Points, PointOK, Below, Suspended, CallbackPoints,
    Moves, IsFrame, Exclusive, MutOps
<1>20. NoLostRecvWakeup'
  BY <1>w, <1>0, <1>1, <1>2, <1>3, TypeFacts, RegFacts DEF WInv, NoLostRecvWakeup, Owed, Reg,
    IsEmpty, Disconnected, Unparked, Points, PointOK, Moves, IsFrame
<1>21. SendWakeup'
  BY <1>w, <1>0, <1>1, <1>2, <1>3, TypeFacts DEF WInv, SendWakeup, SendWaits, Owed, Reg, IsFull,
    Closing, Unparked, Points, PointOK, Moves, IsFrame
<1>22. DisconnectIsFinal' /\ LastReceiverDrains'
  BY <1>w, <1>0, <1>1, <1>2, <1>3, TypeFacts DEF WInv, DisconnectIsFinal, LastReceiverDrains,
    IsEmpty, Disconnected, Moves, IsFrame
<1>23. OutcomeExact'
  BY <1>w, <1>0, <1>1, <1>2, <1>3, TypeFacts DEF WInv, OutcomeExact, Accepted, Moves, IsFrame
<1> QED
  BY <1>10, <1>11, <1>12, <1>13, <1>14, <1>15, <1>16, <1>17, <1>18, <1>19, <1>20, <1>21, <1>22,
    <1>23 DEF WInv

\* The new registration is in the list when the channel is looked at again.
LEMMA StoreSendInv ==
  ASSUME TypeOK, Borrows, WInv, NEW k \in WakerIds, At("clone_send"), StoreSend(top.who, k),
         UNCHANGED <<chanVars, recv_wakers, taskVars, histVars>>
  PROVE  WInv'
<1> USE MpmcAssumption
<1>w. WInv
  OBVIOUS
<1>0. /\ depth > 0 /\ top \in RawFrames /\ top.op = "send" /\ top.who \in Items /\ top.todo = {}
      /\ top.id = None /\ sfut[top.who] = "pending" /\ top.at = "clone_send"
  BY TopFacts DEF StoreSend, Looking, At, Running, Shape, WInv, Points, PointOK, Guarding,
    SendStack, SendState, SendPoints
<1>1. /\ send_wakers' = send_wakers \cup {<<top.who, k>>}
      /\ waker_id' = [waker_id EXCEPT ![top.who] = k]
      /\ UNCHANGED <<queue, redelivery, senders, rxLive, closed, recv_wakers, sfut, parked,
                     woken, pushed, sawNone>>
  BY DEF StoreSend, chanVars, wakerVars, taskVars, histVars
<1>2. Moves("send", "recheck", top.who, {}, None)
  <2> DEFINE f == [top EXCEPT !.at = "recheck"]
  <2>1. IsFrame(f, "send", "recheck", top.who, {}, None)
    BY <1>0, WakingAgain DEF RawFrames, IsFrame
  <2>2. Goto(f)
    BY DEF StoreSend
  <2> HIDE DEF f
  <2> QED BY <1>0, <2>1, <2>2, GotoStep DEF IsFrame
<1>5. \A o \in Owners \ {top.who} : Reg(o)' = Reg(o) /\ (Owed(o) => Owed(o)')
  <2>1. \A o \in Owners \ {top.who} : Reg(o)' = Reg(o)
    BY <1>0, <1>1, TypeFacts DEF Reg
  <2>2. woken' = woken /\ Live' = Live /\ \A d \in Live : frames[d].todo \subseteq frames'[d].todo
    BY <1>0, <1>1, <1>2 DEF Moves, IsFrame
  <2> QED BY <2>1, <2>2 DEF Owed
<1>10. Below' /\ Points'
  BY <1>w, <1>0, <1>1, <1>2 DEF WInv, Below, Points, PointOK, Suspended, CallbackPoints,
    Guarding, Moves, IsFrame
<1>11. Exclusive'
  BY <1>w, <1>0, <1>1, <1>2 DEF WInv, Exclusive, MutOps, Moves, IsFrame
<1>12. EmptySeen' /\ Registered'
  BY <1>w, <1>0, <1>1, <1>2, TypeFacts DEF WInv, EmptySeen, Registered, IsEmpty, Reg, Below,
    Suspended, CallbackPoints, Moves, IsFrame
<1>13. SendStack' /\ SendIds'
  BY <1>w, <1>0, <1>1, <1>2, TypeFacts, LiveFacts DEF WInv, SendStack, SendState, SendIds,
    SendPoints, Exclusive, MutOps, Moves, IsFrame
<1>14. SendersLive'
  BY <1>w, <1>0, <1>1, <1>2, TypeFacts DEF WInv, SendersLive, LiveSend, Moves, IsFrame
<1>15. Unparked' /\ IdStack'
  BY <1>w, <1>0, <1>1, <1>2, TypeFacts, LiveFacts DEF WInv, Unparked, IdStack, Unregistered,
    Exclusive, MutOps, Moves, IsFrame, SendPoints
<1>16. RecvRegistered'
  <2>1. \A d \in Live : frames'[d].op = "poll2" =>
          /\ frames[d].op = "poll2"
          /\ frames'[d].who = frames[d].who
          /\ frames[d].who \in Owners \ {top.who}
    BY <1>0, <1>2, LiveFacts DEF Moves, IsFrame
  <2>2. \A d \in Live : frames'[d].at = "drop_unstored" => frames[d].at = "drop_unstored"
    BY <1>0, <1>2 DEF Moves, IsFrame, WakeAt
  <2>3. Disconnected' <=> Disconnected
    BY <1>1 DEF Disconnected
  <2> QED BY <1>w, <1>1, <1>2, <1>5, <2>1, <2>2, <2>3 DEF WInv, RecvRegistered, Moves
<1>17. Sides' /\ RecvTerminal'
  BY <1>w, <1>0, <1>1, <1>2, RegFacts DEF WInv, Sides, RecvTerminal, Disconnected, Moves,
    IsFrame
<1>18. NoOrphanWaker'
  BY <1>w, <1>0, <1>1, <1>2, TypeFacts, RegFacts DEF WInv, NoOrphanWaker, Guarded, Sides,
    IdStack, Unregistered, Points, PointOK, Moves, IsFrame
<1>19. SendTerminal'
  BY <1>w, <1>0, <1>1, <1>2, TypeFacts, LiveFacts, RegFacts DEF WInv, SendTerminal, Removing,
    ClosedToSend, Closing, Sides, Points, PointOK, Below, Suspended, CallbackPoints, Moves,
    IsFrame, Exclusive, MutOps
<1>20. NoLostRecvWakeup'
  BY <1>w, <1>0, <1>1, <1>2, TypeFacts, RegFacts DEF WInv, NoLostRecvWakeup, Owed, Reg, IsEmpty,
    Disconnected, Unparked, Points, PointOK, Moves, IsFrame
<1>21. SendWakeup'
  BY <1>w, <1>0, <1>1, <1>2, TypeFacts DEF WInv, SendWakeup, SendWaits, Owed, Reg, IsFull,
    Closing, Unparked, Points, PointOK, Moves, IsFrame
<1>22. DisconnectIsFinal' /\ LastReceiverDrains'
  BY <1>w, <1>0, <1>1, <1>2, TypeFacts DEF WInv, DisconnectIsFinal, LastReceiverDrains, IsEmpty,
    Disconnected, Moves, IsFrame
<1>23. OutcomeExact'
  BY <1>w, <1>0, <1>1, <1>2, TypeFacts DEF WInv, OutcomeExact, Accepted, Moves, IsFrame
<1> QED
  BY <1>10, <1>11, <1>12, <1>13, <1>14, <1>15, <1>16, <1>17, <1>18, <1>19, <1>20, <1>21, <1>22,
    <1>23 DEF WInv

\* A send parks only while it is registered and the channel is still full and open.
LEMMA SendPendingInv ==
  ASSUME TypeOK, Borrows, WInv, SendPending
  PROVE  WInv'
<1> USE MpmcAssumption
<1>w. WInv
  OBVIOUS
<1>0. /\ depth > 0 /\ top \in RawFrames /\ top.op = "send" /\ top.who \in Items /\ top.todo = {}
      /\ top.id = None /\ sfut[top.who] = "pending" /\ top.at \in {"first", "recheck"} /\ top.at = "recheck"
  BY TopFacts DEF SendPending, Looking, At, Running, Shape, WInv, Points, PointOK, Guarding,
    SendStack, SendState, SendPoints
<1>1. /\ ~ClosedToSend /\ IsFull /\ parked' = parked \cup {top.who}
      /\ UNCHANGED <<queue, redelivery, senders, rxLive, closed, recv_wakers, send_wakers,
                     waker_id, sfut, woken, pushed, sawNone>>
  BY DEF SendPending, StillFull, chanVars, wakerVars, taskVars, histVars
<1>2. Ends
  BY <1>0, ReturnStep DEF SendPending
<1>10. Below' /\ Points'
  BY <1>w, <1>0, <1>1, <1>2 DEF WInv, Below, Points, PointOK, Suspended, CallbackPoints,
    Guarding, Ends
<1>11. Exclusive'
  BY <1>w, <1>0, <1>1, <1>2 DEF WInv, Exclusive, MutOps, Ends
<1>12. EmptySeen' /\ Registered'
  BY <1>w, <1>0, <1>1, <1>2, TypeFacts DEF WInv, EmptySeen, Registered, IsEmpty, Reg, Below,
    Suspended, CallbackPoints, Ends
<1>13. SendStack' /\ SendIds'
  BY <1>w, <1>0, <1>1, <1>2, TypeFacts, LiveFacts DEF WInv, SendStack, SendState, SendIds,
    SendPoints, Exclusive, MutOps, Ends
<1>14. SendersLive'
  BY <1>w, <1>0, <1>1, <1>2, TypeFacts DEF WInv, SendersLive, LiveSend, Ends
<1>15. Unparked' /\ IdStack'
  BY <1>w, <1>0, <1>1, <1>2, TypeFacts, LiveFacts DEF WInv, Unparked, IdStack, Unregistered,
    Exclusive, MutOps, Ends
<1>16. RecvRegistered'
  BY <1>w, <1>0, <1>1, <1>2, TypeFacts, LiveFacts DEF WInv, RecvRegistered, Disconnected, Owed,
    Reg, Exclusive, MutOps, Points, PointOK, Ends
<1>17. Sides' /\ RecvTerminal'
  BY <1>w, <1>0, <1>1, <1>2, RegFacts DEF WInv, Sides, RecvTerminal, Disconnected, Ends
<1>18. NoOrphanWaker'
  BY <1>w, <1>0, <1>1, <1>2, TypeFacts, RegFacts DEF WInv, NoOrphanWaker, Guarded, Sides,
    IdStack, Unregistered, Points, PointOK, Ends
<1>19. SendTerminal'
  BY <1>w, <1>0, <1>1, <1>2, TypeFacts, LiveFacts, RegFacts DEF WInv, SendTerminal, Removing,
    ClosedToSend, Closing, Sides, Points, PointOK, Below, Suspended, CallbackPoints, Ends
<1>20. NoLostRecvWakeup'
  BY <1>w, <1>0, <1>1, <1>2, TypeFacts, RegFacts DEF WInv, NoLostRecvWakeup, Owed, Reg, IsEmpty,
    Disconnected, Unparked, Points, PointOK, Ends
<1>21. SendWakeup'
  BY <1>w, <1>0, <1>1, <1>2, TypeFacts DEF WInv, SendWakeup, SendWaits, Owed, Reg, IsFull,
    Closing, Unparked, Points, PointOK, Ends, Registered, ClosedToSend
<1>22. DisconnectIsFinal' /\ LastReceiverDrains'
  BY <1>w, <1>0, <1>1, <1>2, TypeFacts DEF WInv, DisconnectIsFinal, LastReceiverDrains, IsEmpty,
    Disconnected, Ends
<1>23. OutcomeExact'
  BY <1>w, <1>0, <1>1, <1>2, TypeFacts DEF WInv, OutcomeExact, Accepted, Ends
<1> QED
  BY <1>10, <1>11, <1>12, <1>13, <1>14, <1>15, <1>16, <1>17, <1>18, <1>19, <1>20, <1>21, <1>22,
    <1>23 DEF WInv

\* RemoveSend takes the registration out of the list.
LEMMA DeregisterInv ==
  ASSUME TypeOK, Borrows, WInv, Deregister, <<top.who, top.id>> \in send_wakers
  PROVE  WInv'
<1> USE MpmcAssumption
<1>w. WInv
  OBVIOUS
<1>0. /\ depth > 0 /\ top \in RawFrames /\ top.op = "send" /\ top.who \in Items /\ top.todo = {}
      /\ top.at = "deregister"
  BY TopFacts DEF Deregister, Looking, At, Running, Shape, WInv, Points, PointOK, Guarding,
    SendStack, SendState, SendPoints
<1>1. /\ send_wakers' = send_wakers \ {<<top.who, top.id>>}
      /\ UNCHANGED <<queue, redelivery, senders, rxLive, closed, recv_wakers, waker_id, sfut,
                     parked, woken, pushed, sawNone>>
  BY DEF Deregister, chanVars, wakerVars, taskVars, histVars
<1>2. Moves("send", "drop_commit", top.who, {}, None)
  <2> DEFINE f == [top EXCEPT !.at = "drop_commit", !.id = None]
  <2>1. IsFrame(f, "send", "drop_commit", top.who, {}, None)
    BY <1>0, WakingAgain DEF RawFrames, IsFrame
  <2>2. Goto(f)
    BY DEF Deregister
  <2> HIDE DEF f
  <2> QED BY <1>0, <2>1, <2>2, GotoStep DEF IsFrame
<1>10. Below' /\ Points'
  BY <1>w, <1>0, <1>1, <1>2 DEF WInv, Below, Points, PointOK, Suspended, CallbackPoints,
    Guarding, Moves, IsFrame
<1>11. Exclusive'
  BY <1>w, <1>0, <1>1, <1>2 DEF WInv, Exclusive, MutOps, Moves, IsFrame
<1>12. EmptySeen' /\ Registered'
  BY <1>w, <1>0, <1>1, <1>2, TypeFacts DEF WInv, EmptySeen, Registered, IsEmpty, Reg, Below,
    Suspended, CallbackPoints, Moves, IsFrame
<1>13. SendStack' /\ SendIds'
  BY <1>w, <1>0, <1>1, <1>2, TypeFacts, LiveFacts DEF WInv, SendStack, SendState, SendIds,
    SendPoints, Exclusive, MutOps, Moves, IsFrame
<1>14. SendersLive'
  BY <1>w, <1>0, <1>1, <1>2, TypeFacts DEF WInv, SendersLive, LiveSend, Moves, IsFrame
<1>15. Unparked' /\ IdStack'
  BY <1>w, <1>0, <1>1, <1>2, TypeFacts, LiveFacts DEF WInv, Unparked, IdStack, Unregistered,
    Exclusive, MutOps, Moves, IsFrame
<1>16. RecvRegistered'
  BY <1>w, <1>0, <1>1, <1>2, TypeFacts, LiveFacts DEF WInv, RecvRegistered, Disconnected, Owed,
    Reg, Exclusive, MutOps, Points, PointOK, Moves, IsFrame
<1>17. Sides' /\ RecvTerminal'
  BY <1>w, <1>0, <1>1, <1>2, RegFacts DEF WInv, Sides, RecvTerminal, Disconnected, Moves,
    IsFrame
<1>18. NoOrphanWaker'
  BY <1>w, <1>0, <1>1, <1>2, TypeFacts, RegFacts DEF WInv, NoOrphanWaker, Guarded, Sides,
    IdStack, Unregistered, Points, PointOK, Moves, IsFrame
<1>19. SendTerminal'
  BY <1>w, <1>0, <1>1, <1>2, TypeFacts, LiveFacts, RegFacts DEF WInv, SendTerminal, Removing,
    ClosedToSend, Closing, Sides, Points, PointOK, Below, Suspended, CallbackPoints, Moves,
    IsFrame
<1>20. NoLostRecvWakeup'
  BY <1>w, <1>0, <1>1, <1>2, TypeFacts, RegFacts DEF WInv, NoLostRecvWakeup, Owed, Reg, IsEmpty,
    Disconnected, Unparked, Points, PointOK, Moves, IsFrame
<1>21. SendWakeup'
  BY <1>w, <1>0, <1>1, <1>2, TypeFacts DEF WInv, SendWakeup, SendWaits, Owed, Reg, IsFull,
    Closing, Unparked, Points, PointOK, Moves, IsFrame
<1>22. DisconnectIsFinal' /\ LastReceiverDrains'
  BY <1>w, <1>0, <1>1, <1>2, TypeFacts DEF WInv, DisconnectIsFinal, LastReceiverDrains, IsEmpty,
    Disconnected, Moves, IsFrame
<1>23. OutcomeExact'
  BY <1>w, <1>0, <1>1, <1>2, TypeFacts DEF WInv, OutcomeExact, Accepted, Moves, IsFrame
<1> QED
  BY <1>10, <1>11, <1>12, <1>13, <1>14, <1>15, <1>16, <1>17, <1>18, <1>19, <1>20, <1>21, <1>22,
    <1>23 DEF WInv

\* A committed send returns its outcome, or keeps it when a panic unwinds.
LEMMA SendReturnsInv ==
  ASSUME TypeOK, Borrows, WInv, NEW q \in BOOLEAN, depth > 0, top.at \in {"deregister", "drop_commit"},
         <<top.who, top.id>> \notin send_wakers, SendReturns(q),
         UNCHANGED <<chanVars, wakerVars, rfut, parked, woken, histVars>>
  PROVE  WInv'
<1> USE MpmcAssumption
<1>w. WInv
  OBVIOUS
<1>0. /\ top.op = "send" /\ top.who \in Items /\ top.todo = {}
      /\ sfut[top.who] \in {"okHeld", "errHeld"}
  BY TopFacts DEF WInv, Looking, At, Running, Shape, WInv, Points, PointOK, Guarding, SendStack,
    SendState, SendPoints
<1>1. /\ sfut' \in {sfut, [sfut EXCEPT ![top.who] = IF sfut[top.who] = "okHeld" THEN "ok" ELSE "err"]}
      /\ UNCHANGED <<queue, redelivery, senders, rxLive, closed, recv_wakers, send_wakers,
                     waker_id, parked, woken, pushed, sawNone>>
  BY DEF SendReturns, Reported, chanVars, wakerVars, taskVars, histVars
<1>2. Ends
  BY ReturnStep DEF SendReturns
<1>10. Below' /\ Points'
  BY <1>w, <1>0, <1>1, <1>2 DEF WInv, Below, Points, PointOK, Suspended, CallbackPoints,
    Guarding, Ends
<1>11. Exclusive'
  BY <1>w, <1>0, <1>1, <1>2 DEF WInv, Exclusive, MutOps, Ends
<1>12. EmptySeen' /\ Registered'
  BY <1>w, <1>0, <1>1, <1>2, TypeFacts DEF WInv, EmptySeen, Registered, IsEmpty, Reg, Below,
    Suspended, CallbackPoints, Ends
<1>13. SendStack' /\ SendIds'
  BY <1>w, <1>0, <1>1, <1>2, TypeFacts, LiveFacts DEF WInv, SendStack, SendState, SendIds,
    SendPoints, Exclusive, MutOps, Ends
<1>14. SendersLive'
  BY <1>w, <1>0, <1>1, <1>2, TypeFacts DEF WInv, SendersLive, LiveSend, Ends
<1>15. Unparked' /\ IdStack'
  BY <1>w, <1>0, <1>1, <1>2, TypeFacts, LiveFacts DEF WInv, Unparked, IdStack, Unregistered,
    Exclusive, MutOps, Ends
<1>16. RecvRegistered'
  BY <1>w, <1>0, <1>1, <1>2, TypeFacts, LiveFacts DEF WInv, RecvRegistered, Disconnected, Owed,
    Reg, Exclusive, MutOps, Points, PointOK, Ends
<1>17. Sides' /\ RecvTerminal'
  BY <1>w, <1>0, <1>1, <1>2, RegFacts DEF WInv, Sides, RecvTerminal, Disconnected, Ends
<1>18. NoOrphanWaker'
  BY <1>w, <1>0, <1>1, <1>2, TypeFacts, RegFacts DEF WInv, NoOrphanWaker, Guarded, Sides,
    IdStack, Unregistered, Points, PointOK, Ends
<1>19. SendTerminal'
  BY <1>w, <1>0, <1>1, <1>2, TypeFacts, LiveFacts, RegFacts DEF WInv, SendTerminal, Removing,
    ClosedToSend, Closing, Sides, Points, PointOK, Below, Suspended, CallbackPoints, Ends
<1>20. NoLostRecvWakeup'
  BY <1>w, <1>0, <1>1, <1>2, TypeFacts, RegFacts DEF WInv, NoLostRecvWakeup, Owed, Reg, IsEmpty,
    Disconnected, Unparked, Points, PointOK, Ends
<1>21. SendWakeup'
  BY <1>w, <1>0, <1>1, <1>2, TypeFacts DEF WInv, SendWakeup, SendWaits, Owed, Reg, IsFull,
    Closing, Unparked, Points, PointOK, Ends
<1>22. DisconnectIsFinal' /\ LastReceiverDrains'
  BY <1>w, <1>0, <1>1, <1>2, TypeFacts DEF WInv, DisconnectIsFinal, LastReceiverDrains, IsEmpty,
    Disconnected, Ends
<1>23. OutcomeExact'
  BY <1>w, <1>0, <1>1, <1>2, TypeFacts DEF WInv, OutcomeExact, Accepted, Ends
<1> QED
  BY <1>10, <1>11, <1>12, <1>13, <1>14, <1>15, <1>16, <1>17, <1>18, <1>19, <1>20, <1>21, <1>22,
    <1>23 DEF WInv

\* The redelivered item is handed out.
LEMMA TakeRedeliveredInv ==
  ASSUME TypeOK, Borrows, WInv, TakeRedelivered
  PROVE  WInv'
<1> USE MpmcAssumption
<1>w. WInv
  OBVIOUS
<1>0. /\ depth > 0 /\ top \in RawFrames /\ top.op \in TakeOps /\ top.at = "take" /\ top.todo = {}
      /\ rxLive /= {}
  BY TopFacts DEF TakeRedelivered, Looking, At, Running, Shape, WInv, Points, PointOK
<1>1. /\ redelivery /= <<>> /\ redelivery' = <<>>
      /\ UNCHANGED <<queue, senders, rxLive, closed, recv_wakers, send_wakers, waker_id, sfut,
                     parked, woken, pushed, sawNone>>
  BY DEF TakeRedelivered, Deliver, chanVars, wakerVars, taskVars, histVars
<1>2. Ends
  BY <1>0, ReturnStep DEF TakeRedelivered, Deliver
<1>10. Below' /\ Points'
  BY <1>w, <1>0, <1>1, <1>2 DEF WInv, Below, Points, PointOK, Suspended, CallbackPoints,
    Guarding, Ends, TakeOps
<1>11. Exclusive'
  BY <1>w, <1>0, <1>1, <1>2 DEF WInv, Exclusive, MutOps, Ends, TakeOps
<1>12. EmptySeen' /\ Registered'
  BY <1>w, <1>0, <1>1, <1>2, TypeFacts DEF WInv, EmptySeen, Registered, IsEmpty, Reg, Below,
    Suspended, CallbackPoints, Ends, TakeOps
<1>13. SendStack' /\ SendIds'
  BY <1>w, <1>0, <1>1, <1>2, TypeFacts, LiveFacts DEF WInv, SendStack, SendState, SendIds,
    SendPoints, Exclusive, MutOps, Ends, TakeOps
<1>14. SendersLive'
  BY <1>w, <1>0, <1>1, <1>2, TypeFacts DEF WInv, SendersLive, LiveSend, Ends, TakeOps
<1>15. Unparked' /\ IdStack'
  BY <1>w, <1>0, <1>1, <1>2, TypeFacts, LiveFacts DEF WInv, Unparked, IdStack, Unregistered,
    Exclusive, MutOps, Ends, TakeOps
<1>16. RecvRegistered'
  BY <1>w, <1>0, <1>1, <1>2, TypeFacts, LiveFacts DEF WInv, RecvRegistered, Disconnected, Owed,
    Reg, Exclusive, MutOps, Points, PointOK, Ends, TakeOps
<1>17. Sides' /\ RecvTerminal'
  BY <1>w, <1>0, <1>1, <1>2, RegFacts DEF WInv, Sides, RecvTerminal, Disconnected, Ends, TakeOps
<1>18. NoOrphanWaker'
  BY <1>w, <1>0, <1>1, <1>2, TypeFacts, RegFacts DEF WInv, NoOrphanWaker, Guarded, Sides,
    IdStack, Unregistered, Points, PointOK, Ends, TakeOps
<1>19. SendTerminal'
  BY <1>w, <1>0, <1>1, <1>2, TypeFacts, LiveFacts, RegFacts DEF WInv, SendTerminal, Removing,
    ClosedToSend, Closing, Sides, Points, PointOK, Below, Suspended, CallbackPoints, Ends,
    TakeOps
<1>20. NoLostRecvWakeup'
  BY <1>w, <1>0, <1>1, <1>2, TypeFacts, RegFacts DEF WInv, NoLostRecvWakeup, Owed, Reg, IsEmpty,
    Disconnected, Unparked, Points, PointOK, Ends, TakeOps
<1>21. SendWakeup'
  BY <1>w, <1>0, <1>1, <1>2, TypeFacts DEF WInv, SendWakeup, SendWaits, Owed, Reg, IsFull,
    Closing, Unparked, Points, PointOK, Ends, TakeOps
<1>22. DisconnectIsFinal' /\ LastReceiverDrains'
  BY <1>w, <1>0, <1>1, <1>2, TypeFacts DEF WInv, DisconnectIsFinal, LastReceiverDrains, IsEmpty,
    Disconnected, Ends, TakeOps
<1>23. OutcomeExact'
  BY <1>w, <1>0, <1>1, <1>2, TypeFacts DEF WInv, OutcomeExact, Accepted, Ends, TakeOps
<1> QED
  BY <1>10, <1>11, <1>12, <1>13, <1>14, <1>15, <1>16, <1>17, <1>18, <1>19, <1>20, <1>21, <1>22,
    <1>23 DEF WInv

\* An item is handed out of a queue nobody waits to send into.
LEMMA TakeItemInv ==
  ASSUME TypeOK, Borrows, WInv, TakeItem
  PROVE  WInv'
<1> USE MpmcAssumption
<1>w. WInv
  OBVIOUS
<1>0. /\ depth > 0 /\ top \in RawFrames /\ top.op \in TakeOps /\ top.at = "take" /\ top.todo = {}
      /\ rxLive /= {}
  BY TopFacts DEF TakeItem, Looking, At, Running, Shape, WInv, Points, PointOK
<1>1. /\ queue /= <<>> /\ queue' = Tail(queue) /\ send_wakers = {}
      /\ UNCHANGED <<redelivery, senders, rxLive, closed, recv_wakers, send_wakers, waker_id,
                     sfut, parked, woken, pushed, sawNone>>
  BY DEF TakeItem, Deliver, chanVars, wakerVars, taskVars, histVars
<1>2. Ends
  BY <1>0, ReturnStep DEF TakeItem, Deliver
<1>10. Below' /\ Points'
  BY <1>w, <1>0, <1>1, <1>2 DEF WInv, Below, Points, PointOK, Suspended, CallbackPoints,
    Guarding, Ends, TakeOps
<1>11. Exclusive'
  BY <1>w, <1>0, <1>1, <1>2 DEF WInv, Exclusive, MutOps, Ends, TakeOps
<1>12. EmptySeen' /\ Registered'
  BY <1>w, <1>0, <1>1, <1>2, TypeFacts DEF WInv, EmptySeen, Registered, IsEmpty, Reg, Below,
    Suspended, CallbackPoints, Ends, TakeOps
<1>13. SendStack' /\ SendIds'
  BY <1>w, <1>0, <1>1, <1>2, TypeFacts, LiveFacts DEF WInv, SendStack, SendState, SendIds,
    SendPoints, Exclusive, MutOps, Ends, TakeOps
<1>14. SendersLive'
  BY <1>w, <1>0, <1>1, <1>2, TypeFacts DEF WInv, SendersLive, LiveSend, Ends, TakeOps
<1>15. Unparked' /\ IdStack'
  BY <1>w, <1>0, <1>1, <1>2, TypeFacts, LiveFacts DEF WInv, Unparked, IdStack, Unregistered,
    Exclusive, MutOps, Ends, TakeOps
<1>16. RecvRegistered'
  BY <1>w, <1>0, <1>1, <1>2, TypeFacts, LiveFacts DEF WInv, RecvRegistered, Disconnected, Owed,
    Reg, Exclusive, MutOps, Points, PointOK, Ends, TakeOps
<1>17. Sides' /\ RecvTerminal'
  BY <1>w, <1>0, <1>1, <1>2, RegFacts DEF WInv, Sides, RecvTerminal, Disconnected, Ends, TakeOps
<1>18. NoOrphanWaker'
  BY <1>w, <1>0, <1>1, <1>2, TypeFacts, RegFacts DEF WInv, NoOrphanWaker, Guarded, Sides,
    IdStack, Unregistered, Points, PointOK, Ends, TakeOps
<1>19. SendTerminal'
  BY <1>w, <1>0, <1>1, <1>2, TypeFacts, LiveFacts, RegFacts DEF WInv, SendTerminal, Removing,
    ClosedToSend, Closing, Sides, Points, PointOK, Below, Suspended, CallbackPoints, Ends,
    TakeOps
<1>20. NoLostRecvWakeup'
  BY <1>w, <1>0, <1>1, <1>2, TypeFacts, RegFacts DEF WInv, NoLostRecvWakeup, Owed, Reg, IsEmpty,
    Disconnected, Unparked, Points, PointOK, Ends, TakeOps
<1>21. SendWakeup'
  BY <1>w, <1>0, <1>1, <1>2, TypeFacts DEF WInv, SendWakeup, SendWaits, Owed, Reg, IsFull,
    Closing, Unparked, Points, PointOK, Ends, TakeOps
<1>22. DisconnectIsFinal' /\ LastReceiverDrains'
  BY <1>w, <1>0, <1>1, <1>2, TypeFacts DEF WInv, DisconnectIsFinal, LastReceiverDrains, IsEmpty,
    Disconnected, Ends, TakeOps
<1>23. OutcomeExact'
  BY <1>w, <1>0, <1>1, <1>2, TypeFacts DEF WInv, OutcomeExact, Accepted, Ends, TakeOps
<1> QED
  BY <1>10, <1>11, <1>12, <1>13, <1>14, <1>15, <1>16, <1>17, <1>18, <1>19, <1>20, <1>21, <1>22,
    <1>23 DEF WInv

\* An item is taken while senders wait: all their wakers are taken.
LEMMA TakeAndWakeInv ==
  ASSUME TypeOK, Borrows, WInv, TakeAndWake
  PROVE  WInv'
<1> USE MpmcAssumption
<1>w. WInv
  OBVIOUS
<1>0. /\ depth > 0 /\ top \in RawFrames /\ top.op \in TakeOps /\ top.at = "take" /\ top.todo = {}
      /\ rxLive /= {}
  BY TopFacts DEF TakeAndWake, Looking, At, Running, Shape, WInv, Points, PointOK
<1>1. /\ queue /= <<>> /\ queue' = Tail(queue) /\ redelivery' = <<Head(queue)>> /\ send_wakers' = {}
      /\ UNCHANGED <<senders, rxLive, closed, recv_wakers, waker_id, sfut, parked, woken,
                     pushed, sawNone>>
  BY DEF TakeAndWake, chanVars, wakerVars, taskVars, histVars
<1>2. Moves(top.op, WakeAt(send_wakers), top.who, send_wakers, top.id)
  <2> DEFINE f == Waking(top, send_wakers)
  <2>1. IsFrame(f, top.op, WakeAt(send_wakers), top.who, send_wakers, top.id)
    BY <1>0, WakingAgain DEF RawFrames, IsFrame
  <2>2. Goto(f)
    BY DEF TakeAndWake
  <2> HIDE DEF f
  <2> QED BY <1>0, <2>1, <2>2, GotoStep DEF IsFrame
<1>3. WakeAt(send_wakers) \in {"woke", "wake"} /\ (WakeAt(send_wakers) = "woke" => send_wakers = {})
  BY DEF WakeAt
<1>4. top.op \in {"try_recv", "poll1", "poll2"}
  BY <1>0 DEF TakeOps
<1>10. Below' /\ Points'
  BY <1>w, <1>0, <1>1, <1>2, <1>3, <1>4 DEF WInv, Below, Points, PointOK, Suspended,
    CallbackPoints, Guarding, Moves, IsFrame
<1>11. Exclusive'
  BY <1>w, <1>0, <1>1, <1>2, <1>3, <1>4 DEF WInv, Exclusive, MutOps, Moves, IsFrame
<1>12. EmptySeen' /\ Registered'
  BY <1>w, <1>0, <1>1, <1>2, <1>3, <1>4, TypeFacts DEF WInv, EmptySeen, Registered, IsEmpty,
    Reg, Below, Suspended, CallbackPoints, Moves, IsFrame
<1>13. SendStack' /\ SendIds'
  BY <1>w, <1>0, <1>1, <1>2, <1>3, <1>4, TypeFacts, LiveFacts DEF WInv, SendStack, SendState,
    SendIds, SendPoints, Exclusive, MutOps, Moves, IsFrame
<1>14. SendersLive'
  BY <1>w, <1>0, <1>1, <1>2, <1>3, <1>4, TypeFacts DEF WInv, SendersLive, LiveSend, Moves,
    IsFrame
<1>15. Unparked' /\ IdStack'
  <2>1. Unparked'
    BY <1>w, <1>0, <1>1, <1>2, <1>3, <1>4 DEF WInv, Unparked, Exclusive, MutOps, Moves, IsFrame
  <2>2. IdStack'
    BY <1>w, <1>0, <1>1, <1>2, <1>3, <1>4, TypeFacts, LiveFacts DEF WInv, IdStack, Unregistered,
      Exclusive, MutOps, Moves, IsFrame
  <2> QED BY <2>1, <2>2
<1>16. RecvRegistered'
  <2>1. \A d \in Live : frames'[d].op = frames[d].op /\ frames'[d].who = frames[d].who
    BY <1>2 DEF Moves, IsFrame
  <2>2. \A d \in Live : frames'[d].at = "drop_unstored" => frames[d].at = "drop_unstored"
    BY <1>2, <1>3 DEF Moves, IsFrame
  <2>3. \A o : Reg(o)' = Reg(o)
    BY <1>1 DEF Reg
  <2>4. ASSUME NEW o, Owed(o) PROVE Owed(o)'
    <3>1. CASE o \in woken
      BY <1>1, <3>1 DEF Owed
    <3>2. ASSUME NEW d \in Live, Reg(o) \in frames[d].todo PROVE Owed(o)'
      BY <1>0, <1>2, <2>3, <3>2 DEF Owed, Moves, IsFrame
    <3> QED BY <2>4, <3>1, <3>2 DEF Owed
  <2> QED BY <1>w, <1>1, <1>2, <2>1, <2>2, <2>3, <2>4 DEF WInv, RecvRegistered, Disconnected,
      Moves
<1>17. Sides' /\ RecvTerminal'
  BY <1>w, <1>0, <1>1, <1>2, <1>3, <1>4, RegFacts DEF WInv, Sides, RecvTerminal, Disconnected,
    Moves, IsFrame
<1>18. NoOrphanWaker'
  BY <1>w, <1>0, <1>1, <1>2, <1>3, <1>4, TypeFacts, RegFacts DEF WInv, NoOrphanWaker, Guarded,
    Sides, IdStack, Unregistered, Points, PointOK, Moves, IsFrame
<1>19. SendTerminal'
  BY <1>w, <1>0, <1>1, <1>2, <1>3, <1>4, TypeFacts, LiveFacts, RegFacts DEF WInv, SendTerminal,
    Removing, ClosedToSend, Closing, Sides, Points, PointOK, Below, Suspended, CallbackPoints,
    Moves, IsFrame
<1>20. NoLostRecvWakeup'
  BY <1>w, <1>0, <1>1, <1>2, <1>3, <1>4, TypeFacts, RegFacts DEF WInv, NoLostRecvWakeup, Owed,
    Reg, IsEmpty, Disconnected, Unparked, Points, PointOK, Moves, IsFrame
<1>21. SendWakeup'
  <2>1. \A o : Reg(o)' = Reg(o)
    BY <1>1 DEF Reg
  <2>2. \A o : Owed(o) \/ Reg(o) \in send_wakers => Owed(o)'
    BY <1>0, <1>1, <1>2, <2>1 DEF Owed, Moves, IsFrame
  <2> QED BY <1>w, <1>1, <1>2, <2>2 DEF WInv, SendWakeup, SendWaits, Moves
<1>22. DisconnectIsFinal' /\ LastReceiverDrains'
  BY <1>w, <1>0, <1>1, <1>2, <1>3, <1>4, TypeFacts DEF WInv, DisconnectIsFinal,
    LastReceiverDrains, IsEmpty, Disconnected, Moves, IsFrame
<1>23. OutcomeExact'
  BY <1>w, <1>0, <1>1, <1>2, <1>3, <1>4, TypeFacts DEF WInv, OutcomeExact, Accepted, Moves,
    IsFrame
<1> QED
  BY <1>10, <1>11, <1>12, <1>13, <1>14, <1>15, <1>16, <1>17, <1>18, <1>19, <1>20, <1>21, <1>22,
    <1>23 DEF WInv

\* The recheck reports the disconnection of a channel it has found empty.
LEMMA RecheckDisconnectedInv ==
  ASSUME TypeOK, Borrows, WInv, RecheckDisconnected
  PROVE  WInv'
<1> USE MpmcAssumption
<1>w. WInv
  OBVIOUS
<1>0. /\ depth > 0 /\ top.op = "poll2" /\ top.at = "empty" /\ top.todo = {}
      /\ top.who \in Owners /\ top.who \notin Items
  BY TopFacts, LiveFacts DEF RecheckDisconnected, At, Running, WInv, Points, PointOK
<1>1. /\ Disconnected /\ recv_wakers' = recv_wakers \ {Reg(top.who)}
      /\ waker_id' = [waker_id EXCEPT ![top.who] = None] /\ sawNone' = TRUE
      /\ UNCHANGED <<queue, redelivery, senders, rxLive, closed, send_wakers, sfut, parked,
                     woken, pushed>>
  BY DEF RecheckDisconnected, chanVars, wakerVars, taskVars, histVars
<1>2. Ends
  BY <1>0, ReturnStep DEF RecheckDisconnected
<1>10. Below' /\ Points'
  BY <1>w, <1>0, <1>1, <1>2 DEF WInv, Below, Points, PointOK, Suspended, CallbackPoints,
    Guarding, Ends
<1>11. Exclusive'
  BY <1>w, <1>0, <1>1, <1>2 DEF WInv, Exclusive, MutOps, Ends
<1>12. EmptySeen' /\ Registered'
  BY <1>w, <1>0, <1>1, <1>2, TypeFacts DEF WInv, EmptySeen, Registered, IsEmpty, Reg, Below,
    Suspended, CallbackPoints, Ends
<1>13. SendStack' /\ SendIds'
  BY <1>w, <1>0, <1>1, <1>2, TypeFacts, LiveFacts DEF WInv, SendStack, SendState, SendIds,
    SendPoints, Exclusive, MutOps, Ends
<1>14. SendersLive'
  BY <1>w, <1>0, <1>1, <1>2, TypeFacts DEF WInv, SendersLive, LiveSend, Ends
<1>15. Unparked' /\ IdStack'
  BY <1>w, <1>0, <1>1, <1>2, TypeFacts, LiveFacts DEF WInv, Unparked, IdStack, Unregistered,
    Exclusive, MutOps, Ends
<1>16. RecvRegistered'
  BY <1>w, <1>0, <1>1, <1>2, TypeFacts, LiveFacts DEF WInv, RecvRegistered, Disconnected, Owed,
    Reg, Exclusive, MutOps, Points, PointOK, Ends
<1>17. Sides' /\ RecvTerminal'
  BY <1>w, <1>0, <1>1, <1>2, RegFacts DEF WInv, Sides, RecvTerminal, Disconnected, Ends
<1>18. NoOrphanWaker'
  BY <1>w, <1>0, <1>1, <1>2, TypeFacts, RegFacts DEF WInv, NoOrphanWaker, Guarded, Sides,
    IdStack, Unregistered, Points, PointOK, Ends, Reg
<1>19. SendTerminal'
  BY <1>w, <1>0, <1>1, <1>2, TypeFacts, LiveFacts, RegFacts DEF WInv, SendTerminal, Removing,
    ClosedToSend, Closing, Sides, Points, PointOK, Below, Suspended, CallbackPoints, Ends
<1>20. NoLostRecvWakeup'
  BY <1>w, <1>0, <1>1, <1>2, TypeFacts, RegFacts DEF WInv, NoLostRecvWakeup, Owed, Reg, IsEmpty,
    Disconnected, Unparked, Points, PointOK, Ends
<1>21. SendWakeup'
  BY <1>w, <1>0, <1>1, <1>2, TypeFacts DEF WInv, SendWakeup, SendWaits, Owed, Reg, IsFull,
    Closing, Unparked, Points, PointOK, Ends
<1>22. DisconnectIsFinal' /\ LastReceiverDrains'
  BY <1>w, <1>0, <1>1, <1>2, TypeFacts DEF WInv, DisconnectIsFinal, LastReceiverDrains, IsEmpty,
    Disconnected, Ends, EmptySeen
<1>23. OutcomeExact'
  BY <1>w, <1>0, <1>1, <1>2, TypeFacts DEF WInv, OutcomeExact, Accepted, Ends
<1> QED
  BY <1>10, <1>11, <1>12, <1>13, <1>14, <1>15, <1>16, <1>17, <1>18, <1>19, <1>20, <1>21, <1>22,
    <1>23 DEF WInv

\* A receive parks only while it is registered, or already woken, on an empty open channel.
LEMMA RecvPendingInv ==
  ASSUME TypeOK, Borrows, WInv, RecvPending
  PROVE  WInv'
<1> USE MpmcAssumption
<1>w. WInv
  OBVIOUS
<1>0. /\ depth > 0 /\ top.op = "poll2" /\ top.at = "empty" /\ top.todo = {}
      /\ top.who \in Owners /\ top.who \notin Items
  BY TopFacts, LiveFacts DEF RecvPending, At, Running, WInv, Points, PointOK
<1>1. /\ ~Disconnected /\ parked' = parked \cup {top.who}
      /\ UNCHANGED <<queue, redelivery, senders, rxLive, closed, recv_wakers, send_wakers,
                     waker_id, sfut, woken, pushed, sawNone>>
  BY DEF RecvPending, chanVars, wakerVars, taskVars, histVars
<1>2. Ends
  BY <1>0, ReturnStep DEF RecvPending
<1>10. Below' /\ Points'
  BY <1>w, <1>0, <1>1, <1>2 DEF WInv, Below, Points, PointOK, Suspended, CallbackPoints,
    Guarding, Ends
<1>11. Exclusive'
  BY <1>w, <1>0, <1>1, <1>2 DEF WInv, Exclusive, MutOps, Ends
<1>12. EmptySeen' /\ Registered'
  BY <1>w, <1>0, <1>1, <1>2, TypeFacts DEF WInv, EmptySeen, Registered, IsEmpty, Reg, Below,
    Suspended, CallbackPoints, Ends
<1>13. SendStack' /\ SendIds'
  BY <1>w, <1>0, <1>1, <1>2, TypeFacts, LiveFacts DEF WInv, SendStack, SendState, SendIds,
    SendPoints, Exclusive, MutOps, Ends
<1>14. SendersLive'
  BY <1>w, <1>0, <1>1, <1>2, TypeFacts DEF WInv, SendersLive, LiveSend, Ends
<1>15. Unparked' /\ IdStack'
  BY <1>w, <1>0, <1>1, <1>2, TypeFacts, LiveFacts DEF WInv, Unparked, IdStack, Unregistered,
    Exclusive, MutOps, Ends
<1>16. RecvRegistered'
  BY <1>w, <1>0, <1>1, <1>2, TypeFacts, LiveFacts DEF WInv, RecvRegistered, Disconnected, Owed,
    Reg, Exclusive, MutOps, Points, PointOK, Ends
<1>17. Sides' /\ RecvTerminal'
  BY <1>w, <1>0, <1>1, <1>2, RegFacts DEF WInv, Sides, RecvTerminal, Disconnected, Ends
<1>18. NoOrphanWaker'
  BY <1>w, <1>0, <1>1, <1>2, TypeFacts, RegFacts DEF WInv, NoOrphanWaker, Guarded, Sides,
    IdStack, Unregistered, Points, PointOK, Ends
<1>19. SendTerminal'
  BY <1>w, <1>0, <1>1, <1>2, TypeFacts, LiveFacts, RegFacts DEF WInv, SendTerminal, Removing,
    ClosedToSend, Closing, Sides, Points, PointOK, Below, Suspended, CallbackPoints, Ends
<1>20. NoLostRecvWakeup'
  BY <1>w, <1>0, <1>1, <1>2, TypeFacts, RegFacts DEF WInv, NoLostRecvWakeup, Owed, Reg, IsEmpty,
    Disconnected, Unparked, Points, PointOK, Ends, RecvRegistered, EmptySeen
<1>21. SendWakeup'
  BY <1>w, <1>0, <1>1, <1>2, TypeFacts DEF WInv, SendWakeup, SendWaits, Owed, Reg, IsFull,
    Closing, Unparked, Points, PointOK, Ends
<1>22. DisconnectIsFinal' /\ LastReceiverDrains'
  BY <1>w, <1>0, <1>1, <1>2, TypeFacts DEF WInv, DisconnectIsFinal, LastReceiverDrains, IsEmpty,
    Disconnected, Ends
<1>23. OutcomeExact'
  BY <1>w, <1>0, <1>1, <1>2, TypeFacts DEF WInv, OutcomeExact, Accepted, Ends
<1> QED
  BY <1>10, <1>11, <1>12, <1>13, <1>14, <1>15, <1>16, <1>17, <1>18, <1>19, <1>20, <1>21, <1>22,
    <1>23 DEF WInv

\* A completed Recv that is polled wakes its own task.
LEMMA AfterDropDoneInv ==
  ASSUME TypeOK, Borrows, WInv, NEW p \in Panics, AfterDropDone(p), ~p
  PROVE  WInv'
<1> USE MpmcAssumption
<1>w. WInv
  OBVIOUS
<1>0. /\ depth > 0 /\ top.op = "recv_done" /\ top.at = "drop_done" /\ top.todo = {}
      /\ top.who \in Owners /\ top.who \notin Items
  BY TopFacts, LiveFacts DEF AfterDropDone, Shape, At, Running, WInv, Points, PointOK
<1>1. /\ parked' = parked \cup {top.who} /\ woken' = woken \cup {top.who}
      /\ UNCHANGED <<queue, redelivery, senders, rxLive, closed, recv_wakers, send_wakers,
                     waker_id, sfut, pushed, sawNone>>
  BY DEF AfterDropDone, SelfWake, chanVars, wakerVars, taskVars, histVars
<1>2. Ends
  BY <1>0, ReturnStep DEF AfterDropDone
<1>10. Below' /\ Points'
  BY <1>w, <1>0, <1>1, <1>2 DEF WInv, Below, Points, PointOK, Suspended, CallbackPoints,
    Guarding, Ends
<1>11. Exclusive'
  BY <1>w, <1>0, <1>1, <1>2 DEF WInv, Exclusive, MutOps, Ends
<1>12. EmptySeen' /\ Registered'
  BY <1>w, <1>0, <1>1, <1>2, TypeFacts DEF WInv, EmptySeen, Registered, IsEmpty, Reg, Below,
    Suspended, CallbackPoints, Ends
<1>13. SendStack' /\ SendIds'
  BY <1>w, <1>0, <1>1, <1>2, TypeFacts, LiveFacts DEF WInv, SendStack, SendState, SendIds,
    SendPoints, Exclusive, MutOps, Ends
<1>14. SendersLive'
  BY <1>w, <1>0, <1>1, <1>2, TypeFacts DEF WInv, SendersLive, LiveSend, Ends
<1>15. Unparked' /\ IdStack'
  BY <1>w, <1>0, <1>1, <1>2, TypeFacts, LiveFacts DEF WInv, Unparked, IdStack, Unregistered,
    Exclusive, MutOps, Ends
<1>16. RecvRegistered'
  BY <1>w, <1>0, <1>1, <1>2, TypeFacts, LiveFacts DEF WInv, RecvRegistered, Disconnected, Owed,
    Reg, Exclusive, MutOps, Points, PointOK, Ends
<1>17. Sides' /\ RecvTerminal'
  BY <1>w, <1>0, <1>1, <1>2, RegFacts DEF WInv, Sides, RecvTerminal, Disconnected, Ends
<1>18. NoOrphanWaker'
  BY <1>w, <1>0, <1>1, <1>2, TypeFacts, RegFacts DEF WInv, NoOrphanWaker, Guarded, Sides,
    IdStack, Unregistered, Points, PointOK, Ends
<1>19. SendTerminal'
  BY <1>w, <1>0, <1>1, <1>2, TypeFacts, LiveFacts, RegFacts DEF WInv, SendTerminal, Removing,
    ClosedToSend, Closing, Sides, Points, PointOK, Below, Suspended, CallbackPoints, Ends
<1>20. NoLostRecvWakeup'
  BY <1>w, <1>0, <1>1, <1>2, TypeFacts, RegFacts DEF WInv, NoLostRecvWakeup, Owed, Reg, IsEmpty,
    Disconnected, Unparked, Points, PointOK, Ends
<1>21. SendWakeup'
  BY <1>w, <1>0, <1>1, <1>2, TypeFacts DEF WInv, SendWakeup, SendWaits, Owed, Reg, IsFull,
    Closing, Unparked, Points, PointOK, Ends
<1>22. DisconnectIsFinal' /\ LastReceiverDrains'
  BY <1>w, <1>0, <1>1, <1>2, TypeFacts DEF WInv, DisconnectIsFinal, LastReceiverDrains, IsEmpty,
    Disconnected, Ends
<1>23. OutcomeExact'
  BY <1>w, <1>0, <1>1, <1>2, TypeFacts DEF WInv, OutcomeExact, Accepted, Ends
<1> QED
  BY <1>10, <1>11, <1>12, <1>13, <1>14, <1>15, <1>16, <1>17, <1>18, <1>19, <1>20, <1>21, <1>22,
    <1>23 DEF WInv

\* add_recv_waker stores the waker of a receive whose old one is gone.
LEMMA StoreRecvInv ==
  ASSUME TypeOK, Borrows, WInv, NEW k \in WakerIds, At("clone_recv"), StoreRecv(top.who, k), ~Disconnected,
         UNCHANGED <<chanVars, send_wakers, taskVars, histVars>>
  PROVE  WInv'
<1> USE MpmcAssumption
<1>w. WInv
  OBVIOUS
<1>0. /\ depth > 0 /\ top \in RawFrames /\ top.op = "poll1" /\ top.at = "clone_recv" /\ top.todo = {}
      /\ top.who \in Owners /\ top.who \notin Items /\ rxLive /= {}
  BY TopFacts, LiveFacts DEF Shape, TakeOps, At, Running, WInv, Points, PointOK
<1>1. /\ recv_wakers' = recv_wakers \cup {<<top.who, k>>}
      /\ waker_id' = [waker_id EXCEPT ![top.who] = k]
      /\ UNCHANGED <<queue, redelivery, senders, rxLive, closed, send_wakers, sfut, parked,
                     woken, pushed, sawNone>>
  BY DEF StoreRecv, chanVars, wakerVars, taskVars, histVars
<1>2. Moves("poll2", "take", top.who, {}, top.id)
  <2> DEFINE f == [top EXCEPT !.op = "poll2", !.at = "take"]
  <2>1. IsFrame(f, "poll2", "take", top.who, {}, top.id)
    BY <1>0, WakingAgain DEF RawFrames, IsFrame
  <2>2. Goto(f)
    BY DEF StoreRecv
  <2> HIDE DEF f
  <2> QED BY <1>0, <2>1, <2>2, GotoStep DEF IsFrame
<1>5. \A o \in Owners \ {top.who} : Reg(o)' = Reg(o) /\ (Owed(o) => Owed(o)')
  <2>1. \A o \in Owners \ {top.who} : Reg(o)' = Reg(o)
    BY <1>0, <1>1, TypeFacts DEF Reg
  <2>2. woken' = woken /\ Live' = Live /\ \A d \in Live : frames[d].todo \subseteq frames'[d].todo
    BY <1>0, <1>1, <1>2 DEF Moves, IsFrame
  <2> QED BY <2>1, <2>2 DEF Owed
<1>3. \A d \in Live : frames[d].op /= "receiver_drop"
  BY <1>0 DEF Borrows, FrameBorrows
<1>10. Below' /\ Points'
  BY <1>w, <1>0, <1>1, <1>2, <1>3 DEF WInv, Below, Points, PointOK, Suspended, CallbackPoints,
    Guarding, Moves, IsFrame
<1>11. Exclusive'
  BY <1>w, <1>0, <1>1, <1>2, <1>3 DEF WInv, Exclusive, MutOps, Moves, IsFrame
<1>12. EmptySeen' /\ Registered'
  BY <1>w, <1>0, <1>1, <1>2, <1>3, TypeFacts DEF WInv, EmptySeen, Registered, IsEmpty, Reg,
    Below, Suspended, CallbackPoints, Moves, IsFrame
<1>13. SendStack' /\ SendIds'
  BY <1>w, <1>0, <1>1, <1>2, <1>3, TypeFacts, LiveFacts DEF WInv, SendStack, SendState, SendIds,
    SendPoints, Exclusive, MutOps, Moves, IsFrame
<1>14. SendersLive'
  BY <1>w, <1>0, <1>1, <1>2, <1>3, TypeFacts DEF WInv, SendersLive, LiveSend, Moves, IsFrame
<1>15. Unparked' /\ IdStack'
  <2>1. Unparked'
    BY <1>w, <1>0, <1>1, <1>2, <1>3 DEF WInv, Unparked, Exclusive, MutOps, Moves, IsFrame
  <2>2. IdStack'
    BY <1>w, <1>0, <1>1, <1>2, <1>3, TypeFacts, LiveFacts DEF WInv, IdStack, Unregistered,
      Exclusive, MutOps, Moves, IsFrame, SendPoints
  <2> QED BY <2>1, <2>2
<1>16. RecvRegistered'
  <2>1. ASSUME NEW d \in Live, d /= depth, frames[d].op = "poll2", NEW o, o = frames[d].who
        PROVE Reg(o)' \in recv_wakers' \/ Owed(o)'
    <3>1. o \in Owners \ {top.who}
      BY <1>w, <1>0, <1>2, <2>1, LiveFacts DEF WInv, Exclusive, MutOps, Moves
    <3> QED BY <1>w, <1>1, <1>5, <2>1, <3>1 DEF WInv, RecvRegistered
  <2>2. \A o : o = top.who => Reg(o)' \in recv_wakers'
    BY <1>0, <1>1, TypeFacts DEF Reg
  <2>3. \A d \in Live : frames[d].at /= "drop_unstored"
    BY <1>w DEF WInv, RecvRegistered
  <2> QED BY <1>2, <2>1, <2>2, <2>3 DEF RecvRegistered, Moves, IsFrame
<1>17. Sides' /\ RecvTerminal'
  BY <1>w, <1>0, <1>1, <1>2, <1>3, RegFacts DEF WInv, Sides, RecvTerminal, Disconnected, Moves,
    IsFrame
<1>18. NoOrphanWaker'
  BY <1>w, <1>0, <1>1, <1>2, <1>3, TypeFacts, RegFacts DEF WInv, NoOrphanWaker, Guarded, Sides,
    IdStack, Unregistered, Points, PointOK, Moves, IsFrame
<1>19. SendTerminal'
  BY <1>w, <1>0, <1>1, <1>2, <1>3, TypeFacts, LiveFacts, RegFacts DEF WInv, SendTerminal,
    Removing, ClosedToSend, Closing, Sides, Points, PointOK, Below, Suspended, CallbackPoints,
    Moves, IsFrame
<1>20. NoLostRecvWakeup'
  BY <1>w, <1>0, <1>1, <1>2, <1>3, TypeFacts, RegFacts DEF WInv, NoLostRecvWakeup, Owed, Reg,
    IsEmpty, Disconnected, Unparked, Points, PointOK, Moves, IsFrame
<1>21. SendWakeup'
  BY <1>w, <1>0, <1>1, <1>2, <1>3, TypeFacts DEF WInv, SendWakeup, SendWaits, Owed, Reg, IsFull,
    Closing, Unparked, Points, PointOK, Moves, IsFrame
<1>22. DisconnectIsFinal' /\ LastReceiverDrains'
  BY <1>w, <1>0, <1>1, <1>2, <1>3, TypeFacts DEF WInv, DisconnectIsFinal, LastReceiverDrains,
    IsEmpty, Disconnected, Moves, IsFrame
<1>23. OutcomeExact'
  BY <1>w, <1>0, <1>1, <1>2, <1>3, TypeFacts DEF WInv, OutcomeExact, Accepted, Moves, IsFrame
<1> QED
  BY <1>10, <1>11, <1>12, <1>13, <1>14, <1>15, <1>16, <1>17, <1>18, <1>19, <1>20, <1>21, <1>22,
    <1>23 DEF WInv

\* A disconnected channel stores nothing: the receive keeps an id that no entry has.
LEMMA KeepUnstoredInv ==
  ASSUME TypeOK, Borrows, WInv, NEW p \in Panics, AfterDropUnstored(p), ~p
  PROVE  WInv'
<1> USE MpmcAssumption
<1>w. WInv
  OBVIOUS
<1>0. /\ depth > 0 /\ top \in RawFrames /\ top.op = "poll1" /\ top.at = "drop_unstored" /\ top.todo = {}
      /\ top.who \in Owners /\ top.who \notin Items /\ rxLive /= {}
  BY TopFacts, LiveFacts DEF AfterDropUnstored, Shape, TakeOps, At, Running, WInv, Points,
    PointOK
<1>k. PICK k \in WakerIds : waker_id' = [waker_id EXCEPT ![top.who] = k]
  BY DEF AfterDropUnstored
<1>1. Disconnected /\ UNCHANGED <<queue, redelivery, senders, rxLive, closed, recv_wakers,
                                  send_wakers, sfut, parked, woken, pushed, sawNone>>
  BY <1>w, <1>0, TopFacts DEF AfterDropUnstored, WInv, RecvRegistered, chanVars, wakerVars,
    taskVars, histVars
<1>2. Moves("poll2", "take", top.who, {}, top.id)
  <2> DEFINE f == [top EXCEPT !.op = "poll2", !.at = "take"]
  <2>1. IsFrame(f, "poll2", "take", top.who, {}, top.id)
    BY <1>0, WakingAgain DEF RawFrames, IsFrame
  <2>2. Goto(f)
    BY DEF AfterDropUnstored
  <2> HIDE DEF f
  <2> QED BY <1>0, <2>1, <2>2, GotoStep DEF IsFrame
<1>3. \A d \in Live : frames[d].op /= "receiver_drop"
  BY <1>0 DEF Borrows, FrameBorrows
<1>10. Below' /\ Points'
  BY <1>w, <1>k, <1>0, <1>1, <1>2, <1>3 DEF WInv, Below, Points, PointOK, Suspended,
    CallbackPoints, Guarding, Moves, IsFrame
<1>11. Exclusive'
  BY <1>w, <1>k, <1>0, <1>1, <1>2, <1>3 DEF WInv, Exclusive, MutOps, Moves, IsFrame
<1>12. EmptySeen' /\ Registered'
  BY <1>w, <1>k, <1>0, <1>1, <1>2, <1>3, TypeFacts DEF WInv, EmptySeen, Registered, IsEmpty,
    Reg, Below, Suspended, CallbackPoints, Moves, IsFrame
<1>13. SendStack' /\ SendIds'
  BY <1>w, <1>k, <1>0, <1>1, <1>2, <1>3, TypeFacts, LiveFacts DEF WInv, SendStack, SendState,
    SendIds, SendPoints, Exclusive, MutOps, Moves, IsFrame
<1>14. SendersLive'
  BY <1>w, <1>k, <1>0, <1>1, <1>2, <1>3, TypeFacts DEF WInv, SendersLive, LiveSend, Moves,
    IsFrame
<1>15. Unparked' /\ IdStack'
  <2>1. Unparked'
    BY <1>w, <1>k, <1>0, <1>1, <1>2, <1>3 DEF WInv, Unparked, Exclusive, MutOps, Moves, IsFrame
  <2>2. IdStack'
    BY <1>w, <1>k, <1>0, <1>1, <1>2, <1>3, TypeFacts, LiveFacts DEF WInv, IdStack, Unregistered,
      Exclusive, MutOps, Moves, IsFrame, SendPoints
  <2> QED BY <2>1, <2>2
<1>16. RecvRegistered'
  BY <1>w, <1>k, <1>0, <1>1, <1>2, <1>3, TypeFacts, LiveFacts DEF WInv, RecvRegistered,
    Disconnected, Owed, Reg, Exclusive, MutOps, Points, PointOK, Moves, IsFrame
<1>17. Sides' /\ RecvTerminal'
  BY <1>w, <1>k, <1>0, <1>1, <1>2, <1>3, RegFacts DEF WInv, Sides, RecvTerminal, Disconnected,
    Moves, IsFrame
<1>18. NoOrphanWaker'
  BY <1>w, <1>k, <1>0, <1>1, <1>2, <1>3, TypeFacts, RegFacts DEF WInv, NoOrphanWaker, Guarded,
    Sides, IdStack, Unregistered, Points, PointOK, Moves, IsFrame, RecvTerminal
<1>19. SendTerminal'
  BY <1>w, <1>k, <1>0, <1>1, <1>2, <1>3, TypeFacts, LiveFacts, RegFacts DEF WInv, SendTerminal,
    Removing, ClosedToSend, Closing, Sides, Points, PointOK, Below, Suspended, CallbackPoints,
    Moves, IsFrame
<1>20. NoLostRecvWakeup'
  BY <1>w, <1>k, <1>0, <1>1, <1>2, <1>3, TypeFacts, RegFacts DEF WInv, NoLostRecvWakeup, Owed,
    Reg, IsEmpty, Disconnected, Unparked, Points, PointOK, Moves, IsFrame
<1>21. SendWakeup'
  BY <1>w, <1>k, <1>0, <1>1, <1>2, <1>3, TypeFacts DEF WInv, SendWakeup, SendWaits, Owed, Reg,
    IsFull, Closing, Unparked, Points, PointOK, Moves, IsFrame
<1>22. DisconnectIsFinal' /\ LastReceiverDrains'
  BY <1>w, <1>k, <1>0, <1>1, <1>2, <1>3, TypeFacts DEF WInv, DisconnectIsFinal,
    LastReceiverDrains, IsEmpty, Disconnected, Moves, IsFrame
<1>23. OutcomeExact'
  BY <1>w, <1>k, <1>0, <1>1, <1>2, <1>3, TypeFacts DEF WInv, OutcomeExact, Accepted, Moves,
    IsFrame
<1> QED
  BY <1>10, <1>11, <1>12, <1>13, <1>14, <1>15, <1>16, <1>17, <1>18, <1>19, <1>20, <1>21, <1>22,
    <1>23 DEF WInv

\* The redelivered item is dropped.
LEMMA DrainRedeliveredInv ==
  ASSUME TypeOK, Borrows, WInv, DrainRedelivered
  PROVE  WInv'
<1> USE MpmcAssumption
<1>w. WInv
  OBVIOUS
<1>0. /\ depth > 0 /\ top \in RawFrames /\ top.op = "receiver_drop" /\ top.at = "drain" /\ top.todo = {}
      /\ top.who \in Owners /\ top.who \notin Items /\ rxLive = {}
  BY TopFacts, LiveFacts DEF DrainRedelivered, Shape, At, Running, WInv, Points, PointOK
<1>1. /\ redelivery /= <<>> /\ redelivery' = <<>>
      /\ UNCHANGED <<queue, senders, rxLive, closed, recv_wakers, send_wakers, waker_id, sfut,
                     parked, woken, pushed, sawNone>>
  BY DEF DrainRedelivered, Discard, chanVars, wakerVars, taskVars, histVars
<1>2. Moves(top.op, "payload", top.who, {}, top.id)
  <2> DEFINE f == [top EXCEPT !.at = "payload"]
  <2>1. IsFrame(f, top.op, "payload", top.who, {}, top.id)
    BY <1>0, WakingAgain DEF RawFrames, IsFrame
  <2>2. Goto(f)
    BY DEF DrainRedelivered, Discard
  <2> HIDE DEF f
  <2> QED BY <1>0, <2>1, <2>2, GotoStep DEF IsFrame
<1>10. Below' /\ Points'
  BY <1>w, <1>0, <1>1, <1>2 DEF WInv, Below, Points, PointOK, Suspended, CallbackPoints,
    Guarding, Moves, IsFrame
<1>11. Exclusive'
  BY <1>w, <1>0, <1>1, <1>2 DEF WInv, Exclusive, MutOps, Moves, IsFrame
<1>12. EmptySeen' /\ Registered'
  BY <1>w, <1>0, <1>1, <1>2, TypeFacts DEF WInv, EmptySeen, Registered, IsEmpty, Reg, Below,
    Suspended, CallbackPoints, Moves, IsFrame
<1>13. SendStack' /\ SendIds'
  BY <1>w, <1>0, <1>1, <1>2, TypeFacts, LiveFacts DEF WInv, SendStack, SendState, SendIds,
    SendPoints, Exclusive, MutOps, Moves, IsFrame
<1>14. SendersLive'
  BY <1>w, <1>0, <1>1, <1>2, TypeFacts DEF WInv, SendersLive, LiveSend, Moves, IsFrame
<1>15. Unparked' /\ IdStack'
  BY <1>w, <1>0, <1>1, <1>2, TypeFacts, LiveFacts DEF WInv, Unparked, IdStack, Unregistered,
    Exclusive, MutOps, Moves, IsFrame
<1>16. RecvRegistered'
  BY <1>w, <1>0, <1>1, <1>2, TypeFacts, LiveFacts DEF WInv, RecvRegistered, Disconnected, Owed,
    Reg, Exclusive, MutOps, Points, PointOK, Moves, IsFrame
<1>17. Sides' /\ RecvTerminal'
  BY <1>w, <1>0, <1>1, <1>2, RegFacts DEF WInv, Sides, RecvTerminal, Disconnected, Moves,
    IsFrame
<1>18. NoOrphanWaker'
  BY <1>w, <1>0, <1>1, <1>2, TypeFacts, RegFacts DEF WInv, NoOrphanWaker, Guarded, Sides,
    IdStack, Unregistered, Points, PointOK, Moves, IsFrame
<1>19. SendTerminal'
  BY <1>w, <1>0, <1>1, <1>2, TypeFacts, LiveFacts, RegFacts DEF WInv, SendTerminal, Removing,
    ClosedToSend, Closing, Sides, Points, PointOK, Below, Suspended, CallbackPoints, Moves,
    IsFrame
<1>20. NoLostRecvWakeup'
  BY <1>w, <1>0, <1>1, <1>2, TypeFacts, RegFacts DEF WInv, NoLostRecvWakeup, Owed, Reg, IsEmpty,
    Disconnected, Unparked, Points, PointOK, Moves, IsFrame
<1>21. SendWakeup'
  BY <1>w, <1>0, <1>1, <1>2, TypeFacts DEF WInv, SendWakeup, SendWaits, Owed, Reg, IsFull,
    Closing, Unparked, Points, PointOK, Moves, IsFrame
<1>22. DisconnectIsFinal' /\ LastReceiverDrains'
  BY <1>w, <1>0, <1>1, <1>2, TypeFacts DEF WInv, DisconnectIsFinal, LastReceiverDrains, IsEmpty,
    Disconnected, Moves, IsFrame
<1>23. OutcomeExact'
  BY <1>w, <1>0, <1>1, <1>2, TypeFacts DEF WInv, OutcomeExact, Accepted, Moves, IsFrame
<1> QED
  BY <1>10, <1>11, <1>12, <1>13, <1>14, <1>15, <1>16, <1>17, <1>18, <1>19, <1>20, <1>21, <1>22,
    <1>23 DEF WInv

\* An item of the queue is dropped; every sender has been woken.
LEMMA DrainItemInv ==
  ASSUME TypeOK, Borrows, WInv, DrainItem
  PROVE  WInv'
<1> USE MpmcAssumption
<1>w. WInv
  OBVIOUS
<1>0. /\ depth > 0 /\ top \in RawFrames /\ top.op = "receiver_drop" /\ top.at = "drain" /\ top.todo = {}
      /\ top.who \in Owners /\ top.who \notin Items /\ rxLive = {}
  BY TopFacts, LiveFacts DEF DrainItem, Shape, At, Running, WInv, Points, PointOK
<1>1. /\ queue /= <<>> /\ queue' = Tail(queue)
      /\ UNCHANGED <<redelivery, senders, rxLive, closed, recv_wakers, send_wakers, waker_id,
                     sfut, parked, woken, pushed, sawNone>>
  BY DEF DrainItem, Discard, chanVars, wakerVars, taskVars, histVars
<1>2. Moves(top.op, "payload", top.who, {}, top.id)
  <2> DEFINE f == [top EXCEPT !.at = "payload"]
  <2>1. IsFrame(f, top.op, "payload", top.who, {}, top.id)
    BY <1>0, WakingAgain DEF RawFrames, IsFrame
  <2>2. Goto(f)
    BY DEF DrainItem, Discard
  <2> HIDE DEF f
  <2> QED BY <1>0, <2>1, <2>2, GotoStep DEF IsFrame
<1>10. Below' /\ Points'
  BY <1>w, <1>0, <1>1, <1>2 DEF WInv, Below, Points, PointOK, Suspended, CallbackPoints,
    Guarding, Moves, IsFrame
<1>11. Exclusive'
  BY <1>w, <1>0, <1>1, <1>2 DEF WInv, Exclusive, MutOps, Moves, IsFrame
<1>12. EmptySeen' /\ Registered'
  BY <1>w, <1>0, <1>1, <1>2, TypeFacts DEF WInv, EmptySeen, Registered, IsEmpty, Reg, Below,
    Suspended, CallbackPoints, Moves, IsFrame
<1>13. SendStack' /\ SendIds'
  BY <1>w, <1>0, <1>1, <1>2, TypeFacts, LiveFacts DEF WInv, SendStack, SendState, SendIds,
    SendPoints, Exclusive, MutOps, Moves, IsFrame
<1>14. SendersLive'
  BY <1>w, <1>0, <1>1, <1>2, TypeFacts DEF WInv, SendersLive, LiveSend, Moves, IsFrame
<1>15. Unparked' /\ IdStack'
  <2>1. Unparked'
    BY <1>w, <1>0, <1>1, <1>2 DEF WInv, Unparked, Exclusive, MutOps, Moves, IsFrame
  <2>2. IdStack'
    BY <1>w, <1>0, <1>1, <1>2, TypeFacts, LiveFacts DEF WInv, IdStack, Unregistered, Exclusive,
      MutOps, Moves, IsFrame
  <2> QED BY <2>1, <2>2
<1>16. RecvRegistered'
  BY <1>w, <1>0, <1>1, <1>2, TypeFacts, LiveFacts DEF WInv, RecvRegistered, Disconnected, Owed,
    Reg, Exclusive, MutOps, Points, PointOK, Moves, IsFrame
<1>17. Sides' /\ RecvTerminal'
  BY <1>w, <1>0, <1>1, <1>2, RegFacts DEF WInv, Sides, RecvTerminal, Disconnected, Moves,
    IsFrame
<1>18. NoOrphanWaker'
  <2>1. \A o, k, op : Guarded(o, k, op) => Guarded(o, k, op)'
    BY <1>0, <1>2 DEF Guarded, Moves, IsFrame
  <2> QED BY <1>w, <1>1, <2>1 DEF WInv, NoOrphanWaker
<1>19. SendTerminal'
  BY <1>w, <1>0, <1>1, <1>2 DEF WInv, SendTerminal, Removing, ClosedToSend, Closing, Moves,
    IsFrame
<1>20. NoLostRecvWakeup'
  BY <1>w, <1>0, <1>1, <1>2, TypeFacts, RegFacts DEF WInv, NoLostRecvWakeup, Owed, Reg, IsEmpty,
    Disconnected, Unparked, Points, PointOK, Moves, IsFrame
<1>21. SendWakeup'
  BY <1>w, <1>0, <1>1, <1>2, TypeFacts DEF WInv, SendWakeup, SendWaits, Owed, Reg, IsFull,
    Closing, Unparked, Points, PointOK, Moves, IsFrame
<1>22. DisconnectIsFinal' /\ LastReceiverDrains'
  BY <1>w, <1>0, <1>1, <1>2, TypeFacts DEF WInv, DisconnectIsFinal, LastReceiverDrains, IsEmpty,
    Disconnected, Moves, IsFrame
<1>23. OutcomeExact'
  BY <1>w, <1>0, <1>1, <1>2, TypeFacts DEF WInv, OutcomeExact, Accepted, Moves, IsFrame
<1> QED
  BY <1>10, <1>11, <1>12, <1>13, <1>14, <1>15, <1>16, <1>17, <1>18, <1>19, <1>20, <1>21, <1>22,
    <1>23 DEF WInv

\* The drop ends with the channel empty and removes the stream's registration.
LEMMA DrainDoneInv ==
  ASSUME TypeOK, Borrows, WInv, DrainDone
  PROVE  WInv'
<1> USE MpmcAssumption
<1>w. WInv
  OBVIOUS
<1>0. /\ depth > 0 /\ top \in RawFrames /\ top.op = "receiver_drop" /\ top.at = "drain" /\ top.todo = {}
      /\ top.who \in Owners /\ top.who \notin Items /\ rxLive = {}
  BY TopFacts, LiveFacts DEF DrainDone, Shape, At, Running, WInv, Points, PointOK
<1>1. /\ IsEmpty /\ recv_wakers' = recv_wakers \ {<<top.who, top.id>>}
      /\ UNCHANGED <<queue, redelivery, senders, rxLive, closed, send_wakers, waker_id, sfut,
                     parked, woken, pushed, sawNone>>
  BY DEF DrainDone, chanVars, wakerVars, taskVars, histVars
<1>2. Ends
  BY <1>0, ReturnStep DEF DrainDone
<1>10. Below' /\ Points'
  BY <1>w, <1>0, <1>1, <1>2 DEF WInv, Below, Points, PointOK, Suspended, CallbackPoints,
    Guarding, Ends
<1>11. Exclusive'
  BY <1>w, <1>0, <1>1, <1>2 DEF WInv, Exclusive, MutOps, Ends
<1>12. EmptySeen' /\ Registered'
  BY <1>w, <1>0, <1>1, <1>2, TypeFacts DEF WInv, EmptySeen, Registered, IsEmpty, Reg, Below,
    Suspended, CallbackPoints, Ends
<1>13. SendStack' /\ SendIds'
  BY <1>w, <1>0, <1>1, <1>2, TypeFacts, LiveFacts DEF WInv, SendStack, SendState, SendIds,
    SendPoints, Exclusive, MutOps, Ends
<1>14. SendersLive'
  BY <1>w, <1>0, <1>1, <1>2, TypeFacts DEF WInv, SendersLive, LiveSend, Ends
<1>15. Unparked' /\ IdStack'
  BY <1>w, <1>0, <1>1, <1>2, TypeFacts, LiveFacts DEF WInv, Unparked, IdStack, Unregistered,
    Exclusive, MutOps, Ends
<1>16. RecvRegistered'
  BY <1>w, <1>0, <1>1, <1>2, TypeFacts, LiveFacts, RegFacts DEF WInv, RecvRegistered,
    Disconnected, Owed, Reg, Exclusive, MutOps, Points, PointOK, Ends, IdStack, Unregistered
<1>17. Sides' /\ RecvTerminal'
  BY <1>w, <1>0, <1>1, <1>2, RegFacts DEF WInv, Sides, RecvTerminal, Disconnected, Ends
<1>18. NoOrphanWaker'
  BY <1>w, <1>0, <1>1, <1>2, TypeFacts, RegFacts DEF WInv, NoOrphanWaker, Guarded, Sides,
    IdStack, Unregistered, Points, PointOK, Ends
<1>19. SendTerminal'
  BY <1>w, <1>0, <1>1, <1>2, TypeFacts, LiveFacts, RegFacts DEF WInv, SendTerminal, Removing,
    ClosedToSend, Closing, Sides, Points, PointOK, Below, Suspended, CallbackPoints, Ends
<1>20. NoLostRecvWakeup'
  BY <1>w, <1>0, <1>1, <1>2, TypeFacts, RegFacts DEF WInv, NoLostRecvWakeup, Owed, Reg, IsEmpty,
    Disconnected, Unparked, Points, PointOK, Ends, IdStack, Unregistered
<1>21. SendWakeup'
  BY <1>w, <1>0, <1>1, <1>2, TypeFacts DEF WInv, SendWakeup, SendWaits, Owed, Reg, IsFull,
    Closing, Unparked, Points, PointOK, Ends
<1>22. DisconnectIsFinal' /\ LastReceiverDrains'
  BY <1>w, <1>0, <1>1, <1>2, TypeFacts DEF WInv, DisconnectIsFinal, LastReceiverDrains, IsEmpty,
    Disconnected, Ends
<1>23. OutcomeExact'
  BY <1>w, <1>0, <1>1, <1>2, TypeFacts DEF WInv, OutcomeExact, Accepted, Ends
<1> QED
  BY <1>10, <1>11, <1>12, <1>13, <1>14, <1>15, <1>16, <1>17, <1>18, <1>19, <1>20, <1>21, <1>22,
    <1>23 DEF WInv

-----------------------------------------------------------------------------
(* The steps that are quiet *)

\* Calls that only count handles, bind a Recv to its Receiver, or start a try_recv.
LEMMA QuietCallsInv ==
  ASSUME TypeOK, Borrows, WInv,
         \/ CloneSender \/ DropSender
         \/ \E s \in RecvFuts, r \in Receivers : NewRecv(s, r)
         \/ \E r \in Receivers : CloneReceiver(r)
  PROVE  WInv'
<1>1. UNCHANGED stackVars
  BY DEF CloneSender, DropSender, NewRecv, CloneReceiver
<1>2. senders' = 0 <=> senders = 0
  BY TypeFacts DEF CloneSender, DropSender, NewRecv, CloneReceiver, SomeSender, chanVars
<1>3. rxLive' = {} <=> rxLive = {}
  BY DEF CloneSender, DropSender, NewRecv, CloneReceiver, Shared, chanVars
<1>4. UNCHANGED <<queue, redelivery, closed, wakerVars, sfut, parked, woken, pushed, sawNone>>
  BY DEF CloneSender, DropSender, NewRecv, CloneReceiver, chanVars, taskVars, histVars
<1> QED BY <1>1, <1>2, <1>3, <1>4, SameStep, QuietStaysInv DEF Quiet

\* try_recv starts.
LEMMA TryRecvInv ==
  ASSUME TypeOK, Borrows, WInv, NEW r \in Receivers, TryRecv(r)
  PROVE  WInv'
<1> USE MpmcAssumption
<1>w. WInv
  OBVIOUS
<1>1. MayCall /\ UNCHANGED <<queue, redelivery, senders, rxLive, closed, recv_wakers,
                             send_wakers, waker_id, sfut, parked, woken, pushed, sawNone>>
  BY DEF TryRecv, chanVars, wakerVars, taskVars, histVars
<1>2. Pushes("try_recv", "take", r, {}, None)
  <2> DEFINE f == Frame("try_recv", "take", r)
  <2>1. Call(f) /\ IsFrame(f, "try_recv", "take", r, {}, None)
    BY FrameFields DEF TryRecv
  <2> HIDE DEF f
  <2> QED BY <1>1, <2>1, CallStep DEF IsFrame
<1>10. Below' /\ Points'
  BY <1>w, <1>1, <1>2 DEF WInv, Below, Points, PointOK, Suspended, CallbackPoints, Guarding,
    Pushes, IsFrame
<1>11. Exclusive'
  BY <1>w, <1>1, <1>2 DEF WInv, Exclusive, MutOps, Pushes, IsFrame
<1>12. EmptySeen' /\ Registered'
  BY <1>w, <1>1, <1>2, TypeFacts DEF WInv, EmptySeen, Registered, IsEmpty, Reg, Below,
    Suspended, CallbackPoints, Pushes, IsFrame
<1>13. SendStack' /\ SendIds'
  BY <1>w, <1>1, <1>2, TypeFacts, LiveFacts DEF WInv, SendStack, SendState, SendIds, SendPoints,
    Exclusive, MutOps, Pushes, IsFrame
<1>14. SendersLive'
  BY <1>w, <1>1, <1>2, TypeFacts DEF WInv, SendersLive, LiveSend, Pushes, IsFrame
<1>15. Unparked' /\ IdStack'
  BY <1>w, <1>1, <1>2, TypeFacts, LiveFacts DEF WInv, Unparked, IdStack, Unregistered,
    Exclusive, MutOps, Pushes, IsFrame
<1>16. RecvRegistered'
  BY <1>w, <1>1, <1>2, TypeFacts, LiveFacts DEF WInv, RecvRegistered, Disconnected, Owed, Reg,
    Exclusive, MutOps, Points, PointOK, Pushes, IsFrame
<1>17. Sides' /\ RecvTerminal'
  BY <1>w, <1>1, <1>2, RegFacts DEF WInv, Sides, RecvTerminal, Disconnected, Pushes, IsFrame
<1>18. NoOrphanWaker'
  BY <1>w, <1>1, <1>2, TypeFacts, RegFacts DEF WInv, NoOrphanWaker, Guarded, Sides, IdStack,
    Unregistered, Points, PointOK, Pushes, IsFrame
<1>19. SendTerminal'
  BY <1>w, <1>1, <1>2, TypeFacts, LiveFacts, RegFacts DEF WInv, SendTerminal, Removing,
    ClosedToSend, Closing, Sides, Points, PointOK, Below, Suspended, CallbackPoints, Pushes,
    IsFrame
<1>20. NoLostRecvWakeup'
  BY <1>w, <1>1, <1>2, TypeFacts, RegFacts DEF WInv, NoLostRecvWakeup, Owed, Reg, IsEmpty,
    Disconnected, Unparked, Points, PointOK, Pushes, IsFrame
<1>21. SendWakeup'
  BY <1>w, <1>1, <1>2, TypeFacts DEF WInv, SendWakeup, SendWaits, Owed, Reg, IsFull, Closing,
    Unparked, Points, PointOK, Pushes, IsFrame
<1>22. DisconnectIsFinal' /\ LastReceiverDrains'
  BY <1>w, <1>1, <1>2, TypeFacts DEF WInv, DisconnectIsFinal, LastReceiverDrains, IsEmpty,
    Disconnected, Pushes, IsFrame
<1>23. OutcomeExact'
  BY <1>w, <1>1, <1>2, TypeFacts DEF WInv, OutcomeExact, Accepted, Pushes, IsFrame
<1> QED
  BY <1>10, <1>11, <1>12, <1>13, <1>14, <1>15, <1>16, <1>17, <1>18, <1>19, <1>20, <1>21, <1>22,
    <1>23 DEF WInv

\* Steps of library code that only move the running call.
LEMMA QuietLibraryInv ==
  ASSUME TypeOK, Borrows, WInv,
         \/ WakesReturn \/ WakesTake \/ WakesCommit \/ WakesDrain
         \/ TakeNothing \/ TryRecvEmpty \/ PollDisconnected \/ PollRegister
  PROVE  WInv'
<1>w. WInv
  OBVIOUS
<1>d. depth > 0
  BY DEF WakesReturn, WakesTake, WakesCommit, WakesDrain, TakeNothing, TryRecvEmpty,
         PollDisconnected, PollRegister, At
<1>t. /\ top \in RawFrames /\ Shape(top)
      /\ top.at /= "wake" => top.todo = {}
      /\ \A at : IsFrame([top EXCEPT !.at = at], top.op, at, top.who, top.todo, top.id)
  BY <1>w, <1>d, TopFacts, MovedFields DEF WInv, Points, PointOK
<1>m. ASSUME NEW at, Goto([top EXCEPT !.at = at]), top.at /= "wake"
      PROVE  Moves(top.op, at, top.who, {}, top.id)
  <2> DEFINE f == [top EXCEPT !.at = at]
  <2>1. Goto(f) /\ IsFrame(f, top.op, at, top.who, {}, top.id)
    BY <1>m, <1>t
  <2> HIDE DEF f
  <2> QED BY <1>d, <2>1, GotoStep DEF IsFrame
<1>q. Quiet
  <2>1. UNCHANGED <<queue, redelivery, closed, wakerVars, sfut, parked, woken, pushed, senders,
                    rxLive>>
    BY DEF WakesReturn, WakesTake, WakesCommit, WakesDrain, TakeNothing, TryRecvEmpty,
           PollDisconnected, PollRegister, chanVars, taskVars, histVars
  <2>2. sawNone' => sawNone \/ (IsEmpty /\ Disconnected)
    BY <1>w, <1>d DEF WInv, EmptySeen, WakesReturn, WakesTake, WakesCommit, WakesDrain,
                      TakeNothing, TryRecvEmpty, PollDisconnected, PollRegister, At, histVars
  <2> QED BY <2>1, <2>2 DEF Quiet
<1>1. CASE WakesReturn
  <2>1. top.at = "woke" /\ top.op \in {"try_send", "sender_drop", "close2"} /\ Ends
    BY <1>1, <1>d, ReturnStep DEF WakesReturn, At, Running
  <2> QED BY <1>q, <2>1, QuietEndsInv
<1>2. CASE WakesTake
  <2>1. top.at = "woke" /\ top.op \in {"try_recv", "poll1", "poll2"}
    BY <1>2 DEF WakesTake, At, Running, TakeOps
  <2>2. CASE Return
    BY <1>d, <1>q, <2>1, <2>2, ReturnStep, QuietEndsInv
  <2>3. CASE Goto([top EXCEPT !.at = "take"])
    BY <1>m, <1>q, <2>1, <2>3, QuietMovesInv
  <2> QED BY <1>2, <2>2, <2>3 DEF WakesTake, TakeAgain
<1>3. CASE WakesCommit
  <2>1. top.at = "woke" /\ top.op = "send" /\ Goto([top EXCEPT !.at = "deregister"])
    BY <1>3 DEF WakesCommit, At, Running
  <2> QED BY <1>m, <1>q, <2>1, QuietMovesInv DEF SendPoints, Guarding
<1>4. CASE WakesDrain
  <2>1. top.at = "woke" /\ top.op = "receiver_drop" /\ Goto([top EXCEPT !.at = "drain"])
    BY <1>4 DEF WakesDrain, At, Running
  <2> QED BY <1>m, <1>q, <2>1, QuietMovesInv
<1>5. CASE TakeNothing
  <2>1. top.at = "take" /\ top.op /= "send" /\ IsEmpty /\ Goto([top EXCEPT !.at = "empty"])
    BY <1>5, <1>t DEF TakeNothing, At, Shape, TakeOps
  <2> QED BY <1>m, <1>q, <2>1, QuietMovesInv
<1>6. CASE TryRecvEmpty \/ PollDisconnected
  <2>1. top.at = "empty" /\ top.op \in {"try_recv", "poll1"} /\ Ends
    BY <1>6, <1>d, ReturnStep DEF TryRecvEmpty, PollDisconnected, At, Running
  <2> QED BY <1>q, <2>1, QuietEndsInv
<1>7. CASE PollRegister
  <2>1. top.at = "empty" /\ top.op = "poll1" /\ Goto([top EXCEPT !.at = "clone_recv"])
    BY <1>7 DEF PollRegister, At, Running
  <2> QED BY <1>m, <1>q, <2>1, QuietMovesInv
<1> QED BY <1>1, <1>2, <1>3, <1>4, <1>5, <1>6, <1>7

\* The end of a callback, with or without a panic.
LEMMA CallbackInv ==
  ASSUME TypeOK, Borrows, WInv, NEW p \in Panics, CallbackSteps(p)
  PROVE  WInv'
<1>w. WInv
  OBVIOUS
<1>u. ASSUME UNCHANGED <<chanVars, wakerVars, taskVars, histVars>>
      PROVE  Quiet
  BY <1>u DEF Quiet, chanVars, taskVars, histVars
<1>t. ASSUME depth > 0
      PROVE  /\ top \in RawFrames /\ Shape(top)
             /\ top.at /= "wake" => top.todo = {}
             /\ top.op = "send" /\ top.at \notin Guarding => top.id = None
  BY <1>w, <1>t, TopFacts DEF WInv, Points, PointOK
<1>m. ASSUME depth > 0, NEW at, Goto([top EXCEPT !.at = at]), top.at /= "wake"
      PROVE  Moves(top.op, at, top.who, {}, top.id)
  <2> DEFINE f == [top EXCEPT !.at = at]
  <2>1. Goto(f) /\ IsFrame(f, top.op, at, top.who, {}, top.id)
    BY <1>m, <1>t, MovedFields
  <2> HIDE DEF f
  <2> QED BY <1>m, <2>1, GotoStep DEF IsFrame
<1>1. CASE WakeNext(p)
  BY <1>1, WakeNextInv
<1>2. CASE WakeAborts(p)
  BY <1>2, <1>u, AbortInv DEF WakeAborts, WakeAborted
<1>3. CASE AfterDropOldSend(p)
  <2>1. /\ depth > 0 /\ top.at = "drop_old_send" /\ Quiet
        /\ Return \/ Goto([top EXCEPT !.at = "clone_send"])
    BY <1>3, <1>u DEF AfterDropOldSend, At
  <2>2. CASE Return
    BY <1>t, <2>1, <2>2, ReturnStep, QuietEndsInv DEF Guarding, Shape
  <2>3. CASE Goto([top EXCEPT !.at = "clone_send"])
    BY <1>m, <2>1, <2>3, QuietMovesInv DEF SendPoints, Guarding
  <2> QED BY <2>1, <2>2, <2>3
<1>4. CASE AfterCloneSend(p)
  <2>1. depth > 0 /\ top.at = "clone_send"
    BY <1>4 DEF AfterCloneSend, At
  <2>2. CASE p
    <3>1. Quiet /\ Return
      BY <1>4, <1>u, <2>2 DEF AfterCloneSend, wakerVars
    <3> QED BY <1>t, <2>1, <3>1, ReturnStep, QuietEndsInv DEF Guarding, Shape
  <2>3. CASE ~p
    <3>1. PICK k \in WakerIds : StoreSend(top.who, k)
      BY <1>4, <2>3 DEF AfterCloneSend
    <3> QED BY <1>4, <3>1, StoreSendInv DEF AfterCloneSend
  <2> QED BY <2>2, <2>3
<1>5. CASE AfterDropCommit(p)
  <2>1. depth > 0 /\ top.at = "drop_commit" /\ top.op = "send" /\ top.id = None
    BY <1>5, <1>t DEF AfterDropCommit, At, Shape, Guarding
  <2>2. CASE Abort /\ UNCHANGED sfut
    <3>1. Quiet
      BY <1>5, <2>2 DEF AfterDropCommit, Quiet, chanVars, histVars
    <3> QED BY <2>2, <3>1, AbortInv
  <2>3. CASE SendReturns(p \/ top.panicked)
    <3>1. <<top.who, top.id>> \notin send_wakers
      BY <2>1, RegFacts
    <3>2. (p \/ top.panicked) \in BOOLEAN
      OBVIOUS
    <3>3. UNCHANGED <<chanVars, wakerVars, rfut, parked, woken, histVars>>
      BY <1>5 DEF AfterDropCommit
    <3> QED BY <2>1, <2>3, <3>1, <3>2, <3>3, SendReturnsInv
  <2> QED BY <1>5, <2>2, <2>3 DEF AfterDropCommit
<1>6. CASE AfterDropOldRecv(p)
  <2>1. /\ depth > 0 /\ top.at = "drop_old_recv" /\ Quiet
        /\ Return \/ Goto([top EXCEPT !.at = "take"])
    BY <1>6, <1>u DEF AfterDropOldRecv, At
  <2>0. top.op = "poll1"
    BY <1>t, <2>1 DEF Shape
  <2>2. CASE Return
    BY <2>0, <2>1, <2>2, ReturnStep, QuietEndsInv
  <2>3. CASE Goto([top EXCEPT !.at = "take"])
    BY <1>m, <2>0, <2>1, <2>3, QuietMovesInv
  <2> QED BY <2>1, <2>2, <2>3
<1>7. CASE AfterCloneRecv(p)
  <2>1. depth > 0 /\ top.at = "clone_recv" /\ top.op = "poll1" /\ rxLive /= {}
    BY <1>7, <1>t, TopFacts DEF AfterCloneRecv, At, Shape, TakeOps
  <2>2. CASE Return /\ UNCHANGED <<recv_wakers, waker_id>>
    <3>1. Quiet
      BY <1>7, <1>u, <2>2 DEF AfterCloneRecv, wakerVars
    <3> QED BY <2>1, <2>2, <3>1, ReturnStep, QuietEndsInv
  <2>3. CASE /\ Terminal /\ Goto([top EXCEPT !.at = "drop_unstored"])
             /\ UNCHANGED <<recv_wakers, waker_id>>
    <3>1. Quiet
      BY <1>7, <1>u, <2>3 DEF AfterCloneRecv, wakerVars
    <3> QED BY <1>m, <2>1, <2>3, <3>1, QuietMovesInv DEF Terminal
  <2>4. CASE ~Terminal /\ \E k \in WakerIds : StoreRecv(top.who, k)
    <3>1. PICK k \in WakerIds : StoreRecv(top.who, k)
      BY <2>4
    <3> QED BY <1>7, <2>4, <3>1, StoreRecvInv DEF AfterCloneRecv, Terminal
  <2> QED BY <1>7, <2>2, <2>3, <2>4 DEF AfterCloneRecv
<1>8. CASE AfterDropUnstored(p)
  <2>1. depth > 0 /\ top.at = "drop_unstored" /\ top.op = "poll1"
    BY <1>8, <1>t DEF AfterDropUnstored, At, Shape
  <2>2. CASE p
    <3>1. Quiet /\ Return
      BY <1>8, <1>u, <2>2 DEF AfterDropUnstored, wakerVars
    <3> QED BY <2>1, <3>1, ReturnStep, QuietEndsInv
  <2> QED BY <1>8, <2>2, KeepUnstoredInv
<1>9. CASE AfterDropDone(p)
  <2>1. depth > 0 /\ top.at = "drop_done" /\ top.op = "recv_done"
    BY <1>9, <1>t DEF AfterDropDone, At, Shape
  <2>2. CASE p
    <3>1. Quiet /\ Return
      BY <1>9, <1>u, <2>2 DEF AfterDropDone, taskVars
    <3> QED BY <2>1, <3>1, ReturnStep, QuietEndsInv
  <2> QED BY <1>9, <2>2, AfterDropDoneInv
<1>10. CASE AfterPayload(p)
  <2> DEFINE f == [top EXCEPT !.at = "drain", !.panicked = @ \/ p]
  <2>1. depth > 0 /\ top.at = "payload" /\ top.op = "receiver_drop" /\ Quiet /\ (Abort \/ Goto(f))
    BY <1>10, <1>u, <1>t DEF AfterPayload, At, Shape
  <2>2. IsFrame(f, top.op, "drain", top.who, {}, top.id)
    BY <1>t, <2>1 DEF RawFrames, IsFrame
  <2> HIDE DEF f
  <2>3. CASE Goto(f)
    <3>1. Moves(top.op, "drain", top.who, {}, top.id)
      BY <2>1, <2>2, <2>3, GotoStep DEF IsFrame
    <3> QED BY <2>1, <3>1, QuietMovesInv
  <2> QED BY <2>1, <2>3, AbortInv
<1> QED BY <1>1, <1>2, <1>3, <1>4, <1>5, <1>6, <1>7, <1>8, <1>9, <1>10 DEF CallbackSteps

-----------------------------------------------------------------------------
(* The invariant of every reachable state, and what it implies *)

LEMMA WakersInit == Init => WInv
<1> SUFFICES ASSUME Init PROVE WInv
  OBVIOUS
<1>1. depth = 0 /\ aborted = FALSE
  BY Zenon DEF Init, StackInit
<1>2. Live = {}
  BY <1>1 DEF Live
<1>3. /\ recv_wakers = {} /\ send_wakers = {} /\ parked = {} /\ pushed = <<>>
      /\ sfut = [i \in Items |-> "new"] /\ waker_id = [o \in Owners |-> None]
  BY DEF Init
<1>4. sawNone = FALSE /\ closed = FALSE
  BY Zenon DEF Init
<1>5. senders = 1 /\ rxLive /= {}
  BY DEF Init
<1>6. Below /\ Points /\ Exclusive /\ SendStack /\ Unparked /\ IdStack /\ RecvRegistered
  BY <1>2 DEF Below, Points, Exclusive, SendStack, Unparked, IdStack, RecvRegistered
<1>7. EmptySeen /\ Registered
  BY <1>1 DEF EmptySeen, Registered
<1>8. SendIds /\ SendersLive
  BY <1>3, <1>5 DEF SendIds, SendersLive, Owners
<1>9. Sides /\ NoOrphanWaker /\ RecvTerminal /\ SendTerminal
  BY <1>3 DEF Sides, NoOrphanWaker, RecvTerminal, SendTerminal
<1>10. NoLostRecvWakeup /\ SendWakeup
  BY <1>3 DEF NoLostRecvWakeup, SendWakeup
<1>11. DisconnectIsFinal /\ LastReceiverDrains
  BY <1>4, <1>5 DEF DisconnectIsFinal, LastReceiverDrains
<1>12. OutcomeExact
  <2>1. \A i \in Items : ~Accepted(i)
    BY <1>3 DEF Accepted
  <2> QED BY <1>3, <2>1 DEF OutcomeExact
<1> QED BY <1>6, <1>7, <1>8, <1>9, <1>10, <1>11, <1>12 DEF WInv

LEMMA LibraryInv ==
  ASSUME TypeOK, Borrows, WInv, LibrarySteps
  PROVE  WInv'
<1>1. CASE WakesReturn \/ WakesTake \/ WakesCommit \/ WakesDrain \/ TakeNothing \/ TryRecvEmpty
             \/ PollDisconnected \/ PollRegister
  BY <1>1, QuietLibraryInv
<1>2. CASE CloseSenders \/ SendClosed \/ SendPush \/ SendFull \/ SendPending
  BY <1>2, CloseSendersInv, SendClosedInv, SendPushInv, SendFullInv, SendPendingInv
<1>3. CASE Deregister
  <2>1. CASE <<top.who, top.id>> \in send_wakers
    BY <1>3, <2>1, DeregisterInv
  <2>2. CASE <<top.who, top.id>> \notin send_wakers
    <3>1. depth > 0 /\ top.at = "deregister" /\ SendReturns(top.panicked)
      BY <1>3, <2>2 DEF Deregister, At
    <3>2. UNCHANGED <<chanVars, wakerVars, rfut, parked, woken, histVars>>
      BY <1>3, <2>2 DEF Deregister, wakerVars
    <3>3. top.panicked \in BOOLEAN
      BY <3>1, TopFacts DEF RawFrames
    <3> QED BY <2>2, <3>1, <3>2, <3>3, SendReturnsInv
  <2> QED BY <2>1, <2>2
<1>4. CASE TakeRedelivered \/ TakeItem \/ TakeAndWake \/ RecheckDisconnected \/ RecvPending
  BY <1>4, TakeRedeliveredInv, TakeItemInv, TakeAndWakeInv, RecheckDisconnectedInv, RecvPendingInv
<1>5. CASE DrainRedelivered \/ DrainItem \/ DrainDone
  BY <1>5, DrainRedeliveredInv, DrainItemInv, DrainDoneInv
<1> QED BY <1>1, <1>2, <1>3, <1>4, <1>5 DEF LibrarySteps

LEMMA CallsInv ==
  ASSUME TypeOK, Borrows, WInv, SendCalls \/ RecvCalls \/ ReceiverCalls \/ SenderCalls
  PROVE  WInv'
<1>1. CASE SendCalls
  BY <1>1, TrySendInv, NewSendInv, PollSendInv, ReplayOutcomeInv, DropSendInv DEF SendCalls
<1>2. CASE SenderCalls
  BY <1>2, QuietCallsInv, DropLastSenderInv, ClosingInv DEF SenderCalls, SenderClose
<1>3. CASE RecvCalls
  <2>1. ASSUME NEW s \in RecvFuts, PollRecv(s) PROVE WInv'
    BY <2>1, PollingRecvInv DEF PollRecv
  <2>2. ASSUME NEW s \in RecvFuts, PollDone(s) \/ DropRecv(s) PROVE WInv'
    BY <2>2, PollDoneInv, DropRecvInv
  <2>3. ASSUME NEW s \in RecvFuts, NEW r \in Receivers, NewRecv(s, r) PROVE WInv'
    BY <2>3, QuietCallsInv
  <2> QED BY <1>3, <2>1, <2>2, <2>3 DEF RecvCalls
<1>4. CASE ReceiverCalls
  <2>1. ASSUME NEW r \in Receivers, PollNext(r) PROVE WInv'
    BY <2>1, PollingRecvInv DEF PollNext, Borrowed
  <2>2. ASSUME NEW r \in Receivers, ReceiverClose(r) PROVE WInv'
    BY <2>2, ClosingInv DEF ReceiverClose
  <2>3. ASSUME NEW r \in Receivers, TryRecv(r) \/ DropReceiver(r) \/ DropLastReceiver(r) PROVE WInv'
    BY <2>3, TryRecvInv, DropRecvInv, DropLastReceiverInv
  <2>4. ASSUME NEW r \in Receivers, CloneReceiver(r) PROVE WInv'
    BY <2>4, QuietCallsInv
  <2> QED BY <1>4, <2>1, <2>2, <2>3, <2>4 DEF ReceiverCalls
<1> QED BY <1>1, <1>2, <1>3, <1>4

LEMMA WakersNext == TypeOK /\ Borrows /\ WInv /\ [Next]_vars => WInv'
<1> SUFFICES ASSUME TypeOK, Borrows, WInv, [Next]_vars PROVE WInv'
  OBVIOUS
<1>1. CASE SendCalls \/ RecvCalls \/ ReceiverCalls \/ SenderCalls
  BY <1>1, CallsInv
<1>2. CASE \E p \in Panics : CallbackSteps(p)
  BY <1>2, CallbackInv
<1>3. CASE LibrarySteps
  BY <1>3, LibraryInv
<1>4. CASE Over \/ UNCHANGED vars
  <2>1. Quiet /\ UNCHANGED stackVars
    BY <1>4 DEF Over, vars, Quiet, chanVars, taskVars, histVars
  <2> QED BY <2>1, SameStep, QuietStaysInv
<1> QED BY <1>1, <1>2, <1>3, <1>4 DEF Next

LEMMA Invariance == Spec => [](TypeOK /\ Borrows /\ WInv)
<1>1. Init => TypeOK /\ Borrows /\ WInv
  BY TypeInit, BorrowsInit, WakersInit
<1>2. TypeOK /\ Borrows /\ WInv /\ [Next]_vars => (TypeOK /\ Borrows /\ WInv)'
  BY TypeNext, BorrowsNext, WakersNext
<1> QED BY <1>1, <1>2, PTL DEF Spec

\* Nothing is lost of what was accepted, and a send says what became of its item:
\* Ok exactly if the item went into the channel, whatever panicked on the way.
THEOREM OutcomeCorrect == Spec => []OutcomeExact
<1>1. WInv => OutcomeExact
  BY DEF WInv
<1> QED BY <1>1, Invariance, PTL

\* No receive, Recv or Stream, is left parked on a channel that has an item or a
\* disconnection for it.
THEOREM RecvWakeupCorrect == Spec => []NoLostRecvWakeup
<1>1. WInv => NoLostRecvWakeup
  BY DEF WInv
<1> QED BY <1>1, Invariance, PTL

\* No send is left parked on a channel that has room or is closed to it.
THEOREM SendWakeupCorrect == Spec => []NoLostSendWakeup
<1>1. WInv => NoLostSendWakeup
  BY DEF WInv, SendWakeup, SendWaits, NoLostSendWakeup, ClosedToSend
<1> QED BY <1>1, Invariance, PTL

\* Every registration has an owner, or a guard on the stack, that removes it.
THEOREM OrphanCorrect == Spec => []NoOrphanWaker
<1>1. WInv => NoOrphanWaker
  BY DEF WInv
<1> QED BY <1>1, Invariance, PTL

\* A channel that is over keeps no waker alive.
THEOREM TerminalCorrect == Spec => []TerminalKeepsNoWaker
<1>1. ASSUME WInv, depth = 0 PROVE Live = {}
  BY <1>1 DEF Live
<1>2. WInv => TerminalKeepsNoWaker
  BY <1>1 DEF WInv, RecvTerminal, SendTerminal, Removing, Closing, TerminalKeepsNoWaker
<1> QED BY <1>2, Invariance, PTL

\* Neither does a future that has completed.
THEOREM CompletedCorrect == Spec => []CompletedKeepsNoWaker
<1>1. ASSUME TypeOK, WInv PROVE CompletedKeepsNoWaker
  <2>1. ASSUME NEW k \in WakerIds, NEW s \in RecvFuts, RecvTerminated(s), <<s, k>> \in recv_wakers
        PROVE  FALSE
    <3>1. waker_id[s] = None /\ k /= None
      BY <2>1, MpmcAssumption DEF RecvTerminated
    <3>2. Guarded(s, k, "receiver_drop")
      BY <1>1, <2>1, <3>1 DEF WInv, NoOrphanWaker
    <3> QED BY <2>1, <3>2, LiveFacts, <1>1, MpmcAssumption DEF Guarded, Frames, Shape
  <2>2. ASSUME NEW k \in WakerIds, NEW i \in Items, <<i, k>> \in send_wakers,
               SendTerminated(i) \/ (sfut[i] \in {"okHeld", "errHeld"} /\ ~Busy(i))
        PROVE  FALSE
    <3>1. waker_id[i] = None /\ k /= None
      BY <1>1, <2>2, MpmcAssumption DEF WInv, SendIds, SendTerminated
    <3>2. Guarded(i, k, "send")
      BY <1>1, <2>2, <3>1 DEF WInv, NoOrphanWaker
    <3>3. PICK d \in Live : frames[d].op = "send" /\ frames[d].who = i
      BY <3>2 DEF Guarded
    <3> QED BY <1>1, <2>2, <3>3 DEF WInv, SendStack, SendState, SendTerminated, Busy
  <2> QED BY <2>1, <2>2 DEF CompletedKeepsNoWaker
<1> QED BY <1>1, Invariance, PTL

\* A receive that reported disconnection never has to be taken back.
THEOREM DisconnectCorrect == Spec => []DisconnectIsFinal
<1>1. WInv => DisconnectIsFinal
  BY DEF WInv
<1> QED BY <1>1, Invariance, PTL

\* The last Receiver's drop empties the channel even when payloads panic.
THEOREM DrainCorrect == Spec => []LastReceiverDrains
<1>1. WInv => LastReceiverDrains
  BY DEF WInv
<1> QED BY <1>1, Invariance, PTL

-----------------------------------------------------------------------------
(* A terminated stream stays dry *)

\* Nothing goes into a channel that is disconnected and nothing comes out of an empty one.
LEMMA DryStep ==
  ASSUME TypeOK, Borrows, WInv, Next, Disconnected, IsEmpty
  PROVE  Disconnected' /\ IsEmpty' /\ delivered' = delivered
<1>1. senders \in Nat /\ (senders = 0 => \A i \in Items : ~LiveSend(i))
  BY TypeFacts DEF WInv, SendersLive
<1>2. CASE SendCalls \/ RecvCalls \/ ReceiverCalls \/ SenderCalls
  <2>1. CASE SendCalls
    <3>1. ~\E i \in Items : TrySend(i)
      BY <1>1 DEF TrySend, ClosedToSend, SomeSender, Disconnected
    <3>2. UNCHANGED <<chanVars, histVars>>
      BY <2>1, <3>1 DEF SendCalls, NewSend, PollSend, ReplayOutcome, DropSend
    <3> QED BY <3>2 DEF Disconnected, IsEmpty, chanVars, histVars
  <2>2. CASE SenderCalls
    <3>1. UNCHANGED <<queue, redelivery, delivered>>
      BY <2>2 DEF SenderCalls, CloneSender, DropSender, DropLastSender, SenderClose, ClosingVia,
        histVars
    <3>2. Disconnected'
      BY <1>1, <2>2 DEF SenderCalls, CloneSender, DropSender, DropLastSender, SenderClose,
        ClosingVia, SomeSender, Disconnected
    <3> QED BY <3>1, <3>2 DEF IsEmpty
  <2>3. CASE RecvCalls
    <3>1. UNCHANGED <<chanVars, histVars>>
      BY <2>3 DEF RecvCalls, PollRecv, PollingRecv, PollDone, DropRecv, NewRecv
    <3> QED BY <3>1 DEF Disconnected, IsEmpty, chanVars, histVars
  <2>4. CASE ReceiverCalls
    <3>1. UNCHANGED <<queue, redelivery, senders, delivered>> /\ (closed => closed')
      BY <2>4 DEF ReceiverCalls, TryRecv, PollNext, PollingRecv, CloneReceiver, ReceiverClose,
        ClosingVia, DropReceiver, DropLastReceiver, chanVars, histVars
    <3> QED BY <3>1 DEF Disconnected, IsEmpty
  <2> QED BY <1>2, <2>1, <2>2, <2>3, <2>4
<1>3. CASE \E p \in Panics : CallbackSteps(p)
  <2>1. UNCHANGED <<chanVars, histVars>>
    BY <1>3 DEF CallbackSteps, WakeNext, WakeAborts, AfterDropOldSend, AfterCloneSend,
      StoreSend, AfterDropCommit, AfterDropOldRecv, AfterCloneRecv, StoreRecv,
      AfterDropUnstored, AfterDropDone, AfterPayload
  <2> QED BY <2>1 DEF Disconnected, IsEmpty, chanVars, histVars
<1>4. ~SendPush
  <2>1. SUFFICES ASSUME SendPush PROVE FALSE
    OBVIOUS
  <2>2. depth > 0 /\ top.at \in SendPoints /\ ~closed
    BY <2>1 DEF SendPush, Looking, MayPush, ClosedToSend, SendPoints
  <2>3. top.op = "send" /\ top.who \in Items /\ sfut[top.who] = "pending"
    BY <2>2, TopFacts, LiveFacts DEF WInv, SendStack, SendState
  <2> QED BY <1>1, <2>2, <2>3 DEF LiveSend, Disconnected
<1>5. CASE LibrarySteps
  BY <1>4, <1>5 DEF LibrarySteps, WakesReturn, CloseSenders, WakesTake, WakesCommit, WakesDrain,
    SendClosed, SendFull, SendPending, Deregister, TakeRedelivered, TakeItem, Deliver,
    TakeAndWake, TakeNothing, TryRecvEmpty, PollDisconnected, PollRegister, RecheckDisconnected,
    RecvPending, DrainRedelivered, DrainItem, Discard, DrainDone, Disconnected, IsEmpty,
    chanVars, histVars
<1>6. CASE Over
  BY <1>6 DEF Over, vars, Disconnected, IsEmpty, chanVars, histVars
<1> QED BY <1>2, <1>3, <1>5, <1>6 DEF Next

\* Only a poll that holds the Receiver gives its stream an id.
LEMMA StreamIdStep ==
  ASSUME TypeOK, Borrows, WInv, Next, NEW r \in Receivers, Shared(r), waker_id[r] = None
  PROVE  waker_id'[r] = None
<1>1. r \in Owners /\ r \notin Items /\ waker_id \in [Owners -> WakerIds \cup {None}]
  BY TypeFacts
<1>2. CASE SendCalls \/ RecvCalls \/ ReceiverCalls \/ SenderCalls
  BY <1>1, <1>2 DEF SendCalls, RecvCalls, ReceiverCalls, SenderCalls, TrySend, Accept, NewSend,
    PollSend, ReplayOutcome, DropSend, CloneSender, DropSender, DropLastSender, SenderClose,
    ClosingVia, PollRecv, PollingRecv, PollDone, DropRecv, NewRecv, TryRecv, PollNext,
    CloneReceiver, ReceiverClose, DropReceiver, DropLastReceiver, wakerVars
<1>3. CASE \E p \in Panics : CallbackSteps(p)
  <2>1. PICK p \in Panics : CallbackSteps(p)
    BY <1>3
  <2>2. CASE AfterCloneSend(p)
    <3>1. depth > 0 /\ top.at \in SendPoints
      BY <2>2 DEF AfterCloneSend, At, SendPoints
    <3>2. top.who \in Items
      BY <3>1, TopFacts, LiveFacts
    <3> QED BY <1>1, <2>2, <3>2 DEF AfterCloneSend, StoreSend
  <2>3. CASE AfterCloneRecv(p) \/ AfterDropUnstored(p)
    <3>1. depth > 0 /\ top.at \in {"clone_recv", "drop_unstored"}
      BY <2>3 DEF AfterCloneRecv, AfterDropUnstored, At
    <3>2. top.who /= r
      BY <3>1, TopFacts DEF Shape, Shared, MutBorrowed
    <3> QED BY <1>1, <2>3, <3>2 DEF AfterCloneRecv, StoreRecv, AfterDropUnstored
  <2>4. CASE ~AfterCloneSend(p) /\ ~AfterCloneRecv(p) /\ ~AfterDropUnstored(p)
    BY <1>1, <2>1, <2>4 DEF CallbackSteps, WakeNext, WakeAborts, AfterDropOldSend, AfterDropCommit,
      AfterDropOldRecv, AfterDropDone, AfterPayload, wakerVars
  <2> QED BY <2>2, <2>3, <2>4
<1>4. CASE LibrarySteps
  BY <1>1, <1>4 DEF LibrarySteps, WakesReturn, CloseSenders, WakesTake, WakesCommit, WakesDrain,
    SendClosed, SendPush, Committing, SendFull, SendPending, Deregister, TakeRedelivered,
    TakeItem, Deliver, TakeAndWake, TakeNothing, TryRecvEmpty, PollDisconnected, PollRegister,
    RecheckDisconnected, RecvPending, DrainRedelivered, DrainItem, Discard, DrainDone, wakerVars
<1>5. CASE Over
  BY <1>5 DEF Over, vars, wakerVars
<1> QED BY <1>2, <1>3, <1>4, <1>5 DEF Next

\* Once is_terminated answered true for a Receiver's stream, it keeps doing so and
\* no receive gets anything.
THEOREM StreamCorrect == Spec => TerminatedStreamIsDry
<1>1. ASSUME TypeOK, Borrows, WInv, [Next]_vars
      PROVE  [\A r \in Receivers : Shared(r) /\ StreamTerminated(r) =>
                delivered' = delivered /\ (Shared(r)' => StreamTerminated(r)')]_vars
  <2> SUFFICES ASSUME Next, NEW r \in Receivers, Shared(r), StreamTerminated(r)
               PROVE  delivered' = delivered /\ (Shared(r)' => StreamTerminated(r)')
    BY <1>1
  <2>1. Disconnected' /\ IsEmpty' /\ delivered' = delivered
    BY <1>1, DryStep DEF StreamTerminated
  <2>2. waker_id'[r] = None
    BY <1>1, StreamIdStep DEF StreamTerminated
  <2> QED BY <2>1, <2>2 DEF StreamTerminated
<1> QED BY <1>1, Invariance, PTL DEF Spec, TerminatedStreamIsDry

-----------------------------------------------------------------------------
(* The channel implements the abstract one *)

\* The items between senders and receivers, the redelivered one first.
buffer == redelivery \o queue

LEMMA Stutter ==
  ASSUME UNCHANGED <<queue, redelivery, closed>>,
         senders' > 0 <=> senders > 0, rxLive' = {} <=> rxLive = {}
  PROVE  UNCHANGED Ch!vars
BY DEF Ch!vars

LEMMA AcceptChannel ==
  ASSUME TypeOK, NEW i \in Items, senders > 0, rxLive /= {}, ~closed, ~IsFull, Accept(i),
         UNCHANGED <<redelivery, senders, rxLive, closed>>
  PROVE  Ch!Next
<1>1. queue \in Seq(Items) /\ redelivery \in Seq(Items) /\ Len(redelivery) <= 1
  BY DEF TypeOK, ChanType
<1>2. buffer' = Append(buffer, i)
  BY <1>1 DEF Accept, buffer
<1>3. Bounded => Len(buffer) <= Cap
  <2>1. Len(buffer) = Len(redelivery) + Len(queue) /\ Len(queue) \in Nat /\ Len(redelivery) \in Nat
    BY <1>1 DEF buffer
  <2>2. Bounded => Len(queue) <= Cap /\ Len(queue) /= Cap
    BY DEF TypeOK, ChanType, IsFull
  <2> QED BY <1>1, <2>1, <2>2, MpmcAssumption
<1>4. Ch!Send(i)
  BY <1>2, <1>3 DEF Ch!Send, buffer
<1> QED BY <1>4 DEF Ch!Next

\* An item leaves in front, to a receiver while there is one and dropped after.
LEMMA LeaveChannel ==
  ASSUME buffer /= <<>>, buffer' = Tail(buffer), UNCHANGED <<senders, rxLive, closed>>
  PROVE  Ch!Next
<1>1. CASE rxLive /= {}
  BY <1>1 DEF Ch!Next, Ch!Receive, buffer
<1>2. CASE rxLive = {}
  BY <1>2 DEF Ch!Next, Ch!Discard, buffer
<1> QED BY <1>1, <1>2

LEMMA CallsChannel ==
  ASSUME TypeOK, SendCalls \/ RecvCalls \/ ReceiverCalls \/ SenderCalls
  PROVE  [Ch!Next]_(Ch!vars)
<1>1. ASSUME NEW i \in Items, TrySend(i) PROVE Ch!Next
  BY <1>1, AcceptChannel DEF TrySend, SomeSender, ClosedToSend
<1>2. ASSUME NEW i \in Items, NewSend(i) \/ PollSend(i) \/ ReplayOutcome(i) \/ DropSend(i)
      PROVE  UNCHANGED Ch!vars
  BY <1>2, Stutter DEF NewSend, PollSend, ReplayOutcome, DropSend, chanVars
<1>3. CASE RecvCalls
  BY <1>3, Stutter DEF RecvCalls, PollRecv, PollingRecv, PollDone, DropRecv, NewRecv, chanVars
<1>4. CASE CloneSender \/ DropSender
  BY <1>4, Stutter, TypeFacts DEF CloneSender, DropSender, SomeSender
<1>5. CASE DropLastSender
  <2>1. Ch!LastSenderLeaves
    BY <1>5 DEF DropLastSender, Ch!LastSenderLeaves
  <2> QED BY <2>1 DEF Ch!Next
<1>6. ASSUME NEW who, ~closed, ClosingVia(who) PROVE Ch!Next
  <2>1. Ch!Close
    BY <1>6 DEF ClosingVia, Ch!Close
  <2> QED BY <2>1 DEF Ch!Next
<1>7. ASSUME NEW r \in Receivers, TryRecv(r) \/ PollNext(r) \/ CloneReceiver(r) \/ DropReceiver(r)
      PROVE  UNCHANGED Ch!vars
  BY <1>7, Stutter DEF TryRecv, PollNext, PollingRecv, CloneReceiver, Shared, DropReceiver, chanVars
<1>8. ASSUME NEW r \in Receivers, DropLastReceiver(r) PROVE Ch!Next
  <2>1. Ch!LastReceiverLeaves
    BY <1>8 DEF DropLastReceiver, Ch!LastReceiverLeaves
  <2> QED BY <2>1 DEF Ch!Next
<1>9. CASE SendCalls
  BY <1>1, <1>2, <1>9 DEF SendCalls
<1>10. CASE SenderCalls
  BY <1>4, <1>5, <1>6, <1>10 DEF SenderCalls, SenderClose, ClosedToSend
<1>11. CASE ReceiverCalls
  BY <1>6, <1>7, <1>8, <1>11 DEF ReceiverCalls, ReceiverClose, Disconnected
<1> QED BY <1>3, <1>9, <1>10, <1>11

LEMMA LibraryChannel ==
  ASSUME TypeOK, Borrows, WInv, LibrarySteps
  PROVE  [Ch!Next]_(Ch!vars)
<1>q. queue \in Seq(Items) /\ redelivery \in Seq(Items) /\ Len(redelivery) <= 1
  BY DEF TypeOK, ChanType
<1>1. CASE SendPush
  <2>1. depth > 0 /\ top.at \in SendPoints /\ ~closed /\ rxLive /= {} /\ ~IsFull
    BY <1>1 DEF SendPush, Looking, MayPush, ClosedToSend, SendPoints
  <2>2. top.who \in Items /\ sfut[top.who] = "pending"
    BY <2>1, TopFacts, LiveFacts DEF WInv, SendStack, SendState
  <2>3. senders > 0
    BY <2>2, TypeFacts DEF WInv, SendersLive, LiveSend
  <2> QED BY <1>1, <2>1, <2>2, <2>3, AcceptChannel DEF SendPush
<1>2. CASE TakeRedelivered \/ DrainRedelivered
  <2>1. redelivery /= <<>> /\ redelivery' = <<>> /\ UNCHANGED <<queue, senders, rxLive, closed>>
    BY <1>2 DEF TakeRedelivered, Deliver, DrainRedelivered, Discard
  <2>2. redelivery = <<Head(redelivery)>>
    BY <1>q, <2>1, FullSlot
  <2>3. <<Head(redelivery)>> \o queue /= <<>> /\ Tail(<<Head(redelivery)>> \o queue) = queue
    BY <1>q, <2>1
  <2>4. buffer /= <<>> /\ buffer' = Tail(buffer)
    BY <1>q, <2>1, <2>2, <2>3 DEF buffer
  <2> QED BY <2>1, <2>4, LeaveChannel
<1>3. CASE TakeItem \/ DrainItem
  <2>1. /\ redelivery = <<>> /\ queue /= <<>> /\ queue' = Tail(queue)
        /\ UNCHANGED <<redelivery, senders, rxLive, closed>>
    BY <1>3 DEF TakeItem, Deliver, DrainItem, Discard
  <2>2. buffer /= <<>> /\ buffer' = Tail(buffer)
    BY <1>q, <2>1 DEF buffer
  <2> QED BY <2>1, <2>2, LeaveChannel
<1>4. CASE TakeAndWake
  <2>1. /\ redelivery = <<>> /\ queue /= <<>> /\ queue' = Tail(queue) /\ redelivery' = <<Head(queue)>>
        /\ UNCHANGED <<senders, rxLive, closed>>
    BY <1>4 DEF TakeAndWake
  <2>2. buffer' = buffer
    BY <1>q, <2>1, HeadThenTail DEF buffer
  <2> QED BY <2>1, <2>2 DEF Ch!vars, buffer
<1>5. CASE WakesReturn \/ CloseSenders \/ WakesTake \/ WakesCommit \/ WakesDrain
             \/ SendClosed \/ SendFull \/ SendPending \/ Deregister
  BY <1>5, Stutter DEF WakesReturn, CloseSenders, WakesTake, WakesCommit, WakesDrain,
                       SendClosed, SendFull, SendPending, Deregister, chanVars
<1>6. CASE TakeNothing \/ TryRecvEmpty \/ PollDisconnected \/ PollRegister
             \/ RecheckDisconnected \/ RecvPending \/ DrainDone
  BY <1>6, Stutter DEF TakeNothing, TryRecvEmpty, PollDisconnected, PollRegister,
                       RecheckDisconnected, RecvPending, DrainDone, chanVars
<1> QED BY <1>1, <1>2, <1>3, <1>4, <1>5, <1>6 DEF LibrarySteps

LEMMA StepSimulation == TypeOK /\ Borrows /\ WInv /\ [Next]_vars => [Ch!Next]_(Ch!vars)
<1> SUFFICES ASSUME TypeOK, Borrows, WInv, [Next]_vars PROVE [Ch!Next]_(Ch!vars)
  OBVIOUS
<1>1. CASE SendCalls \/ RecvCalls \/ ReceiverCalls \/ SenderCalls
  BY <1>1, CallsChannel
<1>2. CASE \E p \in Panics : CallbackSteps(p)
  <2>1. UNCHANGED chanVars
    BY <1>2 DEF CallbackSteps, WakeNext, WakeAborts, AfterDropOldSend, AfterCloneSend,
      AfterDropCommit,
      AfterDropOldRecv, AfterCloneRecv, AfterDropUnstored, AfterDropDone, AfterPayload
  <2> QED BY <2>1, Stutter DEF chanVars
<1>3. CASE LibrarySteps
  BY <1>3, LibraryChannel
<1>4. CASE Over \/ UNCHANGED vars
  BY <1>4, Stutter DEF Over, vars, chanVars
<1> QED BY <1>1, <1>2, <1>3, <1>4 DEF Next

\* With futures, wakers, callbacks and panics taken away what is left is the
\* first-in first-out channel: every step is one of its steps or changes nothing.
THEOREM MpmcImplementsChannel == Spec => ImplementsChannel
<1>1. Init => Ch!Init
  <2> SUFFICES ASSUME Init PROVE Ch!Init
    OBVIOUS
  <2>1. closed = FALSE
    BY Zenon DEF Init
  <2>2. queue = <<>> /\ redelivery = <<>> /\ senders = 1 /\ rxLive /= {}
    BY DEF Init
  <2> QED BY <2>1, <2>2 DEF Ch!Init
<1> QED BY <1>1, StepSimulation, Invariance, PTL DEF Spec, ImplementsChannel, Ch!Spec

=============================================================================
