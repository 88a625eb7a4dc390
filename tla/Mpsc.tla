-------------------------------- MODULE Mpsc --------------------------------
(***************************************************************************)
(* lochan::mpsc: the multi-producer single-consumer channel of one thread. *)
(*                                                                         *)
(* One Chan, its Sender handles, the one Receiver, the Send futures and    *)
(* the Recv future or Stream through which the Receiver is polled.  Calls, *)
(* callbacks and panics are those of Reentry, as in Mpmc.                  *)
(*                                                                         *)
(* What differs from Mpmc is what makes this channel worth a model of its  *)
(* own: the consumer has one waker slot instead of a list of registrations *)
(* and a popped item lives on the stack of the receive (inHand) while the  *)
(* parked senders are woken, there is no redelivery slot.                  *)
(***************************************************************************)
EXTENDS Reentry, Sequences, FiniteSets

CONSTANTS
  Items,        \* messages; a Send future is named by the item it carries
  Tasks,        \* wakers the consumer polls with
  Rx,           \* the Receiver, as the holder of a call
  WakerIds,     \* registration ids of the senders, compared for equality only
  MaxSenders,   \* bound: Sender handles alive at once
  Bounded,      \* Flavor::Bounded or Flavor::Unbounded
  Cap,          \* capacity of Flavor::Bounded
  Toxic         \* the callbacks that may panic

ASSUME MpscAssumption ==
  /\ Bounded \in BOOLEAN
  /\ Cap \in Nat \ {0}
  /\ MaxSenders \in Nat \ {0}
  /\ WakerIds \subseteq Nat
  /\ None \notin Items \cup Tasks \cup WakerIds \cup {Rx}
  /\ Items \cap Tasks = {} /\ Rx \notin Items \cup Tasks

VARIABLES
  queue,        \* Chan.flavor
  inHand,       \* the item a receive has popped and not returned yet
  senders,      \* Chan.senders
  rxAlive,      \* Chan.receiver_alive
  closed,       \* Chan.closed
  recv_waker,   \* Chan.recv_waker
  send_wakers,  \* Chan.send_wakers
  waker_id,     \* Send.waker_id
  sfut,         \* life of each Send future, see SendStates
  rfut,         \* the Recv future: none, fresh (never polled), live (not done) or done
  parked,       \* sends, and the consumer's task, whose last poll was Pending
  woken,        \* those whose waker was called since their last poll began
  pushed,       \* history: items accepted, in order
  delivered,    \* history: items handed to the consumer, in order
  drained,      \* history: items dropped with the Receiver, in order
  lost,         \* history: popped items dropped by an unwind
  sawNone,      \* history: a receive has reported disconnection
  unplugged     \* history: a Recv that was never polled has emptied the slot since
                \* the consumer's last poll

chanVars == <<queue, senders, rxAlive, closed>>
wakerVars == <<recv_waker, send_wakers, waker_id>>
taskVars == <<sfut, rfut, parked, woken>>
histVars == <<pushed, delivered, drained, lost, sawNone, unplugged>>
vars == <<chanVars, inHand, wakerVars, taskVars, histVars, stackVars>>

(***************************************************************************)
(* new: not sent yet.  pending: the future holds the item.  okHeld and     *)
(* errHeld: done, with the outcome kept for a replay.  ok and err: done,   *)
(* the outcome was returned.  gone: dropped, or consumed by try_send.      *)
(***************************************************************************)
SendStates == {"new", "pending", "okHeld", "errHeld", "ok", "err", "gone"}

\* Of the Recv future.
RecvStates == {"none", "fresh", "live", "done"}

LiveSend(i) == sfut[i] \notin {"new", "gone"}

(***************************************************************************)
(* poll1 and poll2 are poll_recv before and after it has registered its    *)
(* waker; close and close2 are the two phases of Chan::close.              *)
(***************************************************************************)
TakeOps == {"try_recv", "poll1", "poll2"}
Ops == TakeOps \cup {"idle", "try_send", "send", "close", "close2", "sender_drop",
                     "receiver_drop"}

\* Waker clones, wakes and drops, and payload drops.
CallbackPoints == {"clone_recv", "clone_send", "wake", "drop_replaced", "drop_unstored",
                   "drop_old_send", "drop_commit", "drop_cleared", "lost_item", "payload"}
Labels == CallbackPoints \cup {"idle", "take", "empty", "woke", "first", "recheck", "drain"}

MayCall == UserCode(CallbackPoints)

-----------------------------------------------------------------------------
(* Chan: what it answers. *)

MutIsFull == Bounded /\ Len(queue) = Cap + 1
IsFull == Bounded /\ Len(queue) = Cap

Disconnected == senders = 0 \/ closed
ClosedToSend == ~rxAlive \/ closed

\* A sender's registration has an id, the consumer's waker does not.
Reg(o) == <<o, IF o \in Items THEN waker_id[o] ELSE None>>
RecvRegs == IF recv_waker = None THEN {} ELSE {<<recv_waker, None>>}

\* wake_receiver takes the waker out of the slot and calls it at once.
WakeReceiver ==
  /\ recv_waker' = None
  /\ woken' = woken \cup ({recv_waker} \ {None})

\* Ids come from a counter: a new one is held by nobody.
Held(i, k) ==
  \/ <<i, k>> \in send_wakers
  \/ waker_id[i] = k
  \/ \E d \in Live : <<i, k>> \in frames[d].todo
FreshId(i, k) == ~Held(i, k) /\ \A j \in WakerIds : j < k => Held(i, j)

-----------------------------------------------------------------------------
(* What Rust's borrows let user code do in a callback. *)

\* A Sender is borrowed by every Send future and by a try_send or close on the stack.
SenderBorrowed ==
  \/ \E i \in Items : LiveSend(i)
  \/ \E d \in Live : frames[d].op \in {"try_send", "close", "close2"} /\ frames[d].who /= Rx

\* Every receive holds the Receiver mutably, a Recv for all its life; close shares it.
RecvRunning == \E d \in Live : frames[d].op \in TakeOps
RxShared == rxAlive /\ rfut = "none" /\ ~RecvRunning
RxFree == RxShared /\ ~Busy(Rx)

-----------------------------------------------------------------------------
Init ==
  /\ queue = <<>> /\ inHand = <<>>
  /\ senders = 1 /\ rxAlive = TRUE /\ closed = FALSE
  /\ recv_waker = None /\ send_wakers = {}
  /\ waker_id = [i \in Items |-> None]
  /\ sfut = [i \in Items |-> "new"]
  /\ rfut = "none"
  /\ parked = {} /\ woken = {}
  /\ pushed = <<>> /\ delivered = <<>> /\ drained = <<>> /\ lost = {}
  /\ sawNone = FALSE /\ unplugged = FALSE
  /\ StackInit

-----------------------------------------------------------------------------
(* wake_receiver and wake_senders: the slot or the list is taken in the     *)
(* step that calls them, then every waker taken is called once, in any      *)
(* order. The consumer is woken when the call of its waker begins, a sender *)
(* when it ends and the registration is still its own: either way a poll    *)
(* from inside the call finds the waker used up.                            *)

MutWakeNext(p) ==
  /\ At("wake") /\ WakeMayEnd(p)
  /\ \E w \in top.todo :
       /\ Goto(Waking([top EXCEPT !.panicked = @ \/ p], IF p THEN {} ELSE top.todo \ {w}))
       /\ woken' = IF w[1] \in Items /\ w = Reg(w[1]) THEN woken \cup {w[1]} ELSE woken
  /\ UNCHANGED <<chanVars, inHand, wakerVars, sfut, rfut, parked, histVars>>

\* One waker's callback runs to its end.
WakeNext(p) ==
  /\ At("wake") /\ WakeMayEnd(p)
  /\ \E w \in top.todo :
       /\ Goto(Waking([top EXCEPT !.panicked = @ \/ p], top.todo \ {w}))
       /\ woken' = IF w[1] \in Items /\ w = Reg(w[1]) THEN woken \cup {w[1]} ELSE woken
  /\ UNCHANGED <<chanVars, inHand, wakerVars, sfut, rfut, parked, histVars>>

WakeAborts(p) ==
  /\ WakeAborted(p)
  /\ UNCHANGED <<chanVars, inHand, wakerVars, taskVars, histVars>>

\* Calls that end with the wakes: try_send, the last Sender's drop, close.
WakesReturn ==
  /\ At("woke") /\ Running({"try_send", "sender_drop", "close2"})
  /\ Return
  /\ UNCHANGED <<chanVars, inHand, wakerVars, taskVars, histVars>>

\* Chan::close goes on to the senders whether or not the receiver's waker panicked.
CloseSenders ==
  /\ At("woke") /\ Running({"close"})
  /\ send_wakers' = {}
  /\ Goto(Waking([top EXCEPT !.op = "close2"], send_wakers))
  /\ UNCHANGED <<chanVars, inHand, recv_waker, waker_id, taskVars, histVars>>

-----------------------------------------------------------------------------
(* Sender *)

CloneSender ==
  /\ MayCall /\ senders > 0 /\ senders < MaxSenders
  /\ senders' = senders + 1
  /\ UNCHANGED <<queue, rxAlive, closed, inHand, wakerVars, taskVars, histVars, stackVars>>

\* Not the last Sender: only the count changes.
DropSender ==
  /\ MayCall /\ senders > 1
  /\ senders' = senders - 1
  /\ UNCHANGED <<queue, rxAlive, closed, inHand, wakerVars, taskVars, histVars, stackVars>>

MutDropLastSender ==
  /\ MayCall /\ senders = 1 /\ ~SenderBorrowed
  /\ senders' = 0
  /\ UNCHANGED <<queue, rxAlive, closed, inHand, wakerVars, taskVars, histVars, stackVars>>

DropLastSender ==
  /\ MayCall /\ senders = 1 /\ ~SenderBorrowed
  /\ senders' = 0
  /\ WakeReceiver
  /\ Call(Waking(Frame("sender_drop", "woke", None), RecvRegs))
  /\ UNCHANGED <<queue, rxAlive, closed, inHand, send_wakers, waker_id, sfut, rfut, parked,
                 histVars>>

ClosingVia(who) ==
  /\ closed' = TRUE
  /\ WakeReceiver
  /\ Call(Waking(Frame("close", "woke", who), RecvRegs))
  /\ UNCHANGED <<queue, senders, rxAlive, inHand, send_wakers, waker_id, sfut, rfut, parked,
                 histVars>>

SenderClose == MayCall /\ senders > 0 /\ ~ClosedToSend /\ ClosingVia(None)

\* Chan::try_push, when there is room.
Push(i) ==
  /\ queue' = Append(queue, i)
  /\ pushed' = Append(pushed, i)
  /\ UNCHANGED <<senders, rxAlive, closed, delivered, drained, lost, sawNone, unplugged>>

\* A refused try_send hands the item back and changes nothing.
TrySend(i) ==
  /\ MayCall /\ senders > 0 /\ sfut[i] = "new"
  /\ ~ClosedToSend /\ ~IsFull
  /\ Push(i)
  /\ sfut' = [sfut EXCEPT ![i] = "gone"]
  /\ WakeReceiver
  /\ Call(Waking(Frame("try_send", "woke", i), RecvRegs))
  /\ UNCHANGED <<inHand, send_wakers, waker_id, rfut, parked>>

-----------------------------------------------------------------------------
(* The Send future *)

NewSend(i) ==
  /\ MayCall /\ senders > 0 /\ sfut[i] = "new"
  /\ sfut' = [sfut EXCEPT ![i] = "pending"]
  /\ UNCHANGED <<chanVars, inHand, wakerVars, rfut, parked, woken, histVars, stackVars>>

MutPollSend(i) ==
  /\ MayCall /\ sfut[i] \in {"pending", "okHeld"} /\ ~Busy(i)
  /\ parked' = parked \ {i} /\ woken' = woken \ {i}
  /\ Call(Frame("send", "first", i))
  /\ UNCHANGED <<chanVars, inHand, wakerVars, sfut, rfut, histVars>>

PollSend(i) ==
  /\ MayCall /\ sfut[i] = "pending" /\ ~Busy(i)
  /\ parked' = parked \ {i} /\ woken' = woken \ {i}
  /\ Call(Frame("send", "first", i))
  /\ UNCHANGED <<chanVars, inHand, wakerVars, sfut, rfut, histVars>>

Reported(st) == IF st = "okHeld" THEN "ok" ELSE "err"

\* A poll after commit unwound returns the outcome it had recorded.
ReplayOutcome(i) ==
  /\ MayCall /\ sfut[i] \in {"okHeld", "errHeld"} /\ ~Busy(i)
  /\ sfut' = [sfut EXCEPT ![i] = Reported(@)]
  /\ UNCHANGED <<chanVars, inHand, wakerVars, rfut, parked, woken, histVars, stackVars>>

\* The waker's drop and the item's come last: nothing is left to do after them.
DropSend(i) ==
  /\ MayCall /\ LiveSend(i) /\ ~Busy(i)
  /\ sfut' = [sfut EXCEPT ![i] = "gone"]
  /\ send_wakers' = send_wakers \ {Reg(i)}
  /\ waker_id' = [waker_id EXCEPT ![i] = None]
  /\ parked' = parked \ {i} /\ woken' = woken \ {i}
  /\ UNCHANGED <<chanVars, inHand, recv_waker, rfut, histVars, stackVars>>

\* Send::poll looks at the channel, on entry and again once it is registered.
Looking == ~aborted /\ depth > 0 /\ top.at \in {"first", "recheck"}

\* The registration is removed, its waker is dropped in the callback that follows.
Deregister(i) ==
  /\ send_wakers' = send_wakers \ {Reg(i)}
  /\ waker_id' = [waker_id EXCEPT ![i] = None]

SendClosed ==
  /\ Looking /\ ClosedToSend
  /\ Deregister(top.who)
  /\ IF Reg(top.who) \in send_wakers
     THEN /\ sfut' = [sfut EXCEPT ![top.who] = "errHeld"]
          /\ Goto([top EXCEPT !.at = "drop_commit"])
     ELSE /\ sfut' = [sfut EXCEPT ![top.who] = "err"]
          /\ Return
  /\ UNCHANGED <<chanVars, inHand, recv_waker, rfut, parked, woken, histVars>>

MutMayPush == (ClosedToSend => top.at = "recheck") /\ ~IsFull
MayPush == ~ClosedToSend /\ ~IsFull

\* commit records the outcome and gives the registration back before it wakes
\* the receiver.
SendPush ==
  /\ Looking /\ MayPush
  /\ Push(top.who)
  /\ sfut' = [sfut EXCEPT ![top.who] = "okHeld"]
  /\ Deregister(top.who)
  /\ IF Reg(top.who) \in send_wakers
     THEN Goto([top EXCEPT !.at = "drop_commit"]) /\ UNCHANGED <<recv_waker, woken>>
     ELSE Goto(Waking(top, RecvRegs)) /\ WakeReceiver
  /\ UNCHANGED <<inHand, rfut, parked>>

\* A panic unwinds out of commit: the outcome stays in the future, the receiver
\* is not woken.
AfterDropCommit(p) ==
  /\ At("drop_commit")
  /\ \/ /\ p
        /\ Return /\ UNCHANGED <<sfut, recv_waker, woken>>
     \/ /\ ~p /\ sfut[top.who] = "okHeld"
        /\ WakeReceiver
        /\ Goto(Waking(top, RecvRegs)) /\ UNCHANGED sfut
     \/ /\ ~p /\ sfut[top.who] = "errHeld"
        /\ sfut' = [sfut EXCEPT ![top.who] = "err"]
        /\ Return /\ UNCHANGED <<recv_waker, woken>>
  /\ UNCHANGED <<chanVars, inHand, send_wakers, waker_id, rfut, parked, histVars>>

WakesCommit ==
  /\ At("woke") /\ Running({"send"})
  /\ sfut' = IF top.panicked THEN sfut ELSE [sfut EXCEPT ![top.who] = "ok"]
  /\ Return
  /\ UNCHANGED <<chanVars, inHand, wakerVars, rfut, parked, woken, histVars>>

\* Full on the first look: an old registration goes before a new one is made.
SendFull ==
  /\ At("first") /\ ~ClosedToSend /\ IsFull
  /\ Deregister(top.who)
  /\ Goto([top EXCEPT !.at = IF Reg(top.who) \in send_wakers THEN "drop_old_send" ELSE "clone_send"])
  /\ UNCHANGED <<chanVars, inHand, recv_waker, taskVars, histVars>>

AfterDropOldSend(p) ==
  /\ At("drop_old_send")
  /\ IF p THEN Return ELSE Goto([top EXCEPT !.at = "clone_send"])
  /\ UNCHANGED <<chanVars, inHand, wakerVars, taskVars, histVars>>

\* add_send_waker: the waker was cloned and is stored under a new id.
StoreSend(i, k) ==
  /\ FreshId(i, k)
  /\ send_wakers' = send_wakers \cup {<<i, k>>}
  /\ waker_id' = [waker_id EXCEPT ![i] = k]
  /\ Goto([top EXCEPT !.at = "recheck"])

AfterCloneSend(p) ==
  /\ At("clone_send")
  /\ IF p THEN Return /\ UNCHANGED <<send_wakers, waker_id>>
     ELSE \E k \in WakerIds : StoreSend(top.who, k)
  /\ UNCHANGED <<chanVars, inHand, recv_waker, taskVars, histVars>>

StillFull == ~ClosedToSend /\ IsFull

SendPending ==
  /\ At("recheck") /\ StillFull
  /\ parked' = parked \cup {top.who}
  /\ Return
  /\ UNCHANGED <<chanVars, inHand, wakerVars, sfut, rfut, woken, histVars>>

-----------------------------------------------------------------------------
(* Receiver::try_recv and poll_recv *)

TryRecv ==
  /\ MayCall /\ RxFree
  /\ Call(Frame("try_recv", "take", None))
  /\ UNCHANGED <<chanVars, inHand, wakerVars, taskVars, histVars>>

\* A poll with the waker of task t, through poll_next or a Recv future.
Polling(t) ==
  /\ parked' = parked \ Tasks /\ woken' = woken \ {t}
  /\ unplugged' = FALSE
  /\ Call(Frame("poll1", "take", t))
  /\ UNCHANGED <<chanVars, inHand, wakerVars, sfut, pushed, delivered, drained, lost, sawNone>>

\* A receive returns Ready: Recv::poll records that it is done.
Finished == rfut' = IF rfut = "live" THEN "done" ELSE rfut

MutTakeItem ==
  /\ At("take") /\ queue /= <<>>
  /\ queue' = Tail(queue)
  /\ inHand' = <<Head(queue)>>
  /\ send_wakers' = {}
  /\ Goto(Waking(top, IF send_wakers = {} THEN {} ELSE {CHOOSE w \in send_wakers : TRUE}))
  /\ UNCHANGED <<senders, rxAlive, closed, recv_waker, waker_id, taskVars, histVars>>

\* pop, then wake_senders with the item on the stack.
TakeItem ==
  /\ At("take") /\ queue /= <<>>
  /\ queue' = Tail(queue)
  /\ inHand' = <<Head(queue)>>
  /\ send_wakers' = {}
  /\ Goto(Waking(top, send_wakers))
  /\ UNCHANGED <<senders, rxAlive, closed, recv_waker, waker_id, taskVars, histVars>>

DeliverItem ==
  /\ At("woke") /\ Running(TakeOps) /\ ~top.panicked
  /\ delivered' = delivered \o inHand
  /\ inHand' = <<>>
  /\ Finished
  /\ Return
  /\ UNCHANGED <<chanVars, wakerVars, sfut, parked, woken, pushed, drained, lost, sawNone,
                 unplugged>>

MutLoseItem ==
  /\ At("woke") /\ Running(TakeOps) /\ top.panicked
  /\ queue' = queue \o inHand
  /\ inHand' = <<>>
  /\ Return
  /\ UNCHANGED <<senders, rxAlive, closed, wakerVars, taskVars, histVars>>

\* The unwind drops the item the receive had popped.
LoseItem ==
  /\ At("woke") /\ Running(TakeOps) /\ top.panicked
  /\ lost' = lost \cup {Head(inHand)}
  /\ inHand' = <<>>
  /\ Goto([top EXCEPT !.at = "lost_item"])
  /\ UNCHANGED <<chanVars, wakerVars, taskVars, pushed, delivered, drained, sawNone, unplugged>>

AfterLostItem(p) ==
  /\ At("lost_item")
  /\ IF p THEN Abort ELSE Return
  /\ UNCHANGED <<chanVars, inHand, wakerVars, taskVars, histVars>>

TakeNothing ==
  /\ At("take") /\ queue = <<>>
  /\ Goto([top EXCEPT !.at = "empty"])
  /\ UNCHANGED <<chanVars, inHand, wakerVars, taskVars, histVars>>

TryRecvEmpty ==
  /\ At("empty") /\ Running({"try_recv"})
  /\ sawNone' = (sawNone \/ Disconnected)
  /\ Return
  /\ UNCHANGED <<chanVars, inHand, wakerVars, taskVars, pushed, delivered, drained, lost,
                 unplugged>>

\* Both looks of poll_recv, before and after it has registered. The waker that is
\* cleared would be dropped in one more callback, but the slot is empty: what
\* disconnected the channel has taken it (NoStaleWaker).
PollDisconnected ==
  /\ At("empty") /\ Running({"poll1", "poll2"}) /\ Disconnected
  /\ recv_waker' = None
  /\ sawNone' = TRUE
  /\ Finished
  /\ Return
  /\ UNCHANGED <<chanVars, inHand, send_wakers, waker_id, sfut, parked, woken,
                 pushed, delivered, drained, lost, unplugged>>

PollRegister ==
  /\ At("empty") /\ Running({"poll1"}) /\ ~Disconnected
  /\ Goto([top EXCEPT !.at = "clone_recv"])
  /\ UNCHANGED <<chanVars, inHand, wakerVars, taskVars, histVars>>

Rechecking == [top EXCEPT !.op = "poll2", !.at = "take"]

MutTerminal == FALSE
Terminal == Disconnected \/ ~rxAlive

\* register_recv_waker looks again after the clone: a terminal channel stores
\* nothing, otherwise the waker in the slot is replaced and dropped.
AfterCloneRecv(p) ==
  /\ At("clone_recv")
  /\ \/ p /\ Return /\ UNCHANGED recv_waker
     \/ /\ ~p /\ Terminal
        /\ Goto([top EXCEPT !.at = "drop_unstored"])
        /\ UNCHANGED recv_waker
     \/ /\ ~p /\ ~Terminal
        /\ recv_waker' = top.who
        /\ Goto(IF recv_waker = None THEN Rechecking ELSE [top EXCEPT !.at = "drop_replaced"])
  /\ UNCHANGED <<chanVars, inHand, send_wakers, waker_id, taskVars, histVars>>

MutAfterDropRegister(p) ==
  /\ ~aborted /\ depth > 0 /\ top.at \in {"drop_unstored", "drop_replaced"}
  /\ Return
  /\ parked' = IF p THEN parked ELSE parked \cup {top.who}
  /\ UNCHANGED <<chanVars, inHand, wakerVars, sfut, rfut, woken, histVars>>

AfterDropRegister(p) ==
  /\ ~aborted /\ depth > 0 /\ top.at \in {"drop_unstored", "drop_replaced"}
  /\ IF p THEN Return ELSE Goto(Rechecking)
  /\ UNCHANGED <<chanVars, inHand, wakerVars, taskVars, histVars>>

RecvPending ==
  /\ At("empty") /\ Running({"poll2"}) /\ ~Disconnected
  /\ parked' = parked \cup {top.who}
  /\ Return
  /\ UNCHANGED <<chanVars, inHand, wakerVars, sfut, rfut, woken, histVars>>

-----------------------------------------------------------------------------
(* The Receiver, its Recv future and its Stream *)

NewRecv ==
  /\ MayCall /\ RxFree
  /\ rfut' = "fresh"
  /\ UNCHANGED <<chanVars, inHand, wakerVars, sfut, parked, woken, histVars, stackVars>>

\* Recv::poll does not look at done: a completed Recv may be polled on.
PollRecv(t) ==
  /\ MayCall /\ rfut /= "none" /\ ~RecvRunning
  /\ rfut' = IF rfut = "fresh" THEN "live" ELSE rfut
  /\ Polling(t)

\* Stream::poll_next on the Receiver itself.
PollNext(t) == MayCall /\ RxFree /\ UNCHANGED rfut /\ Polling(t)

\* A Recv that is not done clears the slot. The task that polled it no longer
\* waits; before its first poll the slot, and a task that waits, are the Stream's.
DropRecv ==
  /\ MayCall /\ rfut /= "none" /\ ~RecvRunning
  /\ rfut' = "none"
  /\ recv_waker' = IF rfut = "done" THEN recv_waker ELSE None
  /\ parked' = IF rfut = "fresh" THEN parked ELSE parked \ Tasks
  /\ unplugged' = (unplugged \/ (rfut = "fresh" /\ recv_waker /= None))
  /\ UNCHANGED <<chanVars, inHand, send_wakers, waker_id, sfut, woken,
                 pushed, delivered, drained, lost, sawNone, stackVars>>

ReceiverClose == MayCall /\ RxShared /\ ~Disconnected /\ ClosingVia(Rx)

\* FusedStream::is_terminated
StreamTerminated == Disconnected /\ queue = <<>>

DropReceiver ==
  /\ MayCall /\ RxFree
  /\ rxAlive' = FALSE
  /\ send_wakers' = {}
  /\ parked' = parked \ Tasks
  /\ Call(Waking(Frame("receiver_drop", "woke", Rx), send_wakers))
  /\ UNCHANGED <<queue, senders, closed, inHand, recv_waker, waker_id, sfut, rfut, woken, histVars>>

MutNoDrainGuard ==
  /\ At("woke") /\ Running({"receiver_drop"})
  /\ recv_waker' = IF top.panicked THEN recv_waker ELSE None
  /\ IF top.panicked THEN Return ELSE Goto([top EXCEPT !.at = "drain"])
  /\ UNCHANGED <<chanVars, inHand, send_wakers, waker_id, taskVars, histVars>>

\* A panic of the wakes unwinds past clear_recv_waker into the drain guard.
ClearRecvWaker ==
  /\ At("woke") /\ Running({"receiver_drop"})
  /\ recv_waker' = IF top.panicked THEN recv_waker ELSE None
  /\ Goto([top EXCEPT !.at = IF top.panicked \/ recv_waker = None THEN "drain" ELSE "drop_cleared"])
  /\ UNCHANGED <<chanVars, inHand, send_wakers, waker_id, taskVars, histVars>>

\* The guard drains on a panic too.
AfterDropCleared(p) ==
  /\ At("drop_cleared")
  /\ Goto([top EXCEPT !.at = "drain", !.panicked = p])
  /\ UNCHANGED <<chanVars, inHand, wakerVars, taskVars, histVars>>

\* Chan::drain: the item is out of the channel before its destructor runs.
DrainItem ==
  /\ At("drain") /\ queue /= <<>>
  /\ queue' = Tail(queue)
  /\ drained' = Append(drained, Head(queue))
  /\ Goto([top EXCEPT !.at = "payload"])
  /\ UNCHANGED <<senders, rxAlive, closed, inHand, wakerVars, taskVars,
                 pushed, delivered, lost, sawNone, unplugged>>

AfterPayload(p) ==
  /\ At("payload")
  /\ IF p /\ top.panicked THEN Abort
     ELSE Goto([top EXCEPT !.at = "drain", !.panicked = @ \/ p])
  /\ UNCHANGED <<chanVars, inHand, wakerVars, taskVars, histVars>>

DrainDone ==
  /\ At("drain") /\ queue = <<>>
  /\ Return
  /\ UNCHANGED <<chanVars, inHand, wakerVars, taskVars, histVars>>

-----------------------------------------------------------------------------
\* Nothing is left of the channel, or of the process.
Over ==
  /\ aborted \/ (depth = 0 /\ senders = 0 /\ ~rxAlive)
  /\ UNCHANGED vars

SendCalls == \E i \in Items :
  TrySend(i) \/ NewSend(i) \/ PollSend(i) \/ ReplayOutcome(i) \/ DropSend(i)
SenderCalls == CloneSender \/ DropSender \/ DropLastSender \/ SenderClose
ReceiverCalls ==
  \/ TryRecv \/ NewRecv \/ DropRecv \/ ReceiverClose \/ DropReceiver
  \/ \E t \in Tasks : PollRecv(t) \/ PollNext(t)

\* The running call goes on; p is how the callback it waits for ends.
CallbackSteps(p) ==
  WakeNext(p) \/ WakeAborts(p) \/ AfterDropOldSend(p) \/ AfterCloneSend(p)
    \/ AfterDropCommit(p) \/ AfterCloneRecv(p) \/ AfterDropRegister(p)
    \/ AfterLostItem(p) \/ AfterDropCleared(p) \/ AfterPayload(p)
LibrarySteps ==
  \/ WakesReturn \/ CloseSenders \/ WakesCommit
  \/ SendClosed \/ SendPush \/ SendFull \/ SendPending
  \/ TakeItem \/ DeliverItem \/ LoseItem \/ TakeNothing
  \/ TryRecvEmpty \/ PollDisconnected \/ PollRegister \/ RecvPending
  \/ ClearRecvWaker \/ DrainItem \/ DrainDone

Next ==
  \/ SendCalls \/ SenderCalls \/ ReceiverCalls
  \/ \E p \in Panics : (p => top.at \in Toxic) /\ CallbackSteps(p)
  \/ LibrarySteps
  \/ Over

Spec == Init /\ [][Next]_vars

-----------------------------------------------------------------------------
(* Properties *)

Frames == [op : Ops, at : Labels, who : Items \cup Tasks \cup {Rx, None},
           todo : SUBSET ((Items \X WakerIds) \cup (Tasks \X {None})),
           panicked : BOOLEAN, id : {None}]

\* Every variable has its type; a bounded queue never exceeds its capacity and
\* a receive holds at most one popped item.
TypeOK ==
  /\ queue \in Seq(Items) /\ (Bounded => Len(queue) <= Cap)
  /\ inHand \in Seq(Items) /\ Len(inHand) <= 1
  /\ senders \in 0..MaxSenders /\ rxAlive \in BOOLEAN /\ closed \in BOOLEAN
  /\ recv_waker \in Tasks \cup {None} /\ send_wakers \subseteq Items \X WakerIds
  /\ waker_id \in [Items -> WakerIds \cup {None}]
  /\ sfut \in [Items -> SendStates] /\ rfut \in RecvStates
  /\ parked \subseteq Items \cup Tasks /\ woken \subseteq Items \cup Tasks
  /\ pushed \in Seq(Items) /\ delivered \in Seq(Items) /\ drained \in Seq(Items)
  /\ lost \subseteq Items /\ sawNone \in BOOLEAN /\ unplugged \in BOOLEAN
  /\ depth \in 0..MaxDepth /\ frames \in [0..MaxDepth -> Frames] /\ aborted \in BOOLEAN

Taken == delivered \o inHand \o drained \o queue

\* What was accepted is what was delivered, the item in hand, what the Receiver
\* dropped and the queue, in this order: the doc comment of poll_recv promises
\* it for panicking wakers too.
Fifo == pushed = Taken

Elems(s) == {s[n] : n \in 1..Len(s)}
Before(i, j) == \E m, n \in 1..Len(pushed) : m < n /\ pushed[m] = i /\ pushed[n] = j

\* No item is accepted twice. Apart from items that an unwinding receive dropped
\* nothing is lost, and nothing is duplicated or reordered.
FifoButForPanics ==
  /\ \A m, n \in 1..Len(pushed) : pushed[m] = pushed[n] => m = n
  /\ Elems(Taken) = Elems(pushed) \ lost
  /\ \A m, n \in 1..Len(Taken) : m < n => Before(Taken[m], Taken[n])

\* The outcome a Send records is what happened to its item: it is in the
\* channel's history exactly if the outcome is Ok.
Accepted(i) == \E n \in 1..Len(pushed) : pushed[n] = i
OutcomeExact ==
  \A i \in Items :
    /\ sfut[i] \in {"okHeld", "ok"} => Accepted(i)
    /\ sfut[i] \in {"new", "pending", "errHeld", "err"} => ~Accepted(i)

\* A sender's waker may be taken and not yet called.
Owed(o) == o \in woken \/ (o \in Items /\ \E d \in Live : Reg(o) \in frames[d].todo)

\* A commit that has pushed its item and has the receiver still to wake.
Notifying == \E d \in Live : frames[d].at = "drop_commit" /\ sfut[frames[d].who] = "okHeld"

\* A consumer whose last poll was Pending has been woken since that poll began, or
\* its waker is in the slot of a channel that has neither an item nor a
\* disconnection for it. The one way to lose the wakeup without a panic is to drop
\* a Recv that was never polled: it clears the slot of a Stream that waits.
NoLostRecvWakeup ==
  ~aborted /\ ~unplugged => \A t \in parked \cap Tasks :
    Owed(t) \/ (recv_waker = t /\ (queue = <<>> \/ Notifying) /\ ~Disconnected)

\* close has the senders still to wake.
Closing == \E d \in Live : frames[d].op = "close"

\* A parked sender has been woken, or is about to be, or is registered on a
\* channel that is full and that no close has finished with.
NoLostSendWakeup ==
  ~aborted => \A i \in parked \cap Items :
    Owed(i) \/ (Reg(i) \in send_wakers /\ IsFull /\ (ClosedToSend => Closing))

\* No waker outlives its use: every send registration is the one its future
\* knows and will remove, so a completed or dropped Send has none; a
\* disconnected channel keeps no receiver's waker, and one closed to sends
\* keeps no sender's once the calls on the stack are done.
NoStaleWaker ==
  /\ \A w \in send_wakers : LiveSend(w[1]) /\ waker_id[w[1]] = w[2]
  /\ Disconnected => recv_waker = None
  /\ ClosedToSend /\ depth = 0 => send_wakers = {}

ReceiverDropping == \E d \in Live : frames[d].op = "receiver_drop"

\* Once a receive has reported disconnection nothing is left to receive, and the
\* stream says and goes on saying that it is terminated.
DisconnectIsFinal == sawNone => StreamTerminated

\* The queue of a dropped Receiver is empty or still being drained. By the time
\* it is drained the waker slot has been cleared, unless a panic was unwinding.
QueueDrained == ~rxAlive /\ ~aborted => queue = <<>> \/ ReceiverDropping
SlotCleared ==
  \A d \in Live :
    frames[d].at \in {"drain", "payload"} /\ ~frames[d].panicked => recv_waker = None

\* The Receiver leaves nothing in the channel: the queue is empty once its drop
\* is over, whatever wakers and payloads panicked, and only a panic can make the
\* drop skip the clearing of its waker.
ReceiverDrains == QueueDrained /\ SlotCleared

\* Seen without futures, wakers and callbacks the channel is the abstract one.
Ch == INSTANCE Channel WITH
        buf <- inHand \o queue, tx <- senders > 0, rx <- rxAlive, shut <- closed
ImplementsChannel == Ch!Spec

-----------------------------------------------------------------------------
(* Liveness: callbacks return, tasks that were woken are polled again, and  *)
(* for SendsProgress the consumer keeps receiving.                          *)

Fairness ==
  /\ WF_vars(LibrarySteps)
  /\ \A d \in 1..MaxDepth : SF_vars(depth = d /\ CallbackSteps(FALSE))
  /\ \A i \in Items : SF_vars(i \in parked \cap woken /\ PollSend(i))
  /\ \A t \in Tasks : SF_vars(t \in parked \cap woken /\ PollRecv(t))

LiveSpec == Spec /\ Fairness

\* A consumer that keeps calling try_recv, or polling the Recv it holds.
KeepsReceiving == SF_vars(TryRecv \/ \E t \in Tasks : PollRecv(t))

\* A Recv whose task is parked while the channel has an item or is disconnected
\* completes or is dropped.
RecvCompletes ==
  rfut = "live" /\ parked \cap Tasks /= {} /\ (queue /= <<>> \/ Disconnected) ~> rfut /= "live"

\* With a consumer that keeps receiving, sends that wait do not come to a
\* standstill: as long as one is parked, items go on being accepted. All that wait
\* are woken for one slot and any sender may take it, so it need not be that one's
\* turn; but a slot is never left to senders of whom none was woken.
SendsProgress ==
  KeepsReceiving => []<>(parked \cap Items = {}) \/ []<><<pushed' /= pushed>>_vars

=============================================================================
