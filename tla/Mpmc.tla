-------------------------------- MODULE Mpmc --------------------------------
(***************************************************************************)
(* lochan::mpmc: the multi-producer multi-consumer channel of one thread.  *)
(*                                                                         *)
(* One Chan, its Sender and Receiver handles, the Send and Recv futures    *)
(* and the Stream registration of every Receiver.  Every call runs from    *)
(* one callback point to the next in one step; at a callback point user    *)
(* code may call the channel again (Reentry) and may panic.                *)
(*                                                                         *)
(* Send futures are named by the item they carry, each item is handed to   *)
(* the channel at most once.  A waker registration is <<owner, id>>: the   *)
(* owner is the future, or the Receiver for its stream registration.       *)
(***************************************************************************)
EXTENDS Reentry, Sequences, FiniteSets

CONSTANTS
  Items,        \* messages
  RecvFuts,     \* Recv futures; one is reused after it is dropped
  Receivers,    \* Receiver handles, likewise
  WakerIds,     \* registration ids, compared for equality only
  MaxSenders,   \* bound: Sender handles alive at once
  Bounded,      \* Flavor::Bounded or Flavor::Unbounded
  Cap           \* capacity of Flavor::Bounded

Owners == Items \cup RecvFuts \cup Receivers

ASSUME MpmcAssumption ==
  /\ Bounded \in BOOLEAN
  /\ Cap \in Nat \ {0}
  /\ MaxSenders \in Nat \ {0}
  /\ None \notin Owners \cup WakerIds
  /\ WakerIds \subseteq Nat
  /\ Items \cap RecvFuts = {} /\ Items \cap Receivers = {} /\ RecvFuts \cap Receivers = {}

VARIABLES
  queue,        \* Chan.flavor
  redelivery,   \* Chan.redelivery: an Option as a sequence of at most one item
  senders,      \* Chan.senders
  rxLive,       \* live Receivers; Chan.receivers is their number
  closed,       \* Chan.closed
  recv_wakers,  \* Chan.recv_wakers
  send_wakers,  \* Chan.send_wakers
  waker_id,     \* Send.waker_id, Recv.waker_id, Receiver.stream_waker_id
  sfut,         \* life of each Send future, see SendStates
  rfut,         \* Recv.receiver (None: no such future) and Recv.done
  parked,       \* owners whose last poll returned Pending
  woken,        \* owners whose waker was called since their last poll began
  pushed,       \* history: items accepted, in order
  delivered,    \* history: items handed to a receiver, in order
  drained,      \* history: items dropped by the last receiver, in order
  sawNone       \* history: a receive has reported disconnection

chanVars == <<queue, redelivery, senders, rxLive, closed>>
wakerVars == <<recv_wakers, send_wakers, waker_id>>
taskVars == <<sfut, rfut, parked, woken>>
histVars == <<pushed, delivered, drained, sawNone>>
vars == <<chanVars, wakerVars, taskVars, histVars, stackVars>>

Regs == Owners \X WakerIds

(***************************************************************************)
(* new: not sent yet.  pending: the future holds the item.  okHeld and     *)
(* errHeld: done, with the outcome kept for a replay.  ok and err: done,   *)
(* the outcome was returned.  gone: dropped, or consumed by try_send.      *)
(***************************************************************************)
SendStates == {"new", "pending", "okHeld", "errHeld", "ok", "err", "gone"}

LiveSend(i) == sfut[i] \notin {"new", "gone"}

(***************************************************************************)
(* poll1 and poll2 are poll_recv before and after it has registered its    *)
(* waker; close and close2 are the two phases of Chan::close.              *)
(***************************************************************************)
TakeOps == {"try_recv", "poll1", "poll2"}
Ops == TakeOps \cup {"idle", "recv_done", "try_send", "send", "close", "close2",
                     "sender_drop", "receiver_drop"}

\* Waker clones, wakes and drops, and payload drops.
CallbackPoints == {"clone_recv", "clone_send", "wake", "drop_old_recv", "drop_old_send",
                   "drop_unstored", "drop_done", "drop_commit", "payload"}
Labels == CallbackPoints \cup {"idle", "take", "empty", "woke", "first", "recheck",
                               "deregister", "drain"}

MayCall == UserCode(CallbackPoints)

-----------------------------------------------------------------------------
(* Chan: what it answers. *)

MutIsEmpty == queue = <<>>
IsEmpty == queue = <<>> /\ redelivery = <<>>

MutIsFull == Bounded /\ Len(queue) = Cap + 1
IsFull == Bounded /\ Len(queue) = Cap

Disconnected == senders = 0 \/ closed
ClosedToSend == rxLive = {} \/ closed

Reg(o) == <<o, waker_id[o]>>

\* Ids come from a counter: a new one is held by nobody.
Held(o, k) ==
  \/ <<o, k>> \in recv_wakers \cup send_wakers
  \/ waker_id[o] = k
  \/ \E d \in Live : <<o, k>> \in frames[d].todo \/ (frames[d].who = o /\ frames[d].id = k)
FreshId(o, k) == ~Held(o, k) /\ \A j \in WakerIds : j < k => Held(o, j)

-----------------------------------------------------------------------------
(* What Rust's borrows let user code do in a callback. *)

\* A Sender is borrowed by every Send future and by a try_send or close on the stack.
SenderBorrowed ==
  \/ \E i \in Items : LiveSend(i)
  \/ \E d \in Live : frames[d].op \in {"try_send", "close", "close2"} /\ frames[d].who \notin Receivers
SomeSender == senders > 0

\* poll_next holds the Receiver mutably.
MutBorrowed(r) == \E d \in Live : frames[d].who = r /\ frames[d].op \in {"poll1", "poll2"}
Shared(r) == r \in rxLive /\ ~MutBorrowed(r)
Borrowed(r) == Busy(r) \/ \E s \in RecvFuts : rfut[s].rx = r

\* A name is free for a new future or handle once nothing refers to the old one.
Free(o) == ~Busy(o) /\ \A d \in Live : \A k \in WakerIds : <<o, k>> \notin frames[d].todo

-----------------------------------------------------------------------------
Init ==
  /\ queue = <<>> /\ redelivery = <<>>
  /\ senders = 1 /\ closed = FALSE
  /\ \E r \in Receivers : rxLive = {r}
  /\ recv_wakers = {} /\ send_wakers = {}
  /\ waker_id = [o \in Owners |-> None]
  /\ sfut = [i \in Items |-> "new"]
  /\ rfut = [s \in RecvFuts |-> [rx |-> None, done |-> FALSE]]
  /\ parked = {} /\ woken = {}
  /\ pushed = <<>> /\ delivered = <<>> /\ drained = <<>> /\ sawNone = FALSE
  /\ StackInit

-----------------------------------------------------------------------------
(* wake_receivers and wake_senders: the list is taken in the step that      *)
(* calls them, then every waker of it is called once, in any order.         *)

\* wake_all: one waker's callback runs to its end.
WakeNext(p) ==
  /\ At("wake") /\ WakeMayEnd(p)
  /\ \E w \in top.todo :
       /\ Goto([top EXCEPT !.todo = @ \ {w},
                           !.at = IF top.todo = {w} THEN "woke" ELSE "wake",
                           !.panicked = @ \/ p])
       /\ woken' = IF w = Reg(w[1]) THEN woken \cup {w[1]} ELSE woken
  /\ UNCHANGED <<chanVars, wakerVars, sfut, rfut, parked, histVars>>

WakeAborts(p) ==
  /\ WakeAborted(p)
  /\ UNCHANGED <<chanVars, wakerVars, taskVars, histVars>>

\* Calls that end with the wakes: try_send, the last Sender's drop, close.
WakesReturn ==
  /\ At("woke") /\ Running({"try_send", "sender_drop", "close2"})
  /\ Return
  /\ UNCHANGED <<chanVars, wakerVars, taskVars, histVars>>

\* Chan::close goes on to the senders whether or not a receiver's waker panicked.
MutCloseSenders ==
  /\ At("woke") /\ Running({"close"})
  /\ IF top.panicked THEN Return /\ UNCHANGED send_wakers
     ELSE send_wakers' = {} /\ Goto(Waking([top EXCEPT !.op = "close2"], send_wakers))
  /\ UNCHANGED <<chanVars, recv_wakers, waker_id, taskVars, histVars>>

MutCloseHalf ==
  /\ At("woke") /\ Running({"close"})
  /\ Return
  /\ UNCHANGED <<chanVars, wakerVars, taskVars, histVars>>

CloseSenders ==
  /\ At("woke") /\ Running({"close"})
  /\ send_wakers' = {}
  /\ Goto(Waking([top EXCEPT !.op = "close2"], send_wakers))
  /\ UNCHANGED <<chanVars, recv_wakers, waker_id, taskVars, histVars>>

\* A panic unwinds try_take with the item still in redelivery; otherwise the
\* loop starts over.
MutTakeAgain == IF redelivery = <<>> THEN "empty" ELSE "take"
TakeAgain == "take"
WakesTake ==
  /\ At("woke") /\ Running(TakeOps)
  /\ IF top.panicked THEN Return
     ELSE Goto([top EXCEPT !.at = TakeAgain])
  /\ UNCHANGED <<chanVars, wakerVars, taskVars, histVars>>

WakesCommit ==
  /\ At("woke") /\ Running({"send"})
  /\ Goto([top EXCEPT !.at = "deregister"])
  /\ UNCHANGED <<chanVars, wakerVars, taskVars, histVars>>

WakesDrain ==
  /\ At("woke") /\ Running({"receiver_drop"})
  /\ Goto([top EXCEPT !.at = "drain"])
  /\ UNCHANGED <<chanVars, wakerVars, taskVars, histVars>>

-----------------------------------------------------------------------------
(* Sender *)

CloneSender ==
  /\ MayCall /\ SomeSender /\ senders < MaxSenders
  /\ senders' = senders + 1
  /\ UNCHANGED <<queue, redelivery, rxLive, closed, wakerVars, taskVars, histVars, stackVars>>

\* Not the last Sender: only the count changes.
DropSender ==
  /\ MayCall /\ senders > 1
  /\ senders' = senders - 1
  /\ UNCHANGED <<queue, redelivery, rxLive, closed, wakerVars, taskVars, histVars, stackVars>>

MutDropLastSender ==
  /\ MayCall /\ senders = 1 /\ ~SenderBorrowed
  /\ senders' = 0
  /\ UNCHANGED <<queue, redelivery, rxLive, closed, wakerVars, taskVars, histVars, stackVars>>

DropLastSender ==
  /\ MayCall /\ senders = 1 /\ ~SenderBorrowed
  /\ senders' = 0
  /\ recv_wakers' = {}
  /\ Call(Waking(Frame("sender_drop", "woke", None), recv_wakers))
  /\ UNCHANGED <<queue, redelivery, rxLive, closed, send_wakers, waker_id, taskVars, histVars>>

ClosingVia(who) ==
  /\ closed' = TRUE
  /\ recv_wakers' = {}
  /\ Call(Waking(Frame("close", "woke", who), recv_wakers))
  /\ UNCHANGED <<queue, redelivery, senders, rxLive, send_wakers, waker_id, taskVars, histVars>>

SenderClose == MayCall /\ SomeSender /\ ~ClosedToSend /\ ClosingVia(None)

\* Chan::try_push, when there is room, and the wake_receivers that follows it.
Accept(i) ==
  /\ queue' = Append(queue, i)
  /\ pushed' = Append(pushed, i)
  /\ recv_wakers' = {}

\* A refused try_send hands the item back and changes nothing.
TrySend(i) ==
  /\ MayCall /\ SomeSender /\ sfut[i] = "new"
  /\ ~ClosedToSend /\ ~IsFull
  /\ Accept(i)
  /\ sfut' = [sfut EXCEPT ![i] = "gone"]
  /\ Call(Waking(Frame("try_send", "woke", i), recv_wakers))
  /\ UNCHANGED <<redelivery, senders, rxLive, closed, send_wakers, waker_id,
                 rfut, parked, woken, delivered, drained, sawNone>>

-----------------------------------------------------------------------------
(* The Send future *)

NewSend(i) ==
  /\ MayCall /\ SomeSender /\ sfut[i] = "new"
  /\ sfut' = [sfut EXCEPT ![i] = "pending"]
  /\ UNCHANGED <<chanVars, wakerVars, rfut, parked, woken, histVars, stackVars>>

MutPollSend(i) ==
  /\ MayCall /\ sfut[i] \in {"pending", "okHeld"} /\ ~Busy(i)
  /\ parked' = parked \ {i} /\ woken' = woken \ {i}
  /\ Call(Frame("send", "first", i))
  /\ UNCHANGED <<chanVars, wakerVars, sfut, rfut, histVars>>

PollSend(i) ==
  /\ MayCall /\ sfut[i] = "pending" /\ ~Busy(i)
  /\ parked' = parked \ {i} /\ woken' = woken \ {i}
  /\ Call(Frame("send", "first", i))
  /\ UNCHANGED <<chanVars, wakerVars, sfut, rfut, histVars>>

Reported(st) == IF st = "okHeld" THEN "ok" ELSE "err"

\* A poll after commit unwound returns the outcome it had recorded.
ReplayOutcome(i) ==
  /\ MayCall /\ sfut[i] \in {"okHeld", "errHeld"} /\ ~Busy(i)
  /\ sfut' = [sfut EXCEPT ![i] = Reported(@)]
  /\ UNCHANGED <<chanVars, wakerVars, rfut, parked, woken, histVars, stackVars>>

\* The waker's drop and the item's come last: nothing is left to do after them.
DropSend(i) ==
  /\ MayCall /\ LiveSend(i) /\ ~Busy(i)
  /\ sfut' = [sfut EXCEPT ![i] = "gone"]
  /\ send_wakers' = send_wakers \ {Reg(i)}
  /\ waker_id' = [waker_id EXCEPT ![i] = None]
  /\ parked' = parked \ {i} /\ woken' = woken \ {i}
  /\ UNCHANGED <<chanVars, recv_wakers, rfut, histVars, stackVars>>

\* Send::poll looks at the channel, on entry and again once it is registered.
Looking == ~aborted /\ depth > 0 /\ top.at \in {"first", "recheck"}

\* commit moves the waker id into the RemoveSend guard.
Committing(st) ==
  /\ sfut' = [sfut EXCEPT ![top.who] = st]
  /\ waker_id' = [waker_id EXCEPT ![top.who] = None]

SendClosed ==
  /\ Looking /\ ClosedToSend
  /\ Committing("errHeld")
  /\ Goto([top EXCEPT !.at = "deregister", !.id = waker_id[top.who]])
  /\ UNCHANGED <<chanVars, recv_wakers, send_wakers, rfut, parked, woken, histVars>>

MutMayPush == (ClosedToSend => top.at = "recheck") /\ ~IsFull
MayPush == ~ClosedToSend /\ ~IsFull

SendPush ==
  /\ Looking /\ MayPush
  /\ Accept(top.who)
  /\ Committing("okHeld")
  /\ Goto(Waking([top EXCEPT !.id = waker_id[top.who]], recv_wakers))
  /\ UNCHANGED <<redelivery, senders, rxLive, closed, send_wakers,
                 rfut, parked, woken, delivered, drained, sawNone>>

\* Full on the first look: an old registration goes before a new one is made.
SendFull ==
  /\ At("first") /\ ~ClosedToSend /\ IsFull
  /\ send_wakers' = send_wakers \ {Reg(top.who)}
  /\ waker_id' = [waker_id EXCEPT ![top.who] = None]
  /\ Goto([top EXCEPT !.at = IF Reg(top.who) \in send_wakers THEN "drop_old_send" ELSE "clone_send"])
  /\ UNCHANGED <<chanVars, recv_wakers, taskVars, histVars>>

AfterDropOldSend(p) ==
  /\ At("drop_old_send")
  /\ IF p THEN Return ELSE Goto([top EXCEPT !.at = "clone_send"])
  /\ UNCHANGED <<chanVars, wakerVars, taskVars, histVars>>

\* add_send_waker: the waker was cloned and is stored under a new id.
StoreSend(o, k) ==
  /\ FreshId(o, k)
  /\ send_wakers' = send_wakers \cup {<<o, k>>}
  /\ waker_id' = [waker_id EXCEPT ![o] = k]
  /\ Goto([top EXCEPT !.at = "recheck"])

AfterCloneSend(p) ==
  /\ At("clone_send")
  /\ IF p THEN Return /\ UNCHANGED <<send_wakers, waker_id>>
     ELSE \E k \in WakerIds : StoreSend(top.who, k)
  /\ UNCHANGED <<chanVars, recv_wakers, taskVars, histVars>>

MutStillFull == TRUE
StillFull == ~ClosedToSend /\ IsFull

SendPending ==
  /\ At("recheck") /\ StillFull
  /\ parked' = parked \cup {top.who}
  /\ Return
  /\ UNCHANGED <<chanVars, wakerVars, sfut, rfut, woken, histVars>>

\* The end of commit: the outcome is taken out, unless a panic is unwinding.
SendReturns(panicked) ==
  /\ sfut' = IF panicked THEN sfut ELSE [sfut EXCEPT ![top.who] = Reported(@)]
  /\ Return

\* RemoveSend's drop, on the normal path and on an unwind from the wakes.

Deregister ==
  /\ At("deregister")
  /\ LET w == <<top.who, top.id>> IN
       IF w \in send_wakers
       THEN /\ send_wakers' = send_wakers \ {w}
            /\ Goto([top EXCEPT !.at = "drop_commit", !.id = None])
            /\ UNCHANGED sfut
       ELSE SendReturns(top.panicked) /\ UNCHANGED send_wakers
  /\ UNCHANGED <<chanVars, recv_wakers, waker_id, rfut, parked, woken, histVars>>

AfterDropCommit(p) ==
  /\ At("drop_commit")
  /\ IF p /\ top.panicked THEN Abort /\ UNCHANGED sfut ELSE SendReturns(p \/ top.panicked)
  /\ UNCHANGED <<chanVars, wakerVars, rfut, parked, woken, histVars>>

-----------------------------------------------------------------------------
(* Chan::try_take, the common part of try_recv and poll_recv *)

\* A receive ends: Recv::poll records that it is done.
Finished(o) ==
  rfut' = IF o \in RecvFuts THEN [rfut EXCEPT ![o].done = TRUE] ELSE rfut

Deliver(i) ==
  /\ delivered' = Append(delivered, i)
  /\ Finished(top.who)
  /\ Return
  /\ UNCHANGED <<senders, rxLive, closed, wakerVars, sfut, parked, woken, pushed, drained, sawNone>>

TakeRedelivered ==
  /\ At("take") /\ redelivery /= <<>>
  /\ redelivery' = <<>>
  /\ Deliver(Head(redelivery))
  /\ UNCHANGED queue

MutTakeItem ==
  /\ At("take") /\ queue /= <<>> /\ send_wakers = {}
  /\ queue' = Tail(queue)
  /\ Deliver(Head(queue))
  /\ UNCHANGED redelivery

TakeItem ==
  /\ At("take") /\ redelivery = <<>> /\ queue /= <<>> /\ send_wakers = {}
  /\ queue' = Tail(queue)
  /\ Deliver(Head(queue))
  /\ UNCHANGED redelivery

\* Parked senders: the item waits in redelivery while they are woken.
TakeAndWake ==
  /\ At("take") /\ redelivery = <<>> /\ queue /= <<>> /\ send_wakers /= {}
  /\ queue' = Tail(queue)
  /\ redelivery' = <<Head(queue)>>
  /\ send_wakers' = {}
  /\ Goto(Waking(top, send_wakers))
  /\ UNCHANGED <<senders, rxLive, closed, recv_wakers, waker_id, taskVars, histVars>>

TakeNothing ==
  /\ At("take") /\ IsEmpty
  /\ Goto([top EXCEPT !.at = "empty"])
  /\ UNCHANGED <<chanVars, wakerVars, taskVars, histVars>>

-----------------------------------------------------------------------------
(* Receiver::try_recv and poll_recv *)

TryRecv(r) ==
  /\ MayCall /\ Shared(r)
  /\ Call(Frame("try_recv", "take", r))
  /\ UNCHANGED <<chanVars, wakerVars, taskVars, histVars>>

TryRecvEmpty ==
  /\ At("empty") /\ Running({"try_recv"})
  /\ sawNone' = (sawNone \/ Disconnected)
  /\ Return
  /\ UNCHANGED <<chanVars, wakerVars, taskVars, pushed, delivered, drained>>

\* A stale registration is removed before anything is popped.
PollingRecv(o) ==
  /\ recv_wakers' = recv_wakers \ {Reg(o)}
  /\ waker_id' = [waker_id EXCEPT ![o] = None]
  /\ parked' = parked \ {o} /\ woken' = woken \ {o}
  /\ Call(Frame("poll1", IF Reg(o) \in recv_wakers THEN "drop_old_recv" ELSE "take", o))
  /\ UNCHANGED <<chanVars, send_wakers, sfut, rfut, histVars>>

AfterDropOldRecv(p) ==
  /\ At("drop_old_recv")
  /\ IF p THEN Return ELSE Goto([top EXCEPT !.at = "take"])
  /\ UNCHANGED <<chanVars, wakerVars, taskVars, histVars>>

PollDisconnected ==
  /\ At("empty") /\ Running({"poll1"}) /\ Disconnected
  /\ sawNone' = TRUE
  /\ Finished(top.who)
  /\ Return
  /\ UNCHANGED <<chanVars, wakerVars, sfut, parked, woken, pushed, delivered, drained>>

PollRegister ==
  /\ At("empty") /\ Running({"poll1"}) /\ ~Disconnected
  /\ Goto([top EXCEPT !.at = "clone_recv"])
  /\ UNCHANGED <<chanVars, wakerVars, taskVars, histVars>>

\* add_recv_waker looks again after the clone: a terminal channel stores nothing.
MutTerminal == FALSE
Terminal == Disconnected \/ rxLive = {}

StoreRecv(o, k) ==
  /\ FreshId(o, k)
  /\ recv_wakers' = recv_wakers \cup {<<o, k>>}
  /\ waker_id' = [waker_id EXCEPT ![o] = k]
  /\ Goto([top EXCEPT !.op = "poll2", !.at = "take"])

AfterCloneRecv(p) ==
  /\ At("clone_recv")
  /\ \/ /\ p
        /\ Return
        /\ UNCHANGED <<recv_wakers, waker_id>>
     \/ /\ ~p /\ Terminal
        /\ Goto([top EXCEPT !.at = "drop_unstored"])
        /\ UNCHANGED <<recv_wakers, waker_id>>
     \/ /\ ~p /\ ~Terminal
        /\ \E k \in WakerIds : StoreRecv(top.who, k)
  /\ UNCHANGED <<chanVars, send_wakers, taskVars, histVars>>

\* The id was consumed: the caller keeps one that no entry has.
AfterDropUnstored(p) ==
  /\ At("drop_unstored")
  /\ IF p THEN Return /\ UNCHANGED waker_id
     ELSE /\ \E k \in WakerIds :
               FreshId(top.who, k) /\ waker_id' = [waker_id EXCEPT ![top.who] = k]
          /\ Goto([top EXCEPT !.op = "poll2", !.at = "take"])
  /\ UNCHANGED <<chanVars, recv_wakers, send_wakers, taskVars, histVars>>

\* The recheck found the channel disconnected: the registration is removed. Dropping its
\* waker would be one more callback, but no entry is left to drop: what disconnected the
\* channel has taken every receiver's entry (TerminalKeepsNoWaker).
RecheckDisconnected ==
  /\ At("empty") /\ Running({"poll2"}) /\ Disconnected
  /\ recv_wakers' = recv_wakers \ {Reg(top.who)}
  /\ waker_id' = [waker_id EXCEPT ![top.who] = None]
  /\ Return /\ Finished(top.who) /\ sawNone' = TRUE
  /\ UNCHANGED <<chanVars, send_wakers, sfut, parked, woken, pushed, delivered, drained>>

RecvPending ==
  /\ At("empty") /\ Running({"poll2"}) /\ ~Disconnected
  /\ parked' = parked \cup {top.who}
  /\ Return
  /\ UNCHANGED <<chanVars, wakerVars, sfut, rfut, woken, histVars>>

-----------------------------------------------------------------------------
(* The Recv future and the Stream *)

NewRecv(s, r) ==
  /\ MayCall /\ Shared(r) /\ rfut[s].rx = None /\ Free(s)
  /\ rfut' = [rfut EXCEPT ![s] = [rx |-> r, done |-> FALSE]]
  /\ UNCHANGED <<chanVars, wakerVars, sfut, parked, woken, histVars, stackVars>>

PollRecv(s) ==
  /\ MayCall /\ rfut[s].rx /= None /\ ~rfut[s].done /\ ~Busy(s)
  /\ PollingRecv(s)

\* A completed Recv that still holds an id gives its registration back.
PollDone(s) ==
  /\ MayCall /\ rfut[s].done /\ waker_id[s] /= None /\ ~Busy(s)
  /\ recv_wakers' = recv_wakers \ {Reg(s)}
  /\ waker_id' = [waker_id EXCEPT ![s] = None]
  /\ parked' = parked \ {s} /\ woken' = woken \ {s}
  /\ Call(Frame("recv_done", "drop_done", s))
  /\ UNCHANGED <<chanVars, send_wakers, sfut, rfut, histVars>>

\* Pending, after wake_by_ref on the task's own waker.
MutSelfWake(s) == woken
SelfWake(s) == woken \cup {s}
AfterDropDone(p) ==
  /\ At("drop_done")
  /\ IF p THEN UNCHANGED <<parked, woken>>
     ELSE parked' = parked \cup {top.who} /\ woken' = SelfWake(top.who)
  /\ Return
  /\ UNCHANGED <<chanVars, wakerVars, sfut, rfut, histVars>>

MutDropRecv(s) ==
  /\ MayCall /\ rfut[s].rx /= None /\ ~Busy(s)
  /\ rfut' = [rfut EXCEPT ![s] = [rx |-> None, done |-> FALSE]]
  /\ recv_wakers' = IF rfut[s].done THEN recv_wakers ELSE recv_wakers \ {Reg(s)}
  /\ waker_id' = [waker_id EXCEPT ![s] = None]
  /\ parked' = parked \ {s} /\ woken' = woken \ {s}
  /\ UNCHANGED <<chanVars, send_wakers, sfut, histVars, stackVars>>

DropRecv(s) ==
  /\ MayCall /\ rfut[s].rx /= None /\ ~Busy(s)
  /\ rfut' = [rfut EXCEPT ![s] = [rx |-> None, done |-> FALSE]]
  /\ recv_wakers' = recv_wakers \ {Reg(s)}
  /\ waker_id' = [waker_id EXCEPT ![s] = None]
  /\ parked' = parked \ {s} /\ woken' = woken \ {s}
  /\ UNCHANGED <<chanVars, send_wakers, sfut, histVars, stackVars>>

\* FusedFuture::is_terminated of a Recv and of a Send
MutRecvTerminated(s) == rfut[s].done
RecvTerminated(s) == rfut[s].done /\ waker_id[s] = None
SendTerminated(i) == sfut[i] \in {"ok", "err"}

\* Stream::poll_next on the Receiver itself.
PollNext(r) == MayCall /\ r \in rxLive /\ ~Borrowed(r) /\ PollingRecv(r)

\* FusedStream::is_terminated
StreamTerminated(r) == waker_id[r] = None /\ Disconnected /\ IsEmpty

-----------------------------------------------------------------------------
(* Receiver handles *)

CloneReceiver(r) ==
  /\ MayCall /\ r \notin rxLive /\ Free(r)
  /\ \E q \in Receivers : Shared(q)
  /\ rxLive' = rxLive \cup {r}
  /\ UNCHANGED <<queue, redelivery, senders, closed, wakerVars, taskVars, histVars, stackVars>>

ReceiverClose(r) == MayCall /\ Shared(r) /\ ~Disconnected /\ ClosingVia(r)

DropReceiver(r) ==
  /\ MayCall /\ {r} \subseteq rxLive /\ {r} /= rxLive /\ ~Borrowed(r)
  /\ rxLive' = rxLive \ {r}
  /\ recv_wakers' = recv_wakers \ {Reg(r)}
  /\ waker_id' = [waker_id EXCEPT ![r] = None]
  /\ parked' = parked \ {r} /\ woken' = woken \ {r}
  /\ UNCHANGED <<queue, redelivery, senders, closed, send_wakers, sfut, rfut, histVars, stackVars>>

\* The Cleanup guard holds the stream registration across the wakes.
DropLastReceiver(r) ==
  /\ MayCall /\ rxLive = {r} /\ ~Borrowed(r)
  /\ rxLive' = {}
  /\ waker_id' = [waker_id EXCEPT ![r] = None]
  /\ send_wakers' = {}
  /\ parked' = parked \ {r} /\ woken' = woken \ {r}
  /\ Call(Waking([Frame("receiver_drop", "woke", r) EXCEPT !.id = waker_id[r]], send_wakers))
  /\ UNCHANGED <<queue, redelivery, senders, closed, recv_wakers, sfut, rfut, histVars>>

\* Chan::drain: the item is out of the channel before its destructor runs.
Discard(i) ==
  /\ drained' = Append(drained, i)
  /\ Goto([top EXCEPT !.at = "payload"])
  /\ UNCHANGED <<senders, rxLive, closed, wakerVars, taskVars, pushed, delivered, sawNone>>

DrainRedelivered ==
  /\ At("drain") /\ redelivery /= <<>>
  /\ redelivery' = <<>>
  /\ Discard(Head(redelivery))
  /\ UNCHANGED queue

DrainItem ==
  /\ At("drain") /\ redelivery = <<>> /\ queue /= <<>>
  /\ queue' = Tail(queue)
  /\ Discard(Head(queue))
  /\ UNCHANGED redelivery

MutAfterPayload(p) ==
  /\ At("payload")
  /\ IF p THEN Return ELSE Goto([top EXCEPT !.at = "drain"])
  /\ UNCHANGED <<chanVars, wakerVars, taskVars, histVars>>

AfterPayload(p) ==
  /\ At("payload")
  /\ IF p /\ top.panicked THEN Abort
     ELSE Goto([top EXCEPT !.at = "drain", !.panicked = @ \/ p])
  /\ UNCHANGED <<chanVars, wakerVars, taskVars, histVars>>

\* RemoveStream: the last thing the drop does.
DrainDone ==
  /\ At("drain") /\ IsEmpty
  /\ recv_wakers' = recv_wakers \ {<<top.who, top.id>>}
  /\ Return
  /\ UNCHANGED <<chanVars, send_wakers, waker_id, taskVars, histVars>>

-----------------------------------------------------------------------------
\* Nothing is left of the channel, or of the process.
Over ==
  /\ aborted \/ (depth = 0 /\ senders = 0 /\ rxLive = {})
  /\ UNCHANGED vars

SendCalls == \E i \in Items :
  TrySend(i) \/ NewSend(i) \/ PollSend(i) \/ ReplayOutcome(i) \/ DropSend(i)
RecvCalls == \E s \in RecvFuts :
  PollRecv(s) \/ PollDone(s) \/ DropRecv(s) \/ \E r \in Receivers : NewRecv(s, r)
ReceiverCalls == \E r \in Receivers :
  TryRecv(r) \/ PollNext(r) \/ CloneReceiver(r) \/ ReceiverClose(r) \/ DropReceiver(r)
    \/ DropLastReceiver(r)
SenderCalls == CloneSender \/ DropSender \/ DropLastSender \/ SenderClose

\* The running call goes on; p is how the callback it waits for ends.
CallbackSteps(p) ==
  WakeNext(p) \/ WakeAborts(p) \/ AfterDropOldSend(p) \/ AfterCloneSend(p) \/ AfterDropCommit(p)
    \/ AfterDropOldRecv(p) \/ AfterCloneRecv(p) \/ AfterDropUnstored(p)
    \/ AfterDropDone(p) \/ AfterPayload(p)
LibrarySteps ==
  \/ WakesReturn \/ CloseSenders \/ WakesTake \/ WakesCommit \/ WakesDrain
  \/ SendClosed \/ SendPush \/ SendFull \/ SendPending \/ Deregister
  \/ TakeRedelivered \/ TakeItem \/ TakeAndWake \/ TakeNothing
  \/ TryRecvEmpty \/ PollDisconnected \/ PollRegister \/ RecheckDisconnected \/ RecvPending
  \/ DrainRedelivered \/ DrainItem \/ DrainDone

Next ==
  \/ SendCalls \/ RecvCalls \/ ReceiverCalls \/ SenderCalls
  \/ \E p \in Panics : CallbackSteps(p)
  \/ LibrarySteps
  \/ Over

Spec == Init /\ [][Next]_vars

-----------------------------------------------------------------------------
(* Properties *)

\* Which call can be at a point, and what it holds.
Shape(f) ==
  /\ f.at \in {"first", "recheck", "drop_old_send", "clone_send", "deregister", "drop_commit"}
       => f.op = "send"
  /\ f.at \in {"drop_old_recv", "clone_recv", "drop_unstored"} => f.op = "poll1"
  /\ f.at \in {"take", "empty"} => f.op \in TakeOps
  /\ f.at = "drop_done" => f.op = "recv_done"
  /\ f.at \in {"drain", "payload"} => f.op = "receiver_drop"
  /\ f.op = "send" => f.who \in Items
  /\ f.op \in {"poll1", "poll2", "recv_done"} => f.who \in RecvFuts \cup Receivers
  /\ f.op \in {"try_recv", "receiver_drop"} => f.who \in Receivers

RawFrames == [op : Ops, at : Labels, who : Owners \cup {None}, todo : SUBSET Regs,
              panicked : BOOLEAN, id : WakerIds \cup {None}]
Frames == {f \in RawFrames : Shape(f)}

ChanType ==
  /\ queue \in Seq(Items) /\ (Bounded => Len(queue) <= Cap)
  /\ redelivery \in Seq(Items) /\ Len(redelivery) <= 1
  /\ senders \in 0..MaxSenders /\ rxLive \subseteq Receivers /\ closed \in BOOLEAN
WakerType ==
  /\ recv_wakers \subseteq Regs /\ send_wakers \subseteq Regs
  /\ waker_id \in [Owners -> WakerIds \cup {None}]
TaskType ==
  /\ sfut \in [Items -> SendStates]
  /\ rfut \in [RecvFuts -> [rx : Receivers \cup {None}, done : BOOLEAN]]
  /\ parked \subseteq Owners /\ woken \subseteq Owners
HistType ==
  /\ pushed \in Seq(Items) /\ delivered \in Seq(Items) /\ drained \in Seq(Items)
  /\ sawNone \in BOOLEAN
StackType ==
  /\ depth \in 0..MaxDepth /\ frames \in [0..MaxDepth -> Frames] /\ aborted \in BOOLEAN

\* Every variable has its type and every suspended call is at a point of its
\* own code; a bounded queue never exceeds its capacity and the redelivery
\* slot never holds more than one item.
TypeOK == ChanType /\ WakerType /\ TaskType /\ HistType /\ StackType

\* A receive on the stack keeps its Receiver alive, and the last Receiver's
\* drop, once begun, is never joined by a new Receiver.
Keeps(o) == (o \in Receivers => o \in rxLive) /\ (o \in RecvFuts => rfut[o].rx \in rxLive)
FrameBorrows(f) ==
  /\ f.op \in TakeOps => Keeps(f.who)
  /\ f.op = "receiver_drop" => rxLive = {}
Borrows ==
  /\ \A s \in RecvFuts : rfut[s].rx /= None => rfut[s].rx \in rxLive
  /\ \A d \in Live : FrameBorrows(frames[d])
  /\ drained /= <<>> => rxLive = {}

\* No item is lost, duplicated or reordered: what was accepted is what was
\* delivered, then what the last receiver dropped, then the redelivery slot,
\* then the queue, whatever callbacks re-enter or panic.
Fifo == pushed = delivered \o drained \o redelivery \o queue

\* The outcome a Send records is what happened to its item: it is in the
\* channel's history exactly if the outcome is Ok.
Accepted(i) == \E n \in 1..Len(pushed) : pushed[n] = i
OutcomeExact ==
  \A i \in Items :
    /\ sfut[i] \in {"okHeld", "ok"} => Accepted(i)
    /\ sfut[i] \in {"new", "pending", "errHeld", "err"} => ~Accepted(i)

Owed(o) == o \in woken \/ \E d \in Live : Reg(o) \in frames[d].todo

\* A parked receiver has been woken, or is about to be, or is registered on a
\* channel that has neither an item nor a disconnection for it.
NoLostRecvWakeup ==
  ~aborted => \A o \in parked \ Items :
    Owed(o) \/ (Reg(o) \in recv_wakers /\ IsEmpty /\ ~Disconnected)

\* close has the senders still to wake.
Closing == \E d \in Live : frames[d].op = "close"

\* A parked sender has been woken, or is about to be, or is registered on a
\* channel that is full and that no close has finished with.
NoLostSendWakeup ==
  ~aborted => \A i \in parked \cap Items :
    Owed(i) \/ (Reg(i) \in send_wakers /\ IsFull /\ (ClosedToSend => Closing))

Guarded(o, k, op) == \E d \in Live : frames[d].op = op /\ frames[d].who = o /\ frames[d].id = k

\* Every registration is one its owner, or a drop guard on the stack, will
\* remove: no waker outlives its future in either list, and a future has at
\* most one entry.
NoOrphanWaker ==
  /\ \A w \in recv_wakers : waker_id[w[1]] = w[2] \/ Guarded(w[1], w[2], "receiver_drop")
  /\ \A w \in send_wakers : waker_id[w[1]] = w[2] \/ Guarded(w[1], w[2], "send")

\* A disconnected channel keeps no receiver's waker, and one closed to sends
\* keeps no sender's once the calls on the stack are done.
TerminalKeepsNoWaker ==
  /\ Disconnected => recv_wakers = {}
  /\ ClosedToSend /\ depth = 0 => send_wakers = {}

\* A future that says it is terminated, and a Send that is done once its poll
\* has returned or unwound, has no registration left: nothing will poll it to
\* take the waker back.
CompletedKeepsNoWaker ==
  \A k \in WakerIds :
    /\ \A s \in RecvFuts : RecvTerminated(s) => <<s, k>> \notin recv_wakers
    /\ \A i \in Items :
         SendTerminated(i) \/ (sfut[i] \in {"okHeld", "errHeld"} /\ ~Busy(i)) =>
           <<i, k>> \notin send_wakers

\* Once a receive has reported disconnection, nothing is left to receive.
DisconnectIsFinal == sawNone => IsEmpty /\ Disconnected

\* The last receiver leaves nothing in the channel: the queue and the
\* redelivery slot are empty once its drop is over.
LastReceiverDrains ==
  rxLive = {} /\ ~aborted =>
    IsEmpty \/ \E d \in Live : frames[d].op = "receiver_drop"

\* Nothing is accepted by a channel that is closed or has no receiver.
SendsFailClosed == [][ClosedToSend => pushed' = pushed]_vars

\* Once a stream says it is terminated (it can be asked when no poll_next
\* holds it) nothing is delivered any more, and it goes on saying so.
TerminatedStreamIsDry ==
  [][\A r \in Receivers : Shared(r) /\ StreamTerminated(r) =>
       delivered' = delivered /\ (Shared(r)' => StreamTerminated(r)')]_vars

\* Seen without futures, wakers and callbacks the channel is the abstract one.
Ch == INSTANCE Channel WITH
        buf <- redelivery \o queue, tx <- senders > 0, rx <- rxLive /= {}, shut <- closed
ImplementsChannel == Ch!Spec

-----------------------------------------------------------------------------
(* Liveness: callbacks return and tasks that were woken are polled again.   *)

Fairness ==
  /\ WF_vars(LibrarySteps)
  /\ \A d \in 1..MaxDepth : SF_vars(depth = d /\ CallbackSteps(FALSE))
  /\ \A i \in Items : SF_vars(i \in parked \cap woken /\ PollSend(i))
  /\ \A s \in RecvFuts : SF_vars(s \in parked \cap woken /\ PollRecv(s))

LiveSpec == Spec /\ Fairness

\* A Recv that is parked when the channel disconnects (last sender dropped, or
\* closed) completes or is dropped: the disconnection is never missed.
RecvSeesDisconnect ==
  \A s \in RecvFuts :
    s \in parked /\ Disconnected ~> rfut[s].done \/ rfut[s].rx = None

\* A Send that is parked when the channel closes to sends resolves or is
\* dropped, whichever side closed it.
SendSeesClose ==
  \A i \in Items :
    i \in parked /\ ClosedToSend ~> sfut[i] \in {"ok", "err", "gone"}

=============================================================================
