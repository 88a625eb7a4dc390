------------------------------ MODULE Oneshot ------------------------------
(***************************************************************************)
(* lochan::oneshot: one value from a Sender that send consumes to a        *)
(* Receiver that is itself a future.                                       *)
(*                                                                         *)
(* The value lives in an uninitialised slot of Inner guarded by the flag   *)
(* value_present; reads counts how often the slot was read out or dropped, *)
(* which must be once for a sent value and never otherwise.  Calls,        *)
(* callbacks and panics are those of Reentry.                              *)
(***************************************************************************)
EXTENDS Reentry, Sequences

CONSTANT Tasks   \* wakers the Receiver is polled with

ASSUME OneshotAssumption == None \notin Tasks \cup {"value", "canceled"}

VARIABLES
  value_present,     \* Inner.value_present
  sender_dropped,    \* Inner.sender_dropped
  receiver_dropped,  \* Inner.receiver_dropped
  recv_waker,        \* Inner.recv_waker
  done,              \* Receiver.done
  txOwned,           \* user code has the Sender
  rxOwned,           \* user code has the Receiver
  parked,            \* the task whose last poll was Pending
  woken,             \* tasks whose waker was called since their last poll began
  sent,              \* history: send has written the slot
  reads,             \* history: how often the slot was read out or dropped
  outcome            \* history: what the Receiver reported, None so far

innerVars == <<value_present, sender_dropped, receiver_dropped, recv_waker>>
handleVars == <<done, txOwned, rxOwned>>
taskVars == <<parked, woken>>
histVars == <<sent, reads, outcome>>
vars == <<innerVars, handleVars, taskVars, histVars, stackVars>>

SenderOps == {"send", "sender_drop"}
Ops == SenderOps \cup {"idle", "poll", "receiver_drop"}
CallbackPoints == {"wake", "clone_recv", "drop_replaced", "drop_cleared", "payload"}
Labels == CallbackPoints \cup {"idle", "woke", "first", "recheck", "drop_value"}

MayCall == UserCode(CallbackPoints)

RxFree == rxOwned /\ ~\E d \in Live : frames[d].op = "poll"

\* A side holds its Rc until its last call is off the stack.
Holding(owned, ops) == owned \/ \E d \in Live : d < depth /\ frames[d].op \in ops
SenderHolds == Holding(txOwned, SenderOps)
ReceiverHolds == Holding(rxOwned, {"receiver_drop"})

Init ==
  /\ value_present = FALSE /\ sender_dropped = FALSE /\ receiver_dropped = FALSE
  /\ recv_waker = None /\ done = FALSE
  /\ txOwned = TRUE /\ rxOwned = TRUE
  /\ parked = {} /\ woken = {}
  /\ sent = FALSE /\ reads = 0 /\ outcome = None
  /\ StackInit

-----------------------------------------------------------------------------
\* wake_receiver takes the waker out of the slot before it calls it.
Taken == IF recv_waker = None THEN {} ELSE {recv_waker}

\* A panic in the drop of an unwinding Sender would be the second one.
WakeNext(p) ==
  /\ At("wake")
  /\ IF p /\ top.panicked THEN Abort
     ELSE Goto(Waking([top EXCEPT !.panicked = p], {}))
  /\ woken' = woken \cup top.todo
  /\ UNCHANGED <<innerVars, handleVars, parked, histVars>>

\* The last holder of Inner is gone: what is left in the slot is dropped with it.
LastHolder(otherHolds) ==
  /\ value_present' = (value_present /\ otherHolds)
  /\ reads' = IF value_present /\ ~otherHolds THEN reads + 1 ELSE reads

-----------------------------------------------------------------------------
(* Sender *)

MutSendValue ==
  /\ MayCall /\ txOwned
  /\ txOwned' = FALSE
  /\ value_present' = TRUE /\ sent' = TRUE
  /\ recv_waker' = None
  /\ Call(Waking(Frame("send", "woke", None), Taken))
  /\ UNCHANGED <<sender_dropped, receiver_dropped, done, rxOwned, taskVars, reads, outcome>>

SendValue ==
  /\ MayCall /\ txOwned /\ ~receiver_dropped
  /\ txOwned' = FALSE
  /\ value_present' = TRUE /\ sent' = TRUE
  /\ recv_waker' = None
  /\ Call(Waking(Frame("send", "woke", None), Taken))
  /\ UNCHANGED <<sender_dropped, receiver_dropped, done, rxOwned, taskVars, reads, outcome>>

MutCancelWakes == {}

\* Sender::drop wakes the receiver for the cancellation, not for a value.
CancelWakes == IF value_present THEN {} ELSE Taken

Leaving ==
  /\ sender_dropped' = TRUE
  /\ recv_waker' = IF value_present THEN recv_waker ELSE None
  /\ UNCHANGED <<value_present, receiver_dropped, done, rxOwned, taskVars, histVars>>

\* Also what is left of a send that the dropped Receiver refuses.
DropSender ==
  /\ MayCall /\ txOwned
  /\ txOwned' = FALSE
  /\ Call(Waking(Frame("sender_drop", "woke", None), CancelWakes))
  /\ Leaving

\* send consumes the Sender: it is dropped when the wake is over, by a return or
\* by an unwind. The wake may have let the receiver take the value already.
SendReturns ==
  /\ At("woke") /\ Running({"send"})
  /\ Goto(Waking([top EXCEPT !.op = "sender_drop"], CancelWakes))
  /\ Leaving /\ UNCHANGED txOwned

SenderGone ==
  /\ At("woke") /\ Running({"sender_drop"})
  /\ LastHolder(ReceiverHolds)
  /\ Return
  /\ UNCHANGED <<sender_dropped, receiver_dropped, recv_waker, handleVars, taskVars, sent, outcome>>

-----------------------------------------------------------------------------
(* Receiver *)

\* The flag is cleared, then the slot is read out.
ReadValue ==
  /\ value_present
  /\ value_present' = FALSE
  /\ reads' = reads + 1
  /\ done' = TRUE /\ outcome' = "value"
  /\ UNCHANGED <<sender_dropped, receiver_dropped, recv_waker, txOwned, rxOwned, taskVars, sent>>

MutReportCanceled ==
  /\ sender_dropped
  /\ done' = TRUE /\ outcome' = "canceled"
  /\ UNCHANGED <<innerVars, txOwned, rxOwned, taskVars, sent, reads>>

ReportCanceled ==
  /\ ~value_present /\ sender_dropped
  /\ done' = TRUE /\ outcome' = "canceled"
  /\ UNCHANGED <<innerVars, txOwned, rxOwned, taskVars, sent, reads>>

\* take_value, for try_recv and for the iterator.
TakeValue == MayCall /\ RxFree /\ ~done /\ ReadValue /\ UNCHANGED stackVars

\* try_recv also reports the cancellation, the iterator leaves it to a later poll.
TryRecvCanceled == MayCall /\ RxFree /\ ~done /\ ReportCanceled /\ UNCHANGED stackVars

Poll(t) ==
  /\ MayCall /\ RxFree /\ ~done
  /\ parked' = {} /\ woken' = woken \ {t}
  /\ Call(Frame("poll", "first", t))
  /\ UNCHANGED <<innerVars, handleVars, histVars>>

\* poll looks at the slot and at the sender, on entry and once it is registered.
Looking == ~aborted /\ depth > 0 /\ top.at \in {"first", "recheck"}

PollValue == Looking /\ ReadValue /\ Return

PollCanceled == Looking /\ ReportCanceled /\ Return

Nothing == ~value_present /\ ~sender_dropped

PollRegister ==
  /\ At("first") /\ Nothing
  /\ Goto([top EXCEPT !.at = "clone_recv"])
  /\ UNCHANGED <<innerVars, handleVars, taskVars, histVars>>

\* register_recv_waker: the Receiver is being polled, so it is not dropped.
AfterCloneRecv(p) ==
  /\ At("clone_recv")
  /\ IF p THEN Return /\ UNCHANGED recv_waker
     ELSE /\ recv_waker' = top.who
          /\ Goto([top EXCEPT !.at = IF recv_waker = None THEN "recheck" ELSE "drop_replaced"])
  /\ UNCHANGED <<value_present, sender_dropped, receiver_dropped, handleVars, taskVars, histVars>>

AfterDropReplaced(p) ==
  /\ At("drop_replaced")
  /\ IF p THEN Return ELSE Goto([top EXCEPT !.at = "recheck"])
  /\ UNCHANGED <<innerVars, handleVars, taskVars, histVars>>

MutPollPending ==
  /\ At("recheck")
  /\ parked' = {top.who}
  /\ Return
  /\ UNCHANGED <<innerVars, handleVars, woken, histVars>>

PollPending ==
  /\ At("recheck") /\ Nothing
  /\ parked' = {top.who}
  /\ Return
  /\ UNCHANGED <<innerVars, handleVars, woken, histVars>>

MutDropReceiver ==
  /\ MayCall /\ RxFree
  /\ rxOwned' = FALSE
  /\ recv_waker' = None
  /\ parked' = {}
  /\ Call(Frame("receiver_drop", IF recv_waker = None THEN "drop_value" ELSE "drop_cleared", None))
  /\ UNCHANGED <<value_present, sender_dropped, receiver_dropped, done, txOwned, woken, histVars>>

\* receiver_dropped is set before any callback can run.
DropReceiver ==
  /\ MayCall /\ RxFree
  /\ rxOwned' = FALSE
  /\ receiver_dropped' = TRUE
  /\ recv_waker' = None
  /\ parked' = {}
  /\ Call(Frame("receiver_drop", IF recv_waker = None THEN "drop_value" ELSE "drop_cleared", None))
  /\ UNCHANGED <<value_present, sender_dropped, done, txOwned, woken, histVars>>

ReceiverGone ==
  /\ LastHolder(SenderHolds)
  /\ Return
  /\ UNCHANGED <<sender_dropped, receiver_dropped, recv_waker, handleVars, taskVars, sent, outcome>>

\* A panic of the cleared waker unwinds past drop_value.
AfterDropCleared(p) ==
  /\ At("drop_cleared")
  /\ IF p THEN ReceiverGone
     ELSE /\ Goto([top EXCEPT !.at = "drop_value"])
          /\ UNCHANGED <<innerVars, handleVars, taskVars, histVars>>

MutDropValue ==
  /\ At("drop_value") /\ value_present
  /\ reads' = reads + 1
  /\ Goto([top EXCEPT !.at = "payload"])
  /\ UNCHANGED <<innerVars, handleVars, taskVars, sent, outcome>>

\* The flag is cleared before the value's destructor runs.
DropValue ==
  /\ At("drop_value") /\ value_present
  /\ value_present' = FALSE
  /\ reads' = reads + 1
  /\ Goto([top EXCEPT !.at = "payload"])
  /\ UNCHANGED <<sender_dropped, receiver_dropped, recv_waker, handleVars, taskVars, sent, outcome>>

DropNoValue == At("drop_value") /\ ~value_present /\ ReceiverGone

AfterPayload(p) == At("payload") /\ ReceiverGone

-----------------------------------------------------------------------------
\* Nothing is left of the channel, or of the process.
Over ==
  /\ aborted \/ (depth = 0 /\ ~txOwned /\ ~rxOwned)
  /\ UNCHANGED vars

Calls ==
  \/ SendValue \/ DropSender
  \/ TakeValue \/ TryRecvCanceled \/ DropReceiver
  \/ \E t \in Tasks : Poll(t)

\* The running call goes on; p is how the callback it waits for ends.
CallbackSteps(p) ==
  WakeNext(p) \/ AfterCloneRecv(p) \/ AfterDropReplaced(p) \/ AfterDropCleared(p)
    \/ AfterPayload(p)
LibrarySteps ==
  \/ SendReturns \/ SenderGone
  \/ PollValue \/ PollCanceled \/ PollRegister \/ PollPending
  \/ DropValue \/ DropNoValue

Next ==
  \/ Calls
  \/ \E p \in Panics : CallbackSteps(p)
  \/ LibrarySteps
  \/ Over

Spec == Init /\ [][Next]_vars

-----------------------------------------------------------------------------
(* Properties *)

\* The unsafe slot: it is flagged as initialised exactly while a sent value has
\* not been read out or dropped, whatever callback panics and whatever it calls,
\* and nothing unsent is ever read.
SlotFlagExact ==
  /\ value_present <=> sent /\ reads = 0
  /\ reads \in 0..1 /\ (reads = 1 => sent)

\* The Receiver reports a cancellation only when no value was sent, and a value
\* only when it read one out.
OutcomeExact == (outcome = "canceled" => ~sent) /\ (outcome = "value" => sent /\ reads = 1)

Owed(t) == t \in woken \/ \E d \in Live : t \in frames[d].todo

\* A task whose poll was Pending has been woken, or is about to be, or its waker
\* is in the slot while there is neither a value nor a cancellation.
NoLostWakeup ==
  ~aborted /\ ~done => \A t \in parked : Owed(t) \/ (recv_waker = t /\ Nothing)

ReceiverDropping == \E d \in Live : frames[d].op = "receiver_drop"

\* Once the Receiver's drop is over the channel keeps neither its waker nor an
\* unreceived value, even when the waker's destructor panics past drop_value:
\* the backstop in Inner's drop has nothing left to do.
ReceiverLeavesNothing ==
  ~rxOwned /\ ~ReceiverDropping /\ ~aborted => recv_waker = None /\ ~value_present

\* Seen without wakers and callbacks it is the abstract channel, for one item.
Ch == INSTANCE Channel WITH
        Items <- {"value"}, Bounded <- TRUE, Cap <- 0,
        buf <- IF value_present THEN <<"value">> ELSE <<>>,
        tx <- ~sender_dropped, rx <- ~receiver_dropped, shut <- FALSE
ImplementsChannel == Ch!Spec

-----------------------------------------------------------------------------
(* Liveness: callbacks end, by a return or a panic, and a task that was     *)
(* woken polls again.                                                       *)

Fairness ==
  /\ WF_vars(LibrarySteps)
  /\ \A d \in 1..MaxDepth : SF_vars(depth = d /\ \E p \in Panics : CallbackSteps(p))
  /\ \A t \in Tasks : SF_vars(t \in parked \cap woken /\ Poll(t))

LiveSpec == Spec /\ Fairness

\* A parked Receiver whose Sender sends or is dropped reports it, or is dropped,
\* whichever callbacks panic on the way.
RecvResolves == parked /= {} /\ ~Nothing ~> done \/ ~rxOwned \/ aborted

=============================================================================
