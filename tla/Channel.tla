------------------------------ MODULE Channel ------------------------------
(***************************************************************************)
(* What lochan promises of a channel, without wakers, futures, callbacks   *)
(* or panics: a first-in first-out buffer between senders and receivers.   *)
(*                                                                         *)
(* Items go in while the channel is open and a receiver lives, leave in    *)
(* order to a receiver, and are discarded, in order, once no receiver is   *)
(* left.  A bounded channel buffers Cap items, one more while a receive    *)
(* has taken its item out of the queue and has not handed it over yet.     *)
(***************************************************************************)
EXTENDS Naturals, Sequences

CONSTANTS Items, Bounded, Cap

VARIABLES
  buf,     \* items accepted and neither received nor discarded
  tx,      \* a Sender is alive
  rx,      \* a Receiver is alive
  shut     \* close was called

vars == <<buf, tx, rx, shut>>

Init == buf = <<>> /\ tx = TRUE /\ rx = TRUE /\ shut = FALSE

Send(i) ==
  /\ tx /\ rx /\ ~shut
  /\ Bounded => Len(buf) <= Cap
  /\ buf' = Append(buf, i)
  /\ UNCHANGED <<tx, rx, shut>>

Receive ==
  /\ rx /\ buf /= <<>>
  /\ buf' = Tail(buf)
  /\ UNCHANGED <<tx, rx, shut>>

Discard ==
  /\ ~rx /\ buf /= <<>>
  /\ buf' = Tail(buf)
  /\ UNCHANGED <<tx, rx, shut>>

LastSenderLeaves == tx /\ tx' = FALSE /\ UNCHANGED <<buf, rx, shut>>

LastReceiverLeaves == rx /\ rx' = FALSE /\ UNCHANGED <<buf, tx, shut>>

Close == ~shut /\ shut' = TRUE /\ UNCHANGED <<buf, tx, rx>>

Next ==
  \/ \E i \in Items : Send(i)
  \/ Receive \/ Discard
  \/ LastSenderLeaves \/ LastReceiverLeaves \/ Close

Spec == Init /\ [][Next]_vars

=============================================================================
