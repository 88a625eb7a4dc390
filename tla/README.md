# A TLA+ model of lochan

lochan is a crate of channels for one thread: `!Send`, without atomics or locks.
Every handle of a channel belongs to the same thread, so there are no data races.
What makes the code hard is that a channel call runs **user code in its middle**:
waker clones, wakes and drops, and the destructors of payloads. That code may call
the same channel again, at any depth, and may panic. This project models the three
channels (mpmc, mpsc, oneshot) and the queue storage at that grain, checks them with
TLC on small instances and proves with TLAPS, for all instances, what the three channels
and the two storages promise.

## 1. Inventory

| Part | State it keeps | Operations | Hard part |
|---|---|---|---|
| `mpmc::chan` | item queue, `redelivery` slot, sender and receiver counts, `closed`, two waker lists with ids | `try_push`, `try_take`, `close`, `add_*_waker`, `remove_*_waker`, `wake_*`, `drain` | state read before a callback and used after it; a panic between two halves of a step |
| `mpmc::channel` | `Sender`, `Receiver` (with its stream registration) | `try_send`, `send`, `try_recv`, `recv`, `try_iter`, `poll_next`, `is_terminated`, `close`, clone, drop | last receiver's drop: wakes, then drains, then deregisters, each under a guard |
| `mpmc::send` | item, `done`, registration id, committed outcome | poll, `commit`, `is_terminated`, drop | the outcome is recorded before the wake, replayed if the wake panics |
| `mpmc::recv` | `done`, registration id | poll, `is_terminated`, drop | completing on the recheck leaves a waker behind |
| `queue` | `Ring` (bounded), `BlockList` (unbounded) | push, pop, drop | wrap-around; freeing blocks |
| `mpsc` | as mpmc, one receiver, one waker slot, no `redelivery` | as mpmc | a panic while the popped item is on the stack |
| `oneshot` | one slot, flags, one waker | send, poll, `try_recv`, drops | a re-entrant waker during send |
| `cell` | the checked or unchecked cell of each field | borrow | no callback while a cell is borrowed |

Handles and futures hold `Rc<Chan>` or a borrow of a handle; they interact only
through `Chan`, and with the tasks only through wakers.

What makes the channel correct:

* items: nothing is lost, duplicated or reordered, also across a panic (`Fifo`);
  nothing enters a closed channel (`SendsFailClosed`); a reported disconnection is
  final (`DisconnectIsFinal`); the last receiver leaves nothing (`LastReceiverDrains`);
* wakers: a parked task has been woken, will be, or is registered on a channel that
  has nothing for it (`NoLostRecvWakeup`, `NoLostSendWakeup`); no registration
  outlives its owner (`NoOrphanWaker`, `TerminalKeepsNoWaker`, `CompletedKeepsNoWaker`);
* futures: a send's outcome is what happened to its item (`OutcomeExact`); a stream
  that says it is terminated delivers nothing more (`TerminatedStreamIsDry`);
* progress: `RecvSeesDisconnect`, `RecvCompletes`, `SendSeesClose`, `SendsProgress`,
  `RecvResolves`;
* oneshot: the unsafe slot is read or dropped exactly once for a sent value
  (`SlotFlagExact`), a cancellation is reported only if nothing was sent, and the
  dropped Receiver leaves nothing (`ReceiverLeavesNothing`).

`PROJECT.json` lists the hazards at their lines with the properties that cover them.

## 2. Modules

| Module | Models |
|---|---|
| `Reentry` | the call stack of the one thread: `Call`, `Goto`, `Return`, `Abort` |
| `Mpmc` | the mpmc channel: Chan, handles, both futures, the stream |
| `Mpsc` | the mpsc channel: Chan, Senders, the Receiver with its Recv future and Stream |
| `Oneshot` | the oneshot channel |
| `Channel` | the abstract channel that `Mpmc`, `Mpsc` and `Oneshot` implement |
| `FifoQueue` | the abstract queue that `Flavor` offers to Chan |
| `Ring`, `BlockList` | the two storages; each implements `FifoQueue` |
| `MCMpmc`, `MCMpsc` | the two for TLC, with the symmetry of items, futures and receivers or tasks |
| `MpmcProofs`, `MpmcFifo`, `MpmcWakers` | proofs about `Mpmc`: types, items, wakers and the refinement |
| `MpscProofs`, `OneshotProofs` | proofs about `Mpsc` and `Oneshot` |
| `RingProofs`, `BlockListProofs` | proofs about the two storages |
| `ChannelFacts` | the lemmas about the call stack and about items in order that the proofs of the channels share |

### The grain: Reentry

Library code between two callbacks cannot be interrupted, so it is one step. A call
that is inside a callback is a frame on a stack: the operation (`op`), the callback
point (`at`), the future or handle it holds (`who`), the wakers it took out of a list
and has still to call (`todo`), whether a callback of it panicked, and a registration
id kept by one of its drop guards. When the top frame is in a callback, user code runs:
it may make any call that Rust's borrows allow (`MayCall`, pushing a frame), or the
callback may come back, normally or by a panic (the parameter `p` of `CallbackSteps`).
An unwinding call is a `Return`: its caller's callback may catch the panic or pass it on.
`aborted` is the process abort of a panic that leaves a destructor during an unwind.

`Builds` says which builds of the crate a run covers. With the `std` feature every
wake of a list is caught and the first panic resumed at the end, so any number of
wakers may panic. Without it a drop guard wakes the rest after the first panic and the
second one aborts. `WakeMayEnd` is the first case, `WakeAborted` the second; with both
builds each second panic may end either way, which contains the behaviours of both.
`close` behaves the same way across its two phases, because `panicked` stays with the
frame.

### Mpmc

The variables carry the names of the Rust fields. `redelivery` is an `Option` written
as a sequence of at most one item. `senders` is the count; receivers are named
(`rxLive`) because each has a stream registration. A registration is `<<owner, id>>`.
A Send future is named by its item and `sfut` folds `item`, `done` and `outcome` into
its life: `pending`, `okHeld`/`errHeld` (committed, not yet returned), `ok`/`err`,
`gone`. `parked` holds the owners whose last poll returned Pending and `woken` those
whose waker was called since; the two say what the executor knows. `pushed`,
`delivered`, `drained` and `sawNone` are history.

Calls: `TrySend`, `NewSend`, `PollSend`, `ReplayOutcome`, `DropSend`; `TryRecv`,
`NewRecv`, `PollRecv`, `PollDone`, `DropRecv`, `PollNext`; `CloneSender`, `DropSender`,
`DropLastSender`, `SenderClose`; `CloneReceiver`, `DropReceiver`, `DropLastReceiver`,
`ReceiverClose`. `try_iter` is `TryRecv`. A call that changes nothing (a refused
`try_send`, `close` on a closed channel, `len`) is no action; nor is the poll of a
future that already reported itself terminated, which returns Pending.

`Send::poll` is `PollSend`, then on the first look `SendClosed`, `SendPush` or
`SendFull`; `SendFull` drops the old waker, clones and stores the new one
(`AfterDropOldSend`, `AfterCloneSend`) and looks again: `SendClosed`, `SendPush` or
`SendPending`. Committing wakes the receivers, then `Deregister` is the RemoveSend
guard. `poll_recv` is `PollingRecv`, `try_take` (`TakeRedelivered`, `TakeItem`,
`TakeAndWake`, `TakeNothing`), `PollDisconnected` or `PollRegister`, the clone
(`AfterCloneRecv`), `try_take` again as `poll2`, and `RecheckDisconnected` or
`RecvPending`. The last receiver's drop wakes the senders, then drains item by item,
then removes its registration, whatever panics on the way.

Abstractions, and why they lose nothing the properties speak of:

* the waker lists are sets and are woken in any order; the code's order is one of them;
* ids are the smallest number nobody holds, not a counter. Only equality matters, and
  the wrap of the `u64` counter is out of reach;
* a callback in tail position (the waker and the item dropped by `Send::drop`, the
  registration removed last by a Receiver's drop) gets no frame: what user code does
  there it can as well do after the call has returned;
* the registration that `poll_recv`'s recheck removes on a disconnected channel drops
  no waker: whatever disconnected it took every receiver's entry before
  (`TerminalKeepsNoWaker`), so that callback cannot happen;
* a second panic during an unwind aborts in the step it happens; the guards that
  would still run first touch nothing that outlives the process;
* handles and futures are dropped, never forgotten; payloads own no handles.

### Mpsc

The same protocol with a single consumer. What differs:

* `recv_waker` is one slot (`None` or a task), not a list. `Recv` and `Stream` polls
  share it, and successive polls may come from different tasks: `Polling(t)` says that
  task `t` now is the one that waits, a task that polled before it no longer counts as
  parked. The slot has no ids to tell one registration of a task from the next, so the
  consumer counts as woken when the call of its waker begins (`WakeReceiver`): a poll from
  inside that call starts a new wait, which this wake does not answer. A sender, whose
  registration has an id, counts as woken when the call ends. `AfterCloneRecv` is `register_recv_waker` after the clone: it looks again
  (`Terminal`) and replaces the old waker, whose drop is one more callback.
* there is no redelivery slot. `TakeItem` pops and takes the senders' wakers; the item
  is `inHand`, a local of the receive, while they are called. `DeliverItem` returns it;
  after a panic `LoseItem` drops it, and `lost` remembers it. The destructor of that
  item (`lost_item`) runs inside the unwind, so its panic aborts.
* every receive takes `&mut Receiver` (a `Recv` for its whole life), so callbacks of a
  receive can neither receive again nor drop the Receiver (`RxFree`, `RxShared`).
* `rfut` is the Recv future: `none`, `fresh` (never polled), `live` (polled, not done) or
  `done`. `Recv::poll` does not look at `done`: a completed Recv may be polled again.
  `DropRecv` clears the slot unless the Recv is done, and ends the wait of the task that
  polled it. A `fresh` Recv has nobody waiting for it, but its drop clears the slot too,
  and with it the waker of a Stream that was polled before: that task stays parked and
  `unplugged` remembers what happened, until the next poll.
* `commit` deregisters first (`SendPush` goes to `drop_commit` if a waker is dropped)
  and wakes after (`AfterDropCommit`).
* the Receiver's drop wakes the senders, then `ClearRecvWaker`, then drains; only the
  drain is under a guard, a panic of the wakes skips the clearing.

`Toxic` is the set of callbacks that may panic; `MCMpsc` gives it all of them or all
but the drop of a committing send's waker. The abstractions listed for `Mpmc` hold here
too; the waker that `poll_recv` clears on a disconnected channel is the one callback
left out, because the slot is empty there (`NoStaleWaker`).

### Oneshot

The variables are the flags of `Inner` and of the Receiver. `txOwned` and `rxOwned`
say that user code still has the handle; a handle whose consuming call is on the stack
still holds its `Rc` (`SenderHolds`, `ReceiverHolds`), and the last holder's return
runs `Inner::drop` (`LastHolder`). `reads` counts how often the slot was read out or
dropped. `SendValue` is followed by `SendReturns`, the drop of the consumed Sender,
whether the wake returned or panicked. A send to a dropped Receiver hands the value
back and drops the Sender, so it is `DropSender`. `PollValue` and `PollCanceled` serve
both looks of `poll`, before and after `register_recv_waker`. The tombstone check in
`register_recv_waker` cannot fire: the Receiver that polls is not being dropped.
Callbacks in tail position get no frame, as in `Mpmc`.

### BlockList

`heap` maps every address to a block or to `Freed`; the allocator may hand out any freed
address again, so a pointer that was kept too long would be seen. `ChainFrom` follows the
`next` pointers from a block, for as many steps as there are addresses; `Contents` is what
the blocks on the way from `head` hold, and the queue that the list stands for.

Dropping the list is one step per block. A payload destructor may panic there
(`DropPanics`): the block is freed, the rest of its items and the blocks after it leak,
and `ImplementsFifo` says that even then nothing is dropped twice. This happens only
when the list is dropped with items in it, that is when a Receiver was forgotten.

## 3. Runs

| Run | Bounds | Shows |
|---|---|---|
| `mpmc_panics` | 3 items, capacity 1, 1 sender, 1 receiver, 1 recv future + its stream, stack of 2, panics, both builds | the safety properties of mpmc and `ImplementsChannel` |
| `mpmc_clones` | 2 items, capacity 1, 2 senders, 2 receivers, stack of 2 | the waker properties with several consumers |
| `mpmc_live` | 2 items, stack of 2, fair tasks | disconnection and close are always seen |
| `mpsc_panics` | 3 items, capacity 1, 1 sender, 1 task, stack of 2, panics, both builds | the safety properties of mpsc and `ImplementsChannel` |
| `mpsc_tasks` | 3 items, capacity 2, 2 senders, 2 tasks, stack of 2, panics except in `drop_commit`, both builds | the waker slot changes hands between tasks |
| `mpsc_live` | 2 items, stack of 2, fair tasks | an item or a disconnection is always seen by the Recv that waits |
| `mpsc_sends` | 3 items, capacity 1, stack of 1, fair tasks, a consumer that keeps receiving | two sends wait for one slot and a `try_send` may take it first: they do not come to a standstill |
| `mpsc_lost_item`, `mpsc_commit_order` | mpsc, 2 or 3 items, stack of 2, panics | violations, see below |
| `oneshot` | 2 tasks, stack of 3, panics, fair tasks | the slot, the outcome, the waker, the refinement, the Receiver's progress |
| `ring` | capacity 3, 2 item values | wrap-around of every window position |
| `block_list` | blocks of 2, 3 addresses, 4 items | a full, a partly read and a reused block, a panic while dropping |

The capacity of one makes every second send park and lets the redelivered item and a
full queue coexist. A stack of two is a callback that makes one complete call: a receive
in the `try_take` of a receive, a close in a clone. Calls nested deeper are not run but
proved: the theorems of section 4 hold for every depth. Three items are the redelivered
one, the queued one and the one whose send waits; in `mpsc_sends` the queued one and two
that wait for its slot, or one that waits and one that is sent by `try_send`. That run
has a stack of one, without re-entrant calls, because it asks whether wakes and polls go
on and on, which one level shows, and checking liveness on a larger graph takes too long.
In oneshot three nested calls are the most there can be: the send, the poll in its wake
and one call in that poll's callback. The unbounded flavor
differs only in that `IsFull` is false, as it is while fewer items than the capacity are
in the channel; the theorems of section 4 cover it. `WakerIds` is large enough that a
fresh id always exists. Every
run checks for deadlock; `Over` is the channel's proper end.

Fairness (`LiveSpec`). Library code that can go on does (weak fairness). A callback
that runs comes back (strong fairness at each stack depth, because the calls it makes
disable and re-enable its return); it does so by returning, since a panic is not
guaranteed. A future that is parked and was woken is polled again: that is what an
executor promises; nothing is assumed of futures that were not woken.
Panics are off in `mpmc_live`, `mpsc_live` and `mpsc_sends`: a task that dies in a panic is
not polled again. What a panic may not prevent, the wake of a task that lives on, is safety
and checked with panics on: a close whose receivers' wakers panic still wakes the parked
senders by `NoLostSendWakeup`, not by `SendSeesClose`. In `oneshot` panics are on also for
liveness: once there is something to report, the poll that reports it runs no callback.

`SendsProgress` (mpsc) further assumes, as `KeepsReceiving`, a consumer that keeps calling
`try_recv` or polling the Recv it holds, without which a full channel stays full. It says
that a send is accepted again and again as long as one is parked, and not that each parked
send gets its turn: the code wakes all that wait for one slot and promises no order, so
with an endless supply of items `try_send` could take every slot before the woken sends
are polled. A run has finitely many items, each of which is accepted once, so the
only way not to violate the property is that no send stays parked; what makes this a
property of the code and not of the bound is the step of the loser: it must be registered
again, or woken, when the next slot is freed. The mutant, which wakes one of the taken
registrations and forgets the others, leaves the loser parked beside a free slot.

For each property of each run the project names a mutant, a plausible slip in the code
that makes TLC report that property.

### Where mpsc falls short of its comments

Two runs are expected to fail. Each shows a panicking waker at work in mpsc; mpmc does
it differently in both places and passes the corresponding properties.

1. `mpsc_lost_item` violates `Fifo`: a send waits on a full channel, a receive pops an
   item and wakes the sender, whose waker panics. The unwind drops the popped item.
   `FifoButForPanics`, which holds, says that this is the only loss.
2. `mpsc_commit_order` violates `NoLostRecvWakeup`, all within one poll of a Send. It finds
   the channel full and clones its waker; the clone's callback receives the item, polls
   again and parks. The clone is stored, the second look finds room, and `commit` pushes
   the item and drops the waker it has just registered. That drop panics before
   `wake_receiver`, and the parked receiver sleeps on a non-empty queue. (A waker from an
   earlier poll cannot be in its place: every pop takes the wakers of all senders, so a
   send that is still registered when it is polled finds the channel full.) `mpsc_tasks`
   shows that no other callback's panic has this effect.

`PROJECT.json` quotes the comments under "findings". Three smaller differences from mpmc:

* `Send::is_terminated` (`mpsc/send.rs:122`) is true in the states `okHeld` and `errHeld`,
  in which a poll would still replay an outcome. The answer is no part of the model
  (section 5); the states are.
* Dropping a Recv that was never polled clears the slot of a Stream that waits
  (`mpsc/recv.rs:55`), the one way to lose the consumer's wakeup without a panic.
  `NoLostRecvWakeup` excludes exactly this (`unplugged`) until the consumer polls again;
  in mpmc a Recv removes its own registration only.
* `ClearRecvWaker` keeps the slot when a sender's waker panicked in the Receiver's drop
  (`mpsc/channel.rs:256`), so a waker left there stays until the last Sender goes or the
  channel is closed. `ReceiverDrains` says that only a panic makes the drop keep it.

## 4. Proofs

All for arbitrary sets of items, futures, tasks and handles, any capacity, block size and
stack depth, any finite set of addresses and both builds (`Builds` is arbitrary:
`WakeAborts` only sets `aborted`). Every invariant, action property and refinement that a
passing run checks is a theorem; only liveness is not.

### Mpmc

Every safety invariant, action property and refinement that a run checks of `Mpmc` is a
theorem. The proof goes in three layers, each an induction over all actions.

* `MpmcProofs`, `TypeCorrect`: `TypeOK` is inductive by itself because `Shape` ties each
  callback point to its operation and to what the operation holds; without it the type of
  `top.who` could not be recovered after a callback.
* `MpmcFifo`, `BorrowsHold`: a Recv names a live Receiver, a receive on the stack keeps its
  Receiver alive, a Receiver's drop that drains has no live Receiver beside it, and items
  were drained only if none is left. The parts need each other: the last Receiver can go
  only if no future or frame borrows it, and clones come only from live ones.
* `MpmcFifo`, `FifoCorrect` and `ClosedAcceptsNothing`: `Fifo` is not inductive alone, a
  delivery after a drain would put an item in front of the drained ones; `Borrows` excludes
  it. Six actions move an item; each is one lemma over a fact of `ChannelFacts`.
* `MpmcWakers`: the invariant `WInv`, inductive together with `TypeOK` and `Borrows`, from
  which `RecvWakeupCorrect`, `SendWakeupCorrect`, `OutcomeCorrect`, `OrphanCorrect`,
  `TerminalCorrect`, `CompletedCorrect`, `DisconnectCorrect`, `DrainCorrect` and the action
  property `StreamCorrect` follow, and `MpmcImplementsChannel`, the refinement of `Channel`.

`WInv` has to say what every suspended call relies on when its callback comes back, because
in between anything may have been called:

* a call below the top is in a callback (`Below`); wakes to do belong to a call at its wakes
  (`Points`); what the running call has just seen still holds (`EmptySeen`, `Registered`);
* at most one poll of a future is on the stack (`Exclusive`, Rust's `&mut`), it is not
  parked (`Unparked`), the future holds its item up to the commit and an outcome after it
  (`SendStack`), and has no id between the removal of the old registration and the storing
  of the new one (`IdStack`, `SendIds`);
* a `poll_recv` past its registration is registered, owed a wake, or will find the channel
  disconnected (`RecvRegistered`): this is what makes returning Pending safe;
* on a channel closed to sends, once the close is done with them, the registrations that
  are left belong to polls on the stack that will look again or remove them
  (`SendTerminal`); a disconnected channel has none of the receivers' (`RecvTerminal`);
* `SendWakeup` is `NoLostSendWakeup` with the receivers' end and the close told apart,
  because different calls discharge them: a close on the stack answers for `closed` only.

TLC checked `WInv` on the instances of the runs before it was proved. Each proof has one
lemma per action and in it one step per group of conjuncts; the stack enters through four
forms only, a call (`Pushes`), a step of the running call (`Moves`), an end (`Ends`) and no
change (`Stays`), that are derived once from `ChannelFacts`. Steps that touch nothing the
invariant speaks of are `Quiet` and share one lemma for each form.

### Mpsc

`MpscProofs` has three inductive invariants. `PInv` says what every suspended call relies on,
as `WInv` does for mpmc (`Below`, `Shapes`, `EmptySeen`, `Registered`, `SendStack`,
`IdStack`, `Unparked`, `RecvRegistered`, `SendTerminal` have the same roles). What is
particular to mpsc:

* a receive on the stack holds the one Receiver mutably: at most one is running (`OneTake`),
  the Receiver is alive while it does, and is not while its drop runs (`RxBorrows`);
* an item is in hand exactly while a receive is at its wakes (`HandOK`). So the take finds
  the hand empty and the drop of the Receiver too, which `Fifo` and the refinement need;
* `RecvRegistered` says of a `poll_recv` past its registration that its waker is in the
  slot, that it was woken or that the channel is disconnected; a close or a last Sender's
  drop that empties the slot in between has made the last true;
* `RecvWakeup` is `NoLostRecvWakeup` (with its exclusion of `unplugged`) under the condition
  that `drop_commit` is not in `Toxic`. `PInv` is inductive for every `Toxic`, and `RecvWakeupCorrect` has the condition
  as its hypothesis: without it the statement is false, as `mpsc_commit_order` shows.

From it follow `TypeCorrect`, `OutcomeCorrect`, `RecvWakeupCorrect`, `SendWakeupCorrect`,
`WakersCorrect`, `DisconnectCorrect`, `DrainCorrect` and `MpscImplementsChannel`; in the
refinement a take changes nothing, and the item leaves the channel when it is delivered or
lost. `FInv` adds that nothing is drained before the Receiver is dropped and that only
accepted items are lost; `FifoCorrect` follows. Only two steps change the sequence `Taken`:
a push appends an item that was not accepted before (`OutcomeExact` says so), a loss removes
one from the middle, which keeps the order of the others (`WithoutMiddle`).
`FifoButForPanics` says with positions what `SelectSeq` would say by recursion.

`SlotInv` is for the half of `ReceiverDrains` that speaks of the waker slot (`SlotCleared`;
the other half, `QueueDrained`, is a conjunct of `PInv`). Callbacks run between the clearing
and the end of the drain: `SlotInv` says that the slot stays empty all that time. The one
step that stores a consumer's waker, `AfterCloneRecv`, belongs to a poll that holds the
Receiver, and by `PInv` (`RxBorrows`) there is none while the Receiver is dropped.

TLC checked each of these invariants on the instances of the runs first.

### Oneshot

`IInv` in `OneshotProofs` is inductive: the types, which frames a handle's consuming call
may have, that at most one poll is on the stack, and how `value_present`, `reads` and the
drop flags determine each other at every callback point. It implies `SlotCorrect` (the
soundness of the unsafe slot), `OutcomeCorrect`, `WakeupCorrect` and `ReceiverCorrect`;
`OneshotImplementsChannel` is the refinement.

### Ring

`RingInv` says that a slot is initialised exactly if its distance ahead of `head`, modulo
the capacity, is less than `len`. This form is inductive, the existential one of
`WindowInitialised` is awkward to reason with; `WrapAhead` connects them. `WindowCorrect`
and `RingImplementsFifo` follow.

### BlockList

The three properties speak of `Chain`, a walk along the pointers that is defined by
recursion, and of `Contents`, which flattens a sequence of sequences. The proof has three
parts (`BlockListProofs`):

* *Induction.* `SetInduction` is induction over the positive integers with a set in place of
  the predicate, so that a prover can instantiate it; it comes from the least element of a
  set of naturals (`LeastElement`), and that from the well-foundedness of strict inclusion
  on the finite subsets of an interval. With it `FlattenSeq` is shown to be the joining of
  its parts one by one (`FlattenIsJoins`), from which follow its type and what a part at the
  end or at the front adds (`FlattenAppend`, `FlattenFirst`).
* *The walk is the chain.* `Linked(h, b, c)` says without recursion that the sequence `c`
  follows the pointers from `b` to `None`, through allocated blocks only and through none
  twice. So it is no longer than the number of addresses (`ChainSize`) and the walk, which
  makes that many steps, is exactly it (`ChainUnique`). Every step of the list then only has
  to exhibit the new chain: the same one, one block appended (`LinkedAppend`) or its tail
  (`LinkedTail`).
* *The invariant.* `BlockInv`: every allocated block has `begin <= end` and as many written
  slots as `end` says; `Chain` is linked from `head` and covers every allocated block;
  every block but the first is unread and not empty, every block but the last is full
  (`Filled`); while the list is in use the chain ends at `tail` and `len` counts what it
  holds. `LenExact` alone is not inductive: a push must know that the free address it
  takes is not on the chain, a pop that the block behind a drained one is not drained too,
  and both that `tail` is where the chain ends.

`ChainCorrect`, `LenCorrect` and `BlockListImplementsFifo` follow. In the refinement a push
appends to `Contents`, also when it links a new block, a pop takes its head, the advance to
the next block changes nothing because the block it frees holds nothing, and a step of the
drop takes what one block holds off the front, as a whole or, after a panic, reporting only
the items up to the one whose destructor panicked. TLC checked `BlockInv` on the run's
instance first.

### Assumptions

`ReentryAssumption`, `MpmcAssumption`, `MpscAssumption`, `OneshotAssumption`,
`RingAssumption` and `BlockListAssumption`: positive bounds, capacity and block size, numeric
ids, finitely many addresses, and names that stand for different things are different (the
null pointer is no address, `Freed` is no block). TLC evaluates each of them on the runs.

### Only model-checked

Liveness (`RecvSeesDisconnect`, `SendSeesClose`, `RecvCompletes`, `SendsProgress`,
`RecvResolves`): the proof system has no rule for fairness. And the two violations, which
are counterexamples and not theorems.

## 5. Not modelled

* `LocalCell`: the grain of the model assumes what it checks, that no callback runs
  under a borrow, so the model cannot show it;
* the error types, which are data and formatting;
* `Send::is_terminated` of mpsc and mpmc, a pure answer about `done` and `outcome` that
  guards nothing in the crate. mpmc answers `done && outcome.is_none()`, mpsc answers
  `done`, also while an outcome waits to be replayed (section 3);
* `drop_panic_payload` (`lib.rs`): what happens to the payload of a panic that was
  caught and is not resumed has no effect on a channel;
* forgotten handles and futures, and payloads that own handles of their channel;
* benches, tests and build files.

## 6. Plan

The system's parts are modelled, and every safety property and refinement that a passing
run checks is proved. What could still be done:

1. Lemmas that `MpmcWakers` and `MpscProofs` both need about a poll and its registration
   could move to `ChannelFacts`.
2. The channels keep their items in one sequence and the storages implement `FifoQueue`
   beside them; a module that puts `Ring` or `BlockList` under `Mpmc` would show the whole
   at once. Nothing is expected of it: Chan uses the queue through `push` and `pop` only,
   neither of which runs user code.
