------------------------------ MODULE BlockList ------------------------------
(***************************************************************************)
(* queue::list::BlockList, the unbounded flavor: a chain of blocks of N    *)
(* slots, written at the tail and read at the head.  The heap is a         *)
(* function from addresses to blocks; Freed is an address without one.     *)
(* pop runs no user code, but its loop frees blocks on the way, so each    *)
(* turn of it is a step.                                                   *)
(***************************************************************************)
EXTENDS Naturals, Sequences, FiniteSets, SequencesExt

CONSTANTS
  Items,
  N,         \* slots of a block
  Addrs,     \* addresses; the allocator may hand out a freed one again
  MaxLen,    \* bound: items in the list
  None, Freed

\* values[begin + 1 .. end] are initialised and unread, the ones before were
\* moved out; a slot that was never written has no value.
Blocks == [next : Addrs \cup {None}, begin : 0..N, end : 0..N, values : Seq(Items)]

ASSUME BlockListAssumption ==
  /\ N \in Nat \ {0} /\ MaxLen \in Nat \ {0}
  /\ IsFiniteSet(Addrs) /\ None \notin Addrs
  /\ Freed \notin Blocks

VARIABLES heap, head, tail, len, phase, ret
vars == <<heap, head, tail, len, phase, ret>>

\* A fresh block that holds the values.
Block(values) == [next |-> None, begin |-> 0, end |-> Len(values), values |-> values]

Init ==
  /\ \E b \in Addrs :
       /\ heap = [c \in Addrs |-> IF c = b THEN Block(<<>>) ELSE Freed]
       /\ head = b /\ tail = b
  /\ len = 0 /\ phase = "idle" /\ ret = <<"none">>

Pushed ==
  /\ len' = len + 1 /\ ret' = <<"ok">>
  /\ UNCHANGED <<head, phase>>

Push(i) ==
  /\ phase = "idle" /\ len < MaxLen
  /\ heap[tail].end < N
  /\ heap' = [heap EXCEPT ![tail].values = Append(@, i), ![tail].end = @ + 1]
  /\ Pushed /\ UNCHANGED tail

MutPushBlock(i, new) ==
  /\ phase = "idle" /\ len < MaxLen
  /\ heap[tail].end = N
  /\ heap[new] = Freed
  /\ heap' = [heap EXCEPT ![new] = [Block(<<i>>) EXCEPT !.end = 0], ![tail].next = new]
  /\ tail' = new
  /\ Pushed

\* The tail block is full: a fresh one is linked behind it.
PushBlock(i, new) ==
  /\ phase = "idle" /\ len < MaxLen
  /\ heap[tail].end = N
  /\ heap[new] = Freed
  /\ heap' = [heap EXCEPT ![new] = Block(<<i>>), ![tail].next = new]
  /\ tail' = new
  /\ Pushed

InUse == phase \in {"idle", "pop"}
Exhausted(b) == heap[b].begin = heap[b].end

PopTake ==
  /\ InUse /\ ~Exhausted(head)
  /\ ret' = <<"some", heap[head].values[heap[head].begin + 1]>>
  /\ heap' = [heap EXCEPT ![head].begin = @ + 1]
  /\ len' = len - 1 /\ phase' = "idle"
  /\ UNCHANGED <<head, tail>>

MutPopNone ==
  /\ InUse /\ Exhausted(head)
  /\ ret' = <<"none">> /\ phase' = "idle"
  /\ UNCHANGED <<heap, head, tail, len>>

PopNone ==
  /\ InUse /\ Exhausted(head) /\ head = tail
  /\ ret' = <<"none">> /\ phase' = "idle"
  /\ UNCHANGED <<heap, head, tail, len>>

MutPopAdvance ==
  /\ InUse /\ Exhausted(head) /\ head /= tail
  /\ head' = heap[head].next
  /\ phase' = "pop"
  /\ UNCHANGED <<heap, tail, len, ret>>

\* A drained block is freed once the next one is the head.
PopAdvance ==
  /\ InUse /\ Exhausted(head) /\ head /= tail
  /\ head' = heap[head].next
  /\ heap' = [heap EXCEPT ![head] = Freed]
  /\ phase' = "pop"
  /\ UNCHANGED <<tail, len, ret>>

\* Drop for BlockList: one block a step, each drops the items it still holds.
\* Here head is the walk's `cur`, and len is not kept any more.
DropBlock ==
  /\ phase \in {"idle", "drop"} /\ head /= None
  /\ LET b == heap[head] IN
       /\ ret' = IF Exhausted(head) THEN ret
                 ELSE <<"dropped">> \o SubSeq(b.values, b.begin + 1, b.end)
       /\ head' = b.next
  /\ heap' = [heap EXCEPT ![head] = Freed]
  /\ phase' = "drop"
  /\ UNCHANGED <<tail, len>>

\* The destructor of the block's n-th unread item panics: the unwind frees this
\* block, leaks the items behind that one in it, and ends the walk, so the
\* blocks from `cur` on are never freed.
DropPanics(n) ==
  /\ phase \in {"idle", "drop"} /\ head /= None
  /\ LET b == heap[head] IN
       /\ n \in 1..b.end - b.begin
       /\ ret' = <<"unwound">> \o SubSeq(b.values, b.begin + 1, b.begin + n)
       /\ head' = b.next
  /\ heap' = [heap EXCEPT ![head] = Freed]
  /\ phase' = "unwound"
  /\ UNCHANGED <<tail, len>>

Dropped == (phase = "unwound" \/ (phase = "drop" /\ head = None)) /\ UNCHANGED vars

Next ==
  \/ \E i \in Items : Push(i) \/ \E new \in Addrs : PushBlock(i, new)
  \/ PopTake \/ PopNone \/ PopAdvance \/ DropBlock \/ Dropped
  \/ \E n \in 1..N : DropPanics(n)

Spec == Init /\ [][Next]_vars

-----------------------------------------------------------------------------
\* The blocks of heap h from b on.
ChainFrom(h, b) ==
  LET walk[n \in 0..Cardinality(Addrs)] ==
        IF n = 0 THEN (IF b = None THEN <<>> ELSE <<b>>)
        ELSE LET c == walk[n - 1] IN
             IF Len(c) < n \/ h[Last(c)] = Freed \/ h[Last(c)].next = None THEN c
             ELSE Append(c, h[Last(c)].next)
  IN walk[Cardinality(Addrs)]

\* The unread items of a block, and of the blocks of a chain in order.
Held(h, b) == IF h[b] = Freed THEN <<>> ELSE SubSeq(h[b].values, h[b].begin + 1, h[b].end)
ItemsOf(h, c) == FlattenSeq([n \in 1..Len(c) |-> Held(h, c[n])])

Chain == ChainFrom(heap, head)
Contents == ItemsOf(heap, Chain)

\* Following next from head visits live blocks only and each of them once, and
\* while the list is in use it ends at tail: no dangling pointer, no leaked
\* block, no cycle.
ChainIsHeap ==
  /\ {Chain[n] : n \in 1..Len(Chain)} = {b \in Addrs : heap[b] /= Freed}
  /\ Cardinality({Chain[n] : n \in 1..Len(Chain)}) = Len(Chain)
  /\ InUse => Chain /= <<>> /\ Last(Chain) = tail

\* len counts the items that are in the blocks, and only the head block can be
\* partly or fully read: a pop advances at most once, and the `expect` on a
\* non-tail block's next cannot fail.
LenExact ==
  InUse =>
    /\ len = Len(Contents)
    /\ \A n \in 2..Len(Chain) : heap[Chain[n]].begin = 0 /\ heap[Chain[n]].end > 0
    /\ \A n \in 1..Len(Chain) - 1 : heap[Chain[n]].end = N

\* The chain is the abstract queue: pop returns the items in the order of the
\* pushes across block boundaries, and dropping the list drops each item that
\* is left once, in order, up to one whose destructor panics: none is dropped
\* twice or after it was read.
Fifo == INSTANCE FifoQueue WITH q <- Contents, Bounded <- FALSE, Cap <- 0
ImplementsFifo == Fifo!Spec

=============================================================================
