----------------------------- MODULE FifoQueue -----------------------------
(***************************************************************************)
(* What a queue flavor promises Chan: first in, first out, with what every *)
(* call returns.  A bounded one refuses an item, and hands it back, when   *)
(* it holds Cap of them.  Dropping the queue drops what is left, in order. *)
(***************************************************************************)
EXTENDS Naturals, Sequences

CONSTANTS Items, Bounded, Cap

VARIABLES
  q,      \* the items, oldest first
  ret     \* what the last call returned

vars == <<q, ret>>

Init == q = <<>> /\ ret = <<"none">>

Push(i) ==
  /\ Bounded => Len(q) < Cap
  /\ q' = Append(q, i) /\ ret' = <<"ok">>

Refuse(i) ==
  /\ Bounded /\ Len(q) = Cap
  /\ ret' = <<"full", i>> /\ UNCHANGED q

Pop == q /= <<>> /\ ret' = <<"some", Head(q)>> /\ q' = Tail(q)

PopNone == q = <<>> /\ ret' = <<"none">> /\ UNCHANGED q

Discard ==
  \E n \in 1..Len(q) :
    /\ ret' = <<"dropped">> \o SubSeq(q, 1, n)
    /\ q' = SubSeq(q, n + 1, Len(q))

\* The n-th destructor panics; the items of this part of the queue leak.
DiscardPanics ==
  \E n \in 1..Len(q) : \E m \in n..Len(q) :
    /\ ret' = <<"unwound">> \o SubSeq(q, 1, n)
    /\ q' = SubSeq(q, m + 1, Len(q))

Next == (\E i \in Items : Push(i) \/ Refuse(i)) \/ Pop \/ PopNone \/ Discard
        \/ DiscardPanics

Spec == Init /\ [][Next]_vars

=============================================================================
