-------------------------------- MODULE Ring --------------------------------
(***************************************************************************)
(* queue::ring::Ring, the bounded flavor: Cap slots in one allocation, of  *)
(* which [head, head + len) modulo Cap are initialised.  A slot is a Hole  *)
(* when it was never written or its item was moved out.                    *)
(***************************************************************************)
EXTENDS Naturals, Sequences

CONSTANTS Items, Cap, Hole

ASSUME RingAssumption == Cap \in Nat \ {0} /\ Hole \notin Items

VARIABLES slots, head, len, ret
vars == <<slots, head, len, ret>>

Init ==
  /\ slots = [k \in 0..Cap - 1 |-> Hole]
  /\ head = 0 /\ len = 0
  /\ ret = <<"none">>

is_full == len = Cap

Wrap(n) == n % Cap

Push(i) ==
  /\ ~is_full
  /\ slots' = [slots EXCEPT ![Wrap(head + len)] = i]
  /\ len' = len + 1
  /\ ret' = <<"ok">>
  /\ UNCHANGED head

PushFull(i) ==
  /\ is_full
  /\ ret' = <<"full", i>>
  /\ UNCHANGED <<slots, head, len>>

MutPop ==
  /\ len > 0
  /\ ret' = <<"some", slots[head]>>
  /\ slots' = [slots EXCEPT ![head] = Hole]
  /\ head' = IF head = Cap - 1 THEN head ELSE head + 1
  /\ len' = len - 1

Pop ==
  /\ len > 0
  /\ ret' = <<"some", slots[head]>>
  /\ slots' = [slots EXCEPT ![head] = Hole]
  /\ head' = Wrap(head + 1)
  /\ len' = len - 1

PopEmpty ==
  /\ len = 0
  /\ ret' = <<"none">>
  /\ UNCHANGED <<slots, head, len>>

\* Ring::clear, which Drop calls too, is Pop until PopEmpty.
Next == (\E i \in Items : Push(i) \/ PushFull(i)) \/ Pop \/ PopEmpty

Spec == Init /\ [][Next]_vars

-----------------------------------------------------------------------------
\* The window is exactly what is initialised: a pop never reads a slot that
\* was not written or was read before, a push never overwrites an item, even
\* when the window wraps, and the indices stay in range.
WindowInitialised ==
  /\ head \in 0..Cap - 1 /\ len \in 0..Cap
  /\ \A k \in 0..Cap - 1 :
       slots[k] /= Hole <=> \E n \in 0..len - 1 : k = Wrap(head + n)

\* Read from head the window is the abstract queue, and push and pop return
\* what it returns.
Fifo == INSTANCE FifoQueue WITH
          q <- [n \in 1..len |-> slots[(head + n - 1) % Cap]], Bounded <- TRUE
ImplementsFifo == Fifo!Spec

=============================================================================
