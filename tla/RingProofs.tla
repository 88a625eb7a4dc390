----------------------------- MODULE RingProofs -----------------------------
(***************************************************************************)
(* Proofs about Ring for every capacity and every set of items: the window *)
(* is exactly what is initialised, and read from head it is the abstract   *)
(* queue.                                                                  *)
(***************************************************************************)
EXTENDS Ring, SequenceTheorems, TLAPS

-----------------------------------------------------------------------------
(* Wrapping around *)

\* An index less than two turns ahead wraps at most once.
LEMMA WrapOnce ==
  ASSUME NEW n \in Nat, n < 2 * Cap
  PROVE  Wrap(n) = IF n < Cap THEN n ELSE n - Cap
BY RingAssumption DEF Wrap

\* How far slot k is ahead of slot h.
Ahead(h, k) == IF k >= h THEN k - h ELSE k + Cap - h

\* The slot n ahead of h, and the one before it.
LEMMA WrapAhead ==
  ASSUME NEW h \in 0..Cap - 1, NEW n \in 0..Cap - 1
  PROVE  /\ Wrap(h + n) \in 0..Cap - 1
         /\ \A k \in 0..Cap - 1 : k = Wrap(h + n) <=> Ahead(h, k) = n
<1> USE RingAssumption
<1>1. h + n \in Nat /\ h + n < 2 * Cap
  OBVIOUS
<1>2. Wrap(h + n) = IF h + n < Cap THEN h + n ELSE h + n - Cap
  BY <1>1, WrapOnce
<1> QED BY <1>2 DEF Ahead

\* The slots of the window are those less than l ahead of h.
LEMMA InWindow ==
  ASSUME NEW h \in 0..Cap - 1, NEW l \in 0..Cap, NEW k \in 0..Cap - 1
  PROVE  (\E n \in 0..l - 1 : k = Wrap(h + n)) <=> Ahead(h, k) < l
<1> USE RingAssumption
<1>1. ASSUME NEW n \in 0..l - 1, k = Wrap(h + n) PROVE Ahead(h, k) < l
  <2>1. n \in 0..Cap - 1
    OBVIOUS
  <2>2. \A j \in 0..Cap - 1 : j = Wrap(h + n) <=> Ahead(h, j) = n
    BY <2>1, WrapAhead
  <2>3. Ahead(h, k) = n
    BY <1>1, <2>2
  <2> QED BY <2>3
<1>2. ASSUME Ahead(h, k) < l PROVE \E n \in 0..l - 1 : k = Wrap(h + n)
  <2>1. Ahead(h, k) \in 0..l - 1 /\ Ahead(h, k) \in 0..Cap - 1
    BY <1>2 DEF Ahead
  <2>2. k = Wrap(h + Ahead(h, k))
    BY <2>1, WrapAhead
  <2> QED BY <2>1, <2>2
<1> QED BY <1>1, <1>2

-----------------------------------------------------------------------------
(* The window *)

\* The window without its quantifier, which is what the induction is about.
RingInv ==
  /\ slots \in [0..Cap - 1 -> Items \cup {Hole}]
  /\ head \in 0..Cap - 1 /\ len \in 0..Cap
  /\ \A k \in 0..Cap - 1 : slots[k] /= Hole <=> Ahead(head, k) < len

LEMMA RingWindow == RingInv => WindowInitialised
BY InWindow DEF RingInv, WindowInitialised

\* push writes the first slot behind the window.
LEMMA PushWindow ==
  ASSUME RingInv, NEW i \in Items, Push(i)
  PROVE  RingInv'
<1> USE RingAssumption
<1> DEFINE b == Wrap(head + len)
<1>1. head \in 0..Cap - 1 /\ len \in 0..Cap - 1 /\ slots \in [0..Cap - 1 -> Items \cup {Hole}]
  BY DEF RingInv, Push, is_full
<1>2. b \in 0..Cap - 1 /\ \A k \in 0..Cap - 1 : k = b <=> Ahead(head, k) = len
  BY <1>1, WrapAhead
<1> HIDE DEF b
<1>3. slots' = [slots EXCEPT ![b] = i] /\ len' = len + 1 /\ head' = head
  BY DEF Push, b
<1>4. head' \in 0..Cap - 1 /\ len' \in 0..Cap /\ slots' \in [0..Cap - 1 -> Items \cup {Hole}]
  BY <1>1, <1>2, <1>3
<1>5. ASSUME NEW k \in 0..Cap - 1 PROVE slots'[k] /= Hole <=> Ahead(head, k) < len'
  <2>1. Ahead(head, k) \in Nat /\ (slots[k] /= Hole <=> Ahead(head, k) < len)
    BY <1>1 DEF Ahead, RingInv
  <2>2. slots'[k] = IF k = b THEN i ELSE slots[k]
    BY <1>1, <1>2, <1>3
  <2> QED BY <1>1, <1>2, <1>3, <2>1, <2>2
<1> QED BY <1>3, <1>4, <1>5 DEF RingInv

\* pop moves the item at head out and leaves a hole.
LEMMA PopWindow ==
  ASSUME RingInv, Pop
  PROVE  RingInv'
<1> USE RingAssumption
<1>1. head \in 0..Cap - 1 /\ len \in 1..Cap /\ slots \in [0..Cap - 1 -> Items \cup {Hole}]
  BY DEF RingInv, Pop
<1>2. head + 1 \in Nat /\ head + 1 < 2 * Cap
  BY <1>1
<1>3. Wrap(head + 1) = IF head + 1 < Cap THEN head + 1 ELSE head + 1 - Cap
  BY <1>1, <1>2, WrapOnce
<1>4. slots' = [slots EXCEPT ![head] = Hole] /\ len' = len - 1 /\ head' = Wrap(head + 1)
  BY DEF Pop
<1>5. head' \in 0..Cap - 1 /\ len' \in 0..Cap /\ slots' \in [0..Cap - 1 -> Items \cup {Hole}]
  BY <1>1, <1>3, <1>4
<1>6. ASSUME NEW k \in 0..Cap - 1 PROVE slots'[k] /= Hole <=> Ahead(head', k) < len'
  <2>1. slots[k] /= Hole <=> Ahead(head, k) < len
    BY DEF RingInv
  <2>2. slots'[k] = IF k = head THEN Hole ELSE slots[k]
    BY <1>1, <1>4
  <2>3. CASE k = head
    <3>1. Ahead(head', k) = Cap - 1
      BY <1>1, <1>3, <1>4, <2>3 DEF Ahead
    <3> QED BY <1>1, <1>4, <2>2, <2>3, <3>1
  <2>4. CASE k /= head
    <3>1. Ahead(head', k) = Ahead(head, k) - 1 /\ Ahead(head, k) \in Nat
      BY <1>1, <1>3, <1>4, <2>4 DEF Ahead
    <3> QED BY <1>1, <1>4, <2>1, <2>2, <2>4, <3>1
  <2> QED BY <2>3, <2>4
<1> QED BY <1>5, <1>6 DEF RingInv

LEMMA RingInvariance == Spec => []RingInv
<1>1. Init => RingInv
  BY RingAssumption DEF Init, RingInv, Ahead
<1>2. RingInv /\ [Next]_vars => RingInv'
  <2> SUFFICES ASSUME RingInv, [Next]_vars PROVE RingInv'
    OBVIOUS
  <2>1. ASSUME NEW i \in Items, PushFull(i) PROVE RingInv'
    BY <2>1 DEF RingInv, PushFull
  <2>2. CASE PopEmpty \/ UNCHANGED vars
    BY <2>2 DEF RingInv, PopEmpty, vars
  <2> QED BY <2>1, <2>2, PushWindow, PopWindow DEF Next
<1> QED BY <1>1, <1>2, PTL DEF Spec

\* The slots in the window are the initialised ones, for every capacity: a pop
\* never reads an uninitialised slot, a push never overwrites an item.
THEOREM WindowCorrect == Spec => []WindowInitialised
BY RingInvariance, RingWindow, PTL

-----------------------------------------------------------------------------
(* Refinement: read from head the window is the abstract queue *)

window == [n \in 1..len |-> slots[(head + n - 1) % Cap]]

\* The window is a sequence of items.
LEMMA WindowSeq ==
  ASSUME RingInv
  PROVE  window \in Seq(Items) /\ Len(window) = len
<1> USE RingAssumption
<1>1. ASSUME NEW n \in 1..len PROVE slots[(head + n - 1) % Cap] \in Items
  <2>1. head \in 0..Cap - 1 /\ n - 1 \in 0..Cap - 1 /\ head + n - 1 = head + (n - 1)
    BY DEF RingInv
  <2> DEFINE k == Wrap(head + (n - 1))
  <2>2. k \in 0..Cap - 1 /\ Ahead(head, k) = n - 1
    BY <2>1, WrapAhead
  <2>3. slots[k] /= Hole
    BY <2>2 DEF RingInv
  <2> QED BY <2>1, <2>2, <2>3 DEF RingInv, Wrap
<1>2. len \in Nat
  BY DEF RingInv
<1>3. window \in [1..len -> Items]
  BY <1>1 DEF window
<1> QED BY <1>2, <1>3

\* What the window reads, position by position.
LEMMA WindowAt ==
  ASSUME RingInv, NEW n \in 1..len
  PROVE  window[n] = slots[Wrap(head + (n - 1))]
<1>1. head + n - 1 = head + (n - 1)
  BY RingAssumption DEF RingInv
<1> QED BY <1>1 DEF window, Wrap

\* push appends to the window.
LEMMA PushAppends ==
  ASSUME RingInv, NEW i \in Items, Push(i)
  PROVE  window' = Append(window, i)
<1> USE RingAssumption
<1>1. RingInv' /\ window \in Seq(Items) /\ Len(window) = len
  BY PushWindow, WindowSeq
<1>2. head \in 0..Cap - 1 /\ len \in 0..Cap - 1 /\ slots \in [0..Cap - 1 -> Items \cup {Hole}]
  BY DEF RingInv, Push, is_full
<1>3. slots' = [slots EXCEPT ![Wrap(head + len)] = i] /\ len' = len + 1 /\ head' = head
  BY DEF Push
<1>4. ASSUME NEW n \in 1..len + 1
      PROVE  slots'[Wrap(head + (n - 1))] = IF n = len + 1 THEN i ELSE slots[Wrap(head + (n - 1))]
  <2>1. n - 1 \in 0..Cap - 1 /\ (n = len + 1 => n - 1 = len)
    BY <1>2
  <2>2. /\ Wrap(head + (n - 1)) \in 0..Cap - 1 /\ Ahead(head, Wrap(head + (n - 1))) = n - 1
        /\ Wrap(head + len) \in 0..Cap - 1 /\ Ahead(head, Wrap(head + len)) = len
    BY <1>2, <2>1, WrapAhead
  <2> QED BY <1>2, <1>3, <2>1, <2>2
<1>5. window' = [n \in 1..len + 1 |-> slots'[Wrap(head + (n - 1))]]
  <2>1. \A n \in 1..len + 1 : head + n - 1 = head + (n - 1)
    BY <1>2
  <2> QED BY <1>3, <2>1 DEF window, Wrap
<1>6. \A n \in 1..len : window[n] = slots[Wrap(head + (n - 1))]
  BY WindowAt
<1> DEFINE w == window'
           v == Append(window, i)
<1>7. v \in Seq(Items) /\ Len(v) = len + 1
      /\ \A n \in 1..len + 1 : v[n] = IF n = len + 1 THEN i ELSE window[n]
  BY <1>1, <1>2
<1>8. \A n \in 1..len + 1 : w[n] = v[n]
  BY <1>2, <1>4, <1>5, <1>6, <1>7
<1>9. \A n \in 1..len + 1 : v[n] \in Items
  BY <1>1, <1>2, <1>7, ElementOfSeq
<1> HIDE DEF w, v
<1>10. len + 1 \in Nat /\ w \in [1..len + 1 -> Items]
  <2>1. w = [n \in 1..len + 1 |-> w[n]]
    BY <1>5 DEF w
  <2>2. \A n \in 1..len + 1 : w[n] \in Items
    BY <1>8, <1>9
  <2>3. w \in [1..len + 1 -> Items]
    BY <2>1, <2>2
  <2> QED BY <1>2, <2>3
<1>11. w \in Seq(Items) /\ Len(w) = len + 1
  BY <1>10
<1>12. w = v
  BY <1>7, <1>8, <1>11, SeqEqual
<1> QED BY <1>12 DEF w, v

\* pop returns the head of the window and leaves its tail.
LEMMA PopTail ==
  ASSUME RingInv, Pop
  PROVE  window /= <<>> /\ slots[head] = Head(window) /\ window' = Tail(window)
<1> USE RingAssumption
<1>1. window \in Seq(Items) /\ Len(window) = len
  BY WindowSeq
<1>2. head \in 0..Cap - 1 /\ len \in 1..Cap /\ slots \in [0..Cap - 1 -> Items \cup {Hole}]
  BY DEF RingInv, Pop
<1>3. slots' = [slots EXCEPT ![head] = Hole] /\ len' = len - 1 /\ head' = Wrap(head + 1)
  BY DEF Pop
<1>4. \A n \in 1..len : window[n] = slots[Wrap(head + (n - 1))]
  BY WindowAt
<1>5. window /= <<>> /\ Head(window) = window[1]
  BY <1>1, <1>2
<1>6. slots[head] = Head(window)
  <2>1. Wrap(head + (1 - 1)) = head
    <3>1. head + (1 - 1) = head /\ head \in Nat /\ head < 2 * Cap /\ head < Cap
      BY <1>2
    <3> QED BY <3>1, WrapOnce
  <2> QED BY <1>2, <1>4, <1>5, <2>1
<1>7. ASSUME NEW n \in 1..len - 1
      PROVE  slots'[Wrap(head' + (n - 1))] = slots[Wrap(head + n)]
  <2> DEFINE a == Wrap(head' + (n - 1))
             b == Wrap(head + n)
  <2>1. head' = IF head + 1 < Cap THEN head + 1 ELSE head + 1 - Cap
    <3>1. head + 1 \in Nat /\ head + 1 < 2 * Cap
      BY <1>2
    <3> QED BY <1>2, <1>3, <3>1, WrapOnce
  <2>2. head' \in 0..Cap - 1 /\ n - 1 \in 0..Cap - 1 /\ n \in 0..Cap - 1
    BY <1>2, <2>1
  <2>3. a \in 0..Cap - 1 /\ Ahead(head', a) = n - 1
    BY <2>2, WrapAhead
  <2>4. b \in 0..Cap - 1 /\ Ahead(head, b) = n
    BY <1>2, <2>2, WrapAhead
  <2> HIDE DEF a, b
  <2>5. a = b /\ b /= head
    BY <1>2, <2>1, <2>2, <2>3, <2>4 DEF Ahead
  <2>6. slots'[b] = slots[b]
    BY <1>2, <1>3, <2>4, <2>5
  <2> QED BY <2>5, <2>6 DEF a, b
<1>8. window' = [n \in 1..len - 1 |-> slots'[Wrap(head' + (n - 1))]]
  <2>0. head' \in Int
    BY PopWindow DEF RingInv
  <2>1. \A n \in 1..len - 1 : head' + n - 1 = head' + (n - 1)
    BY <2>0
  <2> QED BY <1>3, <2>1 DEF window, Wrap
<1>9. /\ Tail(window) \in Seq(Items) /\ Len(Tail(window)) = len - 1
      /\ \A n \in 1..len - 1 : Tail(window)[n] = window[n + 1]
  BY <1>1, <1>2, <1>5, HeadTailProperties
<1>10. \A n \in 1..len - 1 : window[n + 1] = slots[Wrap(head + n)]
  <2> SUFFICES ASSUME NEW n \in 1..len - 1 PROVE window[n + 1] = slots[Wrap(head + n)]
    OBVIOUS
  <2>1. n + 1 \in 1..len /\ (n + 1) - 1 = n
    BY <1>2
  <2> QED BY <1>4, <2>1
<1> DEFINE w == window'
           v == Tail(window)
<1>11. \A n \in 1..len - 1 : w[n] = v[n] /\ v[n] \in Items
  BY <1>7, <1>8, <1>9, <1>10, ElementOfSeq
<1> HIDE DEF w, v
<1>12. len - 1 \in Nat /\ w \in [1..len - 1 -> Items]
  <2>1. w = [n \in 1..len - 1 |-> w[n]]
    BY <1>8 DEF w
  <2>2. \A n \in 1..len - 1 : w[n] \in Items
    BY <1>11
  <2>3. w \in [1..len - 1 -> Items]
    BY <2>1, <2>2
  <2> QED BY <1>2, <2>3
<1>13. w \in Seq(Items) /\ Len(w) = len - 1
  BY <1>12
<1>14. v \in Seq(Items) /\ Len(v) = len - 1
  BY <1>9 DEF v
<1>15. w = v
  BY <1>11, <1>13, <1>14, SeqEqual
<1> QED BY <1>5, <1>6, <1>15 DEF w, v

\* Every step of the ring is a step of the abstract queue.
LEMMA RingStep ==
  ASSUME RingInv, [Next]_vars
  PROVE  [Fifo!Next]_(Fifo!vars)
<1> USE RingAssumption
<1>1. window \in Seq(Items) /\ Len(window) = len /\ len \in 0..Cap
  BY WindowSeq DEF RingInv
<1>2. ASSUME NEW i \in Items, Push(i) PROVE Fifo!Next
  <2>1. window' = Append(window, i) /\ Len(window) < Cap /\ ret' = <<"ok">>
    <3>1. window' = Append(window, i)
      BY <1>2, PushAppends
    <3>2. Len(window) < Cap
      BY <1>1, <1>2 DEF Push, is_full
    <3> QED BY <1>2, <3>1, <3>2 DEF Push
  <2>2. Fifo!Push(i)
    BY <2>1 DEF Fifo!Push, window
  <2> QED BY <2>2 DEF Fifo!Next
<1>3. ASSUME NEW i \in Items, PushFull(i) PROVE Fifo!Next
  <2>1. window' = window /\ Len(window) = Cap /\ ret' = <<"full", i>>
    BY <1>1, <1>3 DEF PushFull, is_full, window
  <2>2. Fifo!Refuse(i)
    BY <2>1 DEF Fifo!Refuse, window
  <2> QED BY <2>2 DEF Fifo!Next
<1>4. CASE Pop
  <2>1. window /= <<>> /\ ret' = <<"some", Head(window)>> /\ window' = Tail(window)
    BY <1>4, PopTail DEF Pop
  <2>2. Fifo!Pop
    BY <2>1 DEF Fifo!Pop, window
  <2> QED BY <2>2 DEF Fifo!Next
<1>5. CASE PopEmpty
  <2>1. window = <<>> /\ ret' = <<"none">> /\ window' = window
    BY <1>1, <1>5 DEF PopEmpty, window
  <2>2. Fifo!PopNone
    BY <2>1 DEF Fifo!PopNone, window
  <2> QED BY <2>2 DEF Fifo!Next
<1>6. CASE UNCHANGED vars
  BY <1>6 DEF vars, Fifo!vars
<1> QED BY <1>2, <1>3, <1>4, <1>5, <1>6 DEF Next

\* For every capacity the ring is a first-in first-out queue that returns what
\* the abstract one returns, however its window wraps.
THEOREM RingImplementsFifo == Spec => ImplementsFifo
<1>1. Init => Fifo!Init
  <2> SUFFICES ASSUME Init PROVE Fifo!Init
    OBVIOUS
  <2>1. window = <<>>
    BY DEF Init, window
  <2> QED BY <2>1 DEF Init, Fifo!Init, window
<1> QED BY <1>1, RingStep, RingInvariance, PTL DEF Spec, ImplementsFifo, Fifo!Spec

=============================================================================
