---------------------------- MODULE ChannelFacts ----------------------------
(***************************************************************************)
(* What the proofs about the three channels share. First the stack of      *)
(* Reentry: what a call, a step of the running call, a return and a change *)
(* of nothing do to it, for frames of any set. Then how an item moves      *)
(* through a channel, as facts about concatenation: the four parts are     *)
(* what was delivered, what was drained, the redelivery slot and the       *)
(* queue.                                                                  *)
(***************************************************************************)
EXTENDS Reentry, Sequences, SequenceTheorems, TLAPS

-----------------------------------------------------------------------------
(* The call stack *)

\* The stack holds frames of FS.
StackIn(FS) ==
  /\ depth \in 0..MaxDepth
  /\ frames \in [0..MaxDepth -> FS]
  /\ aborted \in BOOLEAN

\* At first nothing is on the stack.
LEMMA InitStack ==
  ASSUME NEW FS, Idle \in FS, StackInit
  PROVE  depth = 0 /\ Live = {} /\ StackIn(FS)
<1>1. depth = 0 /\ MaxDepth \in Nat /\ aborted = FALSE /\ frames = [d \in 0..MaxDepth |-> Idle]
  BY ReentryAssumption DEF StackInit
<1>2. Live = {}
  BY <1>1 DEF Live
<1>3. frames \in [0..MaxDepth -> FS]
  BY <1>1
<1>4. depth \in 0..MaxDepth
  BY <1>1
<1>5. aborted \in BOOLEAN
  BY <1>1
<1> QED BY <1>1, <1>2, <1>3, <1>4, <1>5 DEF StackIn

\* Every call on the stack is in the set.
LEMMA LiveStack ==
  ASSUME NEW FS, StackIn(FS)
  PROVE  /\ depth \in Nat /\ top \in FS /\ \A d \in Live : frames[d] \in FS
         /\ depth > 0 => depth \in Live
BY ReentryAssumption DEF StackIn, Live, top

\* A call is pushed: the calls below it are as they were.
LEMMA CallStack ==
  ASSUME NEW FS, StackIn(FS), depth < MaxDepth, NEW f \in FS, Call(f)
  PROVE  /\ StackIn(FS)'
         /\ depth' = depth + 1 /\ top' = f /\ aborted' = aborted
         /\ Live' = Live \cup {depth'} /\ depth' \notin Live
         /\ frames'[depth'] = f
         /\ \A d \in Live : frames'[d] = frames[d]
<1>0. depth \in Nat /\ MaxDepth \in Nat
  BY ReentryAssumption DEF StackIn
<1>1. StackIn(FS)'
  BY <1>0 DEF StackIn, Call
<1>2. depth' = depth + 1 /\ frames'[depth'] = f /\ aborted' = aborted
  BY <1>0 DEF StackIn, Call
<1>3. Live' = Live \cup {depth'} /\ depth' \notin Live
  BY <1>0, <1>2 DEF Live
<1>4. \A d \in Live : frames'[d] = frames[d]
  BY <1>0 DEF StackIn, Call, Live
<1> QED BY <1>1, <1>2, <1>3, <1>4 DEF top

\* The running call goes on: the calls below it are as they were.
LEMMA GotoStack ==
  ASSUME NEW FS, StackIn(FS), depth > 0, NEW f \in FS, Goto(f)
  PROVE  /\ StackIn(FS)'
         /\ depth' = depth /\ top' = f /\ aborted' = aborted
         /\ Live' = Live /\ depth \in Live
         /\ frames'[depth] = f
         /\ \A d \in Live : d /= depth => frames'[d] = frames[d]
<1>0. depth \in Nat /\ MaxDepth \in Nat
  BY ReentryAssumption DEF StackIn
<1>1. StackIn(FS)'
  BY <1>0 DEF StackIn, Goto
<1>2. depth' = depth /\ frames'[depth] = f /\ aborted' = aborted
  BY <1>0 DEF StackIn, Goto
<1>3. Live' = Live /\ depth \in Live
  BY <1>0, <1>2 DEF Live
<1>4. \A d \in Live : d /= depth => frames'[d] = frames[d]
  BY <1>0 DEF StackIn, Goto, Live
<1> QED BY <1>1, <1>2, <1>3, <1>4 DEF top

\* The running call ends: the calls below it are as they were.
LEMMA ReturnStack ==
  ASSUME NEW FS, StackIn(FS), depth > 0, Idle \in FS, Return
  PROVE  /\ StackIn(FS)'
         /\ depth' = depth - 1 /\ aborted' = aborted
         /\ Live' = Live \ {depth} /\ depth \in Live
         /\ \A d \in Live' : frames'[d] = frames[d]
<1>0. depth \in Nat /\ MaxDepth \in Nat
  BY ReentryAssumption DEF StackIn
<1>1. StackIn(FS)'
  BY <1>0 DEF StackIn, Return
<1>2. depth' = depth - 1 /\ aborted' = aborted
  BY DEF Return
<1>3. Live' = Live \ {depth} /\ depth \in Live
  BY <1>0, <1>2 DEF Live
<1>4. \A d \in Live' : frames'[d] = frames[d]
  BY <1>0, <1>3 DEF StackIn, Return, Live
<1> QED BY <1>1, <1>2, <1>3, <1>4

\* A step that does not touch the stack.
LEMMA SameStack ==
  ASSUME NEW FS, StackIn(FS), UNCHANGED stackVars
  PROVE  /\ StackIn(FS)'
         /\ depth' = depth /\ top' = top /\ aborted' = aborted /\ Live' = Live
         /\ \A d \in Live : frames'[d] = frames[d]
BY DEF StackIn, stackVars, top, Live

-----------------------------------------------------------------------------
(* Items in order *)

\* A sequence is its head before its tail.
LEMMA HeadThenTail ==
  ASSUME NEW S, NEW q \in Seq(S), q /= <<>>
  PROVE  q = <<Head(q)>> \o Tail(q) /\ Head(q) \in S /\ Tail(q) \in Seq(S)
OBVIOUS

\* A slot that holds something holds its head and nothing else.
LEMMA FullSlot ==
  ASSUME NEW S, NEW q \in Seq(S), q /= <<>>, Len(q) <= 1
  PROVE  q = <<Head(q)>> /\ Head(q) \in S
<1>1. q = <<Head(q)>> \o Tail(q) /\ Head(q) \in S /\ Tail(q) \in Seq(S)
  BY HeadThenTail
<1>2. Len(q) \in Nat /\ Len(Tail(q)) = Len(q) - 1 /\ Len(Tail(q)) \in Nat
  BY <1>1, HeadTailProperties, LenProperties
<1>3. Tail(q) = <<>>
  BY <1>1, <1>2, EmptySeq
<1>4. <<Head(q)>> \in Seq(S)
  BY <1>1
<1> QED BY <1>1, <1>3, <1>4, ConcatEmptySeq

\* The four parts in order.
Chain(a, b, c, d) == a \o b \o c \o d

\* q is p with x behind it.
Pushed(p, x, q) == q = Append(p, x)

\* p, then q.
Cat(p, q) == p \o q

\* What is pushed behind the second of two parts is behind both.
LEMMA PushBehind ==
  ASSUME NEW S, NEW y \in Seq(S), NEW d \in Seq(S), NEW x \in S, NEW e, Pushed(d, x, e)
  PROVE  Pushed(Cat(y, d), x, Cat(y, e))
<1>1. Append(y \o d, x) = y \o Append(d, x)
  OBVIOUS
<1> QED BY <1>1 DEF Pushed, Cat

\* An item that is pushed goes to the end of the queue, behind all that was
\* there before it.
LEMMA PushAtEnd ==
  ASSUME NEW S, NEW a \in Seq(S), NEW b \in Seq(S), NEW c \in Seq(S), NEW d \in Seq(S),
         NEW x \in S, NEW e, NEW p, Pushed(d, x, e), Pushed(Chain(a, b, c, d), x, p)
  PROVE  p = Chain(a, b, c, e)
<1>1. a \o b \o c \in Seq(S)
  BY ConcatProperties
<1>2. Pushed(Cat(a \o b \o c, d), x, Cat(a \o b \o c, e))
  BY <1>1, PushBehind
<1> QED BY <1>2 DEF Pushed, Cat, Chain

\* The item in the slot becomes the last one drained.
LEMMA DrainSlot ==
  ASSUME NEW S, NEW a \in Seq(S), NEW b \in Seq(S), NEW d \in Seq(S), NEW x \in S
  PROVE  Chain(a, b, <<x>>, d) = Chain(a, Append(b, x), <<>>, d)
<1>1. a \o b \in Seq(S) /\ a \o Append(b, x) \in Seq(S)
  OBVIOUS
<1>2. (a \o b) \o <<x>> = Append(a \o b, x)
  BY <1>1, AppendIsConcat
<1>3. Append(a \o b, x) = a \o Append(b, x)
  <2>1. Pushed(b, x, Append(b, x))
    BY DEF Pushed
  <2>2. Pushed(Cat(a, b), x, Cat(a, Append(b, x)))
    BY <2>1, PushBehind
  <2> QED BY <2>2 DEF Pushed, Cat
<1>4. a \o Append(b, x) \o <<>> = a \o Append(b, x)
  BY <1>1, ConcatEmptySeq
<1>5. (a \o b) \o <<x>> = a \o Append(b, x) \o <<>>
  BY <1>2, <1>3, <1>4
<1> QED BY <1>5 DEF Chain

\* With nothing drained the item in the slot becomes the last one delivered.
LEMMA DeliverSlot ==
  ASSUME NEW S, NEW a \in Seq(S), NEW d \in Seq(S), NEW x \in S
  PROVE  Chain(a, <<>>, <<x>>, d) = Chain(Append(a, x), <<>>, <<>>, d)
BY DEF Chain

\* The head of the queue moves to the empty slot.
LEMMA FillSlot ==
  ASSUME NEW S, NEW a \in Seq(S), NEW b \in Seq(S), NEW d \in Seq(S), d /= <<>>
  PROVE  Chain(a, b, <<>>, d) = Chain(a, b, <<Head(d)>>, Tail(d))
<1>1. a \o b \in Seq(S) /\ a \o b \o <<>> = a \o b
  OBVIOUS
<1>2. ((a \o b) \o <<Head(d)>>) \o Tail(d) = (a \o b) \o d
  BY <1>1
<1> QED BY <1>1, <1>2 DEF Chain

=============================================================================
