------------------------------ MODULE Reentry ------------------------------
(***************************************************************************)
(* The call stack of the one thread that owns every handle of a channel.   *)
(*                                                                         *)
(* A channel call runs user code in the middle: the clone, wake and drop   *)
(* callbacks of wakers and the destructors of payloads.  That code may     *)
(* call the channel again and may panic.  The stretch of library code      *)
(* between two callbacks is atomic (one thread, no preemption), so a       *)
(* suspended call is described by the point where it left the library:     *)
(*                                                                         *)
(*   op        the call                                                    *)
(*   at        the callback it is in, or the library label it is about to  *)
(*             run                                                         *)
(*   who       the future or handle it holds, None if it does not matter   *)
(*   todo      registrations taken out of a waker list, still to be woken  *)
(*   panicked  a callback of this call has panicked                        *)
(*   id        a registration id held by a drop guard of this call         *)
(*                                                                         *)
(* frames[depth] is the running call, the ones below it wait for their     *)
(* callback to return; frames[0] stands for the tasks' own code.           *)
(***************************************************************************)
EXTENDS Naturals

CONSTANTS
  MaxDepth,        \* bound: calls on the stack at once
  Panics,          \* how a callback may end: TRUE is a panic
  Builds,          \* the builds covered: TRUE has the std feature, FALSE has not
  None             \* Rust's Option::None

ASSUME ReentryAssumption ==
  /\ MaxDepth \in Nat \ {0}
  /\ Panics \subseteq BOOLEAN
  /\ FALSE \in Panics
  /\ Builds \subseteq BOOLEAN

VARIABLES
  depth,           \* number of calls on the stack
  frames,          \* the calls
  aborted          \* a panic escaped a destructor that ran during an unwind

stackVars == <<depth, frames, aborted>>

Frame(op, at, who) ==
  [op |-> op, at |-> at, who |-> who, todo |-> {}, panicked |-> FALSE, id |-> None]

Idle == Frame("idle", "idle", None)

StackInit ==
  /\ depth = 0
  /\ frames = [d \in 0..MaxDepth |-> Idle]
  /\ aborted = FALSE

top == frames[depth]

\* User code runs, a task at the bottom of the stack or one of the channel's
\* callbacks, and may call the channel.
UserCode(callbacks) ==
  /\ ~aborted
  /\ depth < MaxDepth
  /\ top.at \in callbacks \cup {"idle"}

\* The running call has reached `at`.
At(at) == ~aborted /\ depth > 0 /\ top.at = at

Running(ops) == top.op \in ops

Call(f) ==
  /\ depth' = depth + 1
  /\ frames' = [frames EXCEPT ![depth + 1] = f]
  /\ UNCHANGED aborted

Goto(f) ==
  /\ frames' = [frames EXCEPT ![depth] = f]
  /\ UNCHANGED <<depth, aborted>>

\* The running call returns or unwinds to its caller, whose callback goes on.
Return ==
  /\ depth' = depth - 1
  /\ frames' = [frames EXCEPT ![depth] = Idle]
  /\ UNCHANGED aborted

\* A second panic while a drop guard runs: the process is gone.
Abort == aborted' = TRUE /\ UNCHANGED <<depth, frames>>

\* The wakers taken out of a list are called one after the other.
Waking(f, list) == [f EXCEPT !.at = IF list = {} THEN "woke" ELSE "wake", !.todo = list]

\* With std every wake is caught and the first panic resumed at the end. Without
\* it the wakes that follow a panic run in a drop guard: a second one aborts.
WakeMayEnd(p) == p /\ top.panicked => TRUE \in Builds
WakeAborted(p) == At("wake") /\ p /\ top.panicked /\ FALSE \in Builds /\ Abort

Live == 1..depth

Busy(o) == \E d \in Live : frames[d].who = o

=============================================================================
