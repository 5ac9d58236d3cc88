----------------------------- MODULE TaskDeque -----------------------------
(***************************************************************************)
(* What a worker's local queue promises: a bounded double-ended queue.     *)
(* The owner pushes and pops at the back, thieves steal from the front,    *)
(* and every operation happens at one instant.                             *)
(***************************************************************************)
EXTENDS Naturals, Sequences

CONSTANTS Tasks,     \* coroutine handles
          Capacity   \* slots of the queue

VARIABLES deque,     \* the queued tasks, front first
          obtained   \* history: the tasks popped or stolen, in order

dequeVars == <<deque, obtained>>

DequeInit == deque = <<>> /\ obtained = <<>>

PushBack(t) ==
  /\ Len(deque) < Capacity
  /\ deque' = Append(deque, t)
  /\ UNCHANGED obtained

PopBack ==
  /\ deque # <<>>
  /\ obtained' = Append(obtained, deque[Len(deque)])
  /\ deque' = SubSeq(deque, 1, Len(deque) - 1)

StealFront ==
  /\ deque # <<>>
  /\ obtained' = Append(obtained, Head(deque))
  /\ deque' = Tail(deque)

DequeNext == (\E t \in Tasks : PushBack(t)) \/ PopBack \/ StealFront

DequeSpec == DequeInit /\ [][DequeNext]_dequeVars

=============================================================================
