------------------------- MODULE WorkStealingQueue -------------------------
(***************************************************************************)
(* ac::WorkStealingQueue<N> (include/queue.h): a worker's local queue of   *)
(* coroutine handles.  The owner pushes and pops at bottom_, other workers *)
(* steal at top_; both sides compete for the last task with a compare-     *)
(* exchange on top_.                                                       *)
(*                                                                         *)
(* Each access to a shared atomic is a step; loads and stores that only    *)
(* the owner's next access can tell apart are taken together.  The         *)
(* sequentially consistent fences of pop and steal order the owner's store *)
(* of bottom_ before its load of top_, and a thief's loads, so steps take  *)
(* effect in the order of the code.                                        *)
(*                                                                         *)
(* Indices are machine words of Width bits that wrap; pop and steal        *)
(* compare them as signed numbers, push subtracts them as unsigned ones.   *)
(***************************************************************************)
EXTENDS Integers, Sequences, FiniteSets

CONSTANTS Thieves,  \* the other workers
          Tasks,    \* coroutine handles, each pushed at most once
          N,        \* slots, a power of two
          Width,    \* bits of an index: 64 in the code
          Null      \* the null handle

ASSUME WidthAssumption == Width \in Nat /\ Width >= 2
ASSUME SlotsAssumption == N \in Nat \ {0} /\ \E k \in 0 .. Width - 2 : N = 2^k
\* Plain arithmetic, named because the provers have no theory of powers.
ASSUME WordAssumption == 2^(Width - 1) \in Nat \ {0} /\ 2^Width = 2 * 2^(Width - 1)
ASSUME NullAssumption == Null \notin Tasks

VARIABLES
  top,       \* top_
  bottom,    \* bottom_
  queue,     \* queue_
  opc,       \* where the owner is
  task,      \* the handle the owner is pushing
  owner_tp,  \* the owner's local tp
  tpc,       \* where each thief is in steal()
  tp,        \* each thief's local tp
  ptr,       \* each thief's local ptr
  obtained   \* history: the tasks returned by pop() and steal()

ownerVars == <<opc, task, owner_tp>>
thiefVars == <<tpc, tp, ptr>>
vars == <<top, bottom, queue, opc, task, owner_tp, tpc, tp, ptr, obtained>>

Word == 0 .. 2^Width - 1
Wrap(x) == x % 2^Width
Signed(x) == IF x < 2^(Width - 1) THEN x ELSE x - 2^Width
Slot(x) == x % N

Init ==
  /\ top = 0
  /\ bottom = 0
  /\ queue = [i \in 0 .. N - 1 |-> Null]
  /\ opc = "idle"
  /\ task = Null
  /\ owner_tp = 0
  /\ tpc = [h \in Thieves |-> "idle"]
  /\ tp = [h \in Thieves |-> 0]
  /\ ptr = [h \in Thieves |-> Null]
  /\ obtained = <<>>

-----------------------------------------------------------------------------
(* push *)

\* A handle that is in no queue: Enqueue is called on suspended coroutines.
Fresh(t) ==
  /\ \A i \in DOMAIN obtained : obtained[i] # t
  /\ \A i \in DOMAIN queue : queue[i] # t

\* A defect: one push too many.
PushStoreOverfull(t) ==
  /\ opc = "idle"
  /\ Fresh(t)
  /\ Wrap(bottom - top) <= N
  /\ queue' = [queue EXCEPT ![Slot(bottom)] = t]
  /\ task' = t
  /\ opc' = "publish"
  /\ UNCHANGED <<top, bottom, owner_tp, thiefVars, obtained>>

\* bt - tp >= N returns false and changes nothing; otherwise the slot is
\* written ...
PushStore(t) ==
  /\ opc = "idle"
  /\ Fresh(t)
  /\ Wrap(bottom - top) < N
  /\ queue' = [queue EXCEPT ![Slot(bottom)] = t]
  /\ task' = t
  /\ opc' = "publish"
  /\ UNCHANGED <<top, bottom, owner_tp, thiefVars, obtained>>

\* ... and shown to the thieves.
PushPublish ==
  /\ opc = "publish"
  /\ bottom' = Wrap(bottom + 1)
  /\ task' = Null
  /\ opc' = "idle"
  /\ UNCHANGED <<top, queue, owner_tp, thiefVars, obtained>>

-----------------------------------------------------------------------------
(* pop; after PopReserve the local bt is bottom *)

PopReserve ==
  /\ opc = "idle"
  /\ bottom' = Wrap(bottom - 1)
  /\ opc' = "load_top"
  /\ UNCHANGED <<top, queue, task, owner_tp, thiefVars, obtained>>

\* A defect: the only task is taken without the compare-exchange.
PopLastUnchecked ==
  /\ opc = "load_top"
  /\ Signed(top) <= Signed(bottom)
  /\ obtained' = Append(obtained, queue[Slot(bottom)])
  /\ opc' = "idle"
  /\ UNCHANGED <<top, bottom, queue, task, owner_tp, thiefVars>>

\* More than one task: the last one is the owner's.
PopLast ==
  /\ opc = "load_top"
  /\ Signed(top) < Signed(bottom)
  /\ obtained' = Append(obtained, queue[Slot(bottom)])
  /\ opc' = "idle"
  /\ UNCHANGED <<top, bottom, queue, task, owner_tp, thiefVars>>

\* One task: the owner competes with the thieves for it.
PopOnly ==
  /\ opc = "load_top"
  /\ top = bottom
  /\ owner_tp' = top
  /\ opc' = "cas"
  /\ UNCHANGED <<top, bottom, queue, task, thiefVars, obtained>>

\* A defect: a queue with one task counts as empty.
PopEmptyOrOne ==
  /\ opc = "load_top"
  /\ Signed(top) >= Signed(bottom)
  /\ opc' = "restore"
  /\ UNCHANGED <<top, bottom, queue, task, owner_tp, thiefVars, obtained>>

PopEmpty ==
  /\ opc = "load_top"
  /\ Signed(top) > Signed(bottom)
  /\ opc' = "restore"
  /\ UNCHANGED <<top, bottom, queue, task, owner_tp, thiefVars, obtained>>

PopCas ==
  /\ opc = "cas"
  /\ IF top = owner_tp
       THEN /\ top' = Wrap(top + 1)
            /\ obtained' = Append(obtained, queue[Slot(bottom)])
       ELSE UNCHANGED <<top, obtained>>
  /\ opc' = "restore"
  /\ UNCHANGED <<bottom, queue, task, owner_tp, thiefVars>>

PopRestore ==
  /\ opc = "restore"
  /\ bottom' = Wrap(bottom + 1)
  /\ opc' = "idle"
  /\ UNCHANGED <<top, queue, task, owner_tp, thiefVars, obtained>>

-----------------------------------------------------------------------------
(* steal *)

StealLoadTop(h) ==
  /\ tpc[h] = "idle"
  /\ tp' = [tp EXCEPT ![h] = top]
  /\ tpc' = [tpc EXCEPT ![h] = "load_bottom"]
  /\ UNCHANGED <<top, bottom, queue, ownerVars, ptr, obtained>>

\* A defect: an empty queue is stolen from.
StealLoadBottomLoose(h) ==
  /\ tpc[h] = "load_bottom"
  /\ tpc' = [tpc EXCEPT ![h] = IF Signed(tp[h]) <= Signed(bottom) THEN "load_slot" ELSE "idle"]
  /\ UNCHANGED <<top, bottom, queue, ownerVars, tp, ptr, obtained>>

StealLoadBottom(h) ==
  /\ tpc[h] = "load_bottom"
  /\ tpc' = [tpc EXCEPT ![h] = IF Signed(tp[h]) < Signed(bottom) THEN "load_slot" ELSE "idle"]
  /\ UNCHANGED <<top, bottom, queue, ownerVars, tp, ptr, obtained>>

StealLoadSlot(h) ==
  /\ tpc[h] = "load_slot"
  /\ ptr' = [ptr EXCEPT ![h] = queue[Slot(tp[h])]]
  /\ tpc' = [tpc EXCEPT ![h] = "cas"]
  /\ UNCHANGED <<top, bottom, queue, ownerVars, tp, obtained>>

\* The task is the thief's, or another worker was faster (kAbort).
StealCas(h) ==
  /\ tpc[h] = "cas"
  /\ IF top = tp[h]
       THEN /\ top' = Wrap(top + 1)
            /\ obtained' = Append(obtained, ptr[h])
       ELSE UNCHANGED <<top, obtained>>
  /\ ptr' = [ptr EXCEPT ![h] = Null]
  /\ tpc' = [tpc EXCEPT ![h] = "idle"]
  /\ UNCHANGED <<bottom, queue, ownerVars, tp>>

-----------------------------------------------------------------------------
Push(t) == PushStore(t)
Pop == PopReserve \/ PopLast \/ PopOnly \/ PopEmpty \/ PopCas \/ PopRestore
Steal(h) == StealLoadTop(h) \/ StealLoadBottom(h) \/ StealLoadSlot(h) \/ StealCas(h)

Next ==
  \/ \E t \in Tasks : Push(t)
  \/ PushPublish
  \/ Pop
  \/ \E h \in Thieves : Steal(h)

Spec == Init /\ [][Next]_vars

-----------------------------------------------------------------------------
(* Properties *)

\* Indices are words, slots hold handles, nobody obtains a null handle.
TypeOK ==
  /\ top \in Word
  /\ bottom \in Word
  /\ queue \in [0 .. N - 1 -> Tasks \cup {Null}]
  /\ opc \in {"idle", "publish", "load_top", "cas", "restore"}
  /\ task \in Tasks \cup {Null}
  /\ owner_tp \in Word
  /\ tpc \in [Thieves -> {"idle", "load_bottom", "load_slot", "cas"}]
  /\ tp \in [Thieves -> Word]
  /\ ptr \in [Thieves -> Tasks \cup {Null}]
  /\ obtained \in Seq(Tasks)

\* No task is obtained twice, neither by the owner and a thief that compete
\* for the last one nor from a slot that was used again
\* (work_stealing_queue_stress_test.cc: "exactly once").
ExactlyOnce ==
  \A i, j \in DOMAIN obtained : obtained[i] = obtained[j] => i = j

\* The end of the queue: a pop that has reserved the last slot has not
\* obtained it yet.
End == IF opc \in {"load_top", "cas", "restore"} THEN Wrap(bottom + 1) ELSE bottom

\* The queued tasks, from top_ on.
Contents == [k \in 1 .. Wrap(End - top) |-> queue[Slot(Wrap(top + k - 1))]]

Deque == INSTANCE TaskDeque WITH Capacity <- N, deque <- Contents

\* The ring implements the double-ended queue: every push, pop and steal takes
\* effect at one instant, the owner gets the youngest task and thieves the
\* oldest, and no task is lost.
ImplementsDeque == Deque!DequeSpec

\* Where pop restores bottom_ without having seen a task, "the queue is empty"
\* (queue.h:203): it never reports kEmpty while a task is queued.
PopEmptyWhenEmpty ==
  [][opc = "load_top" /\ opc' = "restore" => top = End]_vars

=============================================================================
