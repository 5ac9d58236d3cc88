----------------------------- MODULE MailQueue -----------------------------
(***************************************************************************)
(* ac::MailQueue (include/queue.h): the lock-free many-producer, single-   *)
(* consumer ring behind every mailbox.  Each slot carries a sequence       *)
(* number; ticket t uses slot t & mask_, is free for its producer when the *)
(* sequence is t, and holds a message for the consumer when it is t + 1.   *)
(*                                                                         *)
(* Every access to a shared atomic is one step.  A relaxed load of         *)
(* write_index_ may return any earlier value of it; all other accesses     *)
(* are ordered by the acquire/release pairs on the slots' sequences.       *)
(* Indices are not reduced modulo 2^64: a ticket per nanosecond takes more *)
(* than five centuries to wrap.                                            *)
(***************************************************************************)
EXTENDS Integers, Sequences, FiniteSets

CONSTANTS Producers,  \* threads calling try_enqueue
          Messages,   \* EventMessage pointers, each enqueued at most once
          Size,       \* size_: the requested size rounded up to a power of 2
          Null        \* nullptr

\* std::bit_ceil makes size_ a power of two.  Every caller asks for at least
\* two slots (kMailBoxSize = 256; the tests use 16 and 1024): with a single
\* slot the sequence of a full slot equals the next ticket.
ASSUME SizeAssumption == Size \in Nat /\ Size >= 2
ASSUME PowerOfTwoAssumption == \E k \in 1 .. Size : Size = 2^k
ASSUME NullAssumption == Null \notin Messages

VARIABLES
  write_index,  \* next ticket of the producers
  read_index,   \* next ticket of the consumer
  sequence,     \* Slot::sequence
  message,      \* Slot::message
  ppc,          \* where each producer is in try_enqueue
  held,         \* the message each producer is enqueuing
  write_idx,    \* each producer's local write_idx
  cpc,          \* where the consumer is in try_dequeue
  log,          \* history: the messages in the order of their tickets
  received      \* history: the messages returned by try_dequeue

slotVars == <<sequence, message>>
prodVars == <<ppc, held, write_idx>>
vars == <<write_index, read_index, sequence, message, ppc, held, write_idx,
          cpc, log, received>>

\* idx & mask_, for a size that is a power of two.
Slot(idx) == idx % Size

Slots == 0 .. Size - 1

Init ==
  /\ write_index = 0
  /\ read_index = 0
  /\ sequence = [i \in Slots |-> i]
  /\ message = [i \in Slots |-> Null]
  /\ ppc = [p \in Producers |-> "idle"]
  /\ held = [p \in Producers |-> Null]
  /\ write_idx = [p \in Producers |-> 0]
  /\ cpc = "idle"
  /\ log = <<>>
  /\ received = <<>>

-----------------------------------------------------------------------------
(* try_enqueue *)

\* A message nobody has enqueued and nobody is enqueuing: a refused one may
\* be offered again.
Fresh(m) ==
  /\ \A i \in DOMAIN log : log[i] # m
  /\ \A p \in Producers : held[p] # m

CallTryEnqueue(p, m) ==
  /\ ppc[p] = "idle"
  /\ Fresh(m)
  /\ ppc' = [ppc EXCEPT ![p] = "load"]
  /\ held' = [held EXCEPT ![p] = m]
  /\ UNCHANGED <<write_index, read_index, slotVars, write_idx, cpc, log, received>>

LoadWriteIndex(p) ==
  /\ ppc[p] = "load"
  /\ \E idx \in 0 .. write_index : write_idx' = [write_idx EXCEPT ![p] = idx]
  /\ ppc' = [ppc EXCEPT ![p] = "sequence"]
  /\ UNCHANGED <<write_index, read_index, slotVars, held, cpc, log, received>>

\* The signed difference the code compares with zero.
EnqueueDiff(p) == sequence[Slot(write_idx[p])] - write_idx[p]

\* A defect: any difference counts as a full queue.
QueueFullUnlessFree(p) ==
  /\ ppc[p] = "sequence"
  /\ EnqueueDiff(p) # 0
  /\ ppc' = [ppc EXCEPT ![p] = "idle"]
  /\ held' = [held EXCEPT ![p] = Null]
  /\ UNCHANGED <<write_index, read_index, slotVars, write_idx, cpc, log, received>>

\* The slot is still occupied by the ticket one lap earlier: return false.
QueueFull(p) ==
  /\ ppc[p] = "sequence"
  /\ EnqueueDiff(p) < 0
  /\ ppc' = [ppc EXCEPT ![p] = "idle"]
  /\ held' = [held EXCEPT ![p] = Null]
  /\ UNCHANGED <<write_index, read_index, slotVars, write_idx, cpc, log, received>>

\* A defect: a slot that is still occupied counts as free.
SlotFreeOrOccupied(p) ==
  /\ ppc[p] = "sequence"
  /\ EnqueueDiff(p) <= 0
  /\ ppc' = [ppc EXCEPT ![p] = "cas"]
  /\ UNCHANGED <<write_index, read_index, slotVars, held, write_idx, cpc, log, received>>

SlotFree(p) ==
  /\ ppc[p] = "sequence"
  /\ EnqueueDiff(p) = 0
  /\ ppc' = [ppc EXCEPT ![p] = "cas"]
  /\ UNCHANGED <<write_index, read_index, slotVars, held, write_idx, cpc, log, received>>

\* Another producer has the ticket already: load write_index_ again.
TicketGone(p) ==
  /\ ppc[p] = "sequence"
  /\ EnqueueDiff(p) > 0
  /\ ppc' = [ppc EXCEPT ![p] = "load"]
  /\ UNCHANGED <<write_index, read_index, slotVars, held, write_idx, cpc, log, received>>

\* A defect: the ticket is taken with a plain store, so that two producers
\* that loaded the same index both win.
CasSucceedsUnchecked(p) ==
  /\ ppc[p] = "cas"
  /\ write_index' = write_idx[p] + 1
  /\ log' = Append(log, held[p])
  /\ ppc' = [ppc EXCEPT ![p] = "write"]
  /\ UNCHANGED <<read_index, slotVars, held, write_idx, cpc, received>>

\* compare_exchange_weak succeeds: the producer owns ticket write_idx.
CasSucceeds(p) ==
  /\ ppc[p] = "cas"
  /\ write_index = write_idx[p]
  /\ write_index' = write_index + 1
  /\ log' = Append(log, held[p])
  /\ ppc' = [ppc EXCEPT ![p] = "write"]
  /\ UNCHANGED <<read_index, slotVars, held, write_idx, cpc, received>>

\* It fails because the index moved on, or spuriously.
CasFails(p) ==
  /\ ppc[p] = "cas"
  /\ ppc' = [ppc EXCEPT ![p] = "load"]
  /\ UNCHANGED <<write_index, read_index, slotVars, held, write_idx, cpc, log, received>>

WriteMessage(p) ==
  /\ ppc[p] = "write"
  /\ message' = [message EXCEPT ![Slot(write_idx[p])] = held[p]]
  /\ ppc' = [ppc EXCEPT ![p] = "publish"]
  /\ UNCHANGED <<write_index, read_index, sequence, held, write_idx, cpc, log, received>>

\* A defect: the sequence is stored back unchanged.
PublishSlotUnchanged(p) ==
  /\ ppc[p] = "publish"
  /\ sequence' = [sequence EXCEPT ![Slot(write_idx[p])] = write_idx[p]]
  /\ ppc' = [ppc EXCEPT ![p] = "idle"]
  /\ held' = [held EXCEPT ![p] = Null]
  /\ UNCHANGED <<write_index, read_index, message, write_idx, cpc, log, received>>

\* The release store that shows the message to the consumer: return true.
PublishSlot(p) ==
  /\ ppc[p] = "publish"
  /\ sequence' = [sequence EXCEPT ![Slot(write_idx[p])] = write_idx[p] + 1]
  /\ ppc' = [ppc EXCEPT ![p] = "idle"]
  /\ held' = [held EXCEPT ![p] = Null]
  /\ UNCHANGED <<write_index, read_index, message, write_idx, cpc, log, received>>

-----------------------------------------------------------------------------
(* try_dequeue, called by one consumer at a time *)

\* A defect: compared with read_index_, as the producers do.
CanDequeueEarly == sequence[Slot(read_index)] - read_index >= 0

\* can_dequeue(), and the test with which try_dequeue returns false.
CanDequeue == sequence[Slot(read_index)] - (read_index + 1) >= 0

\* The slot at read_index_ is published; otherwise the call returns false
\* and changes nothing.
BeginDequeue ==
  /\ cpc = "idle"
  /\ CanDequeue
  /\ cpc' = "take"
  /\ UNCHANGED <<write_index, read_index, slotVars, prodVars, log, received>>

TakeMessage ==
  /\ cpc = "take"
  /\ received' = Append(received, message[Slot(read_index)])
  /\ message' = [message EXCEPT ![Slot(read_index)] = Null]
  /\ cpc' = "advance"
  /\ UNCHANGED <<write_index, read_index, sequence, prodVars, log>>

AdvanceReadIndex ==
  /\ cpc = "advance"
  /\ read_index' = read_index + 1
  /\ cpc' = "release"
  /\ UNCHANGED <<write_index, slotVars, prodVars, log, received>>

\* A defect: read_index_ is loaded again, after it was advanced.
ReleaseSlotReloaded ==
  /\ cpc = "release"
  /\ sequence' = [sequence EXCEPT ![Slot(read_index)] = read_index + Size]
  /\ cpc' = "idle"
  /\ UNCHANGED <<write_index, read_index, message, prodVars, log, received>>

\* The slot is handed to the producers of the next lap; read_idx is the
\* index before AdvanceReadIndex.
ReleaseSlot ==
  /\ cpc = "release"
  /\ LET read_idx == read_index - 1
     IN  sequence' = [sequence EXCEPT ![Slot(read_idx)] = read_idx + Size]
  /\ cpc' = "idle"
  /\ UNCHANGED <<write_index, read_index, message, prodVars, log, received>>

-----------------------------------------------------------------------------
TryEnqueue(p) ==
  \/ LoadWriteIndex(p)
  \/ QueueFull(p)
  \/ SlotFree(p)
  \/ TicketGone(p)
  \/ CasSucceeds(p)
  \/ CasFails(p)
  \/ WriteMessage(p)
  \/ PublishSlot(p)

TryDequeue == BeginDequeue \/ TakeMessage \/ AdvanceReadIndex \/ ReleaseSlot

Next ==
  \/ \E p \in Producers, m \in Messages : CallTryEnqueue(p, m)
  \/ \E p \in Producers : TryEnqueue(p)
  \/ TryDequeue

Spec == Init /\ [][Next]_vars

\* A thread that owns a slot finishes its try_enqueue, and the consumer keeps
\* calling try_dequeue.  The retry loop of try_enqueue is only lock-free, so
\* nothing is assumed of a producer that has no ticket yet.
Fairness ==
  /\ \A p \in Producers : WF_vars(WriteMessage(p)) /\ WF_vars(PublishSlot(p))
  /\ WF_vars(TryDequeue)

FairSpec == Spec /\ Fairness

-----------------------------------------------------------------------------
(* Properties *)

\* The indices are naturals, a slot holds a message or nullptr, every thread
\* is at a step of the code.
TypeOK ==
  /\ write_index \in Nat
  /\ read_index \in Nat
  /\ sequence \in [Slots -> Nat]
  /\ message \in [Slots -> Messages \cup {Null}]
  /\ ppc \in [Producers -> {"idle", "load", "sequence", "cas", "write", "publish"}]
  /\ held \in [Producers -> Messages \cup {Null}]
  /\ write_idx \in [Producers -> Nat]
  /\ cpc \in {"idle", "take", "advance", "release"}
  /\ log \in Seq(Messages)
  /\ received \in Seq(Messages)

\* The messages try_dequeue returns are the messages of tickets 0, 1, 2, ...
\* in ticket order: none is lost, duplicated, reordered or read from a slot
\* before its producer wrote it.
DeliveredInOrder ==
  /\ Len(received) <= Len(log)
  /\ \A i \in 1 .. Len(received) : received[i] = log[i]

\* The producer has a ticket and may touch its slot.
OwnsTicket(p) == ppc[p] \in {"write", "publish"}

\* Tickets whose slot the consumer has handed back.
Released == IF cpc = "release" THEN read_index - 1 ELSE read_index

\* No two threads touch the plain field Slot::message of one slot at the same
\* time: neither two producers, nor a producer and the consumer between its
\* test of the sequence and its release of the slot.
SlotExclusive ==
  /\ \A p, q \in Producers :
       p # q /\ OwnsTicket(p) /\ OwnsTicket(q)
         => Slot(write_idx[p]) # Slot(write_idx[q])
  /\ \A p \in Producers :
       OwnsTicket(p) /\ cpc # "idle" => Slot(write_idx[p]) # Slot(Released)

\* try_enqueue returns false only when every slot holds a ticket that the
\* consumer has not released, however stale the index the producer loaded.
RefusedOnlyWhenFull ==
  [][\A p \in Producers :
       ppc[p] = "sequence" /\ ppc'[p] = "idle" => write_index - Released = Size]_vars

\* Tickets whose message the consumer has read.
Taken == Len(received)

\* The places of the abstract channel: the tickets not yet taken, ready once
\* the slot's sequence is past the ticket.
Places ==
  [i \in 1 .. write_index - Taken |->
     [msg |-> log[Taken + i],
      ready |-> sequence[Slot(Taken + i - 1)] = Taken + i]]

Channel == INSTANCE MailChannel
             WITH Capacity <- Size, chan <- Places, delivered <- received

\* The ring of slots implements the bounded FIFO with two-step enqueue.
ImplementsChannel == Channel!ChanSpec

\* Every message that got a ticket is eventually returned by try_dequeue: the
\* sequence numbers never lead producers and consumer to wait for each other.
TicketsAreDelivered ==
  \A t \in 1 .. Cardinality(Messages) :
    (Len(log) >= t) ~> (Len(received) >= t)

=============================================================================
