---------------------------- MODULE MailChannel ----------------------------
(***************************************************************************)
(* What a mailbox queue promises, without its ring of slots: a bounded     *)
(* FIFO in which a producer first claims a place (the successful           *)
(* compare-exchange of MailQueue::try_enqueue) and publishes it later (the *)
(* release store of the slot's sequence).  The consumer takes the oldest   *)
(* message, and only once it is published: a claimed, unpublished place at *)
(* the head hides every message behind it.                                 *)
(***************************************************************************)
EXTENDS Naturals, Sequences

CONSTANTS Messages,   \* the EventMessage pointers that may be sent
          Capacity    \* slots of the queue (MailQueue::size_)

VARIABLES chan,       \* places claimed and not yet taken, oldest first
          delivered   \* history: the messages taken, in order

chanVars == <<chan, delivered>>

Place == [msg : Messages, ready : BOOLEAN]

ChanInit == chan = <<>> /\ delivered = <<>>

\* A place is claimed for message m: the order of claims is the order of
\* delivery.
Claim(m) ==
  /\ Len(chan) < Capacity
  /\ chan' = Append(chan, [msg |-> m, ready |-> FALSE])
  /\ UNCHANGED delivered

\* The message in place i becomes visible to the consumer.
Publish(i) ==
  /\ i \in DOMAIN chan
  /\ ~chan[i].ready
  /\ chan' = [chan EXCEPT ![i].ready = TRUE]
  /\ UNCHANGED delivered

\* MailQueue::can_dequeue.
CanDequeue == chan # <<>> /\ chan[1].ready

\* The consumer takes the oldest message.
Receive ==
  /\ CanDequeue
  /\ delivered' = Append(delivered, chan[1].msg)
  /\ chan' = Tail(chan)

ChanNext ==
  \/ \E m \in Messages : Claim(m)
  \/ \E i \in DOMAIN chan : Publish(i)
  \/ Receive

ChanSpec == ChanInit /\ [][ChanNext]_chanVars

=============================================================================
