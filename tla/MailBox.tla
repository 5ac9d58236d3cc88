------------------------------ MODULE MailBox ------------------------------
(***************************************************************************)
(* ac::MailBox (include/mail_box.h, src/core/mail_box.cc) and the consumer *)
(* loop every actor runs on it:                                            *)
(*                                                                         *)
(*     while (mailbox->try_receive(&msg)) { ... }                          *)
(*     co_await mailbox->Wait();                                           *)
(*                                                                         *)
(* Send() publishes a message and, if the flag scheduled_ was clear, puts  *)
(* the consumer's coroutine handle back into the scheduler.  Wait() clears *)
(* the flag, looks at the queue once more and either suspends or takes the *)
(* flag back.  Senders, and the workers of the scheduler that resume the   *)
(* handle, interleave at every access to a shared atomic.                  *)
(*                                                                         *)
(* The queue is the channel that MailQueue is shown to implement.  The     *)
(* scheduler is a counter of the queued copies of the handle.  consumer_   *)
(* holds that handle from ArmConsumer() on (await_suspend stores it        *)
(* again), so it is not a variable.                                        *)
(***************************************************************************)
EXTENDS MailChannel, FiniteSets

CONSTANTS Senders,  \* threads calling Send()
          Workers,  \* threads of the scheduler
          Stops,    \* messages on which the consumer loop returns
          Null,     \* no message
          MaxDiscarded  \* bound on discarded_nr_

ASSUME CapacityAssumption == Capacity \in Nat /\ Capacity >= 2
ASSUME StopsAssumption == Stops \subseteq Messages
ASSUME NullAssumption == Null \notin Messages
ASSUME MaxDiscardedAssumption == MaxDiscarded \in Nat

VARIABLES
  scheduled,    \* scheduled_
  frame,        \* the consumer's coroutine frame: "initial", "live", "destroyed"
  ready,        \* copies of the handle in the scheduler's queues
  spc,          \* where each sender is in Send()
  sending,      \* the message each sender is sending
  wpc,          \* where each worker is in the coroutine or in await_suspend
  read_idx,     \* each worker's local read_idx in can_dequeue()
  discarded_nr  \* discarded_nr_

vars == <<chan, delivered, scheduled, frame, ready, spc, sending,
          wpc, read_idx, discarded_nr>>

\* ArmConsumer(), then the first Enqueue() of the suspended coroutine.
Init ==
  /\ ChanInit
  /\ scheduled = TRUE
  /\ frame = "initial"
  /\ ready = 1
  /\ spc = [s \in Senders |-> "idle"]
  /\ sending = [s \in Senders |-> Null]
  /\ wpc = [w \in Workers |-> "idle"]
  /\ read_idx = [w \in Workers |-> 0]
  /\ discarded_nr = 0

-----------------------------------------------------------------------------
(* Send() *)

\* Slots in use: a slot stays occupied until its sequence is released, just
\* after the message was taken from it.
Releasing == \E w \in Workers : wpc[w] = "release"
Occupied == Len(chan) + (IF Releasing THEN 1 ELSE 0)

\* A message is sent to this mailbox once.
Fresh(m) ==
  /\ \A i \in DOMAIN chan : chan[i].msg # m
  /\ \A i \in DOMAIN delivered : delivered[i] # m
  /\ \A s \in Senders : sending[s] # m

SendClaim(s, m) ==
  /\ spc[s] = "idle"
  /\ Fresh(m)
  /\ Occupied < Capacity
  /\ Claim(m)
  /\ spc' = [spc EXCEPT ![s] = "claimed"]
  /\ sending' = [sending EXCEPT ![s] = m]
  /\ UNCHANGED <<scheduled, frame, ready, wpc, read_idx, discarded_nr>>

\* try_enqueue returned false: the message is released and counted.
SendDrop(s, m) ==
  /\ spc[s] = "idle"
  /\ Fresh(m)
  /\ Occupied = Capacity
  /\ discarded_nr < MaxDiscarded
  /\ discarded_nr' = discarded_nr + 1
  /\ UNCHANGED <<chanVars, scheduled, frame, ready, spc, sending,
                 wpc, read_idx>>

SendPublish(s) ==
  /\ spc[s] = "claimed"
  /\ \E i \in DOMAIN chan : chan[i].msg = sending[s] /\ Publish(i)
  /\ spc' = [spc EXCEPT ![s] = "published"]
  /\ UNCHANGED <<scheduled, frame, ready, sending, wpc, read_idx,
                 discarded_nr>>

\* A defect: the sender ignores the flag's old value and always wakes.
SendExchangeIgnored(s) ==
  /\ spc[s] = "published"
  /\ scheduled' = TRUE
  /\ spc' = [spc EXCEPT ![s] = "won"]
  /\ sending' = [sending EXCEPT ![s] = Null]
  /\ UNCHANGED <<chanVars, frame, ready, wpc, read_idx, discarded_nr>>

\* scheduled_.exchange(true): the sender that finds it clear must wake the
\* consumer.
SendExchange(s) ==
  /\ spc[s] = "published"
  /\ scheduled' = TRUE
  /\ spc' = [spc EXCEPT ![s] = IF scheduled THEN "idle" ELSE "won"]
  /\ sending' = [sending EXCEPT ![s] = Null]
  /\ UNCHANGED <<chanVars, frame, ready, wpc, read_idx, discarded_nr>>

\* Enqueue the handle in consumer_, which is neither null nor done.
SendWake(s) ==
  /\ spc[s] = "won"
  /\ ready' = ready + 1
  /\ spc' = [spc EXCEPT ![s] = "idle"]
  /\ UNCHANGED <<chanVars, scheduled, frame, sending, wpc, read_idx,
                 discarded_nr>>

-----------------------------------------------------------------------------
(* A worker runs the consumer coroutine *)

\* A defect: the handle is resumed again without having been taken.
ResumeUnqueued(w) ==
  /\ wpc[w] = "idle"
  /\ ready' = ready - 1
  /\ wpc' = [wpc EXCEPT ![w] = IF frame = "initial" THEN "start" ELSE "drain"]
  /\ UNCHANGED <<chanVars, scheduled, frame, spc, sending, read_idx,
                 discarded_nr>>

\* scheduler_thread takes the handle from a queue and resumes it.
Resume(w) ==
  /\ wpc[w] = "idle"
  /\ ready > 0
  /\ ready' = ready - 1
  /\ wpc' = [wpc EXCEPT ![w] = IF frame = "initial" THEN "start" ELSE "drain"]
  /\ UNCHANGED <<chanVars, scheduled, frame, spc, sending, read_idx,
                 discarded_nr>>

\* The coroutine's first statement, MarkRunning().
MarkRunning(w) ==
  /\ wpc[w] = "start"
  /\ scheduled' = TRUE
  /\ frame' = "live"
  /\ wpc' = [wpc EXCEPT ![w] = "drain"]
  /\ UNCHANGED <<chanVars, ready, spc, sending, read_idx, discarded_nr>>

\* try_receive() returns a message ...
TryReceive(w) ==
  /\ wpc[w] = "drain"
  /\ Receive
  /\ wpc' = [wpc EXCEPT ![w] = "release"]
  /\ UNCHANGED <<scheduled, frame, ready, spc, sending, read_idx,
                 discarded_nr>>

\* A defect: the finished consumer clears the flag on its way out.
HandleMessageUnscheduling(w) ==
  /\ wpc[w] = "release"
  /\ IF delivered[Len(delivered)] \in Stops
       THEN /\ frame' = "destroyed"
            /\ scheduled' = FALSE
            /\ wpc' = [wpc EXCEPT ![w] = "idle"]
       ELSE /\ wpc' = [wpc EXCEPT ![w] = "drain"]
            /\ UNCHANGED <<frame, scheduled>>
  /\ UNCHANGED <<chanVars, ready, spc, sending, read_idx, discarded_nr>>

\* ... which is handled and released; a stop message ends the coroutine.
HandleMessage(w) ==
  /\ wpc[w] = "release"
  /\ IF delivered[Len(delivered)] \in Stops
       THEN /\ frame' = "destroyed"
            /\ wpc' = [wpc EXCEPT ![w] = "idle"]
       ELSE /\ wpc' = [wpc EXCEPT ![w] = "drain"]
            /\ UNCHANGED frame
  /\ UNCHANGED <<chanVars, scheduled, ready, spc, sending, read_idx,
                 discarded_nr>>

\* try_receive() found nothing: co_await Wait().
CallWait(w) ==
  /\ wpc[w] = "drain"
  /\ ~CanDequeue
  /\ wpc' = [wpc EXCEPT ![w] = "await_ready"]
  /\ UNCHANGED <<chanVars, scheduled, frame, ready, spc, sending,
                 read_idx, discarded_nr>>

AwaitReady(w) ==
  /\ wpc[w] = "await_ready"
  /\ wpc' = [wpc EXCEPT ![w] = IF CanDequeue THEN "drain" ELSE "unschedule"]
  /\ UNCHANGED <<chanVars, scheduled, frame, ready, spc, sending,
                 read_idx, discarded_nr>>

\* await_suspend: clear scheduled_; from here on a sender may wake the
\* coroutine ...
Unschedule(w) ==
  /\ wpc[w] = "unschedule"
  /\ scheduled' = FALSE
  /\ wpc' = [wpc EXCEPT ![w] = "recheck"]
  /\ UNCHANGED <<chanVars, frame, ready, spc, sending, read_idx,
                 discarded_nr>>

\* ... and call can_dequeue() once more.  Another worker may be consuming by
\* now, so its two loads are two steps: the read index, which the other
\* worker stores only after it took the message, ...
RecheckIndex(w) ==
  /\ wpc[w] = "recheck"
  /\ \E lag \in IF Releasing THEN {0, 1} ELSE {0} :
       read_idx' = [read_idx EXCEPT ![w] = Len(delivered) - lag]
  /\ wpc' = [wpc EXCEPT ![w] = "recheck_slot"]
  /\ UNCHANGED <<chanVars, scheduled, frame, ready, spc, sending,
                 discarded_nr>>

\* A defect: no second look at the queue before suspending.
RecheckSlotSkipped(w) ==
  /\ wpc[w] = "recheck_slot"
  /\ wpc' = [wpc EXCEPT ![w] = "idle"]
  /\ UNCHANGED <<chanVars, scheduled, frame, ready, spc, sending,
                 read_idx, discarded_nr>>

\* ... and that slot's sequence, already past read_idx if the ticket is gone.
\* An empty queue: return true, the coroutine stays suspended.
RecheckSlot(w) ==
  /\ wpc[w] = "recheck_slot"
  /\ wpc' = [wpc EXCEPT ![w] =
               IF read_idx[w] < Len(delivered) \/ CanDequeue
                 THEN "reclaim" ELSE "idle"]
  /\ UNCHANGED <<chanVars, scheduled, frame, ready, spc, sending,
                 read_idx, discarded_nr>>

\* A defect: the worker goes on running whatever the exchange returned.
ReclaimIgnored(w) ==
  /\ wpc[w] = "reclaim"
  /\ scheduled' = TRUE
  /\ wpc' = [wpc EXCEPT ![w] = "drain"]
  /\ UNCHANGED <<chanVars, frame, ready, spc, sending, read_idx,
                 discarded_nr>>

\* A defect: await_suspend returns true in both cases.
ReclaimSuspending(w) ==
  /\ wpc[w] = "reclaim"
  /\ scheduled' = TRUE
  /\ wpc' = [wpc EXCEPT ![w] = "idle"]
  /\ UNCHANGED <<chanVars, frame, ready, spc, sending, read_idx,
                 discarded_nr>>

\* A message is there: whoever sets the flag runs the coroutine.  Return
\* false, that is go on running it, if no sender was faster.
Reclaim(w) ==
  /\ wpc[w] = "reclaim"
  /\ scheduled' = TRUE
  /\ wpc' = [wpc EXCEPT ![w] = IF scheduled THEN "idle" ELSE "drain"]
  /\ UNCHANGED <<chanVars, frame, ready, spc, sending, read_idx,
                 discarded_nr>>

-----------------------------------------------------------------------------
Send(s) == SendPublish(s) \/ SendExchange(s) \/ SendWake(s)

RunConsumer(w) ==
  \/ MarkRunning(w)
  \/ TryReceive(w)
  \/ HandleMessage(w)
  \/ CallWait(w)
  \/ AwaitReady(w)
  \/ Unschedule(w)
  \/ RecheckIndex(w)
  \/ RecheckSlot(w)
  \/ Reclaim(w)

Next ==
  \/ \E s \in Senders, m \in Messages : SendClaim(s, m) \/ SendDrop(s, m)
  \/ \E s \in Senders : Send(s)
  \/ \E w \in Workers : Resume(w) \/ RunConsumer(w)

Spec == Init /\ [][Next]_vars

\* Threads inside Send() or inside the coroutine go on; a queued handle is
\* resumed by some worker (what the scheduler owes its tasks).
Fairness ==
  /\ \A s \in Senders : WF_vars(Send(s))
  /\ \A w \in Workers : WF_vars(RunConsumer(w))
  /\ WF_vars(\E w \in Workers : Resume(w))

FairSpec == Spec /\ Fairness

-----------------------------------------------------------------------------
(* Properties *)

SenderSteps == {"idle", "claimed", "published", "won"}

\* The worker executes the coroutine, or await_suspend before it clears the
\* flag.
Body == {"start", "drain", "release", "await_ready", "unschedule"}

\* await_suspend after it cleared the flag.
AfterUnschedule == {"recheck", "recheck_slot", "reclaim"}

\* Every thread is at a step of the code; the queue holds places.
TypeOK ==
  /\ chan \in Seq(Place)
  /\ delivered \in Seq(Messages)
  /\ scheduled \in BOOLEAN
  /\ frame \in {"initial", "live", "destroyed"}
  /\ ready \in Nat
  /\ spc \in [Senders -> SenderSteps]
  /\ sending \in [Senders -> Messages \cup {Null}]
  /\ wpc \in [Workers -> Body \cup AfterUnschedule \cup {"idle"}]
  /\ read_idx \in [Workers -> Nat]
  /\ discarded_nr \in Nat

Running(w) == wpc[w] \in Body

\* The mailbox is "single consumer": two workers never execute the consumer
\* coroutine at once, although a worker still inside await_suspend and a
\* sender may both decide to continue it.
OneRunner == \A v, w \in Workers : Running(v) /\ Running(w) => v = w

\* "Enqueued once at a time" (mail_box.h:17): the scheduler holds at most one
\* copy of the handle, and none while a worker executes the coroutine.
ScheduledOnce ==
  /\ ready <= 1
  /\ ready = 1 => \A w \in Workers : ~Running(w)

\* No lost wakeup: when the flag is clear and the head message is published,
\* somebody is still going to look at the flag again: the message's sender
\* before its exchange, or the worker before its second can_dequeue().
NoLostWakeup ==
  ~scheduled /\ CanDequeue /\ frame # "initial" =>
    \/ \E s \in Senders : spc[s] = "published"
    \/ \E w \in Workers : wpc[w] \in AfterUnschedule

\* A handle somebody is going to use (handle.done() in Send(), resume() in a
\* worker) belongs to a coroutine frame that still exists.
HandleAlive ==
  frame = "destroyed" =>
    /\ ready = 0
    /\ \A s \in Senders : spc[s] # "won"
    /\ \A w \in Workers : ~Running(w)

\* await_suspend may touch its awaiter, which lives in the coroutine frame,
\* until it returns: "the sender that sees scheduled_ == false can safely
\* schedule the coroutine again" (mail_box.h:31-32).
AwaiterAlive ==
  frame = "destroyed" => \A w \in Workers : wpc[w] \notin AfterUnschedule

\* A message that got a slot is eventually received, unless the consumer has
\* returned: the consumer never sleeps on a message it could take.
SentIsReceived ==
  \A m \in Messages :
    (\E i \in DOMAIN chan : chan[i].msg = m)
      ~> (frame = "destroyed" \/ \E i \in DOMAIN delivered : delivered[i] = m)

=============================================================================
