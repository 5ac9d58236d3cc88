----------------------------- MODULE Scheduler -----------------------------
(***************************************************************************)
(* ac::ActorScheduler (src/core/actor_scheduler.cc) over ac::GlobalQueue   *)
(* (include/queue.h): worker threads that look for a coroutine handle in   *)
(* their own queue, in the global queue and in each other's queues, resume *)
(* what they find, and park when they find nothing.                        *)
(*                                                                         *)
(* A section under the mutex of the global queue is one step; the calls of *)
(* notify_one after it are steps of their own.  A local queue is the deque *)
(* that WorkStealingQueue implements, with a steal in two steps because    *)
(* the scheduler does not retry one that lost the race.                    *)
(*                                                                         *)
(* wake_epoch_ is only ever compared with the value a worker observed when *)
(* it prepared to park, so what is kept of it is whether they are equal.   *)
(***************************************************************************)
EXTENDS Naturals, Sequences, FiniteSets

CONSTANTS Workers,     \* the scheduler's threads
          Outsiders,   \* other threads that enqueue
          Tasks,       \* coroutine handles
          Slots,       \* size of a local queue
          MaxBatch,    \* bound on the size of a batch
          CheckPeriod, \* every so many searches begin at the global queue: 61
          Null         \* the null handle

ASSUME WorkersAssumption == IsFiniteSet(Workers) /\ Workers # {}
ASSUME OutsidersAssumption == IsFiniteSet(Outsiders) /\ Outsiders \cap Workers = {}
ASSUME TasksAssumption == IsFiniteSet(Tasks) /\ Null \notin Tasks
ASSUME SizeAssumption == Slots \in Nat \ {0} /\ CheckPeriod \in Nat \ {0} /\ MaxBatch \in Nat

VARIABLES
  global,     \* queue_ of the global queue
  local,      \* each worker's local_queue, oldest first
  idle,       \* idle_threads_
  fresh,      \* is the epoch each worker observed still wake_epoch_?
  stop_flag,  \* stop_flag
  running,    \* running_
  broadcast,  \* stop() has yet to call notify_all
  wakes,      \* calls of notify_one each thread has yet to make
  pc,         \* where each worker is
  tick,       \* tick % 61
  parking,    \* is this the search after prepare_park()?
  task,       \* the handle each worker got
  left,       \* the workers it has yet to steal from in this search
  victim,     \* the one it is stealing from
  beaten,     \* has top_ of the victim changed since it was loaded?
  owed,       \* history: handles enqueued and not obtained since
  skipped     \* history: tasks each worker got since it looked at the global queue

queueVars == <<global, local, owed>>
parkVars == <<idle, fresh, parking>>
stopVars == <<stop_flag, running, broadcast>>
stealVars == <<left, victim, beaten>>
searchVars == <<tick, skipped>>
vars == <<global, local, idle, fresh, stop_flag, running, broadcast, wakes, pc,
          tick, parking, task, left, victim, beaten, owed, skipped>>

Init ==
  /\ global = <<>>
  /\ local = [w \in Workers |-> <<>>]
  /\ idle = 0
  /\ fresh = [w \in Workers |-> FALSE]
  /\ stop_flag = FALSE
  /\ running = TRUE
  /\ broadcast = FALSE
  /\ wakes = [c \in Workers \cup Outsiders |-> 0]
  /\ pc = [w \in Workers |-> "loop"]
  /\ tick = [w \in Workers |-> 0]
  /\ parking = [w \in Workers |-> FALSE]
  /\ task = [w \in Workers |-> Null]
  /\ left = [w \in Workers |-> {}]
  \* not read before the first steal: another worker, if there is one
  /\ victim = [w \in Workers |-> CHOOSE v \in Workers : Workers # {w} => v # w]
  /\ beaten = [w \in Workers |-> FALSE]
  /\ owed = {}
  /\ skipped = [w \in Workers |-> 0]

\* The worker is there, and has made the calls of notify_one it owes.
At(w, place) == pc[w] = place /\ wakes[w] = 0
Goto(w, place) == pc' = [pc EXCEPT ![w] = place]

\* ++wake_epoch_
NewEpoch == fresh' = [v \in Workers |-> FALSE]

\* The second half of a section that wakes up to n parked workers: a new epoch
\* and the calls of notify_one to come.
Wake(c, n) ==
  LET count == IF n < idle THEN n ELSE idle
  IN  IF count > 0
        THEN NewEpoch /\ wakes' = [wakes EXCEPT ![c] = count]
        ELSE UNCHANGED <<fresh, wakes>>

\* A handle that may be enqueued: its coroutine is suspended and in no queue,
\* which is what the mailboxes guarantee.
Suspended(t) == t \notin owed /\ \A w \in Workers : task[w] # t

-----------------------------------------------------------------------------
(* Enqueue, EnqueueBatch *)

\* Enqueue in a coroutine a worker runs: the local queue has room.
PushLocal(w, t) ==
  /\ At(w, "run")
  /\ Suspended(t)
  /\ Len(local[w]) < Slots
  /\ local' = [local EXCEPT ![w] = Append(@, t)]
  /\ owed' = owed \cup {t}
  /\ Goto(w, "pushed")
  /\ UNCHANGED <<global, parkVars, stopVars, wakes, searchVars, task, stealVars>>

\* Where the worker goes on after it got or enqueued a task: cancel_park() if it
\* was about to park, then task.resume().  The test of task.done() never fails:
\* a queued handle belongs to a suspended coroutine.
Onward(w) == IF parking[w] THEN "cancel" ELSE "run"

\* A defect: two tasks are not yet a backlog.
SizeCheckedLate(w, v) == Goto(w, IF Len(local[v]) > 2 THEN "notify" ELSE Onward(w))

\* approx_size() > 1 on the queue just pushed to, or just stolen from.
SizeChecked(w, v) == Goto(w, IF Len(local[v]) > 1 THEN "notify" ELSE Onward(w))

Pushed(w) ==
  /\ At(w, "pushed")
  /\ SizeChecked(w, w)
  /\ UNCHANGED <<queueVars, parkVars, stopVars, wakes, searchVars, task, stealVars>>

\* notify_one_idle()
NotifyOneIdle(w) ==
  /\ At(w, "notify")
  /\ Wake(w, 1)
  /\ Goto(w, Onward(w))
  /\ UNCHANGED <<queueVars, idle, parking, stopVars, searchVars, task, stealVars>>

\* GlobalQueue::push
PushGlobal(c, t) ==
  /\ global' = Append(global, t)
  /\ owed' = owed \cup {t}
  /\ Wake(c, 1)
  /\ UNCHANGED <<local, idle, parking, stopVars, pc, searchVars, task, stealVars>>

\* A defect: Enqueue ignores that the local queue refused the handle.
PushOverflowIgnored(w, t) ==
  /\ At(w, "run")
  /\ Suspended(t)
  /\ Len(local[w]) = Slots
  /\ owed' = owed \cup {t}
  /\ UNCHANGED <<global, local, parkVars, stopVars, wakes, pc, searchVars, task, stealVars>>

PushOverflow(w, t) ==
  /\ At(w, "run")
  /\ Suspended(t)
  /\ Len(local[w]) = Slots
  /\ PushGlobal(w, t)

PushOutside(o, t) ==
  /\ wakes[o] = 0
  /\ Suspended(t)
  /\ PushGlobal(o, t)

\* push_batch, by the main thread when it loads the modules or by the worker
\* that runs the manager.  An empty batch changes nothing.
Batches ==
  {b \in UNION {[1 .. n -> Tasks] : n \in 1 .. MaxBatch} :
     \A i, j \in DOMAIN b : b[i] = b[j] => i = j}

PushBatch(c, batch) ==
  /\ IF c \in Workers THEN At(c, "run") ELSE wakes[c] = 0
  /\ \A i \in DOMAIN batch : Suspended(batch[i])
  /\ global' = global \o batch
  /\ owed' = owed \cup {batch[i] : i \in DOMAIN batch}
  /\ Wake(c, Len(batch))
  /\ UNCHANGED <<local, idle, parking, stopVars, pc, searchVars, task, stealVars>>

-----------------------------------------------------------------------------
(* The condition variable *)

Asleep == {w \in Workers : pc[w] = "asleep"}

\* notify_one wakes any of the blocked workers, if there is one.
NotifyOne(c) ==
  /\ wakes[c] > 0
  /\ wakes' = [wakes EXCEPT ![c] = @ - 1]
  /\ \/ \E v \in Asleep : Goto(v, "woken")
     \/ Asleep = {} /\ UNCHANGED pc
  /\ UNCHANGED <<queueVars, parkVars, stopVars, searchVars, task, stealVars>>

\* wait() may return for no reason.
SpuriousWakeup(w) ==
  /\ At(w, "asleep")
  /\ Goto(w, "woken")
  /\ UNCHANGED <<queueVars, parkVars, stopVars, wakes, searchVars, task, stealVars>>

-----------------------------------------------------------------------------
(* try_get_task *)

\* A defect: every search begins at the local queue.
BeginSearchLocal(w) ==
  /\ tick' = [tick EXCEPT ![w] = (@ + 1) % CheckPeriod]
  /\ Goto(w, "pop")

\* ++tick % 61
BeginSearch(w) ==
  LET next == (tick[w] + 1) % CheckPeriod
  IN  /\ tick' = [tick EXCEPT ![w] = next]
      /\ Goto(w, IF next = 0 THEN "check_global" ELSE "pop")

\* The loop's condition, and the first search.
Loop(w) ==
  /\ At(w, "loop")
  /\ IF running THEN BeginSearch(w)
                ELSE Goto(w, "exited") /\ UNCHANGED tick
  /\ UNCHANGED <<queueVars, parkVars, stopVars, wakes, skipped, task, stealVars>>

\* The worker holds t now and is going to resume it.
Got(w, t) ==
  /\ task' = [task EXCEPT ![w] = t]
  /\ owed' = owed \ {t}

\* GlobalQueue::try_pop; place is where the search goes on without a task.
TryPop(w, place) ==
  /\ skipped' = [skipped EXCEPT ![w] = 0]
  /\ IF global = <<>>
       THEN Goto(w, place) /\ UNCHANGED <<global, owed, task>>
       ELSE /\ Got(w, Head(global))
            /\ global' = Tail(global)
            /\ Goto(w, Onward(w))

CheckGlobal(w) ==
  /\ At(w, "check_global")
  /\ TryPop(w, "pop")
  /\ UNCHANGED <<local, parkVars, stopVars, wakes, tick, stealVars>>

\* w changes top_ of v: the thieves that have loaded it lose the race.
TopChanges(w, v) ==
  beaten' = [h \in Workers |-> h # w /\ (beaten[h] \/ (pc[h] = "steal" /\ victim[h] = v))]

\* local_queue.pop: the youngest task; taking the only one changes top_.
Pop(w) ==
  /\ At(w, "pop")
  /\ local[w] # <<>>
  /\ LET n == Len(local[w])
     IN  /\ Got(w, local[w][n])
         /\ local' = [local EXCEPT ![w] = SubSeq(@, 1, n - 1)]
         /\ IF n = 1 THEN TopChanges(w, w) ELSE UNCHANGED beaten
  /\ skipped' = [skipped EXCEPT ![w] = @ + 1]
  /\ Goto(w, Onward(w))
  /\ UNCHANGED <<global, parkVars, stopVars, wakes, tick, left, victim>>

\* The local queue is empty, and only its owner could change that: try_pop, and
\* then a round over the other workers.
Global(w) ==
  /\ At(w, "pop")
  /\ local[w] = <<>>
  /\ TryPop(w, "choose")
  /\ left' = [left EXCEPT ![w] = IF global = <<>> THEN Workers \ {w} ELSE {}]
  /\ UNCHANGED <<local, parkVars, stopVars, wakes, tick, victim, beaten>>

\* steal from the next worker: look at its queue ...  (The round starts at a
\* random worker; any order of the others is allowed.)
Choose(w) ==
  /\ At(w, "choose")
  /\ \E v \in left[w] :
       /\ left' = [left EXCEPT ![w] = @ \ {v}]
       /\ IF local[v] = <<>>
            THEN UNCHANGED <<pc, victim>>
            ELSE victim' = [victim EXCEPT ![w] = v] /\ Goto(w, "steal")
  /\ UNCHANGED <<queueVars, parkVars, stopVars, wakes, searchVars, task, beaten>>

\* ... and take its oldest task, unless somebody else was faster (kAbort).
Steal(w) ==
  /\ At(w, "steal")
  /\ IF beaten[w]
       THEN /\ Goto(w, "choose")
            /\ beaten' = [beaten EXCEPT ![w] = FALSE]
            /\ UNCHANGED <<local, owed, task, left>>
       ELSE /\ Got(w, Head(local[victim[w]]))
            /\ left' = [left EXCEPT ![w] = {}]
            /\ local' = [local EXCEPT ![victim[w]] = Tail(@)]
            /\ TopChanges(w, victim[w])
            /\ Goto(w, "stolen")
  /\ UNCHANGED <<global, parkVars, stopVars, wakes, searchVars, victim>>

Stolen(w) ==
  /\ At(w, "stolen")
  /\ SizeChecked(w, victim[w])
  /\ UNCHANGED <<queueVars, parkVars, stopVars, wakes, searchVars, task, stealVars>>

-----------------------------------------------------------------------------
(* The loop of scheduler_thread *)

\* A defect: the worker parks without a second search.
PrepareParkAtOnce(w) ==
  /\ At(w, "choose")
  /\ left[w] = {}
  /\ ~parking[w]
  /\ idle' = idle + 1
  /\ fresh' = [fresh EXCEPT ![w] = TRUE]
  /\ parking' = [parking EXCEPT ![w] = TRUE]
  /\ UNCHANGED <<queueVars, stopVars, wakes, pc, searchVars, task, stealVars>>

\* A defect: the worker is not counted as idle.
PrepareParkUncounted(w) ==
  /\ At(w, "choose")
  /\ left[w] = {}
  /\ ~parking[w]
  /\ fresh' = [fresh EXCEPT ![w] = TRUE]
  /\ parking' = [parking EXCEPT ![w] = TRUE]
  /\ BeginSearch(w)
  /\ UNCHANGED <<queueVars, idle, stopVars, wakes, skipped, task, stealVars>>

\* The first search found nothing: prepare_park(), and search again.
PreparePark(w) ==
  /\ At(w, "choose")
  /\ left[w] = {}
  /\ ~parking[w]
  /\ idle' = idle + 1
  /\ fresh' = [fresh EXCEPT ![w] = TRUE]
  /\ parking' = [parking EXCEPT ![w] = TRUE]
  /\ BeginSearch(w)
  /\ UNCHANGED <<queueVars, stopVars, wakes, skipped, task, stealVars>>

\* The worker no longer counts as idle.
Unpark(w) ==
  /\ idle' = idle - 1
  /\ fresh' = [fresh EXCEPT ![w] = FALSE]
  /\ parking' = [parking EXCEPT ![w] = FALSE]

\* The second search found something: cancel_park().
CancelPark(w) ==
  /\ At(w, "cancel")
  /\ Unpark(w)
  /\ Goto(w, "run")
  /\ UNCHANGED <<queueVars, stopVars, wakes, searchVars, task, stealVars>>

\* A defect: only a new epoch ends the wait.
WaitForEpoch(w) ==
  /\ IF ~fresh[w]
       THEN Unpark(w) /\ Goto(w, "loop")
       ELSE Goto(w, "asleep") /\ UNCHANGED parkVars
  /\ UNCHANGED <<queueVars, stopVars, wakes, searchVars, task, stealVars>>

\* The condition of wait(), tested under the mutex.
Wait(w) ==
  /\ IF stop_flag \/ ~fresh[w]
       THEN Unpark(w) /\ Goto(w, "loop")
       ELSE Goto(w, "asleep") /\ UNCHANGED parkVars
  /\ UNCHANGED <<queueVars, stopVars, wakes, searchVars, task, stealVars>>

\* park()
Park(w) ==
  /\ At(w, "choose")
  /\ left[w] = {}
  /\ parking[w]
  /\ Wait(w)

WakeUp(w) == At(w, "woken") /\ Wait(w)

\* The coroutine has suspended or ended, and task.resume() returns.  From the
\* moment of suspension a sender may enqueue the handle again, so this step is
\* that moment; the rest of resume() does not touch the scheduler.
Return(w) ==
  /\ At(w, "run")
  /\ task' = [task EXCEPT ![w] = Null]
  /\ Goto(w, "loop")
  /\ UNCHANGED <<queueVars, parkVars, stopVars, wakes, searchVars, stealVars>>

-----------------------------------------------------------------------------
(* Shutdown() *)

StopRunning ==
  /\ running
  /\ running' = FALSE
  /\ UNCHANGED <<queueVars, parkVars, stop_flag, broadcast, wakes, pc, searchVars, task, stealVars>>

\* stop(); a second call returns early.
Stop ==
  /\ ~running
  /\ ~stop_flag
  /\ stop_flag' = TRUE
  /\ broadcast' = TRUE
  /\ NewEpoch
  /\ UNCHANGED <<queueVars, idle, parking, running, wakes, pc, searchVars, task, stealVars>>

NotifyAll ==
  /\ broadcast
  /\ broadcast' = FALSE
  /\ pc' = [w \in Workers |-> IF w \in Asleep THEN "woken" ELSE pc[w]]
  /\ UNCHANGED <<queueVars, parkVars, stop_flag, running, wakes, searchVars, task, stealVars>>

-----------------------------------------------------------------------------
\* Steps a thread takes by itself once it is where it is.
Work(w) ==
  \/ Pushed(w)
  \/ NotifyOneIdle(w)
  \/ Loop(w)
  \/ CheckGlobal(w)
  \/ Pop(w)
  \/ Global(w)
  \/ Choose(w)
  \/ Steal(w)
  \/ Stolen(w)
  \/ PreparePark(w)
  \/ CancelPark(w)
  \/ Park(w)
  \/ WakeUp(w)

Enqueue ==
  \/ \E w \in Workers, t \in Tasks : PushLocal(w, t) \/ PushOverflow(w, t)
  \/ \E o \in Outsiders, t \in Tasks : PushOutside(o, t)
  \/ \E c \in Workers \cup Outsiders, b \in Batches : PushBatch(c, b)

Shutdown == StopRunning \/ Stop \/ NotifyAll

Next ==
  \/ Enqueue
  \/ Shutdown
  \/ \E c \in Workers \cup Outsiders : NotifyOne(c)
  \/ \E w \in Workers : Work(w) \/ Return(w) \/ SpuriousWakeup(w)

Spec == Init /\ [][Next]_vars

-----------------------------------------------------------------------------
(* Properties *)

Places == {"loop", "check_global", "pop", "choose", "steal", "stolen", "notify",
           "cancel", "run", "pushed", "asleep", "woken", "exited"}

\* Every thread is at a step of the code; queues hold handles.
TypeOK ==
  /\ global \in Seq(Tasks)
  /\ local \in [Workers -> Seq(Tasks)]
  /\ idle \in Nat
  /\ fresh \in [Workers -> BOOLEAN]
  /\ stop_flag \in BOOLEAN
  /\ running \in BOOLEAN
  /\ broadcast \in BOOLEAN
  /\ wakes \in [Workers \cup Outsiders -> Nat]
  /\ pc \in [Workers -> Places]
  /\ tick \in [Workers -> 0 .. CheckPeriod - 1]
  /\ parking \in [Workers -> BOOLEAN]
  /\ task \in [Workers -> Tasks \cup {Null}]
  /\ left \in [Workers -> SUBSET Workers]
  /\ victim \in [Workers -> Workers]
  /\ beaten \in [Workers -> BOOLEAN]
  /\ owed \subseteq Tasks
  /\ skipped \in [Workers -> Nat]

\* The places of a handle in the queues, and the workers that have it.
GlobalSpots(t) == {i \in DOMAIN global : global[i] = t}
LocalSpots(t) ==
  {p \in Workers \X (1 .. Slots) : p[2] <= Len(local[p[1]]) /\ local[p[1]][p[2]] = t}
Holders(t) == {w \in Workers : task[w] = t}

\* A handle that was enqueued is in one place of one queue until one worker
\* gets it: no overflow, steal or lost race loses or doubles it, and no two
\* workers run one coroutine.
EnqueuedOnce ==
  \A t \in Tasks :
    LET queued == Cardinality(GlobalSpots(t)) + Cardinality(LocalSpots(t))
    IN  /\ queued = IF t \in owed THEN 1 ELSE 0
        /\ queued + Cardinality(Holders(t)) <= 1

\* The worker has looked into the global queue since it prepared to park, and
\* the epoch has not changed since: it is going to sleep or asleep.
Settled(w) == parking[w] /\ fresh[w] /\ pc[w] \in {"choose", "steal", "asleep", "woken"}

Waking == \E c \in Workers \cup Outsiders : wakes[c] > 0

\* No lost wakeup: while a task waits in the global queue no worker is going
\* to sleep on it, and they do not all sleep unless a notify_one is on its way.
\* The push must see the idle count, or the worker the task: the reason for the
\* second search after prepare_park().
NoSleepOnGlobal ==
  running /\ global # <<>> =>
    /\ \A w \in Workers : ~Settled(w)
    /\ Asleep # Workers \/ Waking

\* v is going to sleep and will not look into w's queue any more.
Passed(v, w) ==
  /\ Settled(v)
  /\ w \notin left[v]
  /\ pc[v] = "steal" /\ victim[v] = w => beaten[v]

\* A thread that is about to compare the size of w's queue with one, or to
\* notify an idle worker.
Noticing(w) ==
  \E u \in Workers :
    \/ pc[u] = "notify"
    \/ pc[u] = "pushed" /\ u = w
    \/ pc[u] = "stolen" /\ victim[u] = w

\* "When tasks pile up, wake an idle worker to search again"
\* (actor_scheduler.cc:46): with two tasks or more in a local queue, nobody
\* goes to sleep after passing it, not even a thief that lost the race for its
\* oldest task and did not retry, and the others do not all sleep, unless
\* somebody is about to wake one.
BacklogNoticed ==
  \A w \in Workers :
    running /\ Len(local[w]) > 1 =>
      \/ Noticing(w)
      \/ /\ \A v \in Workers \ {w} : ~Passed(v, w)
         /\ Workers \ {w} \subseteq Asleep /\ Workers # {w} => Waking

\* "Look at the global queue periodically, lest a busy local queue starve the
\* tasks submitted from outside" (actor_scheduler.cc:78): between two looks a
\* worker gets no more tasks than the period, even if its own queue is never
\* empty.
GlobalNotStarved == \A w \in Workers : skipped[w] <= CheckPeriod

\* Once stop() has notified all, no worker is parked and none parks again, not
\* even one that read running_ before Shutdown() and observed the epoch after
\* it: the destructor's pthread_join returns.
StopWakesAll == stop_flag /\ ~broadcast => Asleep = {}

=============================================================================
