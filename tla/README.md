# acnet in TLA+

acnet is an actor framework on C++20 coroutines. Modules are shared libraries
whose actors run as coroutines on a work-stealing scheduler. Each actor reads a
lock-free mailbox. One actor, the manager, loads, reloads, removes and restarts
the others. This directory holds TLA+ models of its concurrent parts, the TLC
configurations that check them on small instances, and TLAPS proofs of the main
invariants for every instance.

## The system

| Part | Source | What it does |
| --- | --- | --- |
| `MailQueue` | `include/queue.h` | ring with a sequence number per slot, many producers, one consumer |
| `MailBox` | `include/mail_box.h`, `src/core/mail_box.cc` | a `MailQueue` plus the flag `scheduled_`: whoever sets it from clear enqueues the consumer's coroutine |
| `WorkStealingQueue` | `include/queue.h` | a worker's local queue: the owner works at the bottom, thieves at the top |
| `GlobalQueue` | `include/queue.h` | injection queue under a mutex, with the idle count and wake epoch for parking |
| `ActorScheduler` | `src/core/actor_scheduler.cc` | worker threads that take handles from these queues and resume them |
| `ActorManager` | `src/core/actor_manager.cc` | supervisor: one coroutine that handles commands and the modules' reports |
| `ActorModule` | `src/core/actor_module.cc` | a module's coroutine: reads its mailbox, stops on a stop message, reports a crash |
| `PluginManager` | `src/core/plugin_manager.cc` | reads `config/server.toml` |
| `ActorEventBus` | `src/core/event_bus.cc` | publish/subscribe with a copy of the route table per thread |
| `Task`, `LaunchTask` | `include/task.h` | coroutine types: awaitable, and detached |
| control | `src/core/main.cc` | `acnet -s ...` writes a control file and sends SIGHUP; the handler calls the manager |

How they interact: a sender enqueues a message in the receiver's `MailQueue` and
sets `scheduled_`. If the flag was clear it passes the receiver's handle to
`ActorScheduler::Enqueue`, which puts it into the local queue of the calling
worker or into the global queue. A worker resumes the handle; the coroutine
drains its mailbox and suspends in `MailBox::Wait`. The manager and the modules
talk to each other only through mailboxes. `PROJECT.json` lists every part with
its status, the source lines behind each definition, and the hazards of the code.

## Modules

| Module | Models | State and actions |
| --- | --- | --- |
| `MailChannel` | what a mailbox queue promises | a bounded FIFO of places that are claimed, then published, then received |
| `MailQueue` | `ac::MailQueue` | the ring, both indices, each producer's place in `try_enqueue` and the consumer's in `try_dequeue`; one action per access to a shared atomic |
| `MailBox` | `ac::MailBox`, its awaiter, an actor's loop | `MailChannel` for the queue, the flag, the coroutine frame, the copies of the handle in the scheduler, each sender's and worker's place |
| `TaskDeque` | what a local queue promises | a bounded deque with atomic push, pop and steal |
| `WorkStealingQueue` | `ac::WorkStealingQueue<N>` | `top_`, `bottom_`, the slots, the owner's and each thief's place; indices are words of `Width` bits |
| `ActorManager` | `ac::ActorManager` with its modules | table of children, three pending sets, the mailbox, and per id the number of coroutines that are enqueued, running or exiting; one action per outcome of each handler |
| `Scheduler` | `ac::ActorScheduler`, `ac::GlobalQueue` | the global and local queues, idle count, epoch and stop flags, each worker's place in `try_get_task` and in parking; one action per section under the mutex, per access to another worker's queue and per `notify_one` |
| `EventBus` | `ac::ActorEventBus`, the reference count of `ac::EventMessage` | the route table with its version, each thread's copy, each sender's place in `Publish` or in a broadcast, mailboxes with their messages, and who still points to a mailbox |
| `Control` | `main.cc` | the control file (by name and by open file), the pid file, each client's place in `parse_command_line`, the pending SIGHUP (of a client or of anybody, `HangUp`), each thread's place in the handler, the life of the service from the pid file over `sigaction` to `is_running_` |
| `MailQueueProofs`, `MailBoxProofs`, `WorkStealingQueueProofs`, `SchedulerProofs`, `ActorManagerProofs`, `EventBusProofs`, `ControlProofs` | | theorems about the module of that name, and that it implements its abstract specification where it has one |
| `SchedulerWakeProofs` | | the theorems about the wakeups and the handles of `Scheduler`, on top of `SchedulerProofs` |
| `MC*` | | instances for TLC |

The models are layered. `MailQueue` implements `MailChannel`, and `MailBox` uses
`MailChannel` in its place. `WorkStealingQueue` implements `TaskDeque`, and
`Scheduler` uses that deque for the local queues. `MailBox` assumes of the scheduler
that an enqueued handle is resumed once, by one worker; that it is not lost, doubled
or slept on is shown of `Scheduler`. `ActorManager` and `EventBus` use of a mailbox
only that it is a bounded FIFO with one consumer that does not sleep on a message,
which is what `MailBox` is shown to be. `Control` ends where it calls the manager;
what the commands do is `ActorManager`.

Choices a reader should know of:

- **Memory order.** A relaxed load of `write_index_` may return any earlier value.
  All other accesses are ordered by the acquire/release pairs and the fences of the
  code, so they take effect in program order.
- **can_dequeue() in await_suspend.** When `scheduled_` is clear another worker may
  already consume. So its two loads are two steps (`RecheckIndex`, `RecheckSlot`),
  and the read index may lag behind a message that was just taken.
- **Bounds on indices.** `MailQueue` does not wrap its tickets at 2^64.
  `WorkStealingQueue` wraps, because its code compares signed with unsigned values.
- **Handlers of the manager are atomic.** Its tables are private to its coroutine.
  Only `is_running_` is written elsewhere, so `__handle_event_exit` reads it in two
  steps (`Unmount` or another outcome, then `CheckFinished`). `Shutdown()` tests and
  clears the flag in one step and mails the exit command in another. Two threads in it
  at once could mail a second exit command, which only repeats the stops of the first.
- **`AlwaysThrows`.** At this commit `ActorModule::RunCoroutine` throws before it
  reads its mailbox (`actor_module.cc:21`). With TRUE modules do exactly that; with
  FALSE they may also receive their stop message, as the unreachable loop would.
- **Configurations and libraries.** `Configs` and `Libraries` are the possible
  results of reading the file and of `dlopen`. A configuration lists a name once.
- **Parking.** A section under the mutex of the global queue is one step. The calls of
  `notify_one` and `notify_all` after it are later steps, and the condition variable
  may wake a worker for no reason. `wake_epoch_` is only compared with the value a
  worker observed, so the model keeps whether the two are equal (`fresh`).
- **Steals of the scheduler.** A steal is two steps, the load of `top_` and the
  compare-exchange, because `try_get_task` passes on after a lost race. `approx_size`
  is read in one step. In the code it loads `top_` before `bottom_`. A steal in between
  makes the result too large, which wakes one worker more than the model does. A `pop`
  that has reserved its task makes it smaller by one, which is the size once that
  `pop` is over.
- **Relaxed loads of `version_`.** `Publish` may read any version not older than the
  last one its thread wrote or read (`known`). A mailbox dies when the last table,
  copy, manager entry or coroutine lets go of it.
- **Files.** A control file that was deleted while open lives on for whoever has it
  open (`Inodes`). Two clients that write at once leave a text of neither (`Garbled`).
  `fgets` keeps 63 characters and stops at a newline, so of a command in `Long` the
  handler gets only the beginning (`Cut`). A second SIGHUP while one is pending is lost.
- **`is_running_` at start-up.** Between `sigaction` and the first line of `EventLoop()`
  the service handles signals (`"armed"`), but `Shutdown()` finds the flag clear and
  drops a stop. A reload or remove leaves a mail that the manager reads once it runs.
- **When a coroutine suspends.** `Return` of `Scheduler` is the moment of suspension. A
  sender may enqueue the handle from then on, before `resume()` has returned.
- Operators whose comment begins "A defect" are wrong variants of the definition
  that follows them. No specification uses them; they document which mistake each
  property notices.

## Runs

| Run | Instance | Shows |
| --- | --- | --- |
| `mail_queue` | 2 producers, 4 messages, 2 slots | `DeliveredInOrder`, `SlotExclusive`, `RefusedOnlyWhenFull`, refinement of `MailChannel`, and `TicketsAreDelivered` |
| `mail_box` | 2 senders, 2 workers, 2 messages and a stop, capacity 2 | `OneRunner`, `ScheduledOnce`, `NoLostWakeup`, `HandleAlive`, `SentIsReceived` |
| `mail_box_awaiter` | one message more | `AwaiterAlive` fails: finding 1 |
| `work_stealing_queue` | 2 thieves, 5 tasks, 2 slots, 6-bit words | `ExactlyOnce`, refinement of `TaskDeque`, `PopEmptyWhenEmpty` |
| `work_stealing_queue_wrap` | 3-bit words | `PopEmptyWhenEmpty` fails: finding 2 |
| `actor_manager` | 2 names, 3 ids, any 2 commands, mailbox of 3, changing configuration and libraries | `SingleInstance`, `PendingConsistent`, `DoneMeansQuiet`, `NoneLeftBehind` |
| `actor_manager_live` | reloads of one module and removes of any, fixed configuration, every module throws | `RestartOwed`, `ShutdownCompletes`, `CrashIsRestarted` |
| `actor_manager_reload_all` | reloads, named or all | `GracefulEnd` fails: finding 3 |
| `actor_manager_remove_lost` | named reloads and removes | `RemoveCompletes` fails: finding 4 |
| `scheduler` | 2 workers, 1 outside thread, 4 tasks, local queues of 2, batches of up to 2, every 2nd search global | `EnqueuedOnce`, `NoSleepOnGlobal`, `BacklogNoticed`, `GlobalNotStarved`, `StopWakesAll` |
| `event_bus` | 2 threads and the manager, 2 mailboxes of 1, 1 type, 2 messages, 3 versions | `RefExact`, `CopyMatchesVersion`, `OwnChangesRouted`, `MessagesGo` |
| `control` | 3 clients (one stop, one command that is too long), 2 handler threads, 2 starts of the service, 1 SIGHUP that no client sends | `ServedOnce`, `FailedNotServed`, `WholeCommands`, `AloneIsServed` |

Each passing run also checks the module's type invariant where the list in
`PROJECT.json` says so. All specifications may stop when every message, task or
command is used up, so deadlock is not checked; that nothing stops too early is
what the liveness properties say.

**Why the bounds are enough to meet the hard cases.** Two slots and four messages
let both slots be reused while a producer still holds an index from the lap before,
and let the ring be full. Two senders and two workers are what it takes for a worker
in `await_suspend`, a sender that won the flag and a second worker to overlap; the
proofs lift the bound. Five tasks on two slots reuse every slot twice while thieves
hold old indices. Six-bit words keep the indices from passing the sign bit, except
below zero, where an empty `pop` takes them. Two commands, one shutdown and crashes
at any time cover every pair of commands around one exit report; a mailbox of three
mails overflows. Two workers and an outside thread are what it takes for a push to
meet one worker that prepares to park and one that sleeps; four tasks overflow a local
queue of two, and three workers were checked with three tasks as well. Two threads, two mailboxes and three versions let a thread
hold a copy that is two changes old while another ends the module it routes to.
Three clients are a command given alone, one before it and one after it, and two
threads let two handlers overlap. One SIGHUP that no client sends is enough to have a
leftover file executed or to end a service that has no handler yet. `MaxDiscarded`,
`MaxCommands`, `MaxId`, `MaxBatch`, `MaxVersion`, `MaxStarts` and `MaxHangUps` are the
names of the bounds on counters.

**Fairness.** `MailQueue`: a producer that owns a ticket finishes, and the consumer
keeps calling `try_dequeue`. Nothing is assumed of producers in the retry loop, which
is only lock-free. `MailBox`: threads inside `Send()` or inside the coroutine go on,
and an enqueued handle is eventually resumed. That last part is the scheduler's duty,
and `Scheduler` shows only some of it, as safety: nobody sleeps on the global queue,
it is looked at every `CheckPeriod` tasks, and a backlog of two is noticed. The rest
stays an assumption, because the code does not guarantee it: `pop` takes the youngest
task, so an old one can wait for ever in a busy local queue that nobody steals from,
and a single task behind a coroutine that blocks its worker wakes nobody.
`EventBus`: a `Publish` or broadcast that has begun goes on, and so does a module with
a message. `Control`: a client that has begun goes on, a pending signal reaches some
thread, and a handler runs to its end; nobody has to start anything. `ActorManager`: the manager handles its mail, started
coroutines go on, and `Shutdown()` sends its mail after it cleared the flag. A crash
is never assumed to happen, except with `AlwaysThrows`, where the code leaves a
running module nothing else to do.

## Findings

1. `await_suspend` reads `mail_` after it cleared `scheduled_` (`mail_box.h:38`).
   A sender and a second worker may by then have run the coroutine to its end, and
   the awaiter lived in its frame. The comment above the code calls this safe.
2. `pop` compares indices as signed numbers. Between the moment `bottom_` passes
   2^63 and the moment `top_` does, it takes a queue with tasks for empty, where the
   comment at `queue.h:203` says it is empty. It needs 2^63 pushes on one worker.
3. A stop during a reload of all modules leaves the modules that had already exited
   in the table; the process does not end (`actor_manager.cc:413` and `:433`).
4. A remove that the manager reads after a reload of the same module, before the
   module's exit report, is forgotten (`actor_manager.cc:410`). `RemoveCompletes` excuses
   a remove that a later reload undoes, so the run's behaviour is the other order: the
   remove is the last command, and the module is launched again.

More limits of the code are no contradictions to a comment and stand in the hazards
of `PROJECT.json`. Commands of clients that overlap may be lost, executed twice or
mixed: the control file is shared, signals coalesce, and `main.cc:166` deletes the file
of a client that wrote after the handler read. A SIGHUP between the pid file and
`sigaction` (`main.cc:208`) ends the service and leaves the pid file of a dead process.
A stop handled after `sigaction` and before `is_running_` is set is dropped. A SIGHUP that
no client sends makes the service execute a command whose client had reported a failure.
So `ServedOnce`, `FailedNotServed` and `AloneIsServed` speak of a command given alone: it
begins when no client, signal or handler is active, each later client does too, and
nobody but clients sends SIGHUP. `WholeCommands` has no such condition.

## Proofs

`tlapm` checks every proof with Z3, Zenon and LS4. A leaf that takes one of them more
than a moment names it, with a time limit (`SMTT(30)`, `ZenonT(60)`), so that the proofs
are found on a slow machine as well.

`MailQueueProofs`, for all producers and messages and every ring of at least two
slots (`SizeAssumption`; with one slot the protocol does not work, and no caller asks
for one):

- `TypeCorrect`, `DeliveryOrder`, `ExclusiveSlots` and `RefusalsAreJustified` state
  `TypeOK`, `DeliveredInOrder`, `SlotExclusive` and `RefusedOnlyWhenFull`.
- `DeliveredInOrder` is not inductive, because it says nothing of what is still in
  the ring. `IndInv` adds: at most `Size` tickets are between the last released one
  and `write_index_` (`Window`); the sequence of a ticket in that window is the
  ticket or one more (`Sequences`); a producer with a ticket finds it in the window
  and unpublished, and no two share one (`Tickets`); a published slot holds the
  message of its ticket (`Contents`).
- The arithmetic is in the lemmas about `Slot`: tickets on one slot are at least a
  lap apart (`SlotDistance`), a lap uses every slot (`SlotCovered`). So a slot's
  sequence speaks about one ticket of the window. That also gives
  `RefusalsAreJustified`: a stale index meets a sequence past it, never behind it.
- `RingIsChannel` states `ImplementsChannel`. The places of the channel are the tickets
  from the last one received to `write_index_`; a place is published when the sequence
  of its slot says so. The compare-exchange claims a place (`CasClaims`), the store of
  the sequence publishes it (`StorePublishes`), the consumer's read of the message
  receives it (`TakeReceives`), and all other steps change nothing: the stale loads and
  retries, and the release of the slot, whose ticket is no longer a place.

`MailBoxProofs`, for all senders, workers, messages and capacities:

- `TypeCorrect`, `SingleConsumer`, `EnqueuedOnce`, `WakeupsKept` and `HandlesAlive`
  state `TypeOK`, `OneRunner`, `ScheduledOnce`, `NoLostWakeup` and `HandleAlive`.
- The right to run the consumer is a token. `IndInv` says that it is in one place
  only: the clear flag, the sender that won it, the scheduler, or the running worker
  (`Token`, `FlagClear`); and that a coroutine that returned keeps the flag set
  (`FlagOfDestroyed`), which is why no later sender uses its handle.

`WorkStealingQueueProofs`, for all thieves and tasks, every ring size and width:

- `TypeCorrect`, `ObtainedOnce`, `EmptyMeansEmpty` and `RingIsDeque` state `TypeOK`,
  `ExactlyOnce`, `PopEmptyWhenEmpty` and `ImplementsDeque`, each for behaviours in which
  the end of the queue stays below the sign bit (`[]NoOverflow`). The condition is
  needed: finding 2 is what happens beyond it. Every state of `work_stealing_queue`
  satisfies it.
- `ExactlyOnce` says nothing of what may still be obtained. `IndInv` adds: at most `N`
  tasks from `top_` on (`WindowInv`), all different and none obtained (`ContentInv`);
  a thief's index is a `top_` of the past, and if it is still `top_`, the task is queued
  and the handle the thief loaded is the one in the slot (`ThiefInv`); an owner that
  competes for the only task has `top_` at that task or just past it (`OwnerInv`).
  `ThiefInv` is the heart: the slot at `top_` is not reused before `top_` moves.
- `WordAssumption` is a fact about powers of two, which the provers do not know.

`SchedulerProofs` and `SchedulerWakeProofs`, for all workers, outside threads, tasks,
queue sizes and periods:

- `TypeCorrect`, `GlobalQueueServed` and `StopReachesAll` state `TypeOK`,
  `GlobalNotStarved` and `StopWakesAll`. `IndInv` adds: `idle_threads_` is the number of
  workers between `prepare_park` and the end of parking (`ParkInv`); what a search has
  established so far, such as that a worker which looks beyond its own queue has left it
  empty (`SearchInv`); and a bound by the searches since `tick` was last a multiple of
  the period (`TickInv`).
- `WakeupsKept` and `BacklogsKept` state `NoSleepOnGlobal` and `BacklogNoticed`. On top
  of `IndInv` the two are inductive without their condition that the scheduler still
  runs (`GlobalInv`, `BacklogInv`). `ParkInv` is what makes a push that sees an idle
  count of zero safe: nobody is there who could sleep on it.
- `HandlesKept` states `EnqueuedOnce`, which counts places. `QueuedInv` says the same
  without counting: no queue holds a handle twice (`OnceInv`), no two queues hold one
  handle (`ApartInv`), the queued handles are those enqueued and not obtained since
  (`OwedInv`), and what a worker runs is in no queue and with no other worker
  (`HeldInv`). The lemmas say what a push, a batch, a `pop` and a steal do to the
  contents of a queue. That a thief which did not lose the race finds a task is
  `SearchInv`.

`ActorManagerProofs`, for all finite sets of names and any configurations, libraries,
commands and mailbox size:

- `TypeCorrect`, `OneInstance`, `PendingSets` and `QuietEnd` state `TypeOK`,
  `SingleInstance`, `PendingConsistent` and `DoneMeansQuiet`.
- `SingleInstance` counts coroutines and unread exit reports, and is not inductive.
  `IndInv` adds: a module has a coroutine or an exit report and never both, and one that
  is not loaded has neither (`InstanceInv`); names occur once and ids are below the
  counter (`NameInv`); while a reload of all waits, the children it no longer waits for
  are quiet, so that launching them all at its end doubles none (`ReloadAllInv`); the
  loop has returned only with an empty table (`DoneInv`). The lemmas about the mailbox
  count the exit reports before and after a mail is added or taken.
- `RestartsKept` states `RestartOwed` for behaviours in which the manager's mailbox
  never is full (`[]RoomForMail`). The condition is needed: `MailBox::Send` drops the
  exit report of a module when there is no room. `OwedInv` adds the crash reports: the
  exit report of a module to be restarted is to be sent or in the mailbox, and it comes
  after every crash report of that module which the manager has not read.
- `DeadEntries` states `NoneLeftBehind`, an action property, without further conditions.
  `FlyingCount` replaces the count of coroutines and reports by "has a coroutine or a
  report" (`Flying`), which `InstanceInv` allows. Then there is one lemma per kind of step:
  a mail that arrives hides no report, a coroutine that ends leaves its report unless the
  mailbox is full, every entry that is added is launched, and the exit handler relaunches,
  removes or has one of the two reasons of `ReloadNotDone`. Finding 3 is what the first of
  them, a reload of all that waits, leads to.

`EventBusProofs`, for all threads, mailboxes, types, messages and capacities:

- `CopiesCurrent` and `OwnChangesSeen` state `CopyMatchesVersion` and
  `OwnChangesRouted`.
- `IndInv` adds: no entry of the table is empty or lists a mailbox twice (`TableInv`),
  and the table lists exactly what the running modules subscribed to (`SubscribedInv`);
  no copy is newer than the table (`VersionInv`); the thread that made the last change
  of a mailbox has it in its copy, is about to renew the copy, or cannot read a version
  as old as its copy (`OwnInv`). The last alternative is where the coherence of relaxed
  loads enters.
- `TypeCorrect` and `RefExactHolds` state `TypeOK` and `RefExact`. Here the sets of
  threads and mailboxes are finite (`FiniteAssumption`), because the reference count of a
  message is compared with the sizes of sets. `RefInv` has what
  each sender is about to do (`SenderInv`), that a mailbox holds a message once
  (`BoxInv`) and a copy lists a mailbox once per type (`CopyInv`), that nobody has a
  message which was not created (`MadeInv`), that a message has one sender and has not
  reached the mailboxes still on its route (`PathInv`), that a mailbox nobody points to
  is empty and on no route (`AliveInv`), and the count itself as a sum of four sizes
  (`CountInv`). `AliveInv` is the part one does not expect: the count is exact only
  because a mailbox that dies gives its messages back and is on nobody's route.

`ControlProofs`, for all clients, handler threads and numbers of starts:

- `TypeCorrect`, `ServedOnceHolds`, `FailedNotServedHolds` and `WholeCommandsHold` state
  `TypeOK`, `ServedOnce`, `FailedNotServed` and `WholeCommands`.
- `IndInv` has: every command the manager gets takes a signal that some client or a
  hang-up sent (`SignalInv`); a client or handler has a file open or a command in hand just
  where the code has it so (`OpenInv`); nobody knows a pid before it is written (`PidInv`);
  as long as no two clients had the file open at once, what is written falls on an empty
  file (`SharedInv`); the beginning of a command is in a handler's hands only after a
  client in `Long` has written (`CutInv`); and a command that was not written yet is
  nowhere (`UnwrittenInv`). For a command given alone, `LoneInv` says that one thing goes
  on at a time, and `CommandInv` that the file, the signal and the handler carry the
  command at most once between them.
- What the theorems leave out, the code does not give: a command given while another
  client is active, or before a SIGHUP that no client sends, is outside `ServedOnceHolds`
  and `FailedNotServedHolds`.

Only model-checked: all liveness (`TicketsAreDelivered`, `SentIsReceived`,
`ShutdownCompletes`, `CrashIsRestarted`, `MessagesGo`, `AloneIsServed`), which is outside
what the prover handles. Every safety property of a passing run is a theorem, some of them
under the conditions named above.

## Not modelled

- The start of a mailbox that was never armed. Module mailboxes are created that way
  (`actor_manager.cc:131`), but the modules at this commit throw before they wait
  (`actor_module.cc:21`), so that the schedules in question need code that does not run.
- `Task` and its continuation (`task.h:71`), for the same reason: `RunCoroutine` is the
  only `Task` and throws before its first suspension.
- The two stores of `ArmConsumer` (`mail_box.cc:20`). `MailBox` begins after them.
- The overlap of start-up with the manager's coroutine (`actor_manager.cc:150`). Two
  threads in one `unordered_map` have no set of outcomes to choose from; start-up is the
  initial state of `ActorManager`.
- A mail ring of one slot (`queue.h:75`): no caller asks for it.
- In `main.cc`: that the handler calls functions that are not safe in one, and the
  parsing of options.
- The SPSC queue, which nothing instantiates, and the time wheel, whose files are empty.
- Logging, TOML parsing, `dlopen` and thread set-up have no effect beyond the results
  the models choose from.

## Plan

1. When modules read their mailboxes: an unarmed start in `MailBox`, `Task`, and the
   second stop message of a doubled reload.
2. The two layers above the mailbox as refinements: `MailBox` as a channel with one
   reader that wakes up, and that channel in place of the mailboxes of `ActorManager` and
   `EventBus`.
