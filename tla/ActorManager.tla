---------------------------- MODULE ActorManager ----------------------------
(***************************************************************************)
(* ac::ActorManager (src/core/actor_manager.cc), the supervisor.  Its one  *)
(* coroutine handles commands of the operator and the reports of the       *)
(* module coroutines it launched, one mail at a time.  To reload or remove *)
(* a module it only mails a stop and notes the module's id in a pending    *)
(* set; what to do next is decided when the module's exit report arrives,  *)
(* possibly after other commands.                                          *)
(*                                                                         *)
(* A handler is one step: what it sends to modules takes effect on them    *)
(* only through their mailboxes, and nobody else touches the manager's     *)
(* tables once start-up is over.  is_running_ is written by Shutdown() on  *)
(* another thread, so the two reads of it in __handle_event_exit are two   *)
(* steps.                                                                  *)
(***************************************************************************)
EXTENDS Naturals, Sequences, FiniteSets

CONSTANTS
  Names,          \* module names
  All,            \* the word "all" of the reload command
  Configs,        \* what the configuration file may list when it is read
  Libraries,      \* which modules' libraries open when they are loaded
  Commands,       \* the commands the operator sends
  AlwaysThrows,   \* does every module throw before it reads its mailbox?
  MailCapacity,   \* size of the manager's mailbox
  MaxCommands,    \* bound on the commands sent
  MaxId           \* bound on generate_unique_id()

Ids == 1 .. MaxId

Command == [type : {"reload"}, arg : Names \cup {All}] \cup [type : {"remove"}, arg : Names]
Report == [type : {"exited", "crash"}, arg : Ids]
Mail == Command \cup Report \cup {[type |-> "exit"]}

ASSUME NameAssumption == All \notin Names /\ IsFiniteSet(Names)
ASSUME ConfigAssumption == Configs \subseteq SUBSET Names /\ Libraries \subseteq SUBSET Names
ASSUME CommandAssumption == Commands \subseteq Command
ASSUME ThrowAssumption == AlwaysThrows \in BOOLEAN
ASSUME BoundAssumption ==
  MailCapacity \in Nat /\ MaxCommands \in Nat /\ MaxId \in Nat /\ MaxId >= Cardinality(Names)

VARIABLES
  childrens,        \* childrens_: actor id -> module name
  next_id,          \* generate_unique_id()
  pending_reload,   \* pending_reload_
  pending_stop,     \* pending_stop_
  pending_restart,  \* pending_restart_
  reload_all_flag,  \* reload_all_flag_
  is_running,       \* is_running_
  config,           \* the modules of PluginManager's configuration
  mail,             \* the manager's mailbox
  mpc,              \* "receive", "check_finished" or "done"
  coro,             \* coroutines of each id, by where they are
  stops,            \* stop messages in each module's mailbox
  shutdown,         \* Shutdown(): "none", "flagged", "sent"
  commands          \* commands sent so far

pendingVars == <<pending_reload, pending_stop, pending_restart>>
tableVars == <<childrens, next_id, reload_all_flag, config>>
moduleVars == <<coro, stops>>
operatorVars == <<shutdown, commands>>
vars == <<childrens, next_id, pending_reload, pending_stop, pending_restart,
          reload_all_flag, is_running, config, mail, mpc, coro, stops,
          shutdown, commands>>

-----------------------------------------------------------------------------
(* Launching modules *)

\* Where a module's coroutine may be: enqueued, in RunCoroutine, past it.
Places == {"queued", "running", "exiting"}

Move(c, from, to) == [c EXCEPT ![from] = @ - 1, ![to] = @ + 1]
Leave(c, from) == [c EXCEPT ![from] = @ - 1]

\* metadata.creator(...) and Enqueue for every id of the set.
Launch(ids) ==
  coro' = [i \in Ids |-> IF i \in ids THEN [coro[i] EXCEPT !["queued"] = @ + 1]
                                      ELSE coro[i]]

\* Entries with fresh ids for the modules in names.
NewIds(names) == next_id .. next_id + Cardinality(names) - 1
Assignments(names) ==
  {f \in [NewIds(names) -> names] : \A i, j \in NewIds(names) : f[i] = f[j] => i = j}

Merge(f, g) == [i \in DOMAIN f \cup DOMAIN g |-> IF i \in DOMAIN g THEN g[i] ELSE f[i]]
Without(f, i) == [j \in DOMAIN f \ {i} |-> f[j]]

LoadedNames == {childrens[i] : i \in DOMAIN childrens}

\* Create children for names and launch them together with the ids in again.
CreateAndLaunch(names, again) ==
  /\ next_id + Cardinality(names) - 1 <= MaxId
  /\ \E f \in Assignments(names) : childrens' = Merge(childrens, f)
  /\ next_id' = next_id + Cardinality(names)
  /\ Launch(again \cup NewIds(names))

\* __load_modules for the modules cfg lists: one child for each whose library
\* opens.
LoadModules(cfg) ==
  \E opened \in Libraries : CreateAndLaunch(cfg \cap opened, {})

\* The state after main() has run EventLoop() up to the latch: the libraries
\* of the configured modules that open are loaded under ids 1, 2, ... and
\* their coroutines are enqueued.
Init ==
  /\ config \in Configs
  /\ \E opened \in Libraries :
       LET names == config \cap opened
           n == Cardinality(names)
       IN  /\ childrens \in {f \in [1 .. n -> names] : \A i, j \in 1 .. n : f[i] = f[j] => i = j}
           /\ next_id = n + 1
           /\ coro = [i \in Ids |-> [k \in Places |-> IF k = "queued" /\ i <= n THEN 1 ELSE 0]]
  /\ pending_reload = {}
  /\ pending_stop = {}
  /\ pending_restart = {}
  /\ reload_all_flag = FALSE
  /\ is_running = TRUE
  /\ mail = <<>>
  /\ mpc = "receive"
  /\ stops = [i \in Ids |-> 0]
  /\ shutdown = "none"
  /\ commands = 0

-----------------------------------------------------------------------------
(* The operator: ReloadModule(), RemoveModule(), Shutdown() *)

\* MailBox::Send drops what does not fit.
Deliver(m) == mail' = IF Len(mail) < MailCapacity THEN Append(mail, m) ELSE mail

SendCommand(c) ==
  /\ mpc # "done"
  /\ commands < MaxCommands
  /\ commands' = commands + 1
  /\ Deliver(c)
  /\ UNCHANGED <<tableVars, pendingVars, is_running, mpc, moduleVars, shutdown>>

\* Shutdown() clears the flag first ...
ClearRunning ==
  /\ mpc # "done"
  /\ is_running
  /\ is_running' = FALSE
  /\ shutdown' = "flagged"
  /\ UNCHANGED <<tableVars, pendingVars, mail, mpc, moduleVars, commands>>

\* ... and then mails the exit command.
SendExit ==
  /\ shutdown = "flagged"
  /\ shutdown' = "sent"
  /\ Deliver([type |-> "exit"])
  /\ UNCHANGED <<tableVars, pendingVars, is_running, mpc, moduleVars, commands>>

-----------------------------------------------------------------------------
(* A module's coroutine: __launch_actor around ActorModule::RunCoroutine *)

\* A defect: a coroutine is started that was not enqueued.
StartModuleUnqueued(i) ==
  /\ coro' = [coro EXCEPT ![i] = Move(@, "queued", "running")]
  /\ UNCHANGED <<tableVars, pendingVars, is_running, mail, mpc, stops, operatorVars>>

\* create_func returned an actor: Init, RunCoroutine up to its loop.
StartModule(i) ==
  /\ coro[i]["queued"] > 0
  /\ coro' = [coro EXCEPT ![i] = Move(@, "queued", "running")]
  /\ UNCHANGED <<tableVars, pendingVars, is_running, mail, mpc, stops, operatorVars>>

\* create_func returned a null pointer.
CreateFails(i) ==
  /\ coro[i]["queued"] > 0
  /\ coro' = [coro EXCEPT ![i] = Move(@, "queued", "exiting")]
  /\ UNCHANGED <<tableVars, pendingVars, is_running, mail, mpc, stops, operatorVars>>

\* A stop message is received: co_return kExitSuccess.
ModuleStops(i) ==
  /\ ~AlwaysThrows
  /\ coro[i]["running"] > 0
  /\ stops[i] > 0
  /\ stops' = [stops EXCEPT ![i] = @ - 1]
  /\ coro' = [coro EXCEPT ![i] = Move(@, "running", "exiting")]
  /\ UNCHANGED <<tableVars, pendingVars, is_running, mail, mpc, operatorVars>>

\* An exception: the crash report is mailed, error_handle, kExitFailure.
ModuleCrashes(i) ==
  /\ coro[i]["running"] > 0
  /\ coro' = [coro EXCEPT ![i] = Move(@, "running", "exiting")]
  /\ Deliver([type |-> "crash", arg |-> i])
  /\ UNCHANGED <<tableVars, pendingVars, is_running, mpc, stops, operatorVars>>

\* Uninit, destroy_func, and the exit report.
SendExited(i) ==
  /\ coro[i]["exiting"] > 0
  /\ coro' = [coro EXCEPT ![i] = Leave(@, "exiting")]
  /\ Deliver([type |-> "exited", arg |-> i])
  /\ UNCHANGED <<tableVars, pendingVars, is_running, mpc, stops, operatorVars>>

-----------------------------------------------------------------------------
(* The manager's handlers *)

\* try_receive() returned a mail of this type.
Receive(type) ==
  /\ mpc = "receive"
  /\ mail # <<>>
  /\ Head(mail).type = type
  /\ mail' = Tail(mail)

\* A stop is mailed to every id of the set.
MailStops(ids) == stops' = [i \in Ids |-> IF i \in ids THEN stops[i] + 1 ELSE stops[i]]

\* A defect: an empty table is not noticed.
HandleCmdExitWaiting ==
  /\ Receive("exit")
  /\ pending_stop' = pending_stop \cup DOMAIN childrens
  /\ pending_restart' = pending_restart \ DOMAIN childrens
  /\ MailStops(DOMAIN childrens)
  /\ UNCHANGED <<tableVars, pending_reload, is_running, mpc, coro, operatorVars>>

\* __handle_cmd_exit: nothing is loaded, so the loop ends at once; otherwise
\* every module is told to stop.
HandleCmdExit ==
  /\ Receive("exit")
  /\ mpc' = IF DOMAIN childrens = {} THEN "done" ELSE "receive"
  /\ pending_stop' = pending_stop \cup DOMAIN childrens
  /\ pending_restart' = pending_restart \ DOMAIN childrens
  /\ MailStops(DOMAIN childrens)
  /\ UNCHANGED <<tableVars, pending_reload, is_running, coro, operatorVars>>

\* PluginManager::UpdateConfig() read the configuration file again.
UpdateConfig == config' \in Configs

\* __handle_cmd_reload: UpdateConfig() failed and the command is dropped.
UpdateConfigFails ==
  /\ Receive("reload")
  /\ UNCHANGED <<tableVars, pendingVars, is_running, mpc, moduleVars, operatorVars>>

\* reload all, with modules loaded: stop them all.
HandleReloadAll ==
  /\ Receive("reload")
  /\ Head(mail).arg = All
  /\ DOMAIN childrens \cup pending_reload # {}
  /\ UpdateConfig
  /\ reload_all_flag' = TRUE
  /\ MailStops(DOMAIN childrens)
  /\ pending_reload' = pending_reload \cup DOMAIN childrens
  /\ pending_restart' = pending_restart \ DOMAIN childrens
  /\ UNCHANGED <<childrens, next_id, pending_stop, is_running, mpc, coro, operatorVars>>

\* reload all, with nothing loaded: load what the configuration lists.
HandleReloadNothing ==
  /\ Receive("reload")
  /\ Head(mail).arg = All
  /\ DOMAIN childrens \cup pending_reload = {}
  /\ UpdateConfig
  /\ reload_all_flag' = TRUE
  /\ LoadModules(config')
  /\ UNCHANGED <<pendingVars, is_running, mpc, stops, operatorVars>>

\* reload of one loaded module: stop it.
HandleReloadOne ==
  /\ Receive("reload")
  /\ UpdateConfig
  /\ reload_all_flag' = FALSE
  /\ \E i \in DOMAIN childrens :
       /\ childrens[i] = Head(mail).arg
       /\ MailStops({i})
       /\ pending_reload' = pending_reload \cup {i}
       /\ pending_restart' = pending_restart \ {i}
  /\ UNCHANGED <<childrens, next_id, pending_stop, is_running, mpc, coro, operatorVars>>

\* reload of a module that is not loaded: __reload_module(0, name) creates it
\* if the configuration lists it and its library opens.
HandleReloadUnknown ==
  /\ Receive("reload")
  /\ Head(mail).arg \in Names \ LoadedNames
  /\ UpdateConfig
  /\ reload_all_flag' = FALSE
  /\ \E opened \in Libraries :
       CreateAndLaunch({Head(mail).arg} \cap config' \cap opened, {})
  /\ UNCHANGED <<pendingVars, is_running, mpc, stops, operatorVars>>

\* A defect: a restart that is already owed is left pending.
HandleCmdRemoveKeepingRestart ==
  /\ Receive("remove")
  /\ \E i \in DOMAIN childrens :
       /\ childrens[i] = Head(mail).arg
       /\ MailStops({i})
       /\ pending_stop' = pending_stop \cup {i}
  /\ UNCHANGED <<tableVars, pending_reload, pending_restart, is_running, mpc, coro,
                 operatorVars>>

\* __handle_cmd_remove: stop the module.
HandleCmdRemove ==
  /\ Receive("remove")
  /\ \E i \in DOMAIN childrens :
       /\ childrens[i] = Head(mail).arg
       /\ MailStops({i})
       /\ pending_stop' = pending_stop \cup {i}
       /\ pending_restart' = pending_restart \ {i}
  /\ UNCHANGED <<tableVars, pending_reload, is_running, mpc, coro, operatorVars>>

\* ... or there is no such module.
HandleRemoveUnknown ==
  /\ Receive("remove")
  /\ Head(mail).arg \notin LoadedNames
  /\ UNCHANGED <<tableVars, pendingVars, is_running, mpc, moduleVars, operatorVars>>

\* A defect: the crash is logged and no restart noted.
HandleEventCrashUnmarked ==
  /\ Receive("crash")
  /\ UNCHANGED <<tableVars, pendingVars, is_running, mpc, moduleVars, operatorVars>>

\* __handle_event_crash: restart the module when its exit report arrives,
\* unless it is being reloaded or removed.
HandleEventCrash ==
  /\ Receive("crash")
  /\ LET i == Head(mail).arg
         restart == i \in DOMAIN childrens /\ is_running
                      /\ i \notin pending_reload /\ i \notin pending_stop
     IN  pending_restart' = IF restart THEN pending_restart \cup {i} ELSE pending_restart
  /\ UNCHANGED <<tableVars, pending_reload, pending_stop, is_running, mpc,
                 moduleVars, operatorVars>>

-----------------------------------------------------------------------------
(* __handle_event_exit *)

\* A defect: the restart flag is read but not erased.
ExitReportKeepingRestart(i) ==
  /\ Receive("exited")
  /\ i = Head(mail).arg
  /\ pending_reload' = pending_reload \ {i}
  /\ pending_stop' = pending_stop \ {i}
  /\ UNCHANGED pending_restart

\* The first statements of the handler: i is the sender, and no longer in any
\* pending set.
ExitReport(i) ==
  /\ Receive("exited")
  /\ i = Head(mail).arg
  /\ pending_reload' = pending_reload \ {i}
  /\ pending_stop' = pending_stop \ {i}
  /\ pending_restart' = pending_restart \ {i}

ToReload(i) == i \in DOMAIN childrens /\ is_running /\ i \in pending_reload
ToRestart(i) ==
  /\ i \in DOMAIN childrens
  /\ is_running
  /\ i \notin pending_reload
  /\ i \in pending_restart
  /\ i \notin pending_stop

\* reload all, while other modules have not exited yet.
ExitBeforeReloadAll(i) ==
  /\ ExitReport(i)
  /\ ToReload(i)
  /\ reload_all_flag
  /\ pending_reload \ {i} # {}
  /\ UNCHANGED <<tableVars, is_running, mpc, moduleVars, operatorVars>>

\* A defect: the other modules' exits are not awaited.
ExitThenReloadAllEager(i) ==
  /\ ExitReport(i)
  /\ ToReload(i)
  /\ reload_all_flag
  /\ \E opened \in Libraries :
       LET names == config \cap opened
       IN  CreateAndLaunch(names \ LoadedNames, {j \in DOMAIN childrens : childrens[j] \in names})
  /\ UNCHANGED <<reload_all_flag, config, is_running, mpc, stops, operatorVars>>

\* reload all, and this was the last one: __reload_all_modules relaunches
\* the children the configuration lists and creates the missing ones.
ExitThenReloadAll(i) ==
  /\ ExitReport(i)
  /\ ToReload(i)
  /\ reload_all_flag
  /\ pending_reload \ {i} = {}
  /\ \E opened \in Libraries :
       LET names == config \cap opened
       IN  CreateAndLaunch(names \ LoadedNames, {j \in DOMAIN childrens : childrens[j] \in names})
  /\ UNCHANGED <<reload_all_flag, config, is_running, mpc, stops, operatorVars>>

\* reload of one module: __reload_module(id, name) relaunches it if the
\* configuration lists it and its library opens.
ExitThenReload(i) ==
  /\ ExitReport(i)
  /\ ToReload(i)
  /\ ~reload_all_flag
  /\ \E opened \in Libraries :
       Launch(IF childrens[i] \in config \cap opened THEN {i} ELSE {})
  /\ UNCHANGED <<tableVars, is_running, mpc, stops, operatorVars>>

\* A defect: the new coroutine is created and never enqueued.
ExitThenRestartForgotten(i) ==
  /\ ExitReport(i)
  /\ ToRestart(i)
  /\ UNCHANGED <<tableVars, is_running, mpc, moduleVars, operatorVars>>

\* The module crashed: __restart_module.
ExitThenRestart(i) ==
  /\ ExitReport(i)
  /\ ToRestart(i)
  /\ Launch({i})
  /\ UNCHANGED <<tableVars, is_running, mpc, stops, operatorVars>>

\* The module is gone; a sender that is not in the table is only logged.
Unmount(i) ==
  /\ ExitReport(i)
  /\ ~ToReload(i)
  /\ ~ToRestart(i)
  /\ childrens' = Without(childrens, i)
  /\ mpc' = IF i \in DOMAIN childrens THEN "check_finished" ELSE "receive"
  /\ UNCHANGED <<next_id, reload_all_flag, config, is_running, moduleVars, operatorVars>>

\* A defect: the remaining modules are not awaited.
CheckFinishedEarly ==
  /\ mpc = "check_finished"
  /\ mpc' = IF ~is_running THEN "done" ELSE "receive"
  /\ UNCHANGED <<tableVars, pendingVars, is_running, mail, moduleVars, operatorVars>>

\* return !is_running_ && childrens_.empty()
CheckFinished ==
  /\ mpc = "check_finished"
  /\ mpc' = IF ~is_running /\ DOMAIN childrens = {} THEN "done" ELSE "receive"
  /\ UNCHANGED <<tableVars, pendingVars, is_running, mail, moduleVars, operatorVars>>

-----------------------------------------------------------------------------
HandleEventExit(i) ==
  \/ ExitBeforeReloadAll(i)
  \/ ExitThenReloadAll(i)
  \/ ExitThenReload(i)
  \/ ExitThenRestart(i)
  \/ Unmount(i)

Manager ==
  \/ HandleCmdExit
  \/ UpdateConfigFails
  \/ HandleReloadAll
  \/ HandleReloadNothing
  \/ HandleReloadOne
  \/ HandleReloadUnknown
  \/ HandleCmdRemove
  \/ HandleRemoveUnknown
  \/ HandleEventCrash
  \/ \E i \in Ids : HandleEventExit(i)
  \/ CheckFinished

Module(i) ==
  \/ StartModule(i)
  \/ CreateFails(i)
  \/ ModuleStops(i)
  \/ ModuleCrashes(i)
  \/ SendExited(i)

Next ==
  \/ \E c \in Commands : SendCommand(c)
  \/ ClearRunning
  \/ SendExit
  \/ Manager
  \/ \E i \in Ids : Module(i)

Spec == Init /\ [][Next]_vars

\* A started coroutine goes on.  A stop that is in its mailbox is read by a
\* module that does not crash first.
ModuleGoesOn(i) ==
  \/ StartModule(i)
  \/ CreateFails(i)
  \/ ModuleStops(i)
  \/ AlwaysThrows /\ ModuleCrashes(i)
  \/ SendExited(i)

\* The manager handles its mail and coroutines go on: the scheduler resumes what
\* was enqueued, and no handler blocks.
Fairness ==
  /\ WF_vars(SendExit)
  /\ WF_vars(Manager)
  /\ \A i \in Ids : WF_vars(ModuleGoesOn(i))

FairSpec == Spec /\ Fairness

-----------------------------------------------------------------------------
(* Properties *)

\* The tables hold known ids and names, every coroutine count is a natural.
TypeOK ==
  /\ DOMAIN childrens \subseteq Ids
  /\ \A i \in DOMAIN childrens : childrens[i] \in Names
  /\ next_id \in 1 .. MaxId + 1
  /\ pending_reload \subseteq Ids
  /\ pending_stop \subseteq Ids
  /\ pending_restart \subseteq Ids
  /\ reload_all_flag \in BOOLEAN
  /\ is_running \in BOOLEAN
  /\ config \in SUBSET Names
  /\ mail \in Seq(Mail)
  /\ mpc \in {"receive", "check_finished", "done"}
  /\ coro \in [Ids -> [Places -> Nat]]
  /\ stops \in [Ids -> Nat]
  /\ shutdown \in {"none", "flagged", "sent"}
  /\ commands \in Nat

\* Coroutines of id i, and its exit reports on their way.
Live(i) == coro[i]["queued"] + coro[i]["running"] + coro[i]["exiting"]
ExitReports(i) == {k \in DOMAIN mail : mail[k] = [type |-> "exited", arg |-> i]}
InFlight(i) == Live(i) + Cardinality(ExitReports(i))

\* One module, one coroutine: no sequence of reload, remove, crash and restart
\* launches a second coroutine on the same mailbox, relaunches a module while
\* its last exit report is still unread, or loads a name a second time under a
\* new id, which the first-match searches of the handlers would never find.  A
\* module that is not in the table has neither.
SingleInstance ==
  /\ \A i \in Ids : InFlight(i) <= IF i \in DOMAIN childrens THEN 1 ELSE 0
  /\ \A i, j \in DOMAIN childrens : childrens[i] = childrens[j] => i = j

\* The pending sets name loaded modules, and a module that is to be restarted
\* is not also to be reloaded or removed: __handle_event_exit never has to
\* choose between restart and the operator's wish.
PendingConsistent ==
  /\ pending_reload \cup pending_stop \cup pending_restart \subseteq DOMAIN childrens
  /\ pending_restart \cap (pending_reload \cup pending_stop) = {}

\* A restart that was promised on a crash report is kept: the exit report that
\* triggers it is still to come, so pending_restart_ never outlives the crash
\* it stands for.
RestartOwed ==
  \A i \in pending_restart : coro[i]["exiting"] + Cardinality(ExitReports(i)) = 1

\* The process ends only after every module coroutine has ended, so no module
\* runs while the scheduler and the libraries are torn down.
DoneMeansQuiet == mpc = "done" => \A i \in Ids : InFlight(i) = 0

\* SendExited(i) found the mailbox full.
ReportDropped(i) == coro[i]["exiting"] > 0 /\ Len(mail) >= MailCapacity /\ mail' = mail

\* The exit report of i was read for a reload that did not relaunch i at once:
\* a reload of all modules waits for the others, or i was not found again.
ReloadNotDone(i) ==
  /\ i \in pending_reload
  /\ i \notin pending_reload'
  /\ is_running
  /\ \/ reload_all_flag /\ pending_reload # {i}
     \/ \E opened \in Libraries : childrens[i] \notin config \cap opened

\* A step that leaves a module in the table leaves it a coroutine or an exit
\* report the manager will read, whichever commands, crashes and restarts fall
\* together.  childrens_ gets a dead entry, which no later report removes, only
\* when the exit report finds the mailbox full or when __handle_event_exit
\* reads it for a reload that is not done at once.
NoneLeftBehind ==
  [][\A i \in DOMAIN childrens' :
       \/ InFlight(i)' = 1
       \/ i \in DOMAIN childrens /\ InFlight(i) = 0
       \/ ReportDropped(i)
       \/ ReloadNotDone(i)]_vars

\* "If the program received the stop signal and all modules have exited, end
\* the process gracefully" (actor_manager.cc:433): once the exit command is
\* handled and nothing is left to run or to read, the event loop has ended.
GracefulEnd ==
  shutdown = "sent" /\ mail = <<>> /\ mpc # "check_finished" /\ (\A i \in Ids : Live(i) = 0)
    => mpc = "done"

\* Shutdown() ends the process.
ShutdownCompletes == (shutdown = "sent") ~> (mpc = "done")

\* A module whose crash report is in the mailbox is launched again, unless the
\* operator removes or reloads it or the process shuts down first: the mark
\* __handle_event_crash sets is there when __handle_event_exit looks for it.
CrashIsRestarted ==
  \A i \in Ids :
    (\E k \in DOMAIN mail : mail[k] = [type |-> "crash", arg |-> i])
      ~> (coro[i]["queued"] > 0 \/ i \in pending_stop \cup pending_reload \/ ~is_running)

\* The next mail is a command of this type for the loaded module i.
NextMailFor(i, type) ==
  /\ i \in DOMAIN childrens
  /\ mail # <<>>
  /\ Head(mail).type = type
  /\ Head(mail).arg \in {childrens[i], All}

\* A loaded module the operator removes ("found the module: {}, prepare remove",
\* actor_manager.cc:388) disappears from the table, unless a reload of it is
\* read after the remove.
RemoveCompletes ==
  \A i \in Ids :
    NextMailFor(i, "remove") ~> (i \notin DOMAIN childrens \/ NextMailFor(i, "reload"))

=============================================================================
