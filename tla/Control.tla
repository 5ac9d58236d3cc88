------------------------------- MODULE Control -------------------------------
(***************************************************************************)
(* The control interface of the service (src/core/main.cc).                *)
(*                                                                         *)
(* A client truncates the control file, writes its command, looks up the   *)
(* service in the pid file and sends SIGHUP.  A hang-up of the terminal,   *)
(* or anybody's kill, sends the same signal.  The handler, on whichever    *)
(* thread of the service the signal reaches, reads the file, deletes it    *)
(* and calls the manager.  Signals that are pending coalesce; SIGHUP is    *)
(* blocked only in the thread that is in the handler.                      *)
(*                                                                         *)
(* A client stands for its command.  The service may be started again; a   *)
(* process is identified by the number of its start.                       *)
(***************************************************************************)
EXTENDS Integers, FiniteSets

CONSTANTS Clients,    \* clients, each one invocation with one command
          Stops,      \* those whose command is stop
          Long,       \* those whose command is not one line of at most 63 characters
          Handlers,   \* threads of the service
          Inodes,     \* files
          MaxStarts,  \* bound on the number of starts of the service
          MaxHangUps, \* bound on the number of SIGHUPs that no client sends
          Empty,      \* an empty file
          Garbled,    \* a text made of two commands
          Cut,        \* the beginning of a command
          Null        \* no file, no command

ASSUME ClientsAssumption ==
  /\ Stops \subseteq Clients /\ Long \subseteq Clients \ Stops
  /\ {Empty, Garbled, Cut, Null} \cap Clients = {}
ASSUME BoundsAssumption == MaxStarts \in Nat /\ MaxHangUps \in Nat
ASSUME FiniteAssumption == IsFiniteSet(Clients) /\ IsFiniteSet(Handlers)
ASSUME NullAssumption ==
  /\ Null \notin Inodes \cup {Empty, Garbled, Cut}
  /\ Empty # Garbled /\ Cut \notin {Empty, Garbled}
  /\ {Null, Empty} \cap (0 .. MaxStarts) = {}

VARIABLES
  name,      \* the file kControlFile names
  text,      \* the content of each file
  client,    \* where each client is in parse_command_line
  fd,        \* the file it has open
  target,    \* the process it has read from the pid file
  pid_file,  \* kPidFile: Null, Empty or a process
  service,   \* how far main is; "armed" after sigaction, "up" while is_running_
  starts,    \* the process that runs, or ran last
  hangups,   \* number of SIGHUPs that no client sent
  pending,   \* SIGHUP is pending for it
  handler,   \* where each thread is in sigal_handle
  file,      \* its control_file
  cmd,       \* its cmd
  count,     \* how often each command, or other text, has reached the manager
  shared,    \* two clients had a file open at once (history)
  alone      \* clients that began while nothing else went on, none of which
             \* was disturbed since: clients never overlapped, and nobody but
             \* clients sent a SIGHUP (history)

fileVars == <<name, text>>
clientVars == <<client, fd, target>>
serviceVars == <<pid_file, service, starts>>
handlerVars == <<handler, file, cmd>>
historyVars == <<hangups, shared, alone>>
vars == <<name, text, client, fd, target, pid_file, service, starts, hangups,
          pending, handler, file, cmd, count, shared, alone>>

Texts == Clients \cup {Garbled, Cut}

Init ==
  /\ name = Null
  /\ text = [i \in Inodes |-> Empty]
  /\ client = [c \in Clients |-> "begin"]
  /\ fd = [c \in Clients |-> Null]
  /\ target = [c \in Clients |-> 0]
  /\ pid_file = Null
  /\ service = "down"
  /\ starts = 0
  /\ hangups = 0
  /\ pending = FALSE
  /\ handler = [h \in Handlers |-> "off"]
  /\ file = [h \in Handlers |-> Null]
  /\ cmd = [h \in Handlers |-> Null]
  /\ count = [t \in Texts |-> 0]
  /\ shared = FALSE
  /\ alone = {}

-----------------------------------------------------------------------------
(* parse_command_line *)

InSession == {c \in Clients : client[c] \in {"write", "pid", "kill"}}

Quiet == InSession = {} /\ ~pending /\ \A h \in Handlers : handler[h] = "off"

Unused == {i \in Inodes : /\ i # name
                          /\ \A c \in Clients : fd[c] # i
                          /\ \A h \in Handlers : file[h] # i}

\* The file fopen opens: the one with the name, or a new one.
Opened == IF name # Null THEN {name}
          ELSE {i \in Unused : i = CHOOSE j \in Unused : TRUE}

\* Defect: the file is opened without truncating it.
OpenKeepsText(c, valid) ==
  /\ client[c] = "begin"
  /\ \E i \in Opened :
       /\ name' = i
       /\ text' = IF name = Null THEN [text EXCEPT ![i] = Empty] ELSE text
       /\ fd' = [fd EXCEPT ![c] = IF valid THEN i ELSE Null]
  /\ client' = [client EXCEPT ![c] = IF valid THEN "write" ELSE "failed"]
  /\ shared' = (shared \/ \E d \in Clients : fd[d] # Null)
  /\ alone' = IF Quiet THEN alone \cup {c} ELSE {}
  /\ UNCHANGED <<target, serviceVars, hangups, pending, handlerVars, count>>

\* fopen(kControlFile, "w").  remove without a name and an unknown command give
\* up here and leave an empty file.
Open(c, valid) ==
  /\ client[c] = "begin"
  /\ \E i \in Opened :
       /\ name' = i
       /\ text' = [text EXCEPT ![i] = Empty]
       /\ fd' = [fd EXCEPT ![c] = IF valid THEN i ELSE Null]
  /\ client' = [client EXCEPT ![c] = IF valid THEN "write" ELSE "failed"]
  /\ shared' = (shared \/ \E d \in Clients : fd[d] # Null)
  /\ alone' = IF Quiet THEN alone \cup {c} ELSE {}
  /\ UNCHANGED <<target, serviceVars, hangups, pending, handlerVars, count>>

\* fclose writes the buffer at the start of the file.  What another client wrote
\* there in the meantime stays behind it when it is longer.
Write(c) ==
  /\ client[c] = "write"
  /\ \E t \in IF text[fd[c]] = Empty THEN {c} ELSE {c, Garbled} :
       text' = [text EXCEPT ![fd[c]] = t]
  /\ fd' = [fd EXCEPT ![c] = Null]
  /\ client' = [client EXCEPT ![c] = "pid"]
  /\ UNCHANGED <<name, target, serviceVars, pending, handlerVars, count, historyVars>>

ReadPid(c) ==
  /\ client[c] = "pid"
  /\ IF pid_file \in {Null, Empty}
     THEN client' = [client EXCEPT ![c] = "failed"] /\ UNCHANGED target
     ELSE /\ client' = [client EXCEPT ![c] = "kill"]
          /\ target' = [target EXCEPT ![c] = pid_file]
  /\ UNCHANGED <<fileVars, fd, serviceVars, pending, handlerVars, count, historyVars>>

\* The process has installed its handler, from sigaction on.
Handling == service \in {"armed", "up", "ending"}

\* Defect: the client may send its signal again.
KillAgain(c) ==
  /\ client[c] = "kill"
  /\ \E next \in {"kill", "done"} : client' = [client EXCEPT ![c] = next]
  /\ LET reaches == target[c] = starts
     IN  /\ pending' = (pending \/ (reaches /\ Handling))
         /\ service' = IF reaches /\ service = "pid" THEN "down" ELSE service
  /\ UNCHANGED <<fileVars, fd, target, pid_file, starts, handlerVars, count, historyVars>>

\* kill(acnet_pid, SIGHUP).  Before sigaction the default action ends the
\* process, which leaves its pid file behind; a process that is gone gets none.
Kill(c) ==
  /\ client[c] = "kill"
  /\ client' = [client EXCEPT ![c] = "done"]
  /\ LET reaches == target[c] = starts
     IN  /\ pending' = (pending \/ (reaches /\ Handling))
         /\ service' = IF reaches /\ service = "pid" THEN "down" ELSE service
  /\ UNCHANGED <<fileVars, fd, target, pid_file, starts, handlerVars, count, historyVars>>

\* A SIGHUP that no client sent: the terminal hangs up, or an operator uses kill.
\* One that finds another pending has no effect.
HangUp ==
  /\ service # "down" /\ ~pending /\ hangups < MaxHangUps
  /\ hangups' = hangups + 1
  /\ pending' = Handling
  /\ service' = IF Handling THEN service ELSE "down"
  /\ alone' = {}
  /\ UNCHANGED <<fileVars, clientVars, pid_file, starts, handlerVars, count, shared>>

-----------------------------------------------------------------------------
(* sigal_handle *)

\* Defect: the signal stays blocked once a command has been handled.
DeliverOnce(h) ==
  /\ pending
  /\ Handling
  /\ handler[h] = "off"
  /\ \A c \in Clients : count[c] = 0
  /\ pending' = FALSE
  /\ handler' = [handler EXCEPT ![h] = "open"]
  /\ UNCHANGED <<fileVars, clientVars, serviceVars, file, cmd, count, historyVars>>

Deliver(h) ==
  /\ pending
  /\ Handling
  /\ handler[h] = "off"
  /\ pending' = FALSE
  /\ handler' = [handler EXCEPT ![h] = "open"]
  /\ UNCHANGED <<fileVars, clientVars, serviceVars, file, cmd, count, historyVars>>

OpenForRead(h) ==
  /\ handler[h] = "open"
  /\ handler' = [handler EXCEPT ![h] = IF name = Null THEN "off" ELSE "read"]
  /\ file' = [file EXCEPT ![h] = name]
  /\ UNCHANGED <<fileVars, clientVars, serviceVars, pending, cmd, count, historyVars>>

\* fgets: an empty file ends the handler and stays.  Of a command that is longer
\* than cmd, or goes on after a newline, the beginning is read.
Read(h) ==
  /\ handler[h] = "read"
  /\ LET t == text[file[h]]
     IN  IF t = Empty
         THEN handler' = [handler EXCEPT ![h] = "off"] /\ UNCHANGED cmd
         ELSE /\ handler' = [handler EXCEPT ![h] = "delete"]
              /\ cmd' = [cmd EXCEPT ![h] = IF t \in Long THEN Cut ELSE t]
  /\ file' = [file EXCEPT ![h] = Null]
  /\ UNCHANGED <<fileVars, clientVars, serviceVars, pending, count, historyVars>>

\* delete_if_exists: whatever file has the name now.
Delete(h) ==
  /\ handler[h] = "delete"
  /\ handler' = [handler EXCEPT ![h] = "dispatch"]
  /\ name' = Null
  /\ UNCHANGED <<text, clientVars, serviceVars, pending, file, cmd, count, historyVars>>

\* ReloadModule, RemoveModule or Shutdown.  Shutdown does nothing unless
\* is_running_; the others leave a mail that the manager handles once it runs.
Dispatch(h) ==
  /\ handler[h] = "dispatch"
  /\ handler' = [handler EXCEPT ![h] = "off"]
  /\ cmd' = [cmd EXCEPT ![h] = Null]
  /\ LET stop == cmd[h] \in Stops
     IN  /\ count' = IF stop /\ service # "up" THEN count ELSE [count EXCEPT ![cmd[h]] = @ + 1]
         /\ service' = IF stop /\ service = "up" THEN "ending" ELSE service
  /\ UNCHANGED <<fileVars, clientVars, pid_file, starts, pending, file, historyVars>>

-----------------------------------------------------------------------------
(* main *)

CreatePidFile ==
  /\ service = "down"
  /\ starts < MaxStarts
  /\ service' = "start"
  /\ starts' = starts + 1
  /\ pid_file' = Empty
  /\ UNCHANGED <<fileVars, clientVars, pending, handlerVars, count, historyVars>>

\* Defect: the pid of another process.
WritePidFileWrong ==
  /\ service = "start"
  /\ service' = "pid"
  /\ pid_file' = starts + 1
  /\ UNCHANGED <<fileVars, clientVars, starts, pending, handlerVars, count, historyVars>>

WritePidFile ==
  /\ service = "start"
  /\ service' = "pid"
  /\ pid_file' = starts
  /\ UNCHANGED <<fileVars, clientVars, starts, pending, handlerVars, count, historyVars>>

\* Defect: the service signals itself to catch up with the control file.
InstallHandlerAndRead ==
  /\ service = "pid"
  /\ service' = "armed"
  /\ pending' = TRUE
  /\ UNCHANGED <<fileVars, clientVars, pid_file, starts, handlerVars, count, historyVars>>

InstallHandler ==
  /\ service = "pid"
  /\ service' = "armed"
  /\ UNCHANGED <<fileVars, clientVars, pid_file, starts, pending, handlerVars, count, historyVars>>

\* The first statement of EventLoop.
SetRunning ==
  /\ service = "armed"
  /\ service' = "up"
  /\ UNCHANGED <<fileVars, clientVars, pid_file, starts, pending, handlerVars, count, historyVars>>

\* EventLoop has returned; threads in the handler end with the process.
Exit ==
  /\ service = "ending"
  /\ service' = "down"
  /\ pid_file' = Null
  /\ pending' = FALSE
  /\ handler' = [h \in Handlers |-> "off"]
  /\ file' = [h \in Handlers |-> Null]
  /\ cmd' = [h \in Handlers |-> Null]
  /\ UNCHANGED <<fileVars, clientVars, starts, count, historyVars>>

-----------------------------------------------------------------------------
ClientStep(c) == Write(c) \/ ReadPid(c) \/ Kill(c)

HandlerStep(h) == OpenForRead(h) \/ Read(h) \/ Delete(h) \/ Dispatch(h)

Next ==
  \/ \E c \in Clients : (\E valid \in BOOLEAN : Open(c, valid)) \/ ClientStep(c)
  \/ \E h \in Handlers : Deliver(h) \/ HandlerStep(h)
  \/ CreatePidFile \/ WritePidFile \/ InstallHandler \/ SetRunning \/ Exit
  \/ HangUp

Spec == Init /\ [][Next]_vars

\* A client that has begun goes on, a pending signal reaches some thread, and
\* a handler runs to its end.  Nobody has to start a client or the service.
FairSpec ==
  /\ Spec
  /\ \A c \in Clients : WF_vars(ClientStep(c))
  /\ \A h \in Handlers : WF_vars(HandlerStep(h))
  /\ WF_vars(\E h \in Handlers : Deliver(h))

-----------------------------------------------------------------------------
(* Properties *)

\* State of the clients, the files and the service of main.cc.
TypeOK ==
  /\ name \in Inodes \cup {Null}
  /\ text \in [Inodes -> Clients \cup {Empty, Garbled}]
  /\ client \in [Clients -> {"begin", "write", "pid", "kill", "done", "failed"}]
  /\ fd \in [Clients -> Inodes \cup {Null}]
  /\ target \in [Clients -> 0 .. starts]
  /\ pid_file \in (1 .. starts) \cup {Null, Empty}
  /\ service \in {"down", "start", "pid", "armed", "up", "ending"}
  /\ starts \in 0 .. MaxStarts
  /\ hangups \in 0 .. MaxHangUps
  /\ pending \in BOOLEAN
  /\ handler \in [Handlers -> {"off", "open", "read", "delete", "dispatch"}]
  /\ file \in [Handlers -> Inodes \cup {Null}]
  /\ cmd \in [Handlers -> Texts \cup {Null}]
  /\ count \in [Texts -> 0 .. Cardinality(Clients) + MaxHangUps]
  /\ shared \in BOOLEAN
  /\ alone \subseteq Clients

\* A command given while nothing else goes on reaches the manager at most once,
\* whatever older files and signals are left, as long as the clients after it do
\* not overlap and nobody else sends a SIGHUP.  A reload or remove of one line of
\* at most 63 characters reaches it exactly once when its signal went to the
\* process that runs and all is quiet again; a stop may come before is_running_ is
\* set and is dropped then.
ServedOnce ==
  \A c \in alone :
    /\ count[c] <= 1
    /\ /\ c \notin Stops \cup Long
       /\ client[c] = "done" /\ Quiet /\ service = "up" /\ target[c] = starts
       => count[c] = 1

\* A command that was given alone and whose client reported a failure (no pid
\* file, or an empty one) stays in the control file, and no later process executes
\* it, as long as clients do not overlap and nobody but a client sends a SIGHUP:
\* the client that sends the next signal truncates the file first.
FailedNotServed ==
  \A c \in alone : client[c] = "failed" => count[c] = 0

\* The handler hands a text that mixes two commands to the manager only when two
\* clients had the control file open at once, and the beginning of a command only
\* when a client has written one that does not fit its buffer: a file that is
\* half written, truncated or replaced meanwhile is never taken for a command.
WholeCommands ==
  /\ count[Garbled] > 0 => shared
  /\ count[Cut] > 0 => \E c \in Long : client[c] \notin {"begin", "write"}

\* A command that fits the handler's buffer, given while nothing else goes on to a
\* service that is in its event loop, is executed, unless another client or a
\* SIGHUP of somebody else interferes or the service ends.
AloneIsServed ==
  \A c \in Clients \ Long :
    client[c] = "write" /\ c \in alone /\ service = "up"
      ~> count[c] = 1 \/ c \notin alone \/ service # "up"

=============================================================================
