--------------------------- MODULE ControlProofs ---------------------------
(***************************************************************************)
(* What the control interface guarantees, for any clients, threads, files  *)
(* and restarts of the service.                                            *)
(*                                                                         *)
(* A command travels through the control file, a pending signal and the    *)
(* variables of a handler, and each of the three can be overtaken.  The    *)
(* argument follows a command that was given while nothing else went on:   *)
(* as long as clients do not overlap and nobody else sends a SIGHUP, at    *)
(* most one client, signal or handler is under way (LoneInv), so the file, *)
(* the signal and the handler carry that command and each carries it at    *)
(* most once (CommandInv).                                                 *)
(***************************************************************************)
EXTENDS Control, FiniteSetTheorems, TLAPS

\* Handlers that run, and clients that have sent their signal.
Active == {h \in Handlers : handler[h] # "off"}
Done == {c \in Clients : client[c] = "done"}

\* Every command the manager gets takes a signal that somebody sent.
SignalInv ==
  \A x \in Texts :
    count[x] + Cardinality(Active) + (IF pending THEN 1 ELSE 0) <= Cardinality(Done) + hangups

\* Where a client or a handler has a file open, or a command in its hand.
OpenInv ==
  /\ \A c \in Clients : fd[c] # Null <=> client[c] = "write"
  /\ \A h \in Handlers : /\ file[h] # Null <=> handler[h] = "read"
                         /\ cmd[h] # Null <=> handler[h] \in {"delete", "dispatch"}

\* Nobody knows the pid of a process before it has written it, and a signal
\* that reaches it before sigaction ends it.
PidInv ==
  /\ service = "start" =>
       starts > 0 /\ pid_file = Empty /\ \A c \in Clients : target[c] < starts
  /\ service \in {"start", "pid"} => \A c \in Clients : client[c] = "done" => target[c] # starts

\* Without two clients at one file, what is written falls on an empty file.
SharedInv ==
  ~shared =>
    /\ \A c, d \in Clients : fd[c] # Null /\ fd[d] # Null => c = d
    /\ \A c \in Clients : fd[c] # Null => text[fd[c]] = Empty
    /\ \A i \in Inodes : text[i] # Garbled
    /\ \A h \in Handlers : cmd[h] # Garbled
    /\ count[Garbled] = 0

\* A command that was not written yet is nowhere.
UnwrittenInv ==
  \A c \in Clients : client[c] \in {"begin", "write"} =>
    count[c] = 0 /\ (\A i \in Inodes : text[i] # c) /\ \A h \in Handlers : cmd[h] # c

\* The beginning of a command is read only after a long one was written.
CutInv ==
  (\A c \in Long : client[c] \in {"begin", "write"}) =>
    count[Cut] = 0 /\ \A h \in Handlers : cmd[h] # Cut

\* The control file holds the command of c.
Lies(c) == name # Null /\ text[name] = c

\* The command of c is on its way to the manager.
Underway(c) ==
  \/ pending /\ Lies(c)
  \/ \E h \in Handlers : handler[h] \in {"open", "read"} /\ Lies(c)
  \/ \E h \in Handlers : cmd[h] = c

\* While the last clients ran alone, one thing goes on at a time.
LoneInv ==
  alone # {} =>
    /\ InSession \subseteq alone
    /\ \A c, d \in InSession : c = d
    /\ InSession # {} => ~pending /\ Active = {}
    /\ pending => Active = {}
    /\ \A g, h \in Active : g = h
    /\ \A h \in Handlers : /\ handler[h] = "read" => file[h] = name
                           /\ handler[h] = "dispatch" => name = Null

\* Where the command of a client that ran alone is.
Command(c) ==
  /\ client[c] # "begin"
  /\ client[c] = "write" => fd[c] = name /\ text[name] = Empty
  /\ client[c] \in {"pid", "kill"} => Lies(c)
  /\ count[c] <= 1
  /\ Lies(c) \/ (\E h \in Handlers : cmd[h] = c) => count[c] = 0
  /\ client[c] = "failed" =>
       count[c] = 0 /\ (\A h \in Handlers : cmd[h] # c) /\ (Lies(c) => Quiet)
  /\ /\ c \notin Stops \cup Long
     /\ client[c] = "done" /\ target[c] = starts /\ service \in {"armed", "up"}
     => count[c] = 1 \/ Underway(c)

CommandInv == \A c \in alone : Command(c)

\* Types of the counts aside from their bound, which takes SignalInv.
TypeInv ==
  /\ name \in Inodes \cup {Null}
  /\ text \in [Inodes -> Clients \cup {Empty, Garbled}]
  /\ client \in [Clients -> {"begin", "write", "pid", "kill", "done", "failed"}]
  /\ fd \in [Clients -> Inodes \cup {Null}]
  /\ target \in [Clients -> 0 .. starts]
  /\ pid_file \in (1 .. starts) \cup {Null, Empty}
  /\ service \in {"down", "start", "pid", "armed", "up", "ending"}
  /\ starts \in 0 .. MaxStarts
  /\ hangups \in 0 .. MaxHangUps
  /\ pending \in BOOLEAN
  /\ handler \in [Handlers -> {"off", "open", "read", "delete", "dispatch"}]
  /\ file \in [Handlers -> Inodes \cup {Null}]
  /\ cmd \in [Handlers -> Texts \cup {Null}]
  /\ count \in [Texts -> Nat]
  /\ shared \in BOOLEAN
  /\ alone \subseteq Clients

IndInv ==
  TypeInv /\ SignalInv /\ OpenInv /\ PidInv /\ SharedInv /\ UnwrittenInv /\ CutInv
  /\ LoneInv /\ CommandInv

-----------------------------------------------------------------------------
(* Where the command of a client that ran alone is *)

\* The command of a client that ran alone is lost nowhere and is carried once.
LEMMA CommandStep ==
  ASSUME TypeInv, OpenInv, PidInv, UnwrittenInv, LoneInv, CommandInv, [Next]_vars,
         NEW d \in alone', d \in Clients
  PROVE  Command(d)'
<1> USE DEF fileVars, clientVars, serviceVars, handlerVars, historyVars
<1>0. alone' # {}
  OBVIOUS
<1>c. /\ client \in [Clients -> {"begin", "write", "pid", "kill", "done", "failed"}]
      /\ DOMAIN fd = Clients /\ DOMAIN target = Clients
  BY DEF TypeInv
<1>f. name \in Inodes \cup {Null} /\ DOMAIN text = Inodes
  BY DEF TypeInv
<1>h. DOMAIN handler = Handlers
  BY DEF TypeInv
<1>m. DOMAIN cmd = Handlers
  BY DEF TypeInv
<1>x. count \in [Texts -> Nat]
  BY DEF TypeInv
<1>1. ASSUME NEW c \in Clients, NEW valid \in BOOLEAN, Open(c, valid) PROVE Command(d)'
  <2>1. PICK i \in Opened :
          /\ name' = i
          /\ text' = [text EXCEPT ![i] = Empty]
          /\ fd' = [fd EXCEPT ![c] = IF valid THEN i ELSE Null]
    BY Zenon, <1>1 DEF Open
  <2>2. i \in Inodes /\ name' = i /\ text'[i] = Empty
    BY <2>1, <1>f DEF Opened, Unused
  <2>3. Quiet /\ alone' = alone \cup {c}
    BY <1>1, <1>0 DEF Open
  <2>4. ~Lies(d)'
    BY <2>2, ClientsAssumption DEF Lies
  <2>5. UNCHANGED <<count, cmd, handler, target, starts, service>>
    BY <1>1 DEF Open
  <2>6. client[c] = "begin" /\ client' = [client EXCEPT ![c] = IF valid THEN "write" ELSE "failed"]
    BY <1>1 DEF Open
  <2>7. \A h \in Handlers : cmd[h] # d
    BY SMTT(30), <2>3, ClientsAssumption DEF OpenInv, Quiet
  <2>8. CASE d = c
    <3>1. count'[d] = 0
      BY <2>5, <2>6, <2>8 DEF UnwrittenInv
    <3>2. client'[d] \in {"write", "failed"}
      BY <1>c, <2>6, <2>8
    <3>3. client'[d] = "write" => fd'[d] = name' /\ text'[name'] = Empty
      BY SMTT(30), <1>c, <2>1, <2>2, <2>6, <2>8
    <3> QED BY SMTT(30), <2>4, <2>5, <2>7, <3>1, <3>2, <3>3 DEF Command
  <2>9. CASE d # c
    <3>1. d \in alone /\ d \notin InSession
      BY SMTT(30), <2>3, <2>9 DEF Quiet
    <3>2. Command(d) /\ client[d] \in {"done", "failed"}
      BY <1>c, <3>1 DEF Command, CommandInv, InSession
    <3>3. client'[d] = client[d]
      BY <1>c, <2>6, <2>9
    <3>4. ~Underway(d)
      BY <2>3, <2>7 DEF Underway, Quiet
    <3> QED BY <2>4, <2>5, <2>7, <3>2, <3>3, <3>4 DEF Command
  <2> QED BY <2>8, <2>9
<1>2. ASSUME NEW c \in Clients, Write(c) PROVE Command(d)'
  <2>1. alone' = alone /\ d \in alone /\ c \in InSession
    BY <1>2 DEF Write, InSession
  <2>2. c \in alone /\ ~pending /\ Active = {} /\ \A b \in Clients : b # c => b \notin InSession
    BY <2>1, <1>0 DEF LoneInv, InSession
  <2>3. \A h \in Handlers : handler[h] = "off" /\ cmd[h] = Null
    BY <2>2 DEF OpenInv, Active
  <2>4. ~Underway(d) /\ \A h \in Handlers : cmd[h] # d
    BY <2>2, <2>3, ClientsAssumption DEF Underway
  <2>5. Command(c) /\ Command(d) /\ (d # c => client[d] \in {"done", "failed"})
    BY ZenonT(60), <2>1, <2>2, <1>c DEF CommandInv, Command, InSession
  <2>6. UNCHANGED <<count, cmd, target, starts, service, name>>
    BY <1>2 DEF Write
  <2>7. client[c] = "write" /\ client' = [client EXCEPT ![c] = "pid"]
    BY <1>2 DEF Write
  <2>8. fd[c] = name /\ name \in Inodes /\ text[name] = Empty
    BY <2>5, <2>7, <1>f DEF OpenInv, Command
  <2>9. text' = [text EXCEPT ![name] = c]
    BY <1>2, <2>8 DEF Write
  <2>10. text'[name] = c /\ name # Null
    BY <2>8, <2>9, <1>f, NullAssumption
  <2>11. Lies(c)' /\ (d # c => ~Lies(d)')
    BY <2>6, <2>10 DEF Lies
  <2>12. CASE d = c
    <3>1. count[d] = 0 /\ client'[d] = "pid"
      BY <1>c, <2>7, <2>12 DEF UnwrittenInv
    <3> QED BY <2>4, <2>6, <2>11, <2>12, <3>1 DEF Command
  <2>13. CASE d # c
    <3>1. client'[d] = client[d]
      BY SMTT(30), <2>7, <2>13, <1>c
    <3> QED BY ZenonT(60), <2>4, <2>5, <2>6, <2>11, <2>13, <3>1 DEF Command
  <2> QED BY <2>12, <2>13
<1>3. ASSUME NEW c \in Clients, ReadPid(c) PROVE Command(d)'
  <2>1. alone' = alone /\ d \in alone /\ c \in InSession
    BY SMTT(30), <1>3 DEF ReadPid, InSession
  <2>2. c \in alone /\ ~pending /\ Active = {} /\ \A b \in Clients : b # c => b \notin InSession
    BY <2>1, <1>0 DEF LoneInv, InSession
  <2>3. \A h \in Handlers : handler[h] = "off" /\ cmd[h] = Null
    BY <2>2 DEF OpenInv, Active
  <2>4. ~Underway(d) /\ \A h \in Handlers : cmd[h] # d
    BY <2>2, <2>3, ClientsAssumption DEF Underway
  <2>5. Command(c) /\ Command(d) /\ (d # c => client[d] \in {"done", "failed"})
    BY <2>1, <2>2, <1>c DEF CommandInv, Command, InSession
  <2>6. UNCHANGED <<count, cmd, starts, service, name, text, pending, handler>>
    BY Zenon, <1>3 DEF ReadPid
  <2>7. Lies(c) /\ (d # c => ~Lies(d)) /\ (Lies(d)' <=> Lies(d))
    BY Zenon, <1>3, <2>5, <2>6 DEF ReadPid, Command, Lies
  <2>8. CASE d = c
    <3>1. count[d] = 0
      BY Zenon, <2>5, <2>7, <2>8 DEF Command
    <3>2. client'[d] \in {"failed", "kill"} /\ \A b \in Clients : b # c => client'[b] = client[b]
      BY <1>3, <1>c, <2>8 DEF ReadPid
    <3>3. client'[d] = "failed" => Quiet'
      BY Zenon, <2>2, <2>3, <2>6, <2>8, <3>2 DEF Quiet, InSession
    <3> QED BY <2>4, <2>6, <2>7, <2>8, <3>1, <3>2, <3>3 DEF Command
  <2>9. CASE d # c
    <3>1. client'[d] = client[d] /\ target'[d] = target[d]
      BY <1>3, <1>c, <2>9 DEF ReadPid
    <3> QED BY Zenon, <2>4, <2>5, <2>6, <2>7, <2>9, <3>1 DEF Command
  <2> QED BY <2>8, <2>9
<1>4. ASSUME NEW c \in Clients, Kill(c) PROVE Command(d)'
  <2>1. alone' = alone /\ d \in alone /\ c \in InSession
    BY SMTT(30), <1>4 DEF Kill, InSession
  <2>2. c \in alone /\ ~pending /\ Active = {} /\ \A b \in Clients : b # c => b \notin InSession
    BY <2>1, <1>0 DEF LoneInv, InSession
  <2>3. \A h \in Handlers : handler[h] = "off" /\ cmd[h] = Null
    BY <2>2 DEF OpenInv, Active
  <2>4. ~Underway(d) /\ \A h \in Handlers : cmd[h] # d
    BY <2>2, <2>3, ClientsAssumption DEF Underway
  <2>5. Command(c) /\ Command(d) /\ (d # c => client[d] \in {"done", "failed"})
    BY <2>1, <2>2, <1>c DEF CommandInv, Command, InSession
  <2>6. UNCHANGED <<count, cmd, starts, name, text, target>>
    BY Zenon, <1>4 DEF Kill
  <2>7. Lies(c) /\ (d # c => ~Lies(d)) /\ (Lies(d)' <=> Lies(d))
    BY Zenon, <1>4, <2>5, <2>6 DEF Kill, Command, Lies
  <2>8. /\ client' = [client EXCEPT ![c] = "done"]
        /\ service' \in {"armed", "up"} => service' = service /\ (target[c] = starts => pending')
    BY ZenonT(60), <1>4 DEF Kill, Handling
  <2>9. CASE d = c
    <3>1. count[d] = 0 /\ client'[d] = "done"
      BY Zenon, <1>c, <2>5, <2>7, <2>8, <2>9 DEF Command
    <3>2. pending' => Underway(d)'
      BY Zenon, <2>7, <2>9 DEF Underway
    <3> QED BY SMTT(30), <2>4, <2>6, <2>7, <2>8, <2>9, <3>1, <3>2 DEF Command
  <2>10. CASE d # c
    <3>1. client'[d] = client[d]
      BY Zenon, <1>c, <2>8, <2>10
    <3> QED BY Zenon, <2>4, <2>5, <2>6, <2>7, <2>8, <2>10, <3>1 DEF Command
  <2> QED BY <2>9, <2>10
<1>5. ASSUME NEW h \in Handlers, Deliver(h) PROVE Command(d)'
  <2>1. alone' = alone /\ d \in alone /\ pending
    BY <1>5 DEF Deliver
  <2>2. InSession = {} /\ ~Quiet
    BY <2>1, <1>0 DEF LoneInv, Quiet
  <2>3. Command(d) /\ client[d] \in {"done", "failed"}
    BY Zenon, <2>1, <2>2, <1>c DEF CommandInv, Command, InSession
  <2>4. client[d] = "failed" => ~Lies(d)
    BY <2>2, <2>3 DEF Command
  <2>5. UNCHANGED <<client, target, starts, service, name, text, cmd, count>>
    BY <1>5 DEF Deliver
  <2>6. handler'[h] = "open" /\ \A g \in Handlers : g # h => handler'[g] = handler[g]
    BY <1>5, <1>h DEF Deliver
  <2>7. (Lies(d)' <=> Lies(d)) /\ (Underway(d) => Underway(d)')
    BY <2>5, <2>6 DEF Lies, Underway
  <2> QED BY Zenon, <2>3, <2>4, <2>5, <2>7 DEF Command
<1>6. ASSUME NEW h \in Handlers, OpenForRead(h) PROVE Command(d)'
  <2>1. alone' = alone /\ d \in alone /\ h \in Active
    BY <1>6 DEF OpenForRead, Active
  <2>2. InSession = {} /\ ~pending /\ \A g \in Handlers : g # h => g \notin Active
    BY <2>1, <1>0 DEF LoneInv
  <2>3. ~Quiet
    BY Zenon, <2>1 DEF Quiet, Active
  <2>4. Command(d) /\ client[d] \in {"done", "failed"}
    BY SMTT(30), <2>1, <2>2, <1>c DEF CommandInv, Command, InSession
  <2>5. \A g \in Handlers : g # h => handler[g] = "off" /\ cmd[g] = Null
    BY <2>2 DEF Active, OpenInv
  <2>6. UNCHANGED <<client, target, starts>>
    BY SMTT(30), <1>6 DEF OpenForRead
  <2>7. client[d] = "failed" => ~Lies(d)
    BY SMTT(30), <2>3, <2>4 DEF Command
  <2>8. UNCHANGED <<service, name, text, cmd, count>>
    BY <1>6 DEF OpenForRead
  <2>9. handler'[h] = IF name = Null THEN "off" ELSE "read"
    BY <1>6, <1>h DEF OpenForRead
  <2>10. Lies(d)' <=> Lies(d)
    BY <2>8 DEF Lies
  <2>11. Underway(d) => Underway(d)'
    BY Zenon, <2>2, <2>5, <2>8, <2>9 DEF Lies, Underway
  <2> QED BY Zenon, <2>4, <2>6, <2>7, <2>8, <2>10, <2>11 DEF Command
<1>7. ASSUME NEW h \in Handlers, Read(h) PROVE Command(d)'
  <2>1. alone' = alone /\ d \in alone /\ h \in Active
    BY <1>7 DEF Read, Active
  <2>2. InSession = {} /\ ~pending /\ \A g \in Handlers : g # h => g \notin Active
    BY <2>1, <1>0 DEF LoneInv
  <2>3. ~Quiet
    BY <2>1 DEF Quiet, Active
  <2>4. Command(d) /\ client[d] \in {"done", "failed"}
    BY <2>1, <2>2, <1>c DEF CommandInv, Command, InSession
  <2>5. \A g \in Handlers : g # h => handler[g] = "off" /\ cmd[g] = Null
    BY <2>2 DEF Active, OpenInv
  <2>6. UNCHANGED <<client, target, starts>>
    BY <1>7 DEF Read
  <2>7. client[d] = "failed" => ~Lies(d)
    BY <2>3, <2>4 DEF Command
  <2>8. UNCHANGED <<service, name, text, count>>
    BY Zenon, <1>7 DEF Read
  <2>9. file[h] = name /\ name # Null /\ cmd[h] = Null
    BY Zenon, <1>7, <1>0, <2>1 DEF Read, LoneInv, OpenInv
  <2>10. (Lies(d)' <=> Lies(d)) /\ (Lies(d) <=> text[name] = d)
    BY <2>8, <2>9 DEF Lies
  <2>11. /\ \A g \in Handlers : g # h => cmd'[g] = cmd[g]
         /\ cmd'[h] = IF text[name] = Empty THEN Null
                      ELSE IF text[name] \in Long THEN Cut ELSE text[name]
    BY <1>7, <1>m, <2>9 DEF Read
  <2>12. d # Null /\ d # Empty /\ d # Cut
    BY ClientsAssumption
  <2>13. \A g \in Handlers : cmd'[g] = d <=> g = h /\ Lies(d) /\ d \notin Long
    BY Zenon, <2>5, <2>10, <2>11, <2>12
  <2>14. Underway(d) => Lies(d)
    BY Zenon, <2>5, <2>9, <2>12 DEF Underway
  <2>15. Lies(d) => (d \notin Long => Underway(d)') /\ count[d] = 0
    BY Zenon, <2>4, <2>13 DEF Underway, Command
  <2> QED BY Zenon, <2>4, <2>6, <2>7, <2>8, <2>10, <2>13, <2>14, <2>15 DEF Command
<1>8. ASSUME NEW h \in Handlers, Delete(h) PROVE Command(d)'
  <2>1. alone' = alone /\ d \in alone /\ h \in Active
    BY SMTT(30), <1>8 DEF Delete, Active
  <2>2. InSession = {} /\ ~pending /\ \A g \in Handlers : g # h => g \notin Active
    BY <2>1, <1>0 DEF LoneInv
  <2>3. ~Quiet
    BY <2>1 DEF Quiet, Active
  <2>4. Command(d) /\ client[d] \in {"done", "failed"}
    BY <2>1, <2>2, <1>c DEF CommandInv, Command, InSession
  <2>5. \A g \in Handlers : g # h => handler[g] = "off" /\ cmd[g] = Null
    BY <2>2 DEF Active, OpenInv
  <2>6. UNCHANGED <<client, target, starts>>
    BY <1>8 DEF Delete
  <2>7. client[d] = "failed" => ~Lies(d)
    BY <2>3, <2>4 DEF Command
  <2>8. UNCHANGED <<service, cmd, count>> /\ name' = Null /\ handler[h] = "delete"
    BY <1>8 DEF Delete
  <2>9. ~Lies(d)'
    BY <2>8 DEF Lies
  <2>10. Underway(d) => Underway(d)'
    BY <2>2, <2>5, <2>8 DEF Underway
  <2> QED BY Zenon, <2>4, <2>6, <2>8, <2>9, <2>10 DEF Command
<1>9. ASSUME NEW h \in Handlers, Dispatch(h) PROVE Command(d)'
  <2>1. alone' = alone /\ d \in alone /\ h \in Active
    BY SMTT(30), <1>9 DEF Dispatch, Active
  <2>2. InSession = {} /\ ~pending /\ \A g \in Handlers : g # h => g \notin Active
    BY <2>1, <1>0 DEF LoneInv
  <2>3. ~Quiet
    BY <2>1 DEF Quiet, Active
  <2>4. Command(d) /\ client[d] \in {"done", "failed"}
    BY <2>1, <2>2, <1>c DEF CommandInv, Command, InSession
  <2>5. \A g \in Handlers : g # h => handler[g] = "off" /\ cmd[g] = Null
    BY <2>2 DEF Active, OpenInv
  <2>6. UNCHANGED <<client, target, starts>>
    BY SMTT(30), <1>9 DEF Dispatch
  <2>7. client[d] = "failed" => ~Lies(d)
    BY <2>3, <2>4 DEF Command
  <2>8. ~Lies(d) /\ ~Lies(d)'
    BY SMTT(30), <1>9, <1>0, <2>1 DEF Dispatch, LoneInv, Lies
  <2>9. cmd'[h] = Null /\ d # Null /\ \A g \in Handlers : g # h => cmd'[g] = cmd[g]
    BY <1>9, <1>m, ClientsAssumption DEF Dispatch
  <2>10. \A g \in Handlers : cmd'[g] # d
    BY <2>5, <2>9
  <2>11. \/ count' = [count EXCEPT ![cmd[h]] = @ + 1]
         \/ count' = count /\ cmd[h] \in Stops
    BY Zenon, <1>9 DEF Dispatch
  <2>12. CASE cmd[h] = d
    <3>1. count[d] = 0 /\ client[d] = "done"
      BY ZenonT(60), <2>4, <2>12 DEF Command
    <3>2. count'[d] = 1 \/ (count'[d] = 0 /\ d \in Stops)
      BY <1>x, <2>11, <2>12, <3>1 DEF Texts
    <3> QED BY <2>6, <2>8, <2>10, <3>1, <3>2 DEF Command
  <2>13. CASE cmd[h] # d
    <3>1. ~Underway(d)
      BY SMTT(30), <2>2, <2>5, <2>8, <2>9, <2>13 DEF Underway
    <3>2. count'[d] = count[d]
      BY <1>x, <2>11, <2>13 DEF Texts
    <3>3. service' \in {"armed", "up"} => service' = service
      BY Zenon, <1>9 DEF Dispatch
    <3> QED BY Zenon, <2>4, <2>6, <2>8, <2>10, <3>1, <3>2, <3>3 DEF Command
  <2> QED BY <2>12, <2>13
<1>10. CASE CreatePidFile
  <2>1. alone' = alone /\ Command(d)
    BY <1>10 DEF CreatePidFile, CommandInv
  <2>2. UNCHANGED <<client, fd, target, name, text, pending, handler, cmd, count>>
    BY <1>10 DEF CreatePidFile
  <2>3. (Lies(d)' <=> Lies(d)) /\ (Quiet' <=> Quiet)
    BY <2>2 DEF Lies, Quiet, InSession
  <2>4. service' \notin {"armed", "up"}
    BY SMTT(30), <1>10 DEF CreatePidFile
  <2> QED BY Zenon, <2>1, <2>2, <2>3, <2>4 DEF Command
<1>11. CASE WritePidFile
  <2>1. alone' = alone /\ Command(d)
    BY <1>11 DEF WritePidFile, CommandInv
  <2>2. UNCHANGED <<client, fd, target, name, text, pending, handler, cmd, count>>
    BY <1>11 DEF WritePidFile
  <2>3. (Lies(d)' <=> Lies(d)) /\ (Quiet' <=> Quiet)
    BY <2>2 DEF Lies, Quiet, InSession
  <2>4. service' \notin {"armed", "up"}
    BY Zenon, <1>11 DEF WritePidFile
  <2> QED BY <2>1, <2>2, <2>3, <2>4 DEF Command
<1>12. CASE InstallHandler
  <2>1. alone' = alone /\ Command(d)
    BY <1>12 DEF InstallHandler, CommandInv
  <2>2. UNCHANGED <<client, fd, target, name, text, pending, handler, cmd, count>>
    BY <1>12 DEF InstallHandler
  <2>3. (Lies(d)' <=> Lies(d)) /\ (Quiet' <=> Quiet)
    BY <2>2 DEF Lies, Quiet, InSession
  <2>4. ~(client[d] = "done" /\ target[d] = starts) /\ starts' = starts
    BY Zenon, <1>12 DEF InstallHandler, PidInv
  <2> QED BY Zenon, <2>1, <2>2, <2>3, <2>4 DEF Command
<1>13. CASE Exit
  <2>1. alone' = alone /\ Command(d) /\ service' \notin {"armed", "up"}
    BY <1>13 DEF Exit, CommandInv
  <2>2. UNCHANGED <<client, fd, target, name, text, count>>
    BY <1>13 DEF Exit
  <2>3. ~pending' /\ \A h \in Handlers : handler'[h] = "off" /\ cmd'[h] # d
    BY Zenon, <1>13, ClientsAssumption DEF Exit
  <2>4. (Lies(d)' <=> Lies(d)) /\ (Quiet => Quiet')
    BY Zenon, <2>2, <2>3 DEF Lies, Quiet, InSession
  <2> QED BY Zenon, <2>1, <2>2, <2>3, <2>4 DEF Command
<1>14. CASE UNCHANGED vars
  <2>1. UNCHANGED <<client, fd, target, starts, service, name, text, pending, handler, cmd, count>>
    BY Zenon, <1>14 DEF vars
  <2>2. (Lies(d)' <=> Lies(d)) /\ (Quiet' <=> Quiet) /\ (Underway(d)' <=> Underway(d))
    BY Zenon, <2>1 DEF Lies, Quiet, InSession, Underway
  <2>3. Command(d)
    BY <1>14 DEF vars, CommandInv
  <2> QED BY Zenon, <2>1, <2>2, <2>3 DEF Command
<1>15. CASE SetRunning
  <2>1. alone' = alone /\ Command(d)
    BY Zenon, <1>15 DEF SetRunning, CommandInv
  <2>2. UNCHANGED <<client, fd, target, starts, name, text, pending, handler, cmd, count>>
    BY Zenon, <1>15 DEF SetRunning
  <2>3. (Lies(d)' <=> Lies(d)) /\ (Quiet' <=> Quiet) /\ (Underway(d)' <=> Underway(d))
    BY Zenon, <2>2 DEF Lies, Quiet, InSession, Underway
  <2>4. service = "armed" /\ service' = "up"
    BY Zenon, <1>15 DEF SetRunning
  <2> QED BY Zenon, <2>1, <2>2, <2>3, <2>4 DEF Command
<1>16. CASE HangUp
  BY Zenon, <1>0, <1>16 DEF HangUp
<1> QED
  BY Zenon, <1>1, <1>2, <1>3, <1>4, <1>5, <1>6, <1>7, <1>8, <1>9, <1>10, <1>11, <1>12, <1>13, <1>14, <1>15,
     <1>16
  DEF Next, ClientStep, HandlerStep

-----------------------------------------------------------------------------
(* Types *)

\* Every step keeps the types.
LEMMA TypeStep ==
  ASSUME TypeInv, OpenInv, PidInv, [Next]_vars
  PROVE  TypeInv'
<1> USE DEF TypeInv, fileVars, clientVars, serviceVars, handlerVars, historyVars
<1>1. ASSUME NEW c \in Clients, NEW valid \in BOOLEAN, Open(c, valid) PROVE TypeInv'
  <2>1. PICK i \in Opened :
          /\ name' = i
          /\ text' = [text EXCEPT ![i] = Empty]
          /\ fd' = [fd EXCEPT ![c] = IF valid THEN i ELSE Null]
    BY Zenon, <1>1 DEF Open
  <2>2. i \in Inodes
    BY Zenon DEF Opened, Unused
  <2>3. name' \in Inodes \cup {Null} /\ text' \in [Inodes -> Clients \cup {Empty, Garbled}]
        /\ fd' \in [Clients -> Inodes \cup {Null}]
    BY Zenon, <2>1, <2>2
  <2>4. client' \in [Clients -> {"begin", "write", "pid", "kill", "done", "failed"}]
    BY Zenon, <1>1 DEF Open
  <2>5. shared' \in BOOLEAN /\ alone' \subseteq Clients
    BY Zenon, <1>1 DEF Open
  <2>6. UNCHANGED <<target, pid_file, service, starts, hangups, pending, handler, file, cmd, count>>
    BY Zenon, <1>1 DEF Open
  <2> QED BY Zenon, <2>3, <2>4, <2>5, <2>6
<1>2. ASSUME NEW c \in Clients, Write(c) PROVE TypeInv'
  <2>1. PICK t \in {c, Garbled} : text' = [text EXCEPT ![fd[c]] = t]
    BY Zenon, <1>2 DEF Write
  <2>2. text' \in [Inodes -> Clients \cup {Empty, Garbled}]
    BY Zenon, <2>1
  <2> QED BY Zenon, <1>2, <2>2 DEF Write
<1>3. ASSUME NEW c \in Clients, ReadPid(c) PROVE TypeInv'
  BY SMTT(30), <1>3 DEF ReadPid
<1>4. ASSUME NEW c \in Clients, Kill(c) PROVE TypeInv'
  BY Zenon, <1>4 DEF Kill
<1>5. ASSUME NEW h \in Handlers, Deliver(h) PROVE TypeInv'
  BY Zenon, <1>5 DEF Deliver
<1>6. ASSUME NEW h \in Handlers, OpenForRead(h) PROVE TypeInv'
  BY Zenon, <1>6 DEF OpenForRead
<1>7. ASSUME NEW h \in Handlers, Read(h) PROVE TypeInv'
  <2>1. handler[h] = "read" /\ file[h] \in Inodes
    BY Zenon, <1>7 DEF Read, OpenInv
  <2>2. text[file[h]] \in Clients \cup {Empty, Garbled}
    BY Zenon, <2>1
  <2>3. cmd' \in [Handlers -> Texts \cup {Null}]
    BY Zenon, <1>7, <2>2 DEF Read, Texts
  <2> QED BY Zenon, <1>7, <2>3 DEF Read
<1>8. ASSUME NEW h \in Handlers, Delete(h) PROVE TypeInv'
  BY Zenon, <1>8 DEF Delete
<1>9. ASSUME NEW h \in Handlers, Dispatch(h) PROVE TypeInv'
  <2>1. cmd[h] \in Texts
    BY Zenon, <1>9 DEF Dispatch, OpenInv
  <2>2. count[cmd[h]] + 1 \in Nat
    BY <2>1
  <2>3. count' \in [Texts -> Nat]
    BY Zenon, <1>9, <2>2 DEF Dispatch
  <2> QED BY Zenon, <1>9, <2>3 DEF Dispatch
<1>10. CASE CreatePidFile
  <2>1. starts' = starts + 1 /\ starts < MaxStarts /\ starts \in Nat /\ MaxStarts \in Nat
    BY SMTT(30), <1>10, BoundsAssumption DEF CreatePidFile
  <2>2. starts' \in 0 .. MaxStarts /\ 0 .. starts \subseteq 0 .. starts'
    BY <2>1
  <2>3. target' \in [Clients -> 0 .. starts']
    BY Zenon, <1>10, <2>2 DEF CreatePidFile
  <2> QED BY Zenon, <1>10, <2>2, <2>3 DEF CreatePidFile
<1>11. CASE WritePidFile
  <2>1. starts \in 1 .. starts
    BY <1>11, BoundsAssumption DEF WritePidFile, PidInv
  <2> QED BY Zenon, <1>11, <2>1 DEF WritePidFile
<1>12. CASE InstallHandler
  BY Zenon, <1>12 DEF InstallHandler
<1>13. CASE Exit
  BY Zenon, <1>13 DEF Exit
<1>14. CASE UNCHANGED vars
  BY Zenon, <1>14 DEF vars
<1>15. CASE SetRunning
  BY Zenon, <1>15 DEF SetRunning
<1>16. CASE HangUp
  <2>1. hangups' \in 0 .. MaxHangUps
    BY SMTT(30), <1>16, BoundsAssumption DEF HangUp
  <2>2. pending' \in BOOLEAN /\ service' \in {service, "down"}
    BY SMTT(30), <1>16 DEF HangUp, Handling
  <2>3. service' \in {"down", "start", "pid", "armed", "up", "ending"}
    BY SMTT(30), <2>2
  <2> QED BY Zenon, <1>16, <2>1, <2>2, <2>3 DEF HangUp
<1> QED
  BY Zenon, <1>1, <1>2, <1>3, <1>4, <1>5, <1>6, <1>7, <1>8, <1>9, <1>10, <1>11, <1>12, <1>13, <1>14, <1>15,
     <1>16
  DEF Next, ClientStep, HandlerStep

-----------------------------------------------------------------------------
(* One thing at a time *)

\* While the clients run alone, one client, signal or handler is under way.
LEMMA LoneStep ==
  ASSUME TypeInv, LoneInv, [Next]_vars
  PROVE  LoneInv'
<1> USE DEF LoneInv, fileVars, clientVars, serviceVars, handlerVars, historyVars
<1> SUFFICES ASSUME alone' # {} PROVE LoneInv'
  BY Zenon
<1>0. alone' # {}
  BY Zenon
<1>t. /\ client \in [Clients -> {"begin", "write", "pid", "kill", "done", "failed"}]
      /\ handler \in [Handlers -> {"off", "open", "read", "delete", "dispatch"}]
      /\ file \in [Handlers -> Inodes \cup {Null}]
  BY Zenon DEF TypeInv
<1> USE <1>t
<1>1. ASSUME NEW c \in Clients, NEW valid \in BOOLEAN, Open(c, valid) PROVE LoneInv'
  <2>1. Quiet /\ alone' = alone \cup {c}
    BY Zenon, <1>0, <1>1 DEF Open
  <2>2. InSession' \subseteq {c}
    BY Zenon, <1>1, <2>1 DEF Open, Quiet, InSession
  <2>3. ~pending' /\ Active' = {} /\ \A h \in Handlers : handler'[h] = "off"
    BY Zenon, <1>1, <2>1 DEF Open, Quiet, Active
  <2> QED BY Zenon, <2>1, <2>2, <2>3
<1>2. ASSUME NEW c \in Clients, Write(c) PROVE LoneInv'
  <2>1. alone # {} /\ alone' = alone /\ c \in InSession /\ InSession' \subseteq InSession
    BY Zenon, <1>0, <1>2 DEF Write, InSession
  <2>2. ~pending' /\ Active' = {}
    BY Zenon, <1>2, <2>1 DEF Write, Active
  <2>3. \A h \in Handlers : handler'[h] = "off"
    BY Zenon, <2>2 DEF Active
  <2> QED BY Zenon, <2>1, <2>2, <2>3
<1>3. ASSUME NEW c \in Clients, ReadPid(c) PROVE LoneInv'
  <2>1. alone # {} /\ alone' = alone /\ c \in InSession /\ InSession' \subseteq InSession
    BY Zenon, <1>0, <1>3 DEF ReadPid, InSession
  <2>2. ~pending' /\ Active' = {}
    BY Zenon, <1>3, <2>1 DEF ReadPid, Active
  <2>3. \A h \in Handlers : handler'[h] = "off"
    BY <2>2 DEF Active
  <2> QED BY Zenon, <2>1, <2>2, <2>3
<1>4. ASSUME NEW c \in Clients, Kill(c) PROVE LoneInv'
  <2>1. alone # {} /\ alone' = alone /\ c \in InSession
    BY Zenon, <1>0, <1>4 DEF Kill, InSession
  <2>2. \A d \in Clients : d # c => d \notin InSession
    BY <2>1
  <2>3. InSession' = {}
    BY Zenon, <1>4, <2>2 DEF Kill, InSession
  <2>4. Active' = {}
    BY Zenon, <1>4, <2>1 DEF Kill, Active
  <2>5. \A h \in Handlers : handler'[h] = "off"
    BY Zenon, <2>4 DEF Active
  <2> QED BY Zenon, <2>1, <2>3, <2>4, <2>5
<1>5. ASSUME NEW h \in Handlers, Deliver(h) PROVE LoneInv'
  <2>1. alone # {} /\ pending /\ ~pending' /\ InSession' = InSession
    BY Zenon, <1>0, <1>5 DEF Deliver, InSession
  <2>2. InSession = {} /\ Active = {}
    BY Zenon, <2>1
  <2>3. handler' = [handler EXCEPT ![h] = "open"]
    BY Zenon, <1>5 DEF Deliver
  <2>4. \A g \in Handlers : handler'[g] = IF g = h THEN "open" ELSE "off"
    BY <2>2, <2>3 DEF Active
  <2>5. Active' = {h}
    BY Zenon, <2>4 DEF Active
  <2> QED BY Zenon, <2>1, <2>2, <2>4, <2>5
<1>6. ASSUME NEW h \in Handlers, OpenForRead(h) PROVE LoneInv'
  <2>1. alone # {} /\ h \in Active /\ InSession' = InSession /\ pending' = pending
    BY Zenon, <1>0, <1>6 DEF OpenForRead, InSession, Active
  <2>2. InSession = {} /\ ~pending /\ \A g \in Handlers : g # h => g \notin Active
    BY <2>1
  <2>3. handler'[h] \in {"off", "read"} /\ name' = name /\ (handler'[h] = "read" => file'[h] = name)
    BY Zenon, <1>6 DEF OpenForRead
  <2>4. \A g \in Handlers : g # h => handler'[g] = "off"
    BY Zenon, <1>6, <2>2 DEF OpenForRead, Active
  <2>5. Active' \subseteq {h}
    BY Zenon, <2>4 DEF Active
  <2> QED BY Zenon, <2>1, <2>2, <2>3, <2>4, <2>5
<1>7. ASSUME NEW h \in Handlers, Read(h) PROVE LoneInv'
  <2>1. alone # {} /\ h \in Active /\ InSession' = InSession /\ pending' = pending
    BY Zenon, <1>0, <1>7 DEF Read, InSession, Active
  <2>2. InSession = {} /\ ~pending /\ \A g \in Handlers : g # h => g \notin Active
    BY <2>1
  <2>3. handler'[h] \in {"off", "delete"}
    BY Zenon, <1>7 DEF Read
  <2>4. \A g \in Handlers : g # h => handler'[g] = "off"
    BY ZenonT(60), <1>7, <2>2 DEF Read, Active
  <2>5. Active' \subseteq {h}
    BY Zenon, <2>4 DEF Active
  <2> QED BY Zenon, <2>1, <2>2, <2>3, <2>4, <2>5
<1>8. ASSUME NEW h \in Handlers, Delete(h) PROVE LoneInv'
  <2>1. alone # {} /\ h \in Active /\ InSession' = InSession /\ pending' = pending
    BY Zenon, <1>0, <1>8 DEF Delete, InSession, Active
  <2>2. InSession = {} /\ ~pending /\ \A g \in Handlers : g # h => g \notin Active
    BY <2>1
  <2>3. handler'[h] \in {"dispatch"} /\ name' = Null
    BY Zenon, <1>8 DEF Delete
  <2>4. \A g \in Handlers : g # h => handler'[g] = "off"
    BY Zenon, <1>8, <2>2 DEF Delete, Active
  <2>5. Active' \subseteq {h}
    BY <2>4 DEF Active
  <2> QED BY Zenon, <2>1, <2>2, <2>3, <2>4, <2>5
<1>9. ASSUME NEW h \in Handlers, Dispatch(h) PROVE LoneInv'
  <2>1. alone # {} /\ h \in Active /\ InSession' = InSession /\ pending' = pending
    BY Zenon, <1>0, <1>9 DEF Dispatch, InSession, Active
  <2>2. InSession = {} /\ ~pending /\ \A g \in Handlers : g # h => g \notin Active
    BY <2>1
  <2>3. handler'[h] \in {"off"}
    BY Zenon, <1>9 DEF Dispatch
  <2>4. \A g \in Handlers : g # h => handler'[g] = "off"
    BY Zenon, <1>9, <2>2 DEF Dispatch, Active
  <2>5. Active' \subseteq {h}
    BY <2>4 DEF Active
  <2> QED BY Zenon, <2>1, <2>2, <2>3, <2>4, <2>5
<1>10. CASE CreatePidFile
  <2>1. InSession' = InSession /\ Active' = Active
    BY Zenon, <1>10 DEF CreatePidFile, InSession, Active
  <2>2. UNCHANGED <<alone, pending, handler, file, name>>
    BY Zenon, <1>10 DEF CreatePidFile
  <2> QED BY Zenon, <2>1, <2>2
<1>11. CASE WritePidFile
  <2>1. InSession' = InSession /\ Active' = Active
    BY Zenon, <1>11 DEF WritePidFile, InSession, Active
  <2>2. UNCHANGED <<alone, pending, handler, file, name>>
    BY Zenon, <1>11 DEF WritePidFile
  <2> QED BY <2>1, <2>2
<1>12. CASE InstallHandler
  <2>1. InSession' = InSession /\ Active' = Active
    BY Zenon, <1>12 DEF InstallHandler, InSession, Active
  <2>2. UNCHANGED <<alone, pending, handler, file, name>>
    BY Zenon, <1>12 DEF InstallHandler
  <2> QED BY <2>1, <2>2
<1>13. CASE Exit
  <2>1. InSession' = InSession /\ Active' = {}
    BY Zenon, <1>13 DEF Exit, InSession, Active
  <2>2. ~pending' /\ alone' = alone /\ \A h \in Handlers : handler'[h] = "off"
    BY Zenon, <1>13 DEF Exit
  <2> QED BY Zenon, <2>1, <2>2
<1>14. CASE UNCHANGED vars
  <2>1. InSession' = InSession /\ Active' = Active
    BY Zenon, <1>14 DEF vars, InSession, Active
  <2>2. UNCHANGED <<alone, pending, handler, file, name>>
    BY ZenonT(60), <1>14 DEF vars
  <2> QED BY <2>1, <2>2
<1>15. CASE SetRunning
  <2>1. InSession' = InSession /\ Active' = Active
    BY Zenon, <1>15 DEF SetRunning, InSession, Active
  <2>2. UNCHANGED <<alone, pending, handler, file, name>>
    BY Zenon, <1>15 DEF SetRunning
  <2> QED BY Zenon, <2>1, <2>2
<1>16. CASE HangUp
  BY Zenon, <1>0, <1>16 DEF HangUp
<1> QED
  BY Zenon, <1>1, <1>2, <1>3, <1>4, <1>5, <1>6, <1>7, <1>8, <1>9, <1>10, <1>11, <1>12, <1>13, <1>14, <1>15,
     <1>16
  DEF Next, ClientStep, HandlerStep

-----------------------------------------------------------------------------
(* Files that are open, commands that were read, processes that are known *)

\* A file stays open, and a command at hand, as long as the steps say.
LEMMA OpenStep ==
  ASSUME TypeInv, OpenInv, [Next]_vars
  PROVE  OpenInv'
<1>t. /\ name \in Inodes \cup {Null}
      /\ text \in [Inodes -> Clients \cup {Empty, Garbled}]
      /\ client \in [Clients -> {"begin", "write", "pid", "kill", "done", "failed"}]
      /\ fd \in [Clients -> Inodes \cup {Null}]
      /\ handler \in [Handlers -> {"off", "open", "read", "delete", "dispatch"}]
      /\ file \in [Handlers -> Inodes \cup {Null}]
      /\ cmd \in [Handlers -> Texts \cup {Null}]
  BY Zenon DEF TypeInv
<1> USE DEF fileVars, clientVars, serviceVars, handlerVars, historyVars
<1>1. ASSUME NEW c \in Clients, NEW valid \in BOOLEAN, Open(c, valid) PROVE OpenInv'
  <2>1. PICK i \in Opened :
          fd' = [fd EXCEPT ![c] = IF valid THEN i ELSE Null]
    BY Zenon, <1>1 DEF Open
  <2>2. i \in Inodes /\ i # Null
    BY Zenon, NullAssumption, <1>t DEF Opened, Unused
  <2>3. ASSUME NEW d \in Clients PROVE fd'[d] # Null <=> client'[d] = "write"
    BY Zenon, <1>1, <2>1, <2>2, <1>t DEF Open, OpenInv
  <2> QED BY ZenonT(60), <1>1, <2>3, <1>t DEF Open, OpenInv
<1>2. ASSUME NEW c \in Clients, Write(c) PROVE OpenInv'
  BY Zenon, <1>2, <1>t DEF Write, OpenInv
<1>3. ASSUME NEW c \in Clients, ReadPid(c) PROVE OpenInv'
  BY Zenon, <1>3, <1>t DEF ReadPid, OpenInv
<1>4. ASSUME NEW c \in Clients, Kill(c) PROVE OpenInv'
  BY Zenon, <1>4, <1>t DEF Kill, OpenInv
<1>5. ASSUME NEW h \in Handlers, Deliver(h) PROVE OpenInv'
  BY Zenon, <1>5, <1>t DEF Deliver, OpenInv
<1>6. ASSUME NEW h \in Handlers, OpenForRead(h) PROVE OpenInv'
  BY Zenon, <1>6, <1>t DEF OpenForRead, OpenInv
<1>7. ASSUME NEW h \in Handlers, Read(h) PROVE OpenInv'
  <2>1. file[h] \in Inodes /\ text[file[h]] # Null
    BY SMTT(30), <1>7, NullAssumption, ClientsAssumption, <1>t DEF Read, OpenInv
  <2>2. (IF text[file[h]] \in Long THEN Cut ELSE text[file[h]]) # Null
    BY Zenon, <2>1, NullAssumption
  <2> QED BY ZenonT(60), <1>7, <2>2, <1>t DEF Read, OpenInv
<1>8. ASSUME NEW h \in Handlers, Delete(h) PROVE OpenInv'
  BY Zenon, <1>8, <1>t DEF Delete, OpenInv
<1>9. ASSUME NEW h \in Handlers, Dispatch(h) PROVE OpenInv'
  BY Zenon, <1>9, <1>t DEF Dispatch, OpenInv
<1>10. CASE CreatePidFile
  BY Zenon, <1>10 DEF CreatePidFile, OpenInv
<1>11. CASE WritePidFile
  BY Zenon, <1>11 DEF WritePidFile, OpenInv
<1>12. CASE InstallHandler
  BY Zenon, <1>12 DEF InstallHandler, OpenInv
<1>13. CASE Exit
  BY Zenon, <1>13 DEF Exit, OpenInv
<1>14. CASE UNCHANGED vars
  BY Zenon, <1>14 DEF vars, OpenInv
<1>15. CASE SetRunning
  BY Zenon, <1>15 DEF SetRunning, OpenInv
<1>16. CASE HangUp
  BY Zenon, <1>16 DEF HangUp, OpenInv
<1> QED
  BY Zenon, <1>1, <1>2, <1>3, <1>4, <1>5, <1>6, <1>7, <1>8, <1>9, <1>10, <1>11, <1>12, <1>13, <1>14, <1>15,
     <1>16
  DEF Next, ClientStep, HandlerStep

\* The pid of a process is known only once it has written it.
LEMMA PidStep ==
  ASSUME TypeInv, PidInv, [Next]_vars
  PROVE  PidInv'
<1>t. /\ client \in [Clients -> {"begin", "write", "pid", "kill", "done", "failed"}]
      /\ target \in [Clients -> 0 .. starts]
      /\ starts \in 0 .. MaxStarts
  BY Zenon DEF TypeInv
<1> USE DEF fileVars, clientVars, serviceVars, handlerVars, historyVars
<1>1. ASSUME NEW c \in Clients, NEW valid \in BOOLEAN, Open(c, valid) PROVE PidInv'
  BY Zenon, <1>1, <1>t DEF Open, PidInv
<1>2. ASSUME NEW c \in Clients, Write(c) PROVE PidInv'
  BY Zenon, <1>2, <1>t DEF Write, PidInv
<1>3. ASSUME NEW c \in Clients, ReadPid(c) PROVE PidInv'
  BY Zenon, <1>3, <1>t DEF ReadPid, PidInv
<1>4. ASSUME NEW c \in Clients, Kill(c) PROVE PidInv'
  BY <1>4, <1>t DEF Kill, PidInv
<1>5. ASSUME NEW h \in Handlers, Deliver(h) PROVE PidInv'
  BY Zenon, <1>5 DEF Deliver, PidInv
<1>6. ASSUME NEW h \in Handlers, OpenForRead(h) PROVE PidInv'
  BY Zenon, <1>6 DEF OpenForRead, PidInv
<1>7. ASSUME NEW h \in Handlers, Read(h) PROVE PidInv'
  BY Zenon, <1>7 DEF Read, PidInv
<1>8. ASSUME NEW h \in Handlers, Delete(h) PROVE PidInv'
  BY Zenon, <1>8 DEF Delete, PidInv
<1>9. ASSUME NEW h \in Handlers, Dispatch(h) PROVE PidInv'
  BY Zenon, <1>9 DEF Dispatch, PidInv
<1>10. CASE CreatePidFile
  <2>1. starts \in Nat /\ starts' = starts + 1
    BY <1>10, BoundsAssumption, <1>t DEF CreatePidFile, PidInv
  <2>2. ASSUME NEW c \in Clients PROVE target'[c] < starts'
    BY SMTT(30), <1>10, <2>1, <1>t DEF CreatePidFile, PidInv
  <2> QED BY <1>10, <2>1, <2>2, <1>t DEF CreatePidFile, PidInv
<1>11. CASE WritePidFile
  BY Zenon, <1>11, <1>t DEF WritePidFile, PidInv
<1>12. CASE InstallHandler
  BY Zenon, <1>12 DEF InstallHandler, PidInv
<1>13. CASE Exit
  BY Zenon, <1>13 DEF Exit, PidInv
<1>14. CASE UNCHANGED vars
  BY Zenon, <1>14 DEF vars, PidInv
<1>15. CASE SetRunning
  BY Zenon, <1>15 DEF SetRunning, PidInv
<1>16. CASE HangUp
  BY Zenon, <1>16 DEF HangUp, Handling, PidInv
<1> QED
  BY Zenon, <1>1, <1>2, <1>3, <1>4, <1>5, <1>6, <1>7, <1>8, <1>9, <1>10, <1>11, <1>12, <1>13, <1>14, <1>15,
     <1>16
  DEF Next, ClientStep, HandlerStep

\* Without two clients at one file, no text is garbled.
LEMMA SharedStep ==
  ASSUME TypeInv, OpenInv, SharedInv, [Next]_vars
  PROVE  SharedInv'
<1>t. /\ name \in Inodes \cup {Null}
      /\ text \in [Inodes -> Clients \cup {Empty, Garbled}]
      /\ fd \in [Clients -> Inodes \cup {Null}]
      /\ file \in [Handlers -> Inodes \cup {Null}]
      /\ cmd \in [Handlers -> Texts \cup {Null}]
      /\ count \in [Texts -> Nat]
  BY Zenon DEF TypeInv
<1> USE DEF fileVars, clientVars, serviceVars, handlerVars, historyVars
<1>1. ASSUME NEW c \in Clients, NEW valid \in BOOLEAN, Open(c, valid) PROVE SharedInv'
  <2>1. PICK i \in Opened :
          /\ text' = [text EXCEPT ![i] = Empty]
          /\ fd' = [fd EXCEPT ![c] = IF valid THEN i ELSE Null]
    BY Zenon, <1>1 DEF Open
  <2>2. i \in Inodes /\ i # Null
    BY Zenon, NullAssumption, <1>t DEF Opened, Unused
  <2> SUFFICES ASSUME ~shared' PROVE SharedInv'
    BY ZenonT(60) DEF SharedInv
  <2>3. ~shared /\ \A d \in Clients : fd[d] = Null
    BY Zenon, <1>1, <1>t DEF Open, SharedInv
  <2>4. \A d \in Clients : fd'[d] # Null => d = c /\ fd'[d] = i
    BY Zenon, <2>1, <2>3, <1>t DEF SharedInv
  <2>5. text'[i] = Empty /\ \A j \in Inodes : text'[j] # Garbled
    BY Zenon, <2>1, <2>2, <2>3, NullAssumption, <1>t DEF SharedInv
  <2> QED BY ZenonT(60), <1>1, <2>3, <2>4, <2>5, <1>t DEF Open, SharedInv
<1>2. ASSUME NEW c \in Clients, Write(c) PROVE SharedInv'
  <2> SUFFICES ASSUME ~shared' PROVE SharedInv'
    BY Zenon DEF SharedInv
  <2>1. ~shared /\ fd[c] \in Inodes
    BY Zenon, <1>2, <1>t DEF Write, OpenInv, SharedInv
  <2>2. text[fd[c]] = Empty /\ \A d \in Clients : fd[d] # Null => d = c
    BY Zenon, <2>1, NullAssumption, <1>t DEF SharedInv
  <2>3. text' = [text EXCEPT ![fd[c]] = c] /\ c # Garbled
    BY Zenon, <1>2, <2>2, ClientsAssumption, <1>t DEF Write, SharedInv
  <2>4. \A i \in Inodes : text'[i] # Garbled
    BY Zenon, <2>1, <2>3, <1>t DEF SharedInv
  <2>5. \A d \in Clients : fd'[d] = Null
    BY Zenon, <1>2, <2>2, <1>t DEF Write, SharedInv
  <2> QED BY Zenon, <1>2, <2>1, <2>4, <2>5, <1>t DEF Write, SharedInv
<1>3. ASSUME NEW c \in Clients, ReadPid(c) PROVE SharedInv'
  BY Zenon, <1>3 DEF ReadPid, SharedInv
<1>4. ASSUME NEW c \in Clients, Kill(c) PROVE SharedInv'
  BY Zenon, <1>4 DEF Kill, SharedInv
<1>5. ASSUME NEW h \in Handlers, Deliver(h) PROVE SharedInv'
  BY Zenon, <1>5 DEF Deliver, SharedInv
<1>6. ASSUME NEW h \in Handlers, OpenForRead(h) PROVE SharedInv'
  BY Zenon, <1>6 DEF OpenForRead, SharedInv
<1>7. ASSUME NEW h \in Handlers, Read(h) PROVE SharedInv'
  <2>1. file[h] \in Inodes
    BY Zenon, <1>7, <1>t DEF Read, OpenInv
  <2>2. ~shared => (IF text[file[h]] \in Long THEN Cut ELSE text[file[h]]) # Garbled
    BY Zenon, <2>1, NullAssumption DEF SharedInv
  <2>3. ~shared => \A g \in Handlers : cmd'[g] # Garbled
    BY Zenon, <1>7, <2>2, <1>t DEF Read, SharedInv
  <2> QED BY Zenon, <1>7, <2>3 DEF Read, SharedInv
<1>8. ASSUME NEW h \in Handlers, Delete(h) PROVE SharedInv'
  BY Zenon, <1>8 DEF Delete, SharedInv
<1>9. ASSUME NEW h \in Handlers, Dispatch(h) PROVE SharedInv'
  <2> SUFFICES ASSUME ~shared' PROVE SharedInv'
    BY Zenon DEF SharedInv
  <2>1. ~shared /\ cmd[h] # Garbled
    BY Zenon, <1>9, <1>t DEF Dispatch, SharedInv
  <2>2. count'[Garbled] = 0
    BY Zenon, <1>9, <2>1, <1>t DEF Dispatch, SharedInv, Texts
  <2>3. \A g \in Handlers : cmd'[g] # Garbled
    BY Zenon, <1>9, <2>1, NullAssumption, <1>t DEF Dispatch, SharedInv
  <2> QED BY Zenon, <1>9, <2>1, <2>2, <2>3, <1>t DEF Dispatch, SharedInv
<1>10. CASE CreatePidFile
  BY Zenon, <1>10 DEF CreatePidFile, SharedInv
<1>11. CASE WritePidFile
  BY Zenon, <1>11 DEF WritePidFile, SharedInv
<1>12. CASE InstallHandler
  BY Zenon, <1>12 DEF InstallHandler, SharedInv
<1>13. CASE Exit
  BY Zenon, <1>13, NullAssumption DEF Exit, SharedInv
<1>14. CASE UNCHANGED vars
  BY Zenon, <1>14 DEF vars, SharedInv
<1>15. CASE SetRunning
  BY Zenon, <1>15 DEF SetRunning, SharedInv
<1>16. CASE HangUp
  BY Zenon, <1>16 DEF HangUp, SharedInv
<1> QED
  BY Zenon, <1>1, <1>2, <1>3, <1>4, <1>5, <1>6, <1>7, <1>8, <1>9, <1>10, <1>11, <1>12, <1>13, <1>14, <1>15,
     <1>16
  DEF Next, ClientStep, HandlerStep

\* A command is nowhere before its client has written it.
LEMMA UnwrittenStep ==
  ASSUME TypeInv, OpenInv, UnwrittenInv, [Next]_vars
  PROVE  UnwrittenInv'
<1>t. /\ name \in Inodes \cup {Null}
      /\ text \in [Inodes -> Clients \cup {Empty, Garbled}]
      /\ client \in [Clients -> {"begin", "write", "pid", "kill", "done", "failed"}]
      /\ file \in [Handlers -> Inodes \cup {Null}]
      /\ cmd \in [Handlers -> Texts \cup {Null}]
      /\ count \in [Texts -> Nat]
  BY Zenon DEF TypeInv
<1> USE DEF fileVars, clientVars, serviceVars, handlerVars, historyVars
<1>1. ASSUME NEW c \in Clients, NEW valid \in BOOLEAN, Open(c, valid) PROVE UnwrittenInv'
  <2>1. PICK i \in Opened : text' = [text EXCEPT ![i] = Empty]
    BY Zenon, <1>1 DEF Open
  <2>2. ASSUME NEW d \in Clients, client'[d] \in {"begin", "write"}
        PROVE  client[d] \in {"begin", "write"}
    BY Zenon, <1>1, <2>2, <1>t DEF Open, UnwrittenInv
  <2>3. ASSUME NEW d \in Clients, client[d] \in {"begin", "write"}, NEW j \in Inodes
        PROVE  text'[j] # d
    BY Zenon, <2>1, <2>3, ClientsAssumption, <1>t DEF UnwrittenInv
  <2> QED BY ZenonT(60), <1>1, <2>2, <2>3, <1>t DEF Open, UnwrittenInv
<1>2. ASSUME NEW c \in Clients, Write(c) PROVE UnwrittenInv'
  <2>1. PICK t \in {c, Garbled} : text' = [text EXCEPT ![fd[c]] = t]
    BY Zenon, <1>2 DEF Write
  <2>2. ASSUME NEW d \in Clients, client'[d] \in {"begin", "write"}
        PROVE  d # c /\ client[d] \in {"begin", "write"}
    BY Zenon, <1>2, <2>2, <1>t DEF Write, UnwrittenInv
  <2>3. ASSUME NEW d \in Clients, d # c, client[d] \in {"begin", "write"}, NEW j \in Inodes
        PROVE  text'[j] # d
    BY Zenon, <2>1, <2>3, ClientsAssumption, <1>t DEF UnwrittenInv
  <2> QED BY Zenon, <1>2, <2>2, <2>3, <1>t DEF Write, UnwrittenInv
<1>3. ASSUME NEW c \in Clients, ReadPid(c) PROVE UnwrittenInv'
  BY Zenon, <1>3, <1>t DEF ReadPid, UnwrittenInv
<1>4. ASSUME NEW c \in Clients, Kill(c) PROVE UnwrittenInv'
  BY Zenon, <1>4, <1>t DEF Kill, UnwrittenInv
<1>5. ASSUME NEW h \in Handlers, Deliver(h) PROVE UnwrittenInv'
  BY Zenon, <1>5 DEF Deliver, UnwrittenInv
<1>6. ASSUME NEW h \in Handlers, OpenForRead(h) PROVE UnwrittenInv'
  BY Zenon, <1>6 DEF OpenForRead, UnwrittenInv
<1>7. ASSUME NEW h \in Handlers, Read(h) PROVE UnwrittenInv'
  <2>1. file[h] \in Inodes
    BY Zenon, <1>7, <1>t DEF Read, OpenInv
  <2>2. ASSUME NEW d \in Clients, client[d] \in {"begin", "write"}
        PROVE  (IF text[file[h]] \in Long THEN Cut ELSE text[file[h]]) # d
    BY Zenon, <2>1, <2>2, ClientsAssumption DEF UnwrittenInv
  <2>3. ASSUME NEW d \in Clients, client[d] \in {"begin", "write"}, NEW g \in Handlers
        PROVE  cmd'[g] # d
    BY Zenon, <1>7, <2>2, <2>3, <1>t DEF Read, UnwrittenInv
  <2> QED BY Zenon, <1>7, <2>3 DEF Read, UnwrittenInv
<1>8. ASSUME NEW h \in Handlers, Delete(h) PROVE UnwrittenInv'
  BY Zenon, <1>8 DEF Delete, UnwrittenInv
<1>9. ASSUME NEW h \in Handlers, Dispatch(h) PROVE UnwrittenInv'
  <2>1. ASSUME NEW d \in Clients, client[d] \in {"begin", "write"} PROVE count'[d] = 0
    BY Zenon, <1>9, <2>1, <1>t DEF Dispatch, UnwrittenInv, Texts
  <2> QED BY Zenon, <1>9, <2>1, ClientsAssumption, <1>t DEF Dispatch, UnwrittenInv
<1>10. CASE CreatePidFile
  BY Zenon, <1>10 DEF CreatePidFile, UnwrittenInv
<1>11. CASE WritePidFile
  BY Zenon, <1>11 DEF WritePidFile, UnwrittenInv
<1>12. CASE InstallHandler
  BY Zenon, <1>12 DEF InstallHandler, UnwrittenInv
<1>13. CASE Exit
  BY Zenon, <1>13, ClientsAssumption DEF Exit, UnwrittenInv
<1>14. CASE UNCHANGED vars
  BY Zenon, <1>14 DEF vars, UnwrittenInv
<1>15. CASE SetRunning
  BY Zenon, <1>15 DEF SetRunning, UnwrittenInv
<1>16. CASE HangUp
  BY Zenon, <1>16 DEF HangUp, UnwrittenInv
<1> QED
  BY Zenon, <1>1, <1>2, <1>3, <1>4, <1>5, <1>6, <1>7, <1>8, <1>9, <1>10, <1>11, <1>12, <1>13, <1>14, <1>15,
     <1>16
  DEF Next, ClientStep, HandlerStep

\* The beginning of a command is nowhere before a long one was written.
LEMMA CutStep ==
  ASSUME TypeInv, OpenInv, UnwrittenInv, CutInv, [Next]_vars
  PROVE  CutInv'
<1>t. /\ client \in [Clients -> {"begin", "write", "pid", "kill", "done", "failed"}]
      /\ handler \in [Handlers -> {"off", "open", "read", "delete", "dispatch"}]
      /\ file \in [Handlers -> Inodes \cup {Null}]
      /\ cmd \in [Handlers -> Texts \cup {Null}]
      /\ count \in [Texts -> Nat]
  BY Zenon DEF TypeInv
<1> USE DEF fileVars, clientVars, serviceVars, handlerVars, historyVars
<1> SUFFICES ASSUME \A c \in Long : client'[c] \in {"begin", "write"}
             PROVE  count'[Cut] = 0 /\ \A h \in Handlers : cmd'[h] # Cut
  BY Zenon DEF CutInv
<1>1. \A c \in Long : client[c] \in {"begin", "write"}
  <2> SUFFICES ASSUME NEW d \in Long, client[d] \notin {"begin", "write"} PROVE FALSE
    BY Zenon
  <2>1. d \in Clients /\ client'[d] \in {"begin", "write"}
    BY Zenon, ClientsAssumption
  <2>2. ASSUME NEW c \in Clients, client[c] \in {"begin", "write", "pid", "kill"},
               NEW next \in {"write", "failed", "pid", "kill", "done"},
               client' = [client EXCEPT ![c] = next],
               client[c] # "begin" => next # "write"
        PROVE  FALSE
    BY SMTT(30), <2>1, <2>2, <1>t
  <2>3. ASSUME NEW c \in Clients, NEW valid \in BOOLEAN, Open(c, valid) PROVE FALSE
    BY Zenon, <2>2, <2>3 DEF Open
  <2>4. ASSUME NEW c \in Clients, ClientStep(c) PROVE FALSE
    BY ZenonT(60), <2>2, <2>4 DEF ClientStep, Write, ReadPid, Kill
  <2>5. client' # client
    BY Zenon, <2>1
  <2> QED
    BY ZenonT(60), <2>3, <2>4, <2>5
    DEF Next, HandlerStep, Deliver, OpenForRead, Read, Delete, Dispatch, CreatePidFile,
        WritePidFile, InstallHandler, SetRunning, Exit, HangUp, vars
<1>2. count[Cut] = 0 /\ \A h \in Handlers : cmd[h] # Cut
  BY Zenon, <1>1 DEF CutInv
<1>3. \A i \in Inodes : text[i] \notin Long /\ text[i] # Cut
  BY SMTT(30), <1>1, ClientsAssumption, NullAssumption DEF UnwrittenInv, TypeInv
<1>4. ASSUME NEW h \in Handlers, Read(h) PROVE count' = count /\ \A g \in Handlers : cmd'[g] # Cut
  <2>1. file[h] \in Inodes
    BY Zenon, <1>4, <1>t DEF Read, OpenInv
  <2> QED BY Zenon, <1>4, <2>1, <1>2, <1>3, <1>t DEF Read
<1>5. ASSUME NEW h \in Handlers, Dispatch(h)
      PROVE  count'[Cut] = 0 /\ \A g \in Handlers : cmd'[g] # Cut
  <2>1. count'[Cut] = 0
    BY Zenon, <1>5, <1>2, <1>t DEF Dispatch, Texts
  <2> QED BY Zenon, <1>5, <1>2, <2>1, NullAssumption, <1>t DEF Dispatch
<1>6. CASE Exit
  BY Zenon, <1>6, <1>2, NullAssumption DEF Exit
<1>7. CASE UNCHANGED <<count, cmd>>
  BY Zenon, <1>2, <1>7
<1> QED
  BY ZenonT(60), <1>2, <1>4, <1>5, <1>6, <1>7
  DEF Next, ClientStep, HandlerStep, Open, Write, ReadPid, Kill, Deliver, OpenForRead, Delete,
      CreatePidFile, WritePidFile, InstallHandler, SetRunning, HangUp, vars

-----------------------------------------------------------------------------
(* The signals *)

\* Handlers that run and clients that are done can be counted.
LEMMA SignalSets ==
  /\ IsFiniteSet(Active) /\ Cardinality(Active) \in Nat
  /\ IsFiniteSet(Done) /\ Cardinality(Done) \in Nat
<1>1. Active \in SUBSET Handlers /\ Done \in SUBSET Clients
  BY DEF Active, Done
<1>2. IsFiniteSet(Active) /\ IsFiniteSet(Done)
  BY <1>1, FiniteAssumption, FS_Subset
<1> QED BY Zenon, <1>2, FS_CardinalityType

\* Every handler takes a signal, and every signal a client that sent it.
LEMMA SignalStep ==
  ASSUME TypeInv, SignalInv, [Next]_vars
  PROVE  SignalInv'
<1> USE DEF SignalInv, fileVars, clientVars, serviceVars, handlerVars, historyVars
<1>c. client \in [Clients -> {"begin", "write", "pid", "kill", "done", "failed"}]
  BY Zenon DEF TypeInv
<1>h. handler \in [Handlers -> {"off", "open", "read", "delete", "dispatch"}]
  BY Zenon DEF TypeInv
<1>x. \A x \in Texts : count[x] \in Nat
  BY Zenon DEF TypeInv
<1>g. hangups \in Nat
  BY SMTT(30), BoundsAssumption DEF TypeInv
<1>1. ASSUME NEW c \in Clients, NEW valid \in BOOLEAN, Open(c, valid) PROVE SignalInv'
  <2>1. Active' = Active /\ Done' = Done
    BY Zenon, <1>1, <1>c DEF Open, Active, Done
  <2>2. UNCHANGED <<count, pending, hangups>>
    BY Zenon, <1>1 DEF Open
  <2> QED BY Zenon, <2>1, <2>2
<1>2. ASSUME NEW c \in Clients, Write(c) PROVE SignalInv'
  <2>1. Active' = Active /\ Done' = Done
    BY Zenon, <1>2, <1>c DEF Write, Active, Done
  <2>2. UNCHANGED <<count, pending, hangups>>
    BY Zenon, <1>2 DEF Write
  <2> QED BY Zenon, <2>1, <2>2
<1>3. ASSUME NEW c \in Clients, ReadPid(c) PROVE SignalInv'
  <2>1. Active' = Active /\ Done' = Done
    BY Zenon, <1>3, <1>c DEF ReadPid, Active, Done
  <2>2. UNCHANGED <<count, pending, hangups>>
    BY Zenon, <1>3 DEF ReadPid
  <2> QED BY Zenon, <2>1, <2>2
<1>4. ASSUME NEW c \in Clients, Kill(c) PROVE SignalInv'
  <2>1. Active' = Active /\ Done' = Done \cup {c} /\ c \notin Done
    BY Zenon, <1>4, <1>c DEF Kill, Active, Done
  <2>2. Cardinality(Done') = Cardinality(Done) + 1
    BY Zenon, <2>1, SignalSets, FS_AddElement
  <2>3. UNCHANGED <<count, hangups>>
    BY Zenon, <1>4 DEF Kill
  <2> QED BY SMTT(30), <2>1, <2>2, <2>3, <1>x, <1>g, SignalSets
<1>5. ASSUME NEW h \in Handlers, Deliver(h) PROVE SignalInv'
  <2>1. Active' = Active \cup {h} /\ h \notin Active /\ Done' = Done
    BY Zenon, <1>5, <1>h DEF Deliver, Active, Done
  <2>2. Cardinality(Active') = Cardinality(Active) + 1
    BY Zenon, <2>1, SignalSets, FS_AddElement
  <2>3. pending /\ ~pending' /\ UNCHANGED <<count, hangups>>
    BY Zenon, <1>5 DEF Deliver
  <2> QED BY SMTT(30), <2>1, <2>2, <2>3, <1>x, <1>g, SignalSets
<1>6. ASSUME NEW h \in Handlers, OpenForRead(h) PROVE SignalInv'
  <2>1. Active' \in {Active, Active \ {h}} /\ Done' = Done
    BY Zenon, <1>6, <1>h DEF OpenForRead, Active, Done
  <2>2. /\ IsFiniteSet(Active') /\ Cardinality(Active') <= Cardinality(Active)
        /\ Cardinality(Active') \in Nat
    <3>1. Active' \in SUBSET Active
      BY Zenon, <2>1
    <3> QED BY Zenon, <3>1, SignalSets, FS_Subset, FS_CardinalityType
  <2>3. UNCHANGED <<count, pending, hangups>>
    BY Zenon, <1>6 DEF OpenForRead
  <2> QED BY <2>1, <2>2, <2>3, <1>x, <1>g, SignalSets
<1>7. ASSUME NEW h \in Handlers, Read(h) PROVE SignalInv'
  <2>1. Active' \in {Active, Active \ {h}} /\ Done' = Done
    BY Zenon, <1>7, <1>h DEF Read, Active, Done
  <2>2. /\ IsFiniteSet(Active') /\ Cardinality(Active') <= Cardinality(Active)
        /\ Cardinality(Active') \in Nat
    <3>1. Active' \in SUBSET Active
      BY <2>1
    <3> QED BY SMTT(30), <3>1, SignalSets, FS_Subset, FS_CardinalityType
  <2>3. UNCHANGED <<count, pending, hangups>>
    BY Zenon, <1>7 DEF Read
  <2> QED BY <2>1, <2>2, <2>3, <1>x, <1>g, SignalSets
<1>8. ASSUME NEW h \in Handlers, Delete(h) PROVE SignalInv'
  <2>1. Active' = Active /\ Done' = Done
    BY SMTT(30), <1>8, <1>c DEF Delete, Active, Done
  <2>2. UNCHANGED <<count, pending, hangups>>
    BY Zenon, <1>8 DEF Delete
  <2> QED BY Zenon, <2>1, <2>2
<1>9. ASSUME NEW h \in Handlers, Dispatch(h) PROVE SignalInv'
  <2>1. Active' = Active \ {h} /\ h \in Active /\ Done' = Done
    BY Zenon, <1>9, <1>h DEF Dispatch, Active, Done
  <2>2. Cardinality(Active') = Cardinality(Active) - 1
    BY Zenon, <2>1, SignalSets, FS_RemoveElement
  <2>3. ASSUME NEW x \in Texts
        PROVE  count'[x] \in {count[x], count[x] + 1} /\ count[x] \in Nat
    BY Zenon, <1>9, <1>x DEF Dispatch, TypeInv
  <2>4. UNCHANGED <<pending, hangups>>
    BY Zenon, <1>9 DEF Dispatch
  <2> QED BY SMTT(30), <2>1, <2>2, <2>3, <2>4, <1>g, SignalSets
<1>10. CASE CreatePidFile
  <2>1. Active' = Active /\ Done' = Done
    BY Zenon, <1>10, <1>c DEF CreatePidFile, Active, Done
  <2>2. UNCHANGED <<count, pending, hangups>>
    BY Zenon, <1>10 DEF CreatePidFile
  <2> QED BY Zenon, <2>1, <2>2
<1>11. CASE WritePidFile
  <2>1. Active' = Active /\ Done' = Done
    BY Zenon, <1>11, <1>c DEF WritePidFile, Active, Done
  <2>2. UNCHANGED <<count, pending, hangups>>
    BY Zenon, <1>11 DEF WritePidFile
  <2> QED BY <2>1, <2>2
<1>12. CASE InstallHandler
  <2>1. Active' = Active /\ Done' = Done
    BY Zenon, <1>12, <1>c DEF InstallHandler, Active, Done
  <2>2. UNCHANGED <<count, pending, hangups>>
    BY Zenon, <1>12 DEF InstallHandler
  <2> QED BY <2>1, <2>2
<1>13. CASE Exit
  <2>1. Active' = {} /\ Done' = Done
    BY Zenon, <1>13, <1>h DEF Exit, Active, Done
  <2>2. Cardinality(Active') = 0
    BY <2>1, FS_EmptySet
  <2>3. ~pending' /\ UNCHANGED <<count, hangups>>
    BY Zenon, <1>13 DEF Exit
  <2> QED BY SMTT(30), <2>1, <2>2, <2>3, <1>x, <1>g, SignalSets
<1>14. CASE UNCHANGED vars
  <2>1. Active' = Active /\ Done' = Done
    BY Zenon, <1>14, <1>c DEF vars, Active, Done
  <2>2. UNCHANGED <<count, pending, hangups>>
    BY Zenon, <1>14 DEF vars
  <2> QED BY <2>1, <2>2
<1>15. CASE SetRunning
  <2>1. Active' = Active /\ Done' = Done
    BY Zenon, <1>15, <1>c DEF SetRunning, Active, Done
  <2>2. count' = count /\ pending' = pending /\ hangups' = hangups
    BY Zenon, <1>15 DEF SetRunning
  <2> QED BY Zenon, <2>1, <2>2
<1>16. CASE HangUp
  <2>1. Active' = Active /\ Done' = Done
    BY Zenon, <1>16 DEF HangUp, Active, Done
  <2>2. count' = count /\ ~pending /\ hangups' = hangups + 1
    BY Zenon, <1>16 DEF HangUp
  <2> QED BY SMTT(30), <2>1, <2>2, <1>x, <1>g, SignalSets
<1> QED
  BY Zenon, <1>1, <1>2, <1>3, <1>4, <1>5, <1>6, <1>7, <1>8, <1>9, <1>10, <1>11, <1>12, <1>13, <1>14, <1>15,
     <1>16
  DEF Next, ClientStep, HandlerStep

-----------------------------------------------------------------------------
(* The theorems *)

\* No command has been given and nothing is counted at the start.
LEMMA InitInv == Init => IndInv
<1> SUFFICES ASSUME Init PROVE IndInv
  OBVIOUS
<1>1. TypeInv
  <2>1. starts = 0 /\ starts \in 0 .. MaxStarts /\ target \in [Clients -> 0 .. starts]
    BY BoundsAssumption DEF Init
  <2>0. hangups \in 0 .. MaxHangUps
    BY BoundsAssumption DEF Init
  <2>2. count \in [Texts -> Nat]
    BY DEF Init
  <2>3. /\ name \in Inodes \cup {Null} /\ text \in [Inodes -> Clients \cup {Empty, Garbled}]
        /\ client \in [Clients -> {"begin", "write", "pid", "kill", "done", "failed"}]
        /\ fd \in [Clients -> Inodes \cup {Null}]
    BY Zenon DEF Init
  <2>4. /\ pid_file \in (1 .. starts) \cup {Null, Empty}
        /\ service \in {"down", "start", "pid", "armed", "up", "ending"} /\ pending \in BOOLEAN
        /\ handler \in [Handlers -> {"off", "open", "read", "delete", "dispatch"}]
        /\ file \in [Handlers -> Inodes \cup {Null}]
        /\ cmd \in [Handlers -> Texts \cup {Null}]
        /\ shared \in BOOLEAN /\ alone \subseteq Clients
    BY Zenon DEF Init
  <2> QED BY Zenon, <2>0, <2>1, <2>2, <2>3, <2>4 DEF TypeInv
<1>2. SignalInv
  <2>1. Active = {} /\ Cardinality(Active) = 0
    BY SMTT(30), FS_EmptySet DEF Init, Active
  <2>2. ~pending /\ hangups = 0 /\ \A x \in Texts : count[x] = 0
    BY DEF Init
  <2> QED BY SMTT(30), <2>1, <2>2, SignalSets DEF SignalInv
<1>3. OpenInv /\ PidInv
  BY Zenon DEF Init, OpenInv, PidInv
<1>4. SharedInv
  BY Zenon, NullAssumption DEF Init, SharedInv, Texts
<1>5. UnwrittenInv
  BY Zenon, ClientsAssumption DEF Init, UnwrittenInv, Texts
<1>6. LoneInv /\ CommandInv
  BY DEF Init, LoneInv, CommandInv
<1>7. CutInv
  BY Zenon, NullAssumption DEF Init, CutInv, Texts
<1> QED BY <1>1, <1>2, <1>3, <1>4, <1>5, <1>6, <1>7 DEF IndInv

\* Every step keeps the inductive invariant.
LEMMA StepInv == IndInv /\ [Next]_vars => IndInv'
<1> SUFFICES ASSUME IndInv, [Next]_vars PROVE IndInv'
  OBVIOUS
<1> USE DEF IndInv
<1>1. TypeInv' /\ OpenInv' /\ PidInv'
  BY TypeStep, OpenStep, PidStep
<1>2. SignalInv' /\ SharedInv' /\ UnwrittenInv' /\ CutInv' /\ LoneInv'
  BY SignalStep, SharedStep, UnwrittenStep, CutStep, LoneStep
<1>3. CommandInv'
  <2>1. \A d \in alone' : d \in Clients
    BY Zenon, <1>1 DEF TypeInv
  <2>2. \A d \in alone' : Command(d)'
    BY <2>1, CommandStep
  <2> QED BY Zenon, <2>2 DEF CommandInv
<1> QED BY <1>1, <1>2, <1>3

\* The inductive invariant implies the type invariant and the three properties.
LEMMA InvImplies == IndInv => TypeOK /\ ServedOnce /\ FailedNotServed /\ WholeCommands
<1> SUFFICES ASSUME IndInv PROVE TypeOK /\ ServedOnce /\ FailedNotServed /\ WholeCommands
  OBVIOUS
<1> USE DEF IndInv
<1>1. TypeOK
  <2>1. Cardinality(Clients) \in Nat /\ Cardinality(Done) <= Cardinality(Clients)
    <3>1. Done \in SUBSET Clients
      BY DEF Done
    <3> QED BY SMTT(30), <3>1, FiniteAssumption, FS_Subset, FS_CardinalityType
  <2>2. ASSUME NEW x \in Texts PROVE count[x] \in 0 .. Cardinality(Clients) + MaxHangUps
    <3>1. count[x] \in Nat /\ hangups \in 0 .. MaxHangUps
      BY Zenon DEF TypeInv
    <3>2. count[x] <= Cardinality(Done) + hangups
      BY SMTT(30), <3>1, BoundsAssumption, SignalSets DEF SignalInv
    <3> QED BY SMTT(30), <2>1, <3>1, <3>2, BoundsAssumption, SignalSets
  <2> QED BY Zenon, <2>2 DEF TypeInv, TypeOK
<1>2. ServedOnce
  <2> SUFFICES ASSUME NEW c \in alone
               PROVE  /\ count[c] <= 1
                      /\ /\ c \notin Stops \cup Long
                         /\ client[c] = "done" /\ Quiet /\ service = "up" /\ target[c] = starts
                         => count[c] = 1
    BY Zenon DEF ServedOnce
  <2>1. Command(c) /\ c \in Clients
    BY Zenon DEF CommandInv, TypeInv
  <2>2. Quiet => ~Underway(c)
    <3> SUFFICES ASSUME Quiet PROVE ~Underway(c)
      OBVIOUS
    <3>1. \A h \in Handlers : handler[h] = "off" /\ cmd[h] = Null
      BY Zenon DEF Quiet, OpenInv
    <3> QED BY Zenon, <2>1, <3>1, ClientsAssumption DEF Quiet, Underway
  <2> QED BY Zenon, <2>1, <2>2 DEF Command
<1>3. FailedNotServed
  BY Zenon DEF FailedNotServed, CommandInv, Command
<1>4. WholeCommands
  <2>1. ~shared => count[Garbled] = 0
    BY Zenon DEF SharedInv
  <2>2. count[Garbled] \in Nat /\ count[Cut] \in Nat
    BY Zenon DEF TypeInv, Texts
  <2>3. count[Cut] = 0 \/ \E c \in Long : client[c] \notin {"begin", "write"}
    BY Zenon DEF CutInv
  <2>4. count[Garbled] > 0 => count[Garbled] # 0
    BY <2>2
  <2>5. count[Cut] > 0 => count[Cut] # 0
    BY <2>2
  <2> QED BY Zenon, <2>1, <2>3, <2>4, <2>5 DEF WholeCommands
<1> QED BY SMTT(30), <1>1, <1>2, <1>3, <1>4

\* IndInv holds in every state the clients, the signals and the service reach.
LEMMA Invariance == Spec => []IndInv
  BY InitInv, StepInv, PTL DEF Spec

\* The state of main.cc and of its clients keeps its type; no command is counted
\* more often than SIGHUPs were sent.
THEOREM TypeCorrect == Spec => []TypeOK
  BY Invariance, InvImplies, PTL

\* A command given while nothing else went on reaches the manager at most once,
\* and a reload or remove that fits the handler's buffer exactly once when its
\* signal went to the process that runs and all is quiet, as long as clients do
\* not overlap and nobody else sends a SIGHUP.
THEOREM ServedOnceHolds == Spec => []ServedOnce
  BY Invariance, InvImplies, PTL

\* A command that was given alone and whose client reported a failure is not
\* executed, as long as clients do not overlap and nobody else sends a SIGHUP.
THEOREM FailedNotServedHolds == Spec => []FailedNotServed
  BY Invariance, InvImplies, PTL

\* A mixture of commands reaches the manager only after two clients had the
\* control file open at once, and the beginning of a command only after a client
\* has written one that is longer than the handler's buffer.
THEOREM WholeCommandsHold == Spec => []WholeCommands
  BY Invariance, InvImplies, PTL

=============================================================================
