------------------------- MODULE ActorManagerProofs -------------------------
(***************************************************************************)
(* The manager never runs two coroutines of one module, and the process    *)
(* ends only when none runs: for all names, configurations, libraries,     *)
(* commands, mailbox sizes and bounds.                                     *)
(*                                                                         *)
(* A relaunch is safe because the exit report that triggers it is the last *)
(* trace of the old coroutine.  For a reload of all modules this rests on  *)
(* the pending set: while it is not empty, a child outside it has exited   *)
(* and its report was read (ReloadAllInv).                                 *)
(*                                                                         *)
(* While the manager's mailbox has room, a restart it promised is carried  *)
(* out, because the exit report comes after the crash report.  An entry of *)
(* the table goes dead only by a dropped report or by a reload.            *)
(***************************************************************************)
EXTENDS ActorManager, FiniteSetTheorems, SequenceTheorems, TLAPS

Exited(i) == [type |-> "exited", arg |-> i]

\* An exit report of i is in the mailbox m; there is at most one.
Reported(m, i) == \E k \in DOMAIN m : m[k] = Exited(i)
ReportedOnce(m, i) == \A k, l \in DOMAIN m : m[k] = Exited(i) /\ m[l] = Exited(i) => k = l

\* Nothing is left of the coroutines of i.
Quiet(i) == Live(i) = 0 /\ ~ Reported(mail, i)

\* A module has a coroutine or an exit report and never both; a module that is
\* not in the table has neither.
InstanceInv ==
  \A i \in Ids :
    /\ Live(i) <= 1
    /\ ReportedOnce(mail, i)
    /\ Reported(mail, i) => Live(i) = 0
    /\ i \notin DOMAIN childrens => Quiet(i)

\* Names and ids are used once.
NameInv ==
  /\ \A i, j \in DOMAIN childrens : childrens[i] = childrens[j] => i = j
  /\ \A i \in DOMAIN childrens : i < next_id

\* While a reload of all modules waits for some, the others are quiet.
ReloadAllInv ==
  reload_all_flag /\ pending_reload # {} =>
    \A i \in DOMAIN childrens : i \in pending_reload \/ Quiet(i)

\* The event loop ends with an empty table.
DoneInv == mpc = "done" => DOMAIN childrens = {}

IndInv ==
  TypeOK /\ PendingConsistent /\ InstanceInv /\ NameInv /\ ReloadAllInv /\ DoneInv

-----------------------------------------------------------------------------
(* The mailbox *)

\* A mail of type "exited" is an exit report, and no other mail is one.
LEMMA ExitedMail ==
  ASSUME NEW x \in Mail
  PROVE  /\ x.type = "exited" => x.arg \in Ids /\ x = Exited(x.arg)
         /\ x.type # "exited" => \A i : x # Exited(i)
<1>1. ASSUME x.type = "exited" PROVE x.arg \in Ids /\ x = Exited(x.arg)
  <2>1. x \in Report
    BY <1>1 DEF Mail, Command
  <2> QED BY <1>1, <2>1 DEF Report, Exited
<1>2. \A i : Exited(i).type = "exited"
  BY DEF Exited
<1> QED BY <1>1, <1>2

\* The commands and the reports are mail.
LEMMA MailTypes ==
  /\ \A c \in Commands : c \in Mail /\ c.type # "exited"
  /\ [type |-> "exit"] \in Mail /\ [type |-> "exit"].type # "exited"
  /\ \A i \in Ids : /\ [type |-> "crash", arg |-> i] \in Mail
                    /\ [type |-> "crash", arg |-> i].type # "exited"
                    /\ Exited(i) \in Mail
<1>1. ASSUME NEW c \in Commands PROVE c \in Mail /\ c.type # "exited"
  <2>1. c \in Command
    BY CommandAssumption
  <2> QED BY <2>1 DEF Mail, Command
<1>2. [type |-> "exit"] \in Mail /\ [type |-> "exit"].type # "exited"
  BY DEF Mail
<1>3. ASSUME NEW i \in Ids
      PROVE  /\ [type |-> "crash", arg |-> i] \in Mail
             /\ [type |-> "crash", arg |-> i].type # "exited"
             /\ Exited(i) \in Mail
  <2>1. [type |-> "crash", arg |-> i] \in Report /\ Exited(i) \in Report
    BY DEF Report, Exited
  <2> QED BY <2>1 DEF Mail
<1> QED BY <1>1, <1>2, <1>3

\* Sending something else adds no exit report.
LEMMA AppendOther ==
  ASSUME NEW m \in Seq(Mail), NEW x \in Mail, x.type # "exited", NEW i
  PROVE  /\ Append(m, x) \in Seq(Mail)
         /\ Reported(Append(m, x), i) => Reported(m, i)
         /\ ReportedOnce(m, i) => ReportedOnce(Append(m, x), i)
<1> DEFINE a == Append(m, x)
<1>1. x # Exited(i)
  BY ExitedMail
<1>2. /\ a \in Seq(Mail) /\ Len(m) \in Nat /\ DOMAIN m = 1 .. Len(m)
      /\ DOMAIN a = 1 .. Len(m) + 1 /\ a[Len(m) + 1] = x
      /\ \A k \in 1 .. Len(m) : a[k] = m[k]
  BY AppendProperties
<1> HIDE DEF a
<1>3. \A k \in DOMAIN a : a[k] = Exited(i) => k \in DOMAIN m /\ m[k] = Exited(i)
  BY <1>1, <1>2
<1>4. Reported(a, i) => Reported(m, i)
  BY <1>3 DEF Reported
<1>5. ReportedOnce(m, i) => ReportedOnce(a, i)
  BY <1>3 DEF ReportedOnce
<1> QED BY <1>2, <1>4, <1>5 DEF a

\* The first exit report of i, and none of another id.
LEMMA AppendExited ==
  ASSUME NEW m \in Seq(Mail), NEW i \in Ids, NEW j
  PROVE  /\ Append(m, Exited(i)) \in Seq(Mail)
         /\ j # i /\ Reported(Append(m, Exited(i)), j) => Reported(m, j)
         /\ j # i /\ ReportedOnce(m, j) => ReportedOnce(Append(m, Exited(i)), j)
         /\ ~ Reported(m, i) => ReportedOnce(Append(m, Exited(i)), i)
<1> DEFINE a == Append(m, Exited(i))
<1>1. j # i => Exited(i) # Exited(j)
  <2>1. Exited(i).arg = i /\ Exited(j).arg = j
    BY DEF Exited
  <2> QED BY <2>1
<1>2. /\ a \in Seq(Mail) /\ Len(m) \in Nat /\ DOMAIN m = 1 .. Len(m)
      /\ DOMAIN a = 1 .. Len(m) + 1 /\ a[Len(m) + 1] = Exited(i)
      /\ \A k \in 1 .. Len(m) : a[k] = m[k]
  <2>1. Exited(i) \in Mail
    BY Zenon, MailTypes
  <2>2. PICK x \in Mail : x = Exited(i)
    BY <2>1
  <2> QED BY <2>2, AppendProperties
<1> HIDE DEF a
<1>3. ASSUME j # i
      PROVE  \A k \in DOMAIN a : a[k] = Exited(j) => k \in DOMAIN m /\ m[k] = Exited(j)
  BY <1>1, <1>2, <1>3
<1>4. j # i /\ Reported(a, j) => Reported(m, j)
  BY <1>3 DEF Reported
<1>5. j # i /\ ReportedOnce(m, j) => ReportedOnce(a, j)
  BY <1>3 DEF ReportedOnce
<1>6. ASSUME ~ Reported(m, i) PROVE ReportedOnce(a, i)
  <2>1. \A k \in 1 .. Len(m) : a[k] # Exited(i)
    BY <1>2, <1>6 DEF Reported
  <2> QED BY <1>2, <2>1 DEF ReportedOnce
<1> QED BY SMTT(30), <1>2, <1>4, <1>5, <1>6 DEF a

\* Reading a mail: no exit report is added, and the one that is read was the
\* only one.
LEMMA TailMail ==
  ASSUME NEW m \in Seq(Mail), m # <<>>, NEW i
  PROVE  /\ Head(m) \in Mail /\ Tail(m) \in Seq(Mail)
         /\ Reported(Tail(m), i) => Reported(m, i)
         /\ ReportedOnce(m, i) => ReportedOnce(Tail(m), i)
         /\ Head(m) = Exited(i) => Reported(m, i)
         /\ Head(m) = Exited(i) /\ ReportedOnce(m, i) => ~ Reported(Tail(m), i)
<1> DEFINE t == Tail(m)
<1>1. /\ Head(m) \in Mail /\ t \in Seq(Mail) /\ Head(m) = m[1] /\ Len(t) = Len(m) - 1
      /\ \A k \in 1 .. Len(t) : t[k] = m[k + 1]
  BY HeadTailProperties
<1>2. Len(m) \in Nat /\ Len(m) > 0 /\ DOMAIN m = 1 .. Len(m) /\ DOMAIN t = 1 .. Len(m) - 1
  BY <1>1, EmptySeq
<1> HIDE DEF t
<1>3. \A k \in DOMAIN t : k + 1 \in DOMAIN m /\ k \in Nat /\ k + 1 # 1 /\ t[k] = m[k + 1]
  BY <1>1, <1>2
<1>4. Reported(t, i) => Reported(m, i)
  BY <1>3 DEF Reported
<1>5. ReportedOnce(m, i) => ReportedOnce(t, i)
  BY <1>3 DEF ReportedOnce
<1>6. 1 \in DOMAIN m
  BY <1>2
<1>7. Head(m) = Exited(i) => Reported(m, i)
  BY <1>1, <1>6 DEF Reported
<1>8. Head(m) = Exited(i) /\ ReportedOnce(m, i) => ~ Reported(t, i)
  BY <1>1, <1>3, <1>6 DEF Reported, ReportedOnce
<1> QED BY SMTT(30), <1>1, <1>4, <1>5, <1>7, <1>8 DEF t

-----------------------------------------------------------------------------
(* The coroutines of one module *)

\* A coroutine goes on to its next place.
LEMMA MoveCounts ==
  ASSUME NEW c \in [Places -> Nat], NEW from \in Places, NEW to \in Places,
         from # to, c[from] > 0
  PROVE  /\ Move(c, from, to) \in [Places -> Nat]
         /\ Move(c, from, to)["queued"] + Move(c, from, to)["running"] + Move(c, from, to)["exiting"]
            = c["queued"] + c["running"] + c["exiting"]
BY DEF Places, Move

\* A coroutine ends.
LEMMA LeaveCounts ==
  ASSUME NEW c \in [Places -> Nat], c["exiting"] > 0
  PROVE  /\ Leave(c, "exiting") \in [Places -> Nat]
         /\ Leave(c, "exiting")["queued"] = c["queued"]
         /\ Leave(c, "exiting")["running"] = c["running"]
         /\ Leave(c, "exiting")["exiting"] = c["exiting"] - 1
BY DEF Places, Leave

\* Counts are naturals.
LEMMA LiveNat ==
  ASSUME TypeOK
  PROVE  \A i \in Ids : Live(i) \in Nat
BY DEF TypeOK, Live, Places

\* Launching the modules in ids.
LEMMA LaunchCounts ==
  ASSUME TypeOK, NEW ids, Launch(ids)
  PROVE  /\ coro' \in [Ids -> [Places -> Nat]]
         /\ \A i \in Ids : Live(i)' = IF i \in ids THEN Live(i) + 1 ELSE Live(i)
<1>1. ASSUME NEW i \in Ids
      PROVE  /\ coro'[i] \in [Places -> Nat]
             /\ coro'[i]["queued"] = IF i \in ids THEN coro[i]["queued"] + 1 ELSE coro[i]["queued"]
             /\ coro'[i]["running"] = coro[i]["running"]
             /\ coro'[i]["exiting"] = coro[i]["exiting"]
             /\ coro[i]["queued"] \in Nat /\ coro[i]["running"] \in Nat
             /\ coro[i]["exiting"] \in Nat
  <2>1. coro[i] \in [Places -> Nat]
    BY DEF TypeOK
  <2>2. coro'[i] = IF i \in ids THEN [coro[i] EXCEPT !["queued"] = @ + 1] ELSE coro[i]
    BY DEF Launch
  <2> QED BY <2>1, <2>2 DEF Places
<1>2. coro' \in [Ids -> [Places -> Nat]]
  <2>1. coro' = [i \in Ids |-> coro'[i]]
    BY DEF Launch
  <2> QED BY <1>1, <2>1
<1>3. ASSUME NEW i \in Ids PROVE Live(i)' = IF i \in ids THEN Live(i) + 1 ELSE Live(i)
  <2>1. /\ Live(i)' = coro'[i]["queued"] + coro'[i]["running"] + coro'[i]["exiting"]
        /\ Live(i) = coro[i]["queued"] + coro[i]["running"] + coro[i]["exiting"]
    BY DEF Live
  <2> QED BY <1>1, <2>1
<1> QED BY SMTT(30), <1>2, <1>3

\* What a step of a module's coroutine does to the counts.
LEMMA ModuleCounts ==
  ASSUME TypeOK, NEW i \in Ids, Module(i)
  PROVE  /\ coro' \in [Ids -> [Places -> Nat]]
         /\ Live(i) > 0
         /\ \A j \in Ids \ {i} : Live(j)' = Live(j)
         /\ IF SendExited(i) THEN Live(i)' = Live(i) - 1 ELSE Live(i)' = Live(i)
<1> DEFINE c == coro[i]
<1>1. c \in [Places -> Nat]
  BY DEF TypeOK
<1>2. c["queued"] \in Nat /\ c["running"] \in Nat /\ c["exiting"] \in Nat
  BY <1>1 DEF Places
<1>3. ASSUME NEW from \in Places, NEW to \in Places, from # to, c[from] > 0,
             coro' = [coro EXCEPT ![i] = Move(coro[i], from, to)]
      PROVE  /\ coro' \in [Ids -> [Places -> Nat]]
             /\ Live(i) > 0 /\ Live(i)' = Live(i)
             /\ \A j \in Ids \ {i} : Live(j)' = Live(j)
  <2>1. coro'[i] = Move(coro[i], from, to) /\ \A j \in Ids \ {i} : coro'[j] = coro[j]
    BY <1>3 DEF TypeOK
  <2>2. coro'[i] \in [Places -> Nat]
    BY SMTT(30), <1>1, <1>3, <2>1, MoveCounts
  <2>3. coro' \in [Ids -> [Places -> Nat]]
    BY ZenonT(60), <1>3, <2>1, <2>2 DEF TypeOK
  <2>4. Live(i)' = Live(i)
    BY SMTT(30), <1>1, <1>3, <2>1, MoveCounts DEF Live
  <2>5. Live(i) > 0
    <3>1. from = "queued" \/ from = "running" \/ from = "exiting"
      BY DEF Places
    <3>2. Live(i) = c["queued"] + c["running"] + c["exiting"]
      BY DEF Live
    <3> HIDE DEF c
    <3> QED BY SMTT(30), <1>2, <1>3, <3>1, <3>2
  <2>6. \A j \in Ids \ {i} : Live(j)' = Live(j)
    BY SMTT(30), <2>1 DEF Live
  <2> QED BY SMTT(30), <2>3, <2>4, <2>5, <2>6
<1>4. ASSUME c["exiting"] > 0, coro' = [coro EXCEPT ![i] = Leave(coro[i], "exiting")]
      PROVE  /\ coro' \in [Ids -> [Places -> Nat]]
             /\ Live(i) > 0 /\ Live(i)' = Live(i) - 1
             /\ \A j \in Ids \ {i} : Live(j)' = Live(j)
  <2>1. coro'[i] = Leave(coro[i], "exiting") /\ \A j \in Ids \ {i} : coro'[j] = coro[j]
    BY <1>4 DEF TypeOK
  <2>2. coro'[i] \in [Places -> Nat]
    BY SMTT(30), <1>1, <1>4, <2>1, LeaveCounts
  <2>3. coro' \in [Ids -> [Places -> Nat]]
    BY SMTT(30), <1>4, <2>1, <2>2 DEF TypeOK
  <2>4. Live(i)' = Live(i) - 1
    <3>1. /\ coro'[i]["queued"] = c["queued"] /\ coro'[i]["running"] = c["running"]
          /\ coro'[i]["exiting"] = c["exiting"] - 1
      BY SMTT(30), <1>1, <1>4, <2>1, LeaveCounts
    <3> QED BY SMTT(30), <1>2, <3>1 DEF Live
  <2>5. Live(i) > 0
    BY SMTT(30), <1>2, <1>4 DEF Live
  <2>6. \A j \in Ids \ {i} : Live(j)' = Live(j)
    BY <2>1 DEF Live
  <2> QED BY SMTT(30), <2>3, <2>4, <2>5, <2>6
<1>5. "queued" \in Places /\ "running" \in Places /\ "exiting" \in Places
  BY DEF Places
<1>6. CASE SendExited(i)
  BY <1>4, <1>6 DEF SendExited
<1>7. CASE ~ SendExited(i)
  <2>1. CASE StartModule(i)
    BY Zenon, <1>3, <1>5, <1>7, <2>1 DEF StartModule
  <2>2. CASE CreateFails(i)
    BY Zenon, <1>3, <1>5, <1>7, <2>2 DEF CreateFails
  <2>3. CASE ModuleStops(i) \/ ModuleCrashes(i)
    BY Zenon, <1>3, <1>5, <1>7, <2>3 DEF ModuleStops, ModuleCrashes
  <2> QED BY Zenon, <1>7, <2>1, <2>2, <2>3 DEF Module
<1> QED BY <1>6, <1>7

-----------------------------------------------------------------------------
(* One coroutine per module *)

\* The mailbox gains no exit report and none becomes double.
NoNewReports ==
  \A i \in Ids : /\ Reported(mail', i) => Reported(mail, i)
                 /\ ReportedOnce(mail, i) => ReportedOnce(mail', i)

\* Deliver of anything but an exit report.
LEMMA DeliverOther ==
  ASSUME TypeOK, NEW x \in Mail, x.type # "exited", Deliver(x)
  PROVE  mail' \in Seq(Mail) /\ NoNewReports
<1>1. mail \in Seq(Mail)
  BY DEF TypeOK
<1>2. mail' = mail \/ mail' = Append(mail, x)
  BY DEF Deliver
<1>3. CASE mail' = mail
  BY <1>1, <1>3 DEF NoNewReports
<1>4. CASE mail' = Append(mail, x)
  BY SMTT(30), <1>1, <1>4, AppendOther DEF NoNewReports
<1> QED BY SMTT(30), <1>2, <1>3, <1>4

\* Receive of any mail.
LEMMA ReceiveAny ==
  ASSUME TypeOK, NEW type, Receive(type)
  PROVE  /\ mail' \in Seq(Mail) /\ NoNewReports
         /\ Head(mail) \in Mail /\ Head(mail).type = type /\ mpc = "receive"
<1>1. mail \in Seq(Mail) /\ mail # <<>> /\ mail' = Tail(mail)
  BY DEF TypeOK, Receive
<1> QED BY SMTT(30), <1>1, TailMail DEF Receive, NoNewReports

\* The sender of the exit report that is read is loaded and has no coroutine,
\* and no other report of it is left.
LEMMA ReceiveExited ==
  ASSUME TypeOK, InstanceInv, NEW i, ExitReport(i)
  PROVE  /\ mail' \in Seq(Mail) /\ NoNewReports /\ mpc = "receive"
         /\ i \in Ids /\ i \in DOMAIN childrens /\ Live(i) = 0
         /\ Reported(mail, i) /\ ~ Reported(mail', i)
<1>1. Receive("exited") /\ i = Head(mail).arg
  BY DEF ExitReport
<1>2. mail' \in Seq(Mail) /\ NoNewReports /\ mpc = "receive" /\ Head(mail) = Exited(i) /\ i \in Ids
  BY SMTT(30), <1>1, ReceiveAny, ExitedMail
<1>3. mail \in Seq(Mail) /\ mail # <<>> /\ mail' = Tail(mail)
  BY <1>1 DEF TypeOK, Receive
<1>4. ReportedOnce(mail, i)
  BY <1>2 DEF InstanceInv
<1>5. Reported(mail, i) /\ ~ Reported(mail', i)
  BY SMTT(30), <1>2, <1>3, <1>4, TailMail
<1> QED BY <1>2, <1>5 DEF InstanceInv, Quiet

\* Steps that launch nothing.
LEMMA KeepInstances ==
  ASSUME TypeOK, InstanceInv, NoNewReports, coro' = coro,
         \A i \in Ids \ DOMAIN childrens' : i \notin DOMAIN childrens \/ Quiet(i)'
  PROVE  InstanceInv' /\ \A i \in Ids : Quiet(i) => Quiet(i)'
<1>1. \A i \in Ids : Live(i)' = Live(i)
  BY Zenon DEF Live
<1>2. \A i \in Ids : Quiet(i) => Quiet(i)'
  BY Zenon, <1>1 DEF Quiet, NoNewReports
<1> QED BY <1>1, <1>2 DEF InstanceInv, NoNewReports

\* Steps that launch modules of which nothing is left.
LEMMA LaunchInstances ==
  ASSUME TypeOK, InstanceInv, NoNewReports, NEW ids, Launch(ids),
         DOMAIN childrens \subseteq DOMAIN childrens',
         \A i \in ids : i \in DOMAIN childrens' /\ Live(i) = 0 /\ ~ Reported(mail', i)
  PROVE  InstanceInv'
<1> SUFFICES ASSUME NEW i \in Ids
             PROVE  /\ Live(i)' <= 1
                    /\ ReportedOnce(mail', i)
                    /\ Reported(mail', i) => Live(i)' = 0
                    /\ i \notin DOMAIN childrens' => Quiet(i)'
  BY DEF InstanceInv
<1>1. /\ Live(i) \in Nat /\ Live(i) <= 1 /\ ReportedOnce(mail, i)
      /\ Reported(mail, i) => Live(i) = 0
      /\ i \notin DOMAIN childrens => Live(i) = 0 /\ ~ Reported(mail, i)
  BY Zenon, LiveNat DEF InstanceInv, Quiet
<1>2. Live(i)' = IF i \in ids THEN Live(i) + 1 ELSE Live(i)
  BY Zenon, LaunchCounts
<1>3. (Reported(mail', i) => Reported(mail, i)) /\ ReportedOnce(mail', i)
  BY ZenonT(60), <1>1 DEF NoNewReports
<1>4. Live(i)' <= 1 /\ (Reported(mail', i) => Live(i)' = 0)
  BY SMTT(30), <1>1, <1>2, <1>3
<1>5. i \notin DOMAIN childrens' => Live(i)' = 0 /\ ~ Reported(mail', i)
  BY SMTT(30), <1>1, <1>2, <1>3
<1> QED BY SMTT(30), <1>3, <1>4, <1>5 DEF Quiet

\* A step of a module's coroutine.
LEMMA ModuleInstances ==
  ASSUME TypeOK, InstanceInv, NEW i \in Ids, Module(i)
  PROVE  /\ mail' \in Seq(Mail) /\ InstanceInv'
         /\ \A j \in Ids : Quiet(j) => Quiet(j)'
<1>0. childrens' = childrens
  BY Zenon
    DEF Module, StartModule, CreateFails, ModuleStops, ModuleCrashes, SendExited, tableVars
<1>1. /\ Live(i) \in Nat /\ Live(i) > 0 /\ Live(i) = 1 /\ ~ Reported(mail, i)
      /\ i \in DOMAIN childrens
  <2>1. Live(i) \in Nat /\ Live(i) > 0
    BY SMTT(30), LiveNat, ModuleCounts
  <2> QED BY <2>1 DEF InstanceInv, Quiet
<1>2. CASE ~ SendExited(i)
  <2>1. \A j \in Ids : Live(j)' = Live(j)
    BY Zenon, <1>2, ModuleCounts
  <2>2. mail' \in Seq(Mail) /\ NoNewReports
    <3>1. CASE ModuleCrashes(i)
      BY Zenon, <3>1, DeliverOther, MailTypes DEF ModuleCrashes
    <3>2. CASE ~ ModuleCrashes(i)
      <4>1. mail' = mail
        BY ZenonT(60), <1>2, <3>2 DEF Module, StartModule, CreateFails, ModuleStops
      <4> QED BY ZenonT(60), <4>1 DEF TypeOK, NoNewReports
    <3> QED BY SMTT(30), <3>1, <3>2
  <2>3. \A j \in Ids : Quiet(j) => Quiet(j)'
    BY SMTT(30), <2>1, <2>2 DEF Quiet, NoNewReports
  <2> QED BY SMTT(30), <1>0, <2>1, <2>2, <2>3 DEF InstanceInv, NoNewReports
<1>3. CASE SendExited(i)
  <2>1. Live(i)' = 0 /\ \A j \in Ids \ {i} : Live(j)' = Live(j)
    BY SMTT(30), <1>1, <1>3, ModuleCounts
  <2>2. /\ mail' \in Seq(Mail) /\ ReportedOnce(mail', i)
        /\ \A j \in Ids \ {i} : /\ Reported(mail', j) => Reported(mail, j)
                                /\ ReportedOnce(mail, j) => ReportedOnce(mail', j)
    <3>1. mail \in Seq(Mail) /\ ReportedOnce(mail, i)
      BY DEF TypeOK, InstanceInv
    <3>2. mail' = mail \/ mail' = Append(mail, Exited(i))
      BY <1>3 DEF SendExited, Deliver, Exited
    <3>3. CASE mail' = mail
      BY SMTT(30), <3>1, <3>3
    <3>4. CASE mail' = Append(mail, Exited(i))
      BY ZenonT(60), <1>1, <3>1, <3>4, AppendExited
    <3> QED BY ZenonT(60), <3>2, <3>3, <3>4
  <2>3. ~ Quiet(i) /\ \A j \in Ids \ {i} : Quiet(j) => Quiet(j)'
    BY SMTT(30), <1>1, <2>1, <2>2 DEF Quiet
  <2>4. InstanceInv'
    BY SMTT(30), <1>0, <1>1, <2>1, <2>2, <2>3 DEF InstanceInv
  <2> QED BY SMTT(30), <2>2, <2>3, <2>4
<1> QED BY SMTT(30), <1>2, <1>3

-----------------------------------------------------------------------------
(* New children *)

\* Children for names that are not loaded get ids that were never used.
LEMMA CreateChildren ==
  ASSUME TypeOK, InstanceInv, NameInv, mail' \in Seq(Mail), NoNewReports,
         NEW names, names \subseteq Names \ LoadedNames,
         NEW again, again \subseteq DOMAIN childrens,
         \A i \in again : Live(i) = 0 /\ ~ Reported(mail', i),
         CreateAndLaunch(names, again)
  PROVE  /\ DOMAIN childrens \subseteq DOMAIN childrens'
         /\ DOMAIN childrens' \subseteq Ids
         /\ \A i \in DOMAIN childrens' : childrens'[i] \in Names
         /\ next_id' \in 1 .. MaxId + 1
         /\ coro' \in [Ids -> [Places -> Nat]]
         /\ InstanceInv' /\ NameInv'
<1> DEFINE n == Cardinality(names)
           new == next_id .. next_id + n - 1
<1>1. n \in Nat
  <2>1. IsFiniteSet(names)
    BY SMTT(30), NameAssumption, FS_Subset
  <2> QED BY <2>1, FS_CardinalityType
<1>2. PICK f \in Assignments(names) : childrens' = Merge(childrens, f)
  BY DEF CreateAndLaunch
<1>3. /\ f \in [new -> names] /\ \A i, j \in new : f[i] = f[j] => i = j
      /\ next_id + n - 1 <= MaxId /\ next_id' = next_id + n
      /\ Launch(again \cup new)
  BY ZenonT(60), <1>2 DEF CreateAndLaunch, Assignments, NewIds
<1> HIDE DEF n
<1>4. next_id \in Nat /\ next_id >= 1 /\ MaxId \in Nat /\ Ids = 1 .. MaxId
  BY BoundAssumption DEF TypeOK, Ids
<1>5. new \subseteq Ids /\ next_id' \in 1 .. MaxId + 1
      /\ \A i \in new : i \in Nat /\ next_id <= i /\ i < next_id'
  BY SMTT(30), <1>1, <1>3, <1>4
<1>6. \A i \in DOMAIN childrens : i \in Nat /\ i < next_id /\ i \notin new
  BY SMTT(30), <1>4 DEF NameInv, TypeOK
<1> HIDE DEF new
<1>7. /\ DOMAIN childrens' = DOMAIN childrens \cup new
      /\ \A i \in new : childrens'[i] = f[i] /\ f[i] \in names
      /\ \A i \in DOMAIN childrens : childrens'[i] = childrens[i]
  BY ZenonT(60), <1>2, <1>3, <1>6 DEF Merge
<1>8. \A i \in new : Live(i) = 0 /\ ~ Reported(mail', i)
  <2>1. \A i \in new : i \in Ids /\ i \notin DOMAIN childrens
    BY SMTT(30), <1>5, <1>6
  <2> QED BY SMTT(30), <2>1 DEF InstanceInv, Quiet, NoNewReports
<1>9. \A i \in again \cup new : i \in DOMAIN childrens' /\ Live(i) = 0 /\ ~ Reported(mail', i)
  BY Zenon, <1>7, <1>8
<1>10. InstanceInv'
  BY Zenon, <1>3, <1>7, <1>9, LaunchInstances
<1>11. coro' \in [Ids -> [Places -> Nat]]
  BY Zenon, <1>3, LaunchCounts
<1>12. NameInv'
  <2>1. \A i \in DOMAIN childrens' : i < next_id'
    BY SMTT(30), <1>1, <1>3, <1>4, <1>5, <1>6, <1>7
  <2>2. ASSUME NEW i \in DOMAIN childrens', NEW j \in DOMAIN childrens',
               childrens'[i] = childrens'[j]
        PROVE  i = j
    <3>1. \A k \in DOMAIN childrens : childrens[k] \notin names
      BY Zenon DEF LoadedNames
    <3>2. CASE i \in new /\ j \in new
      BY Zenon, <1>3, <1>7, <2>2, <3>2
    <3>3. CASE i \in DOMAIN childrens /\ j \in DOMAIN childrens
      BY ZenonT(60), <1>7, <2>2, <3>3 DEF NameInv
    <3> QED BY Zenon, <1>7, <2>2, <3>1, <3>2, <3>3
  <2> QED BY ZenonT(60), <2>1, <2>2 DEF NameInv
<1>13. \A i \in DOMAIN childrens' : childrens'[i] \in Names
  BY Zenon, <1>7 DEF TypeOK
<1> QED BY Zenon, <1>5, <1>7, <1>10, <1>11, <1>12, <1>13 DEF TypeOK

-----------------------------------------------------------------------------
(* The operator and the modules *)

\* A command, the flag, the exit command.
LEMMA OperatorKeeps ==
  ASSUME IndInv, (\E c \in Commands : SendCommand(c)) \/ ClearRunning \/ SendExit
  PROVE  IndInv'
<1> USE DEF IndInv
<1>1. /\ UNCHANGED <<childrens, next_id, reload_all_flag, config, coro, stops, mpc>>
      /\ UNCHANGED <<pending_reload, pending_stop, pending_restart>>
  BY Zenon DEF SendCommand, ClearRunning, SendExit, tableVars, pendingVars, moduleVars
<1>2. mail' \in Seq(Mail) /\ NoNewReports
  <2>1. CASE ClearRunning
    BY Zenon, <2>1 DEF ClearRunning, TypeOK, NoNewReports
  <2>2. CASE SendExit
    BY Zenon, <2>2, DeliverOther, MailTypes DEF SendExit
  <2>3. ASSUME NEW c \in Commands, SendCommand(c) PROVE mail' \in Seq(Mail) /\ NoNewReports
    BY ZenonT(60), <2>3, DeliverOther, MailTypes DEF SendCommand
  <2> QED BY ZenonT(60), <2>1, <2>2, <2>3
<1>3. TypeOK'
  <2>1. /\ is_running' \in BOOLEAN /\ shutdown' \in {"none", "flagged", "sent"}
        /\ commands' \in Nat
    <3>1. CASE ClearRunning
      BY Zenon, <3>1 DEF ClearRunning, TypeOK
    <3>2. CASE SendExit
      BY ZenonT(60), <3>2 DEF SendExit, TypeOK
    <3>3. ASSUME NEW c \in Commands, SendCommand(c)
          PROVE  UNCHANGED <<is_running, shutdown>> /\ commands' = commands + 1
      BY <3>3 DEF SendCommand
    <3> QED BY SMTT(30), <3>1, <3>2, <3>3 DEF TypeOK
  <2> QED BY ZenonT(60), <1>1, <1>2, <2>1 DEF TypeOK
<1>4. InstanceInv' /\ \A i \in Ids : Quiet(i) => Quiet(i)'
  BY Zenon, <1>1, <1>2, KeepInstances
<1>5. PendingConsistent' /\ NameInv' /\ DoneInv'
  BY Zenon, <1>1 DEF PendingConsistent, NameInv, DoneInv
<1>6. ReloadAllInv'
  BY ZenonT(60), <1>1, <1>4 DEF ReloadAllInv, TypeOK
<1> QED BY SMTT(30), <1>3, <1>4, <1>5, <1>6

\* The steps of the modules' coroutines.
LEMMA ModuleKeeps ==
  ASSUME IndInv, NEW i \in Ids, Module(i)
  PROVE  IndInv'
<1> USE DEF IndInv
<1>1. /\ UNCHANGED <<childrens, next_id, reload_all_flag, config, mpc, is_running, shutdown,
                     commands>>
      /\ UNCHANGED <<pending_reload, pending_stop, pending_restart>>
  BY Zenon DEF Module, StartModule, CreateFails, ModuleStops, ModuleCrashes, SendExited,
         tableVars, pendingVars, operatorVars
<1>2. mail' \in Seq(Mail) /\ InstanceInv' /\ \A j \in Ids : Quiet(j) => Quiet(j)'
  BY Zenon, ModuleInstances
<1>3. coro' \in [Ids -> [Places -> Nat]]
  BY SMTT(30), ModuleCounts
<1>4. stops' \in [Ids -> Nat]
  <2>1. CASE ModuleStops(i)
    BY SMTT(30), <2>1 DEF ModuleStops, TypeOK
  <2>2. CASE ~ ModuleStops(i)
    BY Zenon, <2>2 DEF Module, StartModule, CreateFails, ModuleCrashes, SendExited, TypeOK
  <2> QED BY ZenonT(60), <2>1, <2>2
<1>5. TypeOK'
  BY Zenon, <1>1, <1>2, <1>3, <1>4 DEF TypeOK
<1>6. PendingConsistent' /\ NameInv' /\ DoneInv'
  BY Zenon, <1>1 DEF PendingConsistent, NameInv, DoneInv
<1>7. ReloadAllInv'
  BY ZenonT(60), <1>1, <1>2 DEF ReloadAllInv, TypeOK
<1> QED BY SMTT(30), <1>2, <1>5, <1>6, <1>7

-----------------------------------------------------------------------------
(* The manager's commands *)

\* What MailStops leaves of the types.
LEMMA StopsType ==
  ASSUME TypeOK, NEW ids, MailStops(ids)
  PROVE  stops' \in [Ids -> Nat]
BY DEF TypeOK, MailStops

\* The handlers that only change the pending sets.
LEMMA PendingKeeps ==
  ASSUME IndInv, HandleCmdExit \/ UpdateConfigFails \/ HandleReloadAll \/ HandleReloadOne
                   \/ HandleCmdRemove \/ HandleRemoveUnknown \/ HandleEventCrash
  PROVE  IndInv'
<1> USE DEF IndInv
<1>1. PICK type : Receive(type)
  BY Zenon
    DEF HandleCmdExit, UpdateConfigFails, HandleReloadAll, HandleReloadOne, HandleCmdRemove,
         HandleRemoveUnknown, HandleEventCrash
<1>2. mail' \in Seq(Mail) /\ NoNewReports /\ Head(mail) \in Mail
  BY Zenon, <1>1, ReceiveAny
<1>3. UNCHANGED <<childrens, next_id, coro, is_running, shutdown, commands>>
  BY Zenon
    DEF HandleCmdExit, UpdateConfigFails, HandleReloadAll, HandleReloadOne, HandleCmdRemove,
         HandleRemoveUnknown, HandleEventCrash, tableVars, moduleVars, operatorVars
<1>4. InstanceInv' /\ \A i \in Ids : Quiet(i) => Quiet(i)'
  BY SMTT(30), <1>2, <1>3, KeepInstances
<1>5. NameInv'
  BY Zenon, <1>3 DEF NameInv
<1>6. DOMAIN childrens \subseteq Ids
  BY Zenon DEF TypeOK
<1>7. CASE HandleCmdExit
  <2>1. /\ pending_reload' = pending_reload
        /\ pending_stop' = pending_stop \cup DOMAIN childrens
        /\ pending_restart' = pending_restart \ DOMAIN childrens
        /\ UNCHANGED <<reload_all_flag, config>>
        /\ mpc' = IF DOMAIN childrens = {} THEN "done" ELSE "receive"
        /\ MailStops(DOMAIN childrens)
    BY Zenon, <1>7 DEF HandleCmdExit, tableVars
  <2>2. PendingConsistent'
    BY ZenonT(60), <1>3, <2>1 DEF PendingConsistent
  <2>3. TypeOK'
    BY Zenon, <1>2, <1>3, <1>6, <2>1, StopsType DEF TypeOK
  <2>4. DoneInv' /\ ReloadAllInv'
    BY ZenonT(60), <1>3, <1>4, <1>6, <2>1 DEF DoneInv, ReloadAllInv
  <2> QED BY SMTT(30), <1>4, <1>5, <2>2, <2>3, <2>4
<1>8. CASE UpdateConfigFails \/ HandleRemoveUnknown
  <2>1. /\ UNCHANGED <<pending_reload, pending_stop, pending_restart>>
        /\ UNCHANGED <<reload_all_flag, config, mpc, stops>>
    BY Zenon, <1>8
      DEF UpdateConfigFails, HandleRemoveUnknown, tableVars, pendingVars, moduleVars
  <2>2. PendingConsistent' /\ TypeOK' /\ DoneInv'
    BY ZenonT(60), <1>2, <1>3, <2>1 DEF PendingConsistent, TypeOK, DoneInv
  <2>3. ReloadAllInv'
    BY Zenon, <1>3, <1>4, <1>6, <2>1 DEF ReloadAllInv
  <2> QED BY ZenonT(60), <1>4, <1>5, <2>2, <2>3
<1>9. CASE HandleReloadAll
  <2>1. /\ pending_reload' = pending_reload \cup DOMAIN childrens
        /\ pending_stop' = pending_stop
        /\ pending_restart' = pending_restart \ DOMAIN childrens
        /\ reload_all_flag' = TRUE /\ config' \in Configs /\ mpc' = mpc
        /\ MailStops(DOMAIN childrens)
    BY Zenon, <1>9 DEF HandleReloadAll, UpdateConfig
  <2>2. PendingConsistent'
    BY Zenon, <1>3, <2>1 DEF PendingConsistent
  <2>3. TypeOK'
    BY Zenon, <1>2, <1>3, <1>6, <2>1, StopsType, ConfigAssumption DEF TypeOK
  <2>4. DoneInv' /\ ReloadAllInv'
    BY Zenon, <1>3, <2>1 DEF DoneInv, ReloadAllInv
  <2> QED BY <1>4, <1>5, <2>2, <2>3, <2>4
<1>10. CASE HandleReloadOne
  <2>1. PICK i \in DOMAIN childrens :
          /\ MailStops({i})
          /\ pending_reload' = pending_reload \cup {i}
          /\ pending_restart' = pending_restart \ {i}
    BY Zenon, <1>10 DEF HandleReloadOne
  <2>2. /\ pending_stop' = pending_stop /\ mpc' = mpc
        /\ reload_all_flag' = FALSE /\ config' \in Configs
    BY ZenonT(60), <1>10 DEF HandleReloadOne, UpdateConfig
  <2>3. PendingConsistent'
    BY SMTT(30), <1>3, <2>1, <2>2 DEF PendingConsistent
  <2>4. TypeOK'
    BY Zenon, <1>2, <1>3, <1>6, <2>1, <2>2, StopsType, ConfigAssumption DEF TypeOK
  <2>5. DoneInv' /\ ReloadAllInv'
    BY SMTT(30), <1>3, <2>2 DEF DoneInv, ReloadAllInv
  <2> QED BY SMTT(30), <1>4, <1>5, <2>3, <2>4, <2>5
<1>11. CASE HandleCmdRemove
  <2>1. PICK i \in DOMAIN childrens :
          /\ MailStops({i})
          /\ pending_stop' = pending_stop \cup {i}
          /\ pending_restart' = pending_restart \ {i}
    BY Zenon, <1>11 DEF HandleCmdRemove
  <2>2. UNCHANGED <<pending_reload, mpc, reload_all_flag, config>>
    BY Zenon, <1>11 DEF HandleCmdRemove, tableVars
  <2>3. PendingConsistent'
    BY Zenon, <1>3, <2>1, <2>2 DEF PendingConsistent
  <2>4. TypeOK'
    BY Zenon, <1>2, <1>3, <1>6, <2>1, <2>2, StopsType DEF TypeOK
  <2>5. DoneInv' /\ ReloadAllInv'
    BY ZenonT(60), <1>3, <1>4, <1>6, <2>2 DEF DoneInv, ReloadAllInv
  <2> QED BY <1>4, <1>5, <2>3, <2>4, <2>5
<1>12. CASE HandleEventCrash
  <2> DEFINE i == Head(mail).arg
  <2>1. /\ UNCHANGED <<pending_reload, pending_stop, mpc, reload_all_flag, config, stops>>
        /\ \/ pending_restart' = pending_restart
           \/ /\ pending_restart' = pending_restart \cup {i}
              /\ i \in DOMAIN childrens /\ i \notin pending_reload /\ i \notin pending_stop
    <3>1. UNCHANGED <<pending_reload, pending_stop, mpc, reload_all_flag, config, stops>>
      BY Zenon, <1>12 DEF HandleEventCrash, tableVars, moduleVars
    <3>2. \/ pending_restart' = pending_restart
          \/ /\ pending_restart' = pending_restart \cup {i}
             /\ i \in DOMAIN childrens /\ i \notin pending_reload /\ i \notin pending_stop
      BY Zenon, <1>12 DEF HandleEventCrash
    <3> QED BY Zenon, <3>1, <3>2
  <2> HIDE DEF i
  <2>2. PendingConsistent'
    BY Zenon, <1>3, <2>1 DEF PendingConsistent
  <2>3. TypeOK'
    BY ZenonT(60), <1>2, <1>3, <1>6, <2>1 DEF TypeOK
  <2>4. DoneInv' /\ ReloadAllInv'
    BY Zenon, <1>3, <1>4, <1>6, <2>1 DEF DoneInv, ReloadAllInv
  <2> QED BY <1>4, <1>5, <2>2, <2>3, <2>4
<1> QED BY ZenonT(60), <1>7, <1>8, <1>9, <1>10, <1>11, <1>12

\* The reloads that load modules which were not loaded.
LEMMA LoadKeeps ==
  ASSUME IndInv, HandleReloadNothing \/ HandleReloadUnknown
  PROVE  IndInv'
<1> USE DEF IndInv
<1>1. Receive("reload")
  BY DEF HandleReloadNothing, HandleReloadUnknown
<1>2. mail' \in Seq(Mail) /\ NoNewReports /\ mpc = "receive"
  BY <1>1, ReceiveAny
<1>3. /\ UNCHANGED <<pending_reload, pending_stop, pending_restart, is_running, mpc, stops>>
      /\ UNCHANGED <<shutdown, commands>>
      /\ config' \in Configs
      /\ reload_all_flag' \in BOOLEAN
      /\ reload_all_flag' = FALSE \/ pending_reload = {}
  <2>1. CASE HandleReloadNothing
    BY Zenon, <2>1 DEF HandleReloadNothing, UpdateConfig, pendingVars, operatorVars
  <2>2. CASE HandleReloadUnknown
    BY Zenon, <2>2 DEF HandleReloadUnknown, UpdateConfig, pendingVars, operatorVars
  <2> QED BY Zenon, <2>1, <2>2
<1>4. \E names \in SUBSET (Names \ LoadedNames) : CreateAndLaunch(names, {})
  <2>1. CASE HandleReloadNothing
    <3>1. PICK opened \in Libraries : CreateAndLaunch(config' \cap opened, {})
      BY Zenon, <2>1 DEF HandleReloadNothing, LoadModules
    <3>2. LoadedNames = {}
      BY Zenon, <2>1 DEF HandleReloadNothing, LoadedNames
    <3>3. config' \cap opened \subseteq Names
      BY Zenon, <1>3, ConfigAssumption
    <3> QED BY SMTT(30), <3>1, <3>2, <3>3
  <2>2. CASE HandleReloadUnknown
    <3>1. PICK opened \in Libraries :
            CreateAndLaunch({Head(mail).arg} \cap config' \cap opened, {})
      BY Zenon, <2>2 DEF HandleReloadUnknown
    <3>2. Head(mail).arg \in Names \ LoadedNames
      BY Zenon, <2>2 DEF HandleReloadUnknown
    <3> QED BY SMTT(30), <3>1, <3>2
  <2> QED BY SMTT(30), <2>1, <2>2
<1>5. /\ DOMAIN childrens \subseteq DOMAIN childrens'
      /\ DOMAIN childrens' \subseteq Ids
      /\ \A i \in DOMAIN childrens' : childrens'[i] \in Names
      /\ next_id' \in 1 .. MaxId + 1
      /\ coro' \in [Ids -> [Places -> Nat]]
      /\ InstanceInv' /\ NameInv'
  <2>1. PICK names \in SUBSET (Names \ LoadedNames) : CreateAndLaunch(names, {})
    BY Zenon, <1>4
  <2> QED BY Zenon, <1>2, <2>1, CreateChildren
<1>6. TypeOK'
  BY Zenon, <1>2, <1>3, <1>5, ConfigAssumption DEF TypeOK
<1>7. PendingConsistent'
  BY Zenon, <1>3, <1>5 DEF PendingConsistent
<1>8. ReloadAllInv' /\ DoneInv'
  BY Zenon, <1>2, <1>3 DEF ReloadAllInv, DoneInv
<1> QED BY ZenonT(60), <1>5, <1>6, <1>7, <1>8

-----------------------------------------------------------------------------
(* __handle_event_exit *)

\* What all its outcomes do.
LEMMA ExitPending ==
  ASSUME IndInv, NEW i, ExitReport(i)
  PROVE  /\ pending_reload' = pending_reload \ {i}
         /\ pending_stop' = pending_stop \ {i}
         /\ pending_restart' = pending_restart \ {i}
         /\ pending_reload' \subseteq Ids /\ pending_stop' \subseteq Ids
         /\ pending_restart' \subseteq Ids
         /\ pending_reload' \cup pending_stop' \cup pending_restart' \subseteq DOMAIN childrens \ {i}
         /\ pending_restart' \cap (pending_reload' \cup pending_stop') = {}
BY Zenon DEF IndInv, ExitReport, PendingConsistent, TypeOK

\* The module is reloaded alone, or restarted.
LEMMA RelaunchKeeps ==
  ASSUME IndInv, NEW i, ExitThenReload(i) \/ ExitThenRestart(i)
  PROVE  IndInv'
<1> USE DEF IndInv
<1>1. ExitReport(i)
  BY DEF ExitThenReload, ExitThenRestart
<1>2. /\ mail' \in Seq(Mail) /\ NoNewReports /\ mpc = "receive"
      /\ i \in Ids /\ i \in DOMAIN childrens /\ Live(i) = 0
      /\ Reported(mail, i) /\ ~ Reported(mail', i)
  BY <1>1, ReceiveExited
<1>3. /\ UNCHANGED <<childrens, next_id, reload_all_flag, config, is_running, mpc, stops>>
      /\ UNCHANGED <<shutdown, commands>>
  BY ZenonT(60) DEF ExitThenReload, ExitThenRestart, tableVars, operatorVars
<1>4. PICK ids \in {{}, {i}} : Launch(ids)
  <2>1. CASE ExitThenRestart(i)
    BY <2>1 DEF ExitThenRestart
  <2>2. CASE ExitThenReload(i)
    BY ZenonT(60), <2>2 DEF ExitThenReload
  <2> QED BY SMTT(30), <2>1, <2>2
<1>5. InstanceInv'
  BY ZenonT(60), <1>2, <1>3, <1>4, LaunchInstances
<1>6. TypeOK'
  BY ZenonT(60), <1>1, <1>2, <1>3, <1>4, ExitPending, LaunchCounts DEF TypeOK
<1>7. PendingConsistent' /\ NameInv' /\ DoneInv'
  BY Zenon, <1>1, <1>2, <1>3, ExitPending DEF PendingConsistent, NameInv, DoneInv
<1>8. ReloadAllInv'
  <2>1. CASE ExitThenReload(i)
    BY Zenon, <1>3, <2>1 DEF ExitThenReload, ReloadAllInv
  <2>2. CASE ExitThenRestart(i)
    <3>1. i \notin pending_reload /\ ~ Quiet(i)
      BY Zenon, <1>2, <2>2 DEF ExitThenRestart, ToRestart, Quiet
    <3>2. ~ (reload_all_flag /\ pending_reload # {})
      BY Zenon, <1>2, <3>1 DEF ReloadAllInv
    <3> QED BY Zenon, <1>1, <1>3, <3>2, ExitPending DEF ReloadAllInv
  <2> QED BY Zenon, <2>1, <2>2
<1> QED BY SMTT(30), <1>5, <1>6, <1>7, <1>8

\* The last module of a reload of all has exited.
LEMMA ReloadAllKeeps ==
  ASSUME IndInv, NEW i, ExitThenReloadAll(i)
  PROVE  IndInv'
<1> USE DEF IndInv
<1>1. ExitReport(i)
  BY Zenon DEF ExitThenReloadAll
<1>2. /\ mail' \in Seq(Mail) /\ NoNewReports /\ mpc = "receive"
      /\ i \in Ids /\ i \in DOMAIN childrens /\ Live(i) = 0
      /\ Reported(mail, i) /\ ~ Reported(mail', i)
  BY SMTT(30), <1>1, ReceiveExited
<1>3. /\ UNCHANGED <<reload_all_flag, config, is_running, mpc, stops>>
      /\ UNCHANGED <<shutdown, commands>>
  BY SMTT(30) DEF ExitThenReloadAll, operatorVars
<1>4. reload_all_flag /\ i \in pending_reload /\ pending_reload \ {i} = {}
  BY DEF ExitThenReloadAll, ToReload
<1>5. \A j \in DOMAIN childrens : Live(j) = 0 /\ ~ Reported(mail', j)
  <2>1. \A j \in DOMAIN childrens \ {i} : Quiet(j)
    BY Zenon, <1>4 DEF ReloadAllInv
  <2>2. \A j \in DOMAIN childrens \ {i} : Live(j) = 0 /\ ~ Reported(mail', j)
    BY Zenon, <1>2, <2>1 DEF Quiet, NoNewReports, TypeOK
  <2> QED BY ZenonT(60), <1>2, <2>2
<1>6. PICK opened \in Libraries :
        CreateAndLaunch((config \cap opened) \ LoadedNames,
                        {j \in DOMAIN childrens : childrens[j] \in config \cap opened})
  BY Zenon DEF ExitThenReloadAll
<1>7. /\ DOMAIN childrens \subseteq DOMAIN childrens'
      /\ DOMAIN childrens' \subseteq Ids
      /\ \A j \in DOMAIN childrens' : childrens'[j] \in Names
      /\ next_id' \in 1 .. MaxId + 1
      /\ coro' \in [Ids -> [Places -> Nat]]
      /\ InstanceInv' /\ NameInv'
  <2> DEFINE names == (config \cap opened) \ LoadedNames
             again == {j \in DOMAIN childrens : childrens[j] \in config \cap opened}
  <2>1. names \subseteq Names \ LoadedNames
    BY Zenon DEF TypeOK
  <2>2. again \subseteq DOMAIN childrens /\ \A j \in again : Live(j) = 0 /\ ~ Reported(mail', j)
    BY SMTT(30), <1>5
  <2>3. CreateAndLaunch(names, again)
    BY ZenonT(60), <1>6
  <2> HIDE DEF names, again
  <2> QED BY Zenon, <1>2, <2>1, <2>2, <2>3, CreateChildren
<1>8. TypeOK'
  BY Zenon, <1>1, <1>2, <1>3, <1>7, ExitPending DEF TypeOK
<1>9. PendingConsistent' /\ DoneInv' /\ ReloadAllInv'
  BY Zenon, <1>1, <1>2, <1>3, <1>4, <1>7, ExitPending
    DEF PendingConsistent, DoneInv, ReloadAllInv
<1> QED BY ZenonT(60), <1>7, <1>8, <1>9

\* The module waits for the others of a reload of all, or leaves the table.
LEMMA LeaveKeeps ==
  ASSUME IndInv, NEW i, ExitBeforeReloadAll(i) \/ Unmount(i)
  PROVE  IndInv'
<1> USE DEF IndInv
<1>1. ExitReport(i)
  BY ZenonT(60) DEF ExitBeforeReloadAll, Unmount
<1>2. /\ mail' \in Seq(Mail) /\ NoNewReports /\ mpc = "receive"
      /\ i \in Ids /\ i \in DOMAIN childrens /\ Live(i) = 0
      /\ Reported(mail, i) /\ ~ Reported(mail', i)
  BY <1>1, ReceiveExited
<1>3. /\ UNCHANGED <<next_id, reload_all_flag, config, is_running, coro, stops>>
      /\ UNCHANGED <<shutdown, commands>>
      /\ mpc' \in {"receive", "check_finished"}
  <2>1. CASE ExitBeforeReloadAll(i)
    BY Zenon, <1>2, <2>1 DEF ExitBeforeReloadAll, tableVars, moduleVars, operatorVars
  <2>2. CASE Unmount(i)
    BY Zenon, <2>2 DEF Unmount, moduleVars, operatorVars
  <2> QED BY Zenon, <2>1, <2>2
<1>4. /\ DOMAIN childrens' \subseteq DOMAIN childrens
      /\ DOMAIN childrens \ {i} \subseteq DOMAIN childrens'
      /\ \A j \in DOMAIN childrens' : childrens'[j] = childrens[j]
  <2>1. CASE ExitBeforeReloadAll(i)
    BY Zenon, <2>1 DEF ExitBeforeReloadAll, tableVars
  <2>2. CASE Unmount(i)
    <3>1. childrens' = [j \in DOMAIN childrens \ {i} |-> childrens[j]]
      BY Zenon, <2>2 DEF Unmount, Without
    <3> QED BY Zenon, <3>1
  <2> QED BY Zenon, <2>1, <2>2
<1>5. Quiet(i)'
  BY Zenon, <1>2, <1>3 DEF Quiet, Live
<1>6. InstanceInv' /\ \A j \in Ids : Quiet(j) => Quiet(j)'
  BY ZenonT(60), <1>2, <1>3, <1>4, <1>5, KeepInstances
<1>7. TypeOK'
  BY Zenon, <1>1, <1>2, <1>3, <1>4, ExitPending DEF TypeOK
<1>8. PendingConsistent' /\ NameInv' /\ DoneInv'
  BY Zenon, <1>1, <1>3, <1>4, ExitPending DEF PendingConsistent, NameInv, DoneInv
<1>9. ReloadAllInv'
  <2> SUFFICES ASSUME reload_all_flag, pending_reload' # {}, NEW j \in DOMAIN childrens'
               PROVE  j \in pending_reload' \/ Quiet(j)'
    BY Zenon, <1>3 DEF ReloadAllInv
  <2>1. pending_reload' = pending_reload \ {i} /\ j \in DOMAIN childrens /\ j \in Ids
    <3>1. j \in DOMAIN childrens /\ DOMAIN childrens \subseteq Ids
      BY Zenon, <1>4 DEF TypeOK
    <3> QED BY ZenonT(60), <1>1, <3>1, ExitPending
  <2>2. j \in pending_reload \/ Quiet(j)
    BY Zenon, <2>1 DEF ReloadAllInv
  <2> QED BY ZenonT(60), <1>5, <1>6, <2>1, <2>2
<1> QED BY SMTT(30), <1>6, <1>7, <1>8, <1>9

\* return !is_running_ && childrens_.empty()
LEMMA CheckKeeps ==
  ASSUME IndInv, CheckFinished \/ UNCHANGED vars
  PROVE  IndInv'
<1> USE DEF IndInv
<1>1. /\ UNCHANGED <<childrens, next_id, reload_all_flag, config, coro, stops, is_running, mail>>
      /\ UNCHANGED <<pending_reload, pending_stop, pending_restart, shutdown, commands>>
  BY Zenon DEF CheckFinished, vars, tableVars, pendingVars, moduleVars, operatorVars
<1>2. /\ mpc' \in {"receive", "check_finished", "done"}
      /\ mpc' = mpc \/ (mpc' = "done" => DOMAIN childrens = {})
  BY Zenon DEF CheckFinished, vars, TypeOK
<1>3. NoNewReports
  BY ZenonT(60), <1>1 DEF NoNewReports
<1>4. InstanceInv' /\ \A i \in Ids : Quiet(i) => Quiet(i)'
  BY ZenonT(60), <1>1, <1>3, KeepInstances
<1>5. TypeOK' /\ PendingConsistent' /\ NameInv'
  BY Zenon, <1>1, <1>2 DEF TypeOK, PendingConsistent, NameInv
<1>6. ReloadAllInv'
  BY Zenon, <1>1, <1>4 DEF ReloadAllInv, TypeOK
<1>7. DoneInv'
  BY Zenon, <1>1, <1>2 DEF DoneInv
<1> QED BY Zenon, <1>4, <1>5, <1>6, <1>7

-----------------------------------------------------------------------------
(* The invariant *)

\* The state after start-up satisfies the invariant.
LEMMA InitIndInv ==
  ASSUME Init
  PROVE  IndInv
<1>1. PICK opened \in Libraries :
        LET names == config \cap opened
            n == Cardinality(names)
        IN  /\ childrens \in {f \in [1 .. n -> names] : \A i, j \in 1 .. n : f[i] = f[j] => i = j}
            /\ next_id = n + 1
            /\ coro = [i \in Ids |-> [k \in Places |-> IF k = "queued" /\ i <= n THEN 1 ELSE 0]]
  BY Zenon DEF Init
<1> DEFINE names == config \cap opened
           n == Cardinality(names)
<1>2. /\ childrens \in [1 .. n -> names]
      /\ \A i, j \in 1 .. n : childrens[i] = childrens[j] => i = j
      /\ next_id = n + 1
      /\ coro = [i \in Ids |-> [k \in Places |-> IF k = "queued" /\ i <= n THEN 1 ELSE 0]]
  BY Zenon, <1>1
<1>3. config \in SUBSET Names /\ names \subseteq Names
  BY Zenon, ConfigAssumption DEF Init
<1>4. n \in Nat /\ n <= MaxId
  <2>1. IsFiniteSet(Names) /\ IsFiniteSet(names) /\ n <= Cardinality(Names)
    BY SMTT(30), <1>3, NameAssumption, FS_Subset
  <2>2. n \in Nat /\ Cardinality(Names) \in Nat
    BY Zenon, <2>1, FS_CardinalityType
  <2> QED BY SMTT(30), <2>1, <2>2, BoundAssumption
<1> HIDE DEF n, names
<1>5. /\ pending_reload = {} /\ pending_stop = {} /\ pending_restart = {}
      /\ reload_all_flag = FALSE /\ is_running = TRUE /\ mail = <<>> /\ mpc = "receive"
      /\ stops = [i \in Ids |-> 0] /\ shutdown = "none" /\ commands = 0
  BY Zenon DEF Init
<1>6. coro \in [Ids -> [Places -> Nat]]
  BY SMTT(30), <1>2
<1>7. ASSUME NEW i \in Ids
      PROVE  Live(i) = (IF i <= n THEN 1 ELSE 0)
  <2>1. /\ coro[i]["queued"] = (IF i <= n THEN 1 ELSE 0)
        /\ coro[i]["running"] = 0 /\ coro[i]["exiting"] = 0
    BY Zenon, <1>2 DEF Places
  <2> QED BY SMTT(30), <2>1 DEF Live
<1>8. TypeOK
  <2>1. mail \in Seq(Mail)
    BY SMTT(30), <1>5
  <2>2. DOMAIN childrens \subseteq Ids /\ \A i \in DOMAIN childrens : childrens[i] \in Names
    BY SMTT(30), <1>2, <1>3, <1>4, BoundAssumption DEF Ids
  <2>3. next_id \in 1 .. MaxId + 1
    BY SMTT(30), <1>2, <1>4, BoundAssumption
  <2> QED BY ZenonT(60), <1>3, <1>5, <1>6, <2>1, <2>2, <2>3 DEF TypeOK
<1>9. InstanceInv
  <2>1. DOMAIN mail = {}
    BY <1>5
  <2>2. \A i \in Ids : ~ Reported(mail, i) /\ ReportedOnce(mail, i)
    BY <2>1 DEF Reported, ReportedOnce
  <2>3. \A i \in Ids : i \notin DOMAIN childrens => Live(i) = 0
    BY SMTT(30), <1>2, <1>4, <1>7 DEF Ids
  <2>4. \A i \in Ids : Live(i) <= 1
    BY SMTT(30), <1>7
  <2> QED BY Zenon, <2>2, <2>3, <2>4 DEF InstanceInv, Quiet
<1>10. PendingConsistent /\ ReloadAllInv /\ DoneInv
  BY Zenon, <1>5 DEF PendingConsistent, ReloadAllInv, DoneInv
<1>11. NameInv
  BY SMTT(30), <1>2, <1>4 DEF NameInv
<1> QED BY SMTT(30), <1>8, <1>9, <1>10, <1>11 DEF IndInv

\* Every step keeps the invariant.
LEMMA NextIndInv ==
  ASSUME IndInv, [Next]_vars
  PROVE  IndInv'
<1>1. CASE (\E c \in Commands : SendCommand(c)) \/ ClearRunning \/ SendExit
  BY SMTT(30), <1>1, OperatorKeeps
<1>2. ASSUME NEW i \in Ids, Module(i) PROVE IndInv'
  BY SMTT(30), <1>2, ModuleKeeps
<1>3. ASSUME NEW i \in Ids, HandleEventExit(i) PROVE IndInv'
  BY SMTT(30), <1>3, RelaunchKeeps, ReloadAllKeeps, LeaveKeeps DEF HandleEventExit
<1>4. CASE Manager
  BY SMTT(30), <1>3, <1>4, PendingKeeps, LoadKeeps, CheckKeeps DEF Manager
<1>5. CASE UNCHANGED vars
  BY <1>5, CheckKeeps
<1> QED BY SMTT(30), <1>1, <1>2, <1>4, <1>5 DEF Next

\* So it always holds.
LEMMA Invariance == Spec => []IndInv
<1>1. Init => IndInv
  BY InitIndInv
<1>2. IndInv /\ [Next]_vars => IndInv'
  BY NextIndInv
<1> QED BY <1>1, <1>2, PTL DEF Spec

\* The number of exit reports, from the two predicates.
LEMMA CountReports ==
  ASSUME NEW i
  PROVE  TypeOK => /\ Cardinality(ExitReports(i)) \in Nat
                   /\ ~ Reported(mail, i) => Cardinality(ExitReports(i)) = 0
                   /\ ReportedOnce(mail, i) => Cardinality(ExitReports(i)) <= 1
<1> SUFFICES ASSUME TypeOK
             PROVE  /\ Cardinality(ExitReports(i)) \in Nat
                    /\ ~ Reported(mail, i) => Cardinality(ExitReports(i)) = 0
                    /\ ReportedOnce(mail, i) => Cardinality(ExitReports(i)) <= 1
  OBVIOUS
<1> DEFINE R == ExitReports(i)
<1>1. R = {k \in DOMAIN mail : mail[k] = Exited(i)}
  BY Zenon DEF ExitReports, Exited
<1>2. IsFiniteSet(R)
  <2>1. Len(mail) \in Nat /\ DOMAIN mail = 1 .. Len(mail)
    BY SMTT(30) DEF TypeOK
  <2>2. IsFiniteSet(1 .. Len(mail))
    BY <2>1, FS_Interval
  <2> QED BY Zenon, <1>1, <2>1, <2>2, FS_Subset
<1> HIDE DEF R
<1>3. Cardinality(R) \in Nat
  BY SMTT(30), <1>2, FS_CardinalityType
<1>4. ASSUME ~ Reported(mail, i) PROVE Cardinality(R) = 0
  <2>1. R = {}
    BY SMTT(30), <1>1, <1>4 DEF Reported
  <2> QED BY SMTT(30), <2>1, FS_EmptySet
<1>5. ASSUME ReportedOnce(mail, i) PROVE Cardinality(R) <= 1
  <2>1. CASE R = {}
    BY SMTT(30), <2>1, FS_EmptySet
  <2>2. CASE R # {}
    <3>1. PICK k : R = {k}
      BY SMTT(30), <1>1, <1>5, <2>2 DEF ReportedOnce
    <3> QED BY SMTT(30), <3>1, FS_Singleton
  <2> QED BY SMTT(30), <2>1, <2>2
<1> QED BY Zenon, <1>3, <1>4, <1>5 DEF R

-----------------------------------------------------------------------------
(* Restarts *)

\* The manager's mailbox has room, so MailBox::Send drops nothing.
RoomForMail == Len(mail) < MailCapacity

Crash(i) == [type |-> "crash", arg |-> i]

\* The exit report of i is still to be sent, or it is in the mailbox after the
\* k-th mail.
OwedAfter(i, k) ==
  coro[i]["exiting"] > 0 \/ \E l \in DOMAIN mail : l > k /\ mail[l] = Exited(i)

\* It is for every restart that is pending, and follows every crash report.
OwedInv ==
  /\ \A i \in pending_restart : OwedAfter(i, 0)
  /\ \A k \in DOMAIN mail, i \in Ids : mail[k] = Crash(i) => OwedAfter(i, k)

\* A mail arrives: an exit report when a coroutine leaves, and a crash report
\* before it does.
LEMMA OwedAppend ==
  ASSUME TypeOK, OwedInv, NEW x, mail' = Append(mail, x), pending_restart' = pending_restart,
         \A i \in Ids : coro[i]["exiting"] > 0 => coro'[i]["exiting"] > 0 \/ x = Exited(i),
         \A i \in Ids : x = Crash(i) => coro'[i]["exiting"] > 0
  PROVE  OwedInv'
<1>1. /\ mail \in Seq(Mail) /\ Len(mail) \in Nat /\ DOMAIN mail = 1 .. Len(mail)
      /\ pending_restart \subseteq Ids
  BY SMTT(30) DEF TypeOK
<1>2. /\ DOMAIN mail' = 1 .. Len(mail) + 1 /\ mail'[Len(mail) + 1] = x
      /\ \A k \in 1 .. Len(mail) : mail'[k] = mail[k]
  BY SMTT(30), <1>1
<1>3. ASSUME NEW i \in Ids, NEW k \in 0 .. Len(mail), OwedAfter(i, k) PROVE OwedAfter(i, k)'
  <2>1. CASE coro'[i]["exiting"] > 0
    BY Zenon, <2>1 DEF OwedAfter
  <2>2. CASE x = Exited(i)
    <3>1. Len(mail) + 1 \in DOMAIN mail' /\ Len(mail) + 1 > k
      BY SMTT(30), <1>1, <1>2
    <3> QED BY ZenonT(60), <1>2, <2>2, <3>1 DEF OwedAfter
  <2>3. ASSUME NEW l \in DOMAIN mail, l > k, mail[l] = Exited(i) PROVE OwedAfter(i, k)'
    <3>1. l \in DOMAIN mail' /\ mail'[l] = Exited(i)
      BY SMTT(30), <1>1, <1>2, <2>3
    <3> QED BY ZenonT(60), <2>3, <3>1 DEF OwedAfter
  <2> QED BY Zenon, <1>3, <2>1, <2>2, <2>3 DEF OwedAfter
<1>4. \A i \in pending_restart' : OwedAfter(i, 0)'
  BY SMTT(30), <1>1, <1>3 DEF OwedInv
<1>5. ASSUME NEW k \in DOMAIN mail', NEW i \in Ids, mail'[k] = Crash(i) PROVE OwedAfter(i, k)'
  <2>1. CASE k = Len(mail) + 1
    BY Zenon, <1>2, <1>5, <2>1 DEF OwedAfter
  <2>2. CASE k # Len(mail) + 1
    <3>1. k \in DOMAIN mail /\ k \in 0 .. Len(mail) /\ mail[k] = Crash(i)
      BY SMTT(30), <1>1, <1>2, <1>5, <2>2
    <3> QED BY ZenonT(60), <1>3, <3>1 DEF OwedInv
  <2> QED BY Zenon, <2>1, <2>2
<1> QED BY ZenonT(60), <1>4, <1>5 DEF OwedInv

\* A mail is read: a restart becomes pending on a crash report only, and the
\* exit report ends it.
LEMMA OwedTail ==
  ASSUME TypeOK, OwedInv, mail # <<>>, mail' = Tail(mail), pending_restart' \subseteq Ids,
         \A i \in Ids : coro'[i]["exiting"] = coro[i]["exiting"],
         \A i \in pending_restart' :
           Head(mail) = Crash(i) \/ (i \in pending_restart /\ Head(mail) # Exited(i))
  PROVE  OwedInv'
<1>1. /\ mail \in Seq(Mail) /\ Len(mail) \in Nat /\ Len(mail) > 0 /\ DOMAIN mail = 1 .. Len(mail)
      /\ Head(mail) = mail[1]
  BY SMTT(30), EmptySeq DEF TypeOK
<1>2. /\ DOMAIN mail' = 1 .. Len(mail) - 1
      /\ \A k \in 1 .. Len(mail) - 1 : mail'[k] = mail[k + 1]
  BY SMTT(30), <1>1, HeadTailProperties
<1>3. ASSUME NEW i \in Ids, NEW k \in 0 .. Len(mail), OwedAfter(i, k + 1) PROVE OwedAfter(i, k)'
  <2>1. CASE coro'[i]["exiting"] > 0
    BY Zenon, <2>1 DEF OwedAfter
  <2>2. ASSUME NEW l \in DOMAIN mail, l > k + 1, mail[l] = Exited(i) PROVE OwedAfter(i, k)'
    <3>1. l - 1 \in 1 .. Len(mail) - 1 /\ l - 1 > k /\ (l - 1) + 1 = l
      BY SMTT(30), <1>1, <2>2
    <3>2. l - 1 \in DOMAIN mail' /\ mail'[l - 1] = Exited(i)
      BY Zenon, <1>2, <2>2, <3>1
    <3> QED BY ZenonT(60), <3>1, <3>2 DEF OwedAfter
  <2> QED BY ZenonT(60), <1>3, <2>1, <2>2 DEF OwedAfter
<1>4. ASSUME NEW i \in pending_restart' PROVE OwedAfter(i, 0)'
  <2>1. i \in Ids /\ 0 \in 0 .. Len(mail) /\ 1 \in DOMAIN mail
    BY SMTT(30), <1>1
  <2>2. OwedAfter(i, 1)
    <3>1. CASE Head(mail) = Crash(i)
      BY Zenon, <1>1, <2>1, <3>1 DEF OwedInv
    <3>2. CASE i \in pending_restart /\ Head(mail) # Exited(i)
      <4>1. OwedAfter(i, 0)
        BY Zenon, <3>2 DEF OwedInv
      <4>2. \A l \in DOMAIN mail : mail[l] = Exited(i) => l > 1
        BY SMTT(30), <1>1, <3>2
      <4> QED BY ZenonT(60), <4>1, <4>2 DEF OwedAfter
    <3> QED BY Zenon, <3>1, <3>2
  <2>3. OwedAfter(i, 0 + 1)
    BY SMTT(30), <2>2
  <2> QED BY Zenon, <1>3, <2>1, <2>3
<1>5. ASSUME NEW k \in DOMAIN mail', NEW i \in Ids, mail'[k] = Crash(i) PROVE OwedAfter(i, k)'
  <2>1. k + 1 \in DOMAIN mail /\ k \in 0 .. Len(mail) /\ mail[k + 1] = Crash(i)
    BY SMTT(30), <1>1, <1>2, <1>5
  <2>2. OwedAfter(i, k + 1)
    BY Zenon, <2>1 DEF OwedInv
  <2> QED BY ZenonT(60), <1>3, <2>1, <2>2
<1> QED BY Zenon, <1>4, <1>5 DEF OwedInv

\* Nothing arrives, nothing is read and no coroutine leaves.
LEMMA OwedSame ==
  ASSUME TypeOK, OwedInv, mail' = mail, pending_restart' = pending_restart,
         \A i \in Ids : coro[i]["exiting"] > 0 => coro'[i]["exiting"] > 0
  PROVE  OwedInv'
<1>1. pending_restart \subseteq Ids
  BY Zenon DEF TypeOK
<1>2. ASSUME NEW i \in Ids, NEW k, OwedAfter(i, k) PROVE OwedAfter(i, k)'
  BY Zenon, <1>2 DEF OwedAfter
<1> QED BY Zenon, <1>1, <1>2 DEF OwedInv

\* Commands and the exit command are no reports.
LEMMA OperatorOwed ==
  ASSUME TypeOK, OwedInv, RoomForMail,
         (\E c \in Commands : SendCommand(c)) \/ ClearRunning \/ SendExit
  PROVE  OwedInv'
<1>1. UNCHANGED <<coro, pending_restart>>
  BY Zenon DEF SendCommand, ClearRunning, SendExit, pendingVars, moduleVars
<1>2. ASSUME NEW x, x.type # "crash", Deliver(x) PROVE OwedInv'
  <2>1. mail' = Append(mail, x)
    BY <1>2 DEF Deliver, RoomForMail
  <2>2. \A i \in Ids : x # Crash(i)
    BY SMTT(30), <1>2 DEF Crash
  <2> QED BY Zenon, <1>1, <2>1, <2>2, OwedAppend
<1>3. CASE ClearRunning
  BY Zenon, <1>1, <1>3, OwedSame DEF ClearRunning
<1>4. CASE SendExit
  BY Zenon, <1>2, <1>4 DEF SendExit
<1>5. ASSUME NEW c \in Commands, SendCommand(c) PROVE OwedInv'
  <2>1. c.type # "crash"
    BY CommandAssumption DEF Command
  <2> QED BY Zenon, <1>2, <1>5, <2>1 DEF SendCommand
<1> QED BY Zenon, <1>3, <1>4, <1>5

\* A coroutine mails its crash report on the way out and its exit report last.
LEMMA ModuleOwed ==
  ASSUME TypeOK, OwedInv, RoomForMail, NEW i \in Ids, Module(i)
  PROVE  OwedInv'
<1>1. pending_restart' = pending_restart /\ coro \in [Ids -> [Places -> Nat]]
  BY Zenon
    DEF Module, StartModule, CreateFails, ModuleStops, ModuleCrashes, SendExited, pendingVars,
         TypeOK
<1>2. ASSUME NEW from \in {"queued", "running"}, NEW to \in {"running", "exiting"}, from # to,
             coro' = [coro EXCEPT ![i] = Move(coro[i], from, to)]
      PROVE  /\ \A j \in Ids : coro[j]["exiting"] > 0 => coro'[j]["exiting"] > 0
             /\ to = "exiting" => coro'[i]["exiting"] > 0
  <2>1. coro[i] \in [Places -> Nat] /\ coro[i]["exiting"] \in Nat /\ from # "exiting"
    BY <1>1 DEF Places
  <2>2. coro'[i] = Move(coro[i], from, to) /\ \A j \in Ids : j # i => coro'[j] = coro[j]
    BY Zenon, <1>1, <1>2
  <2>3. coro'[i]["exiting"] = IF to = "exiting" THEN coro[i]["exiting"] + 1 ELSE coro[i]["exiting"]
    BY SMTT(30), ZenonT(60), <1>2, <2>1, <2>2 DEF Move, Places
  <2>4. /\ coro[i]["exiting"] > 0 => coro'[i]["exiting"] > 0
        /\ to = "exiting" => coro'[i]["exiting"] > 0
    BY SMTT(30), <2>1, <2>3
  <2> QED BY Zenon, <2>2, <2>4
<1>3. CASE StartModule(i) \/ CreateFails(i) \/ ModuleStops(i)
  <2>1. mail' = mail
    BY Zenon, <1>3 DEF StartModule, CreateFails, ModuleStops
  <2>2. \E from \in {"queued", "running"}, to \in {"running", "exiting"} :
          from # to /\ coro' = [coro EXCEPT ![i] = Move(coro[i], from, to)]
    BY Zenon, <1>3 DEF StartModule, CreateFails, ModuleStops
  <2> QED BY Zenon, <1>1, <1>2, <2>1, <2>2, OwedSame
<1>4. CASE ModuleCrashes(i)
  <2>1. mail' = Append(mail, Crash(i))
    BY Zenon, <1>4 DEF ModuleCrashes, Deliver, RoomForMail, Crash
  <2>2. coro' = [coro EXCEPT ![i] = Move(coro[i], "running", "exiting")]
    BY Zenon, <1>4 DEF ModuleCrashes
  <2>3. /\ \A j \in Ids : coro[j]["exiting"] > 0 => coro'[j]["exiting"] > 0
        /\ coro'[i]["exiting"] > 0
    BY Zenon, <1>2, <2>2
  <2>4. \A j \in Ids : Crash(i) = Crash(j) => j = i
    BY Zenon DEF Crash
  <2> QED BY Zenon, <1>1, <2>1, <2>3, <2>4, OwedAppend
<1>5. CASE SendExited(i)
  <2>1. mail' = Append(mail, Exited(i))
    BY Zenon, <1>5 DEF SendExited, Deliver, RoomForMail, Exited
  <2>2. \A j \in Ids : j # i => coro'[j] = coro[j]
    BY Zenon, <1>1, <1>5 DEF SendExited
  <2>3. \A j \in Ids : Exited(i) # Crash(j)
    BY Zenon DEF Exited, Crash
  <2> QED BY Zenon, <1>1, <2>1, <2>2, <2>3, OwedAppend
<1> QED BY ZenonT(60), <1>3, <1>4, <1>5 DEF Module

\* What the manager's steps do to coroutines that are on their way out.
LEMMA LaunchExiting ==
  ASSUME TypeOK, coro' = coro \/ \E ids : Launch(ids)
  PROVE  \A i \in Ids : coro'[i]["exiting"] = coro[i]["exiting"]
<1>1. coro \in [Ids -> [Places -> Nat]]
  BY Zenon DEF TypeOK
<1>2. ASSUME NEW ids, Launch(ids), NEW i \in Ids PROVE coro'[i]["exiting"] = coro[i]["exiting"]
  <2>1. coro'[i] = IF i \in ids THEN [coro[i] EXCEPT !["queued"] = @ + 1] ELSE coro[i]
    BY Zenon, <1>2 DEF Launch
  <2> QED BY Zenon, <1>1, <2>1 DEF Places
<1> QED BY Zenon, <1>2

\* The manager forgets a pending restart only on the exit report it waits for.
LEMMA ManagerOwed ==
  ASSUME TypeOK, OwedInv, Manager
  PROVE  OwedInv'
<1>1. coro' = coro \/ \E ids : Launch(ids)
  BY Zenon DEF Manager, HandleEventExit, HandleCmdExit, UpdateConfigFails, HandleReloadAll,
         HandleReloadNothing, HandleReloadOne, HandleReloadUnknown, HandleCmdRemove,
         HandleRemoveUnknown, HandleEventCrash, ExitBeforeReloadAll, ExitThenReloadAll,
         ExitThenReload, ExitThenRestart, Unmount, CheckFinished, LoadModules, CreateAndLaunch,
         moduleVars
<1>2. \A i \in Ids : coro'[i]["exiting"] = coro[i]["exiting"]
  BY Zenon, <1>1, LaunchExiting
<1>3. pending_restart \subseteq Ids
  BY Zenon DEF TypeOK
<1>4. CASE CheckFinished
  <2>1. mail' = mail /\ pending_restart' = pending_restart
    BY Zenon, <1>4 DEF CheckFinished, pendingVars
  <2> QED BY Zenon, <1>2, <2>1, OwedSame
<1>5. ASSUME NEW type \in {"exit", "reload", "remove"}, Receive(type),
             pending_restart' \subseteq pending_restart
      PROVE  OwedInv'
  <2>1. mail # <<>> /\ mail' = Tail(mail) /\ Head(mail).type = type
    BY Zenon, <1>5 DEF Receive
  <2>2. \A i : Head(mail) # Exited(i)
    BY SMTT(30), <2>1 DEF Exited
  <2> QED BY Zenon, <1>2, <1>3, <1>5, <2>1, <2>2, OwedTail
<1>6. CASE HandleEventCrash
  <2>1. mail # <<>> /\ mail' = Tail(mail) /\ Head(mail).type = "crash"
    BY Zenon, <1>6 DEF HandleEventCrash, Receive
  <2>2. Head(mail) \in Mail
    BY Zenon, <2>1, HeadTailProperties DEF TypeOK
  <2>3. Head(mail).arg \in Ids /\ Head(mail) = Crash(Head(mail).arg)
    BY SMTT(30), <2>1, <2>2 DEF Mail, Command, Report, Crash
  <2>4. pending_restart' \subseteq pending_restart \cup {Head(mail).arg}
    BY ZenonT(60), <1>6 DEF HandleEventCrash
  <2>5. \A i : Head(mail) # Exited(i)
    BY SMTT(30), <2>1 DEF Exited
  <2>6. pending_restart' \subseteq Ids
    BY Zenon, <1>3, <2>3, <2>4
  <2>7. \A i \in pending_restart' :
          Head(mail) = Crash(i) \/ (i \in pending_restart /\ Head(mail) # Exited(i))
    BY Zenon, <2>3, <2>4, <2>5
  <2> QED BY Zenon, <1>2, <2>1, <2>6, <2>7, OwedTail
<1>7. ASSUME NEW i \in Ids, HandleEventExit(i) PROVE OwedInv'
  <2>1. ExitReport(i)
    BY Zenon, <1>7 DEF HandleEventExit, ExitBeforeReloadAll, ExitThenReloadAll, ExitThenReload,
                ExitThenRestart, Unmount
  <2>2. /\ mail # <<>> /\ mail' = Tail(mail) /\ Head(mail).type = "exited" /\ Head(mail).arg = i
        /\ pending_restart' = pending_restart \ {i}
    BY ZenonT(60), <2>1 DEF ExitReport, Receive
  <2>3. \A j : j # i => Head(mail) # Exited(j)
    BY SMTT(30), <2>2 DEF Exited
  <2> QED BY Zenon, <1>2, <1>3, <2>2, <2>3, OwedTail
<1>8. CASE HandleCmdExit
  BY ZenonT(60), <1>5, <1>8 DEF HandleCmdExit
<1>9. CASE \/ UpdateConfigFails \/ HandleReloadAll \/ HandleReloadNothing \/ HandleReloadOne
           \/ HandleReloadUnknown
  <2>1. Receive("reload") /\ pending_restart' \subseteq pending_restart
    BY Zenon, <1>9
      DEF UpdateConfigFails, HandleReloadAll, HandleReloadNothing, HandleReloadOne,
                HandleReloadUnknown, pendingVars
  <2> QED BY SMTT(30), <1>5, <2>1
<1>10. CASE HandleCmdRemove \/ HandleRemoveUnknown
  <2>1. Receive("remove") /\ pending_restart' \subseteq pending_restart
    BY Zenon, <1>10 DEF HandleCmdRemove, HandleRemoveUnknown, pendingVars
  <2> QED BY SMTT(30), <1>5, <2>1
<1> QED BY SMTT(30), <1>4, <1>6, <1>7, <1>8, <1>9, <1>10 DEF Manager

\* A report that is there and is not double counts one.
LEMMA OneReport ==
  ASSUME TypeOK, NEW i, Reported(mail, i), ReportedOnce(mail, i)
  PROVE  Cardinality(ExitReports(i)) = 1
<1>1. PICK k \in DOMAIN mail : mail[k] = Exited(i)
  BY DEF Reported
<1>2. ExitReports(i) = {k}
  BY Zenon, <1>1 DEF ExitReports, Exited, ReportedOnce
<1> QED BY ZenonT(60), <1>2, FS_Singleton

\* Every step keeps it while the mailbox has room.
LEMMA NextOwedInv ==
  ASSUME TypeOK, OwedInv, RoomForMail, [Next]_vars
  PROVE  OwedInv'
<1>1. CASE UNCHANGED vars
  <2>1. UNCHANGED <<mail, pending_restart, coro>>
    BY Zenon, <1>1 DEF vars
  <2> QED BY ZenonT(60), <2>1, OwedSame
<1> QED BY Zenon, <1>1, OperatorOwed, ModuleOwed, ManagerOwed DEF Next

-----------------------------------------------------------------------------
(* Entries without a coroutine *)

\* Module i has a coroutine or an exit report that was not read.
Flying(i) == Live(i) > 0 \/ Reported(mail, i)

\* A step leaves the entry i alive, or found it dead, or has a reason.
Kept(i) ==
  \/ Flying(i)'
  \/ i \in DOMAIN childrens /\ ~Flying(i)
  \/ ReportDropped(i)
  \/ ReloadNotDone(i)

AllKept == \A i \in DOMAIN childrens' : Kept(i)

\* Flying is what the property counts.
LEMMA FlyingCount ==
  IndInv => \A i \in Ids : InFlight(i) = IF Flying(i) THEN 1 ELSE 0
<1> SUFFICES ASSUME IndInv, NEW i \in Ids PROVE InFlight(i) = IF Flying(i) THEN 1 ELSE 0
  BY Zenon
<1>1. /\ TypeOK /\ Live(i) \in Nat /\ Live(i) <= 1 /\ ReportedOnce(mail, i)
      /\ Reported(mail, i) => Live(i) = 0
  BY ZenonT(60), LiveNat DEF IndInv, InstanceInv
<1>2. CASE Reported(mail, i)
  <2>1. Cardinality(ExitReports(i)) = 1 /\ Live(i) = 0
    BY ZenonT(60), <1>1, <1>2, OneReport
  <2> QED BY SMTT(30), <1>2, <2>1 DEF InFlight, Flying
<1>3. CASE ~ Reported(mail, i)
  <2>1. Cardinality(ExitReports(i)) = 0
    BY ZenonT(60), <1>1, <1>3, CountReports
  <2> QED BY SMTT(30), <1>1, <1>3, <2>1 DEF InFlight, Flying
<1> QED BY Zenon, <1>2, <1>3

\* A mail arrives or is dropped.
LEMMA MailArrives ==
  ASSUME TypeOK, NEW x, Deliver(x)
  PROVE  /\ \A i : Reported(mail, i) => Reported(mail', i)
         /\ \/ mail' = mail /\ Len(mail) >= MailCapacity
            \/ \A i : x = Exited(i) => Reported(mail', i)
<1>1. mail \in Seq(Mail) /\ Len(mail) \in Nat /\ DOMAIN mail = 1 .. Len(mail)
  BY DEF TypeOK
<1>2. CASE mail' = Append(mail, x)
  <2>1. /\ DOMAIN mail' = 1 .. Len(mail) + 1 /\ mail'[Len(mail) + 1] = x
        /\ \A k \in 1 .. Len(mail) : mail'[k] = mail[k]
    BY SMTT(30), <1>1, <1>2
  <2>2. DOMAIN mail \subseteq DOMAIN mail' /\ Len(mail) + 1 \in DOMAIN mail'
    BY SMTT(30), <1>1, <2>1
  <2> QED BY Zenon, <1>1, <2>1, <2>2 DEF Reported
<1>3. CASE ~(Len(mail) < MailCapacity)
  <2>1. mail' = mail
    BY Zenon, <1>3 DEF Deliver
  <2>2. Len(mail) >= MailCapacity
    BY SMTT(30), <1>1, <1>3, BoundAssumption
  <2> QED BY Zenon, <2>1, <2>2
<1> QED BY Zenon, <1>2, <1>3 DEF Deliver

\* A mail is read.
LEMMA MailRead ==
  ASSUME TypeOK, mail # <<>>, mail' = Tail(mail)
  PROVE  \A i : Reported(mail, i) /\ Head(mail) # Exited(i) => Reported(mail', i)
<1>1. /\ mail \in Seq(Mail) /\ Len(mail) \in Nat /\ Len(mail) > 0 /\ DOMAIN mail = 1 .. Len(mail)
      /\ Head(mail) = mail[1]
  BY SMTT(30), EmptySeq DEF TypeOK
<1>2. /\ DOMAIN mail' = 1 .. Len(mail) - 1
      /\ \A k \in 1 .. Len(mail) - 1 : mail'[k] = mail[k + 1]
  BY SMTT(30), <1>1, HeadTailProperties
<1>3. /\ \A k \in DOMAIN mail' : k + 1 \in DOMAIN mail
      /\ \A l \in DOMAIN mail : l # 1 => l - 1 \in DOMAIN mail' /\ (l - 1) + 1 = l
  BY SMTT(30), <1>1, <1>2
<1>4. ASSUME NEW i, Reported(mail, i), Head(mail) # Exited(i) PROVE Reported(mail', i)
  <2>1. PICK l \in DOMAIN mail : mail[l] = Exited(i)
    BY SMTT(30), <1>4 DEF Reported
  <2>2. l - 1 \in DOMAIN mail' /\ mail'[l - 1] = Exited(i)
    BY Zenon, <1>1, <1>2, <1>3, <1>4, <2>1
  <2> QED BY ZenonT(60), <2>2 DEF Reported
<1> QED BY Zenon, <1>4

\* A mail that is no exit report is read.
LEMMA OtherRead ==
  ASSUME TypeOK, NEW type \in {"exit", "reload", "remove", "crash"}, Receive(type)
  PROVE  \A i : Reported(mail, i) => Reported(mail', i)
<1>1. mail # <<>> /\ mail' = Tail(mail) /\ \A i : Head(mail) # Exited(i)
  BY SMTT(30) DEF Receive, Exited
<1> QED BY ZenonT(60), <1>1, MailRead

\* What Launch does to coroutines that exist and to those it creates.
LEMMA LaunchFlies ==
  ASSUME TypeOK, NEW ids, Launch(ids), NEW i \in Ids
  PROVE  Live(i) > 0 \/ i \in ids => Live(i)' > 0
<1>1. Live(i) \in Nat /\ Live(i)' = IF i \in ids THEN Live(i) + 1 ELSE Live(i)
  BY ZenonT(60), LiveNat, LaunchCounts
<1>2. \A n \in Nat : n + 1 > 0
  OBVIOUS
<1> QED BY Zenon, <1>1, <1>2

\* Every entry that is added is launched.
LEMMA CreateFlies ==
  ASSUME IndInv, [Next]_vars, NEW names, NEW again, CreateAndLaunch(names, again)
  PROVE  \A i \in DOMAIN childrens' :
           /\ i \in Ids
           /\ i \in DOMAIN childrens \/ Live(i)' > 0
           /\ Live(i) > 0 \/ i \in again => Live(i)' > 0
<1>1. PICK f \in Assignments(names) : childrens' = Merge(childrens, f)
  BY Zenon DEF CreateAndLaunch
<1>2. DOMAIN f = NewIds(names)
  BY Zenon DEF Assignments
<1>3. DOMAIN childrens' = DOMAIN childrens \cup NewIds(names)
  BY ZenonT(60), <1>1, <1>2 DEF Merge
<1>4. Launch(again \cup NewIds(names)) /\ TypeOK /\ DOMAIN childrens' \subseteq Ids
  BY ZenonT(60), NextIndInv DEF CreateAndLaunch, IndInv, TypeOK
<1> QED BY ZenonT(60), <1>3, <1>4, LaunchFlies

\* A command, the flag, the exit command.
LEMMA OperatorKept ==
  ASSUME TypeOK, (\E c \in Commands : SendCommand(c)) \/ ClearRunning \/ SendExit
  PROVE  AllKept
<1>1. UNCHANGED <<childrens, coro>>
  BY Zenon DEF SendCommand, ClearRunning, SendExit, tableVars, moduleVars
<1>2. \A i : Live(i)' = Live(i)
  BY Zenon, <1>1 DEF Live
<1>3. mail' = mail \/ \E x : Deliver(x)
  BY Zenon DEF SendCommand, ClearRunning, SendExit
<1>4. \A i : Reported(mail, i) => Reported(mail', i)
  BY Zenon, <1>3, MailArrives
<1> QED BY Zenon, <1>1, <1>2, <1>4 DEF AllKept, Kept, Flying

\* A coroutine that leaves has its exit report in the mailbox, unless that was
\* full.
LEMMA ModuleKept ==
  ASSUME TypeOK, NEW i \in Ids, Module(i)
  PROVE  AllKept
<1>1. childrens' = childrens /\ DOMAIN childrens \subseteq Ids
  BY Zenon
    DEF Module, StartModule, CreateFails, ModuleStops, ModuleCrashes, SendExited, tableVars, TypeOK
<1>2. Live(i) > 0 /\ \A j \in Ids : Live(j)' = Live(j) \/ (j = i /\ SendExited(i))
  BY Zenon, ModuleCounts
<1>3. mail' = mail \/ \E x : Deliver(x)
  BY Zenon DEF Module, StartModule, CreateFails, ModuleStops, ModuleCrashes, SendExited
<1>4. \A j : Reported(mail, j) => Reported(mail', j)
  BY Zenon, <1>3, MailArrives
<1>5. SendExited(i) => Reported(mail', i) \/ ReportDropped(i)
  <2> SUFFICES ASSUME SendExited(i) PROVE Reported(mail', i) \/ ReportDropped(i)
    BY Zenon
  <2>1. coro[i]["exiting"] > 0 /\ Deliver(Exited(i))
    BY Zenon DEF SendExited, Exited
  <2> QED BY Zenon, <2>1, MailArrives DEF ReportDropped
<1> QED BY ZenonT(60), <1>1, <1>2, <1>4, <1>5 DEF AllKept, Kept, Flying

\* A handler that neither loads nor launches.
LEMMA HandlerKept ==
  ASSUME TypeOK, NEW type \in {"exit", "reload", "remove", "crash"}, Receive(type),
         UNCHANGED <<childrens, coro>>
  PROVE  AllKept
<1>1. \A i : Live(i)' = Live(i)
  BY Zenon DEF Live
<1> QED BY ZenonT(60), <1>1, OtherRead DEF AllKept, Kept, Flying

\* Modules that were not loaded are loaded and launched.
LEMMA LoadKept ==
  ASSUME IndInv, [Next]_vars, HandleReloadUnknown \/ HandleReloadNothing
  PROVE  AllKept
<1>1. Receive("reload") /\ \E names : CreateAndLaunch(names, {})
  BY Zenon DEF HandleReloadUnknown, HandleReloadNothing, LoadModules
<1>2. \A i : Reported(mail, i) => Reported(mail', i)
  BY ZenonT(60), <1>1, OtherRead DEF IndInv
<1>3. \A i \in DOMAIN childrens' :
        (i \in DOMAIN childrens \/ Live(i)' > 0) /\ (Live(i) > 0 => Live(i)' > 0)
  BY ZenonT(60), <1>1, CreateFlies
<1> QED BY ZenonT(60), <1>2, <1>3 DEF AllKept, Kept, Flying

\* A module whose exit report is read is launched again, forgotten, or a reload
\* of it is not done at once.
LEMMA ExitKept ==
  ASSUME IndInv, [Next]_vars, NEW i \in Ids, HandleEventExit(i)
  PROVE  AllKept
<1>1. ExitReport(i)
  BY Zenon DEF HandleEventExit, ExitBeforeReloadAll, ExitThenReloadAll, ExitThenReload,
               ExitThenRestart, Unmount
<1>2. /\ mail # <<>> /\ mail' = Tail(mail) /\ i \notin pending_reload'
      /\ \A j : j # i => Head(mail) # Exited(j)
      /\ TypeOK /\ DOMAIN childrens \subseteq Ids
  <2>1. Receive("exited") /\ Head(mail).arg = i /\ pending_reload' = pending_reload \ {i}
    BY Zenon, <1>1 DEF ExitReport
  <2>2. \A j : Exited(j).arg = j
    BY Zenon DEF Exited
  <2>3. \A j : j # i => Head(mail) # Exited(j)
    BY Zenon, <2>1, <2>2
  <2> QED BY Zenon, <2>1, <2>3 DEF Receive, IndInv, TypeOK
<1>3. \A j : j # i /\ Reported(mail, j) => Reported(mail', j)
  BY Zenon, <1>2, MailRead
<1>4. ASSUME \A j \in DOMAIN childrens' : \/ j \in DOMAIN childrens /\ j # i
                                          \/ Live(j)' > 0
                                          \/ ReloadNotDone(j),
             \A j \in DOMAIN childrens' : Live(j) > 0 => Live(j)' > 0
      PROVE  AllKept
  BY ZenonT(60), <1>3, <1>4 DEF AllKept, Kept, Flying
<1>5. CASE Unmount(i)
  <2>1. childrens' = Without(childrens, i) /\ coro' = coro
    BY Zenon, <1>5 DEF Unmount, moduleVars
  <2>2. DOMAIN childrens' = DOMAIN childrens \ {i}
    BY Zenon, <2>1 DEF Without
  <2>3. \A j : Live(j)' = Live(j)
    BY Zenon, <2>1 DEF Live
  <2> QED BY ZenonT(60), <1>4, <2>2, <2>3
<1>6. CASE ExitBeforeReloadAll(i)
  <2>1. childrens' = childrens /\ coro' = coro
    BY Zenon, <1>6 DEF ExitBeforeReloadAll, tableVars, moduleVars
  <2>2. ReloadNotDone(i)
    BY Zenon, <1>2, <1>6 DEF ExitBeforeReloadAll, ToReload, ReloadNotDone
  <2>3. \A j : Live(j)' = Live(j)
    BY Zenon, <2>1 DEF Live
  <2> QED BY ZenonT(60), <1>4, <2>1, <2>2, <2>3
<1>7. CASE ExitThenReload(i) \/ ExitThenRestart(i)
  <2>1. childrens' = childrens
    BY Zenon, <1>7 DEF ExitThenReload, ExitThenRestart, tableVars
  <2>2. (\E ids : Launch(ids)) /\ (Launch({i}) \/ ReloadNotDone(i))
    <3>1. ASSUME ToReload(i), NEW opened \in Libraries,
                 Launch(IF childrens[i] \in config \cap opened THEN {i} ELSE {})
          PROVE  (\E ids : Launch(ids)) /\ (Launch({i}) \/ ReloadNotDone(i))
      BY ZenonT(60), <1>2, <3>1 DEF ToReload, ReloadNotDone
    <3> QED BY ZenonT(60), <1>7, <3>1 DEF ExitThenReload, ExitThenRestart
  <2>3. /\ \A j \in DOMAIN childrens : Live(j) > 0 => Live(j)' > 0
        /\ Live(i)' > 0 \/ ReloadNotDone(i)
    BY ZenonT(60), <1>2, <2>2, LaunchFlies
  <2> QED BY ZenonT(60), <1>4, <2>1, <2>3
<1>8. CASE ExitThenReloadAll(i)
  <2>1. PICK opened \in Libraries :
          CreateAndLaunch((config \cap opened) \ LoadedNames,
                          {j \in DOMAIN childrens : childrens[j] \in config \cap opened})
    BY Zenon, <1>8 DEF ExitThenReloadAll
  <2> DEFINE again == {j \in DOMAIN childrens : childrens[j] \in config \cap opened}
  <2>2. i \in again \/ ReloadNotDone(i)
    BY ZenonT(60), <1>2, <1>8 DEF ExitThenReloadAll, ToReload, ReloadNotDone
  <2>3. \A j \in DOMAIN childrens' : /\ j \in DOMAIN childrens \/ Live(j)' > 0
                                     /\ Live(j) > 0 \/ j \in again => Live(j)' > 0
    BY ZenonT(60), <2>1, CreateFlies
  <2> HIDE DEF again
  <2> QED BY ZenonT(60), <1>4, <2>2, <2>3
<1> QED BY Zenon, <1>5, <1>6, <1>7, <1>8 DEF HandleEventExit

\* Every step.
LEMMA NextKept ==
  ASSUME IndInv, Next
  PROVE  AllKept
<1>0. TypeOK /\ [Next]_vars
  BY Zenon DEF IndInv
<1>1. CASE CheckFinished
  <2>1. UNCHANGED <<childrens, mail, coro>>
    BY Zenon, <1>1 DEF CheckFinished, tableVars, moduleVars
  <2>2. \A i : Live(i)' = Live(i)
    BY Zenon, <2>1 DEF Live
  <2> QED BY ZenonT(60), <2>1, <2>2 DEF AllKept, Kept, Flying
<1>2. CASE \/ HandleCmdExit \/ UpdateConfigFails \/ HandleReloadAll \/ HandleReloadOne
           \/ HandleCmdRemove \/ HandleRemoveUnknown \/ HandleEventCrash
  <2>1. PICK type \in {"exit", "reload", "remove", "crash"} : Receive(type)
    BY Zenon, <1>2 DEF HandleCmdExit, UpdateConfigFails, HandleReloadAll, HandleReloadOne,
                       HandleCmdRemove, HandleRemoveUnknown, HandleEventCrash
  <2>2. UNCHANGED <<childrens, coro>>
    BY ZenonT(60), <1>2
      DEF HandleCmdExit, UpdateConfigFails, HandleReloadAll, HandleReloadOne,
          HandleCmdRemove, HandleRemoveUnknown, HandleEventCrash, tableVars, moduleVars
  <2> QED BY Zenon, <1>0, <2>1, <2>2, HandlerKept
<1>3. Manager => AllKept
  BY Zenon, <1>0, <1>1, <1>2, LoadKept, ExitKept DEF Manager
<1> QED BY Zenon, <1>0, <1>3, OperatorKept, ModuleKept DEF Next

-----------------------------------------------------------------------------
(* The theorems *)

\* The tables and the mailbox of the manager stay well-formed.
THEOREM TypeCorrect == Spec => []TypeOK
<1>1. IndInv => TypeOK
  BY DEF IndInv
<1> QED BY <1>1, Invariance, PTL

\* No sequence of commands, crashes, restarts and dropped reports gives a
\* module a second coroutine or a second entry.
THEOREM OneInstance == Spec => []SingleInstance
<1>1. ASSUME IndInv PROVE SingleInstance
  <2>1. ASSUME NEW i \in Ids
        PROVE  InFlight(i) <= IF i \in DOMAIN childrens THEN 1 ELSE 0
    <3>1. TypeOK /\ Live(i) \in Nat
      BY ZenonT(60), <1>1, LiveNat DEF IndInv
    <3>2. /\ Live(i) <= 1 /\ ReportedOnce(mail, i) /\ (Reported(mail, i) => Live(i) = 0)
          /\ i \notin DOMAIN childrens => Live(i) = 0 /\ ~ Reported(mail, i)
      BY Zenon, <1>1 DEF IndInv, InstanceInv, Quiet
    <3>3. /\ Cardinality(ExitReports(i)) \in Nat
          /\ ~ Reported(mail, i) => Cardinality(ExitReports(i)) = 0
          /\ Cardinality(ExitReports(i)) <= 1
      BY ZenonT(60), <3>1, <3>2, CountReports
    <3> QED BY SMTT(30), <3>1, <3>2, <3>3 DEF InFlight
  <2> QED BY ZenonT(60), <1>1, <2>1 DEF SingleInstance, IndInv, NameInv
<1> QED BY <1>1, Invariance, PTL

\* The pending sets never contradict each other or the table.
THEOREM PendingSets == Spec => []PendingConsistent
<1>1. IndInv => PendingConsistent
  BY SMTT(30) DEF IndInv
<1> QED BY <1>1, Invariance, PTL

\* When the event loop ends, no module coroutine exists and none can start.
THEOREM QuietEnd == Spec => []DoneMeansQuiet
<1>1. ASSUME IndInv PROVE DoneMeansQuiet
  <2> SUFFICES ASSUME mpc = "done", NEW i \in Ids PROVE InFlight(i) = 0
    BY Zenon DEF DoneMeansQuiet
  <2>1. Live(i) = 0 /\ ~ Reported(mail, i) /\ TypeOK
    BY ZenonT(60), <1>1 DEF IndInv, DoneInv, InstanceInv, Quiet
  <2>2. Cardinality(ExitReports(i)) = 0
    BY SMTT(30), <2>1, CountReports
  <2> QED BY SMTT(30), <2>1, <2>2 DEF InFlight
<1> QED BY <1>1, Invariance, PTL

\* While the manager's mailbox drops nothing, a restart promised on a crash
\* report is kept: whatever commands and reports come between, the exit report
\* that triggers it is still to come, exactly once.
THEOREM RestartsKept == Spec /\ []RoomForMail => []RestartOwed
<1>1. Init => OwedInv
  BY SMTT(30) DEF Init, OwedInv
<1>2. IndInv /\ OwedInv /\ RoomForMail /\ [Next]_vars => OwedInv'
  BY Zenon, NextOwedInv DEF IndInv
<1>3. IndInv /\ OwedInv => RestartOwed
  <2> SUFFICES ASSUME IndInv, OwedInv, NEW i \in pending_restart
               PROVE  coro[i]["exiting"] + Cardinality(ExitReports(i)) = 1
    BY ZenonT(60) DEF RestartOwed
  <2>1. /\ TypeOK /\ i \in Ids /\ Live(i) <= 1 /\ ReportedOnce(mail, i)
        /\ Reported(mail, i) => Live(i) = 0
    BY Zenon DEF IndInv, TypeOK, InstanceInv
  <2>2. coro[i]["queued"] \in Nat /\ coro[i]["running"] \in Nat /\ coro[i]["exiting"] \in Nat
    BY Zenon, <2>1 DEF TypeOK, Places
  <2>3. OwedAfter(i, 0)
    BY Zenon DEF OwedInv
  <2>4. CASE Reported(mail, i)
    <3>1. Cardinality(ExitReports(i)) = 1
      BY Zenon, <2>1, <2>4, OneReport
    <3>2. coro[i]["exiting"] = 0
      BY SMTT(30), <2>1, <2>2, <2>4 DEF Live
    <3> QED BY SMTT(30), <3>1, <3>2
  <2>5. CASE ~ Reported(mail, i)
    <3>1. coro[i]["exiting"] > 0
      BY ZenonT(60), <2>3, <2>5 DEF OwedAfter, Reported
    <3>2. coro[i]["exiting"] = 1
      <4>1. \A q, r, e \in Nat : q + r + e <= 1 /\ e > 0 => e = 1
        BY SMTT(30)
      <4> QED BY Zenon, <2>1, <2>2, <3>1, <4>1 DEF Live
    <3>3. Cardinality(ExitReports(i)) = 0
      BY ZenonT(60), <2>1, <2>5, CountReports
    <3> QED BY SMTT(30), <3>2, <3>3
  <2> QED BY ZenonT(60), <2>4, <2>5
<1> QED BY <1>1, <1>2, <1>3, Invariance, PTL DEF Spec

\* An entry of the table is left without a coroutine and without an exit report
\* in no other way than the two the property names.
THEOREM DeadEntries == Spec => NoneLeftBehind
<1>1. IndInv' => (\A i \in Ids : InFlight(i) = IF Flying(i) THEN 1 ELSE 0)'
  BY FlyingCount, PTL
<1>2. ASSUME IndInv, IndInv', Next
      PROVE  \A i \in DOMAIN childrens' :
               \/ InFlight(i)' = 1
               \/ i \in DOMAIN childrens /\ InFlight(i) = 0
               \/ ReportDropped(i)
               \/ ReloadNotDone(i)
  <2>1. DOMAIN childrens \subseteq Ids /\ DOMAIN childrens' \subseteq Ids
    BY ZenonT(60), <1>2 DEF IndInv, TypeOK
  <2>2. \A i \in DOMAIN childrens : ~Flying(i) => InFlight(i) = 0
    BY ZenonT(60), <1>2, <2>1, FlyingCount
  <2>3. \A i \in DOMAIN childrens' : Flying(i)' => InFlight(i)' = 1
    BY ZenonT(60), <1>1, <1>2, <2>1
  <2> QED BY ZenonT(60), <1>2, <2>2, <2>3, NextKept DEF AllKept, Kept
<1>3. IndInv /\ IndInv' /\ [Next]_vars
        => [\A i \in DOMAIN childrens' :
              \/ InFlight(i)' = 1
              \/ i \in DOMAIN childrens /\ InFlight(i) = 0
              \/ ReportDropped(i)
              \/ ReloadNotDone(i)]_vars
  BY ZenonT(60), <1>2
<1> QED BY <1>3, Invariance, PTL DEF Spec, NoneLeftBehind

=============================================================================
