------------------------------ MODULE EventBus ------------------------------
(***************************************************************************)
(* ac::ActorEventBus (src/core/event_bus.cc) and the reference counts of   *)
(* ac::EventMessage (include/event_message.h).                             *)
(*                                                                         *)
(* Modules subscribe their mailbox when they start and unsubscribe it when *)
(* they end (gateway_actor.cc).  Every thread publishes along its own copy *)
(* of the route table, which it renews when it sees a newer version_.  The *)
(* manager sends one message to all of its children.  One message object   *)
(* is shared by all its receivers; the last one to release it deletes it.  *)
(*                                                                         *)
(* A mailbox lives as long as a route table, a copy of it, the manager or  *)
(* its module's coroutine points to it; when the last of them lets go, its *)
(* destructor releases the messages that are left.                         *)
(***************************************************************************)
EXTENDS Integers, Sequences, FiniteSets, Functions, FiniteSetsExt

CONSTANTS Threads,     \* threads that run coroutines
          Manager,     \* the manager's coroutine
          Boxes,       \* mailboxes, one per module
          Types,       \* event types
          Messages,    \* messages, each created once
          Capacity,    \* size of a mailbox
          MaxVersion,  \* bound on version_
          Null         \* no message, no type

ASSUME ThreadsAssumption == Manager \notin Threads
ASSUME NullAssumption == Null \notin Messages \cup Types
ASSUME BoundAssumption == Capacity \in Nat \ {0} /\ MaxVersion \in Nat
ASSUME FiniteAssumption == IsFiniteSet(Threads) /\ IsFiniteSet(Boxes)

Senders == Threads \cup {Manager}

VARIABLES
  bus,            \* event_bus_: type -> mailboxes
  version,        \* version_
  local_bus,      \* each thread's local_event_bus
  local_version,  \* each thread's local_version
  known,          \* the oldest version_ a relaxed load of the thread may return
  pc,             \* where each sender is in Publish or in a loop of Sends
  msg,            \* the message it sends
  type,           \* type_ of that message
  route,          \* the mailboxes it has yet to send to
  ref,            \* ref_ of each message
  live,           \* messages created and not deleted
  created,        \* messages created so far
  box,            \* the messages in each mailbox
  held,           \* the message each module is handling
  topic,          \* what each running module has subscribed to
  by,             \* the thread of its last Subscribe or Unsubscribe (history)
  children        \* mailboxes in the manager's table

busVars == <<bus, version>>
tableVars == <<local_bus, local_version, known>>
sendVars == <<pc, msg, type, route>>
refVars == <<ref, live, created>>
moduleVars == <<held, topic, by, children>>
vars == <<bus, version, local_bus, local_version, known, pc, msg, type, route,
          ref, live, created, box, held, topic, by, children>>

Init ==
  /\ bus = <<>>
  /\ version = 0
  /\ local_bus = [h \in Threads |-> <<>>]
  /\ local_version = [h \in Threads |-> 0]
  /\ known = [h \in Threads |-> 0]
  /\ pc = [s \in Senders |-> "idle"]
  /\ msg = [s \in Senders |-> Null]
  /\ type = [s \in Senders |-> Null]
  /\ route = [s \in Senders |-> <<>>]
  /\ ref = [m \in Messages |-> 0]
  /\ live = {}
  /\ created = {}
  /\ box = [b \in Boxes |-> <<>>]
  /\ held = [b \in Boxes |-> Null]
  /\ topic = [b \in Boxes |-> Null]
  /\ by = [b \in Boxes |-> Null]
  /\ children = Boxes

-----------------------------------------------------------------------------
(* References *)

Create(m, count) ==
  /\ m \notin created
  /\ created' = created \cup {m}
  /\ live' = live \cup {m}
  /\ ref' = [ref EXCEPT ![m] = count]

\* event_message_release, n[m] times for every message m: the release that
\* finds the count at one deletes the message.
Release(n) ==
  /\ ref' = [m \in Messages |-> ref[m] - n[m]]
  /\ live' = {m \in live : n[m] = 0 \/ ref[m] # n[m]}
  /\ UNCHANGED created

Once(m) == [x \in Messages |-> IF x = m THEN 1 ELSE 0]

Routes(table) == UNION {Range(table[t]) : t \in DOMAIN table}

Tabled == Routes(bus) \cup UNION {Routes(local_bus[h]) : h \in Threads}

Running == {b \in Boxes : topic[b] # Null}

\* ~MailBox of every box in gone: drain it.
Destroy(gone) ==
  /\ Release([m \in Messages |-> Quantify(gone, LAMBDA b : m \in Range(box[b]))])
  /\ box' = [b \in Boxes |-> IF b \in gone THEN <<>> ELSE box[b]]

-----------------------------------------------------------------------------
(* A module starts and ends: Init and Uninit on the thread that runs it *)

Subscribe(h, b, t) ==
  /\ bus' = IF t \in DOMAIN bus THEN [bus EXCEPT ![t] = Append(@, b)]
            ELSE [u \in DOMAIN bus \cup {t} |-> IF u = t THEN <<b>> ELSE bus[u]]
  /\ version' = version + 1
  /\ known' = [known EXCEPT ![h] = version + 1]

\* The last mailbox takes the place of the one that leaves.
Without(s, b) ==
  LET i == Min({k \in DOMAIN s : s[k] = b})
  IN  [k \in 1 .. Len(s) - 1 |-> IF k = i THEN s[Len(s)] ELSE s[k]]

Dropped(t, b) ==
  IF Len(bus[t]) = 1 THEN [u \in DOMAIN bus \ {t} |-> bus[u]]
  ELSE [bus EXCEPT ![t] = Without(@, b)]

Unsubscribe(h, b, t) ==
  /\ IF t \in DOMAIN bus /\ b \in Range(bus[t])
     THEN bus' = Dropped(t, b) /\ version' = version + 1
     ELSE UNCHANGED busVars
  /\ known' = [known EXCEPT ![h] = version']

Start(h, b, t) ==
  /\ pc[h] = "idle"
  /\ b \in children \ Running
  /\ version < MaxVersion
  /\ Subscribe(h, b, t)
  /\ topic' = [topic EXCEPT ![b] = t]
  /\ by' = [by EXCEPT ![b] = h]
  /\ UNCHANGED <<local_bus, local_version, sendVars, refVars, box, held, children>>

End(h, b) ==
  /\ pc[h] = "idle"
  /\ b \in Running
  /\ held[b] = Null
  /\ Unsubscribe(h, b, topic[b])
  /\ topic' = [topic EXCEPT ![b] = Null]
  /\ by' = [by EXCEPT ![b] = h]
  /\ UNCHANGED <<local_bus, local_version, sendVars, refVars, box, held, children>>

-----------------------------------------------------------------------------
(* Publish.  The caller's message carries one reference. *)

\* Defect: a copy that is one version behind is good enough.
PublishLagging(h, m, t) ==
  /\ pc[h] = "idle"
  /\ Create(m, 1)
  /\ \E seen \in known[h] .. version :
       /\ known' = [known EXCEPT ![h] = seen]
       /\ pc' = [pc EXCEPT ![h] = IF local_version[h] + 1 < seen THEN "sync" ELSE "route"]
  /\ msg' = [msg EXCEPT ![h] = m]
  /\ type' = [type EXCEPT ![h] = t]
  /\ UNCHANGED <<busVars, local_bus, local_version, route, box, moduleVars>>

Publish(h, m, t) ==
  /\ pc[h] = "idle"
  /\ Create(m, 1)
  /\ \E seen \in known[h] .. version :
       /\ known' = [known EXCEPT ![h] = seen]
       /\ pc' = [pc EXCEPT ![h] = IF local_version[h] < seen THEN "sync" ELSE "route"]
  /\ msg' = [msg EXCEPT ![h] = m]
  /\ type' = [type EXCEPT ![h] = t]
  /\ UNCHANGED <<busVars, local_bus, local_version, route, box, moduleVars>>

\* The copy replaces the old one; mailboxes that only the old one kept alive
\* are destroyed.
CopyTable(h, stamp) ==
  /\ pc[h] = "sync"
  /\ local_bus' = [local_bus EXCEPT ![h] = bus]
  /\ local_version' = [local_version EXCEPT ![h] = stamp]
  /\ known' = [known EXCEPT ![h] = version]
  /\ Destroy(Routes(local_bus[h])
             \ (children \cup Running \cup Routes(bus)
                  \cup UNION {Routes(local_bus[k]) : k \in Threads \ {h}}))
  /\ pc' = [pc EXCEPT ![h] = "route"]
  /\ UNCHANGED <<busVars, msg, type, route, moduleVars>>

\* Defect: the copy is stamped with the version that comes next.
SyncAhead(h) == CopyTable(h, version + 1)

Sync(h) == CopyTable(h, version)

Idle(s) ==
  /\ pc' = [pc EXCEPT ![s] = "idle"]
  /\ msg' = [msg EXCEPT ![s] = Null]
  /\ type' = [type EXCEPT ![s] = Null]
  /\ route' = [route EXCEPT ![s] = <<>>]

Route(h) ==
  /\ pc[h] = "route"
  /\ IF type[h] \in DOMAIN local_bus[h]
     THEN /\ ref' = [ref EXCEPT ![msg[h]] = Len(local_bus[h][type[h]])]
          /\ route' = [route EXCEPT ![h] = local_bus[h][type[h]]]
          /\ pc' = [pc EXCEPT ![h] = "send"]
          /\ UNCHANGED <<msg, type, live, created>>
     ELSE Release(Once(msg[h])) /\ Idle(h)
  /\ UNCHANGED <<busVars, tableVars, box, moduleVars>>

-----------------------------------------------------------------------------
(* The manager's messages: a stop for one child or for all of them, with a  *)
(* reference for each, or a message that finds no child and is released.    *)

Address(m) ==
  /\ pc[Manager] = "idle"
  /\ \E to \in {children} \cup {{b} : b \in children} :
       /\ to # {}
       /\ Create(m, Cardinality(to))
       /\ \E s \in Bijection(1 .. Cardinality(to), to) : route' = [route EXCEPT ![Manager] = s]
  /\ pc' = [pc EXCEPT ![Manager] = "send"]
  /\ msg' = [msg EXCEPT ![Manager] = m]
  /\ UNCHANGED <<busVars, tableVars, type, box, moduleVars>>

AddressNobody(m) ==
  /\ pc[Manager] = "idle"
  /\ m \notin created
  /\ created' = created \cup {m}
  /\ UNCHANGED <<busVars, tableVars, sendVars, ref, live, box, moduleVars>>

\* __handle_event_exit, __reload_module: the entry of an ended module goes.
Unmount(b) ==
  /\ pc[Manager] = "idle"
  /\ b \in children \ Running
  /\ children' = children \ {b}
  /\ Destroy({b} \ Tabled)
  /\ UNCHANGED <<busVars, tableVars, sendVars, held, topic, by>>

-----------------------------------------------------------------------------
(* One turn of a loop of Sends: deliver, or drop with its reference *)

\* Defect: the ring takes one message too many.
RoomForOneMore(b) == Len(box[b]) <= Capacity

Room(b) == Len(box[b]) < Capacity

Onward(s) ==
  IF Len(route[s]) = 1 THEN Idle(s)
  ELSE route' = [route EXCEPT ![s] = Tail(@)] /\ UNCHANGED <<pc, msg, type>>

\* Defect: a full mailbox drops the message and keeps its reference.
SendLeaks(s) ==
  /\ pc[s] = "send"
  /\ LET b == Head(route[s])
     IN  IF Room(b)
         THEN box' = [box EXCEPT ![b] = Append(@, msg[s])]
         ELSE UNCHANGED box
  /\ Onward(s)
  /\ UNCHANGED <<busVars, tableVars, refVars, moduleVars>>

Send(s) ==
  /\ pc[s] = "send"
  /\ LET b == Head(route[s])
     IN  IF Room(b)
         THEN box' = [box EXCEPT ![b] = Append(@, msg[s])] /\ UNCHANGED refVars
         ELSE Release(Once(msg[s])) /\ UNCHANGED box
  /\ Onward(s)
  /\ UNCHANGED <<busVars, tableVars, moduleVars>>

-----------------------------------------------------------------------------
(* A module's loop *)

\* Defect: the loop leaves the last message for the next round.
ReceiveButOne(b) ==
  /\ b \in Running
  /\ held[b] = Null
  /\ Len(box[b]) > 1
  /\ held' = [held EXCEPT ![b] = Head(box[b])]
  /\ box' = [box EXCEPT ![b] = Tail(@)]
  /\ UNCHANGED <<busVars, tableVars, sendVars, refVars, topic, by, children>>

Receive(b) ==
  /\ b \in Running
  /\ held[b] = Null
  /\ box[b] # <<>>
  /\ held' = [held EXCEPT ![b] = Head(box[b])]
  /\ box' = [box EXCEPT ![b] = Tail(@)]
  /\ UNCHANGED <<busVars, tableVars, sendVars, refVars, topic, by, children>>

\* Handled, stopped by it, or failed in ProcessEvent: released in every case.
Handled(b) ==
  /\ held[b] # Null
  /\ Release(Once(held[b]))
  /\ held' = [held EXCEPT ![b] = Null]
  /\ UNCHANGED <<busVars, tableVars, sendVars, box, topic, by, children>>

-----------------------------------------------------------------------------
Next ==
  \/ \E h \in Threads :
       \/ \E b \in Boxes, t \in Types : Start(h, b, t)
       \/ \E b \in Boxes : End(h, b)
       \/ \E m \in Messages, t \in Types : Publish(h, m, t)
       \/ Sync(h) \/ Route(h)
  \/ \E m \in Messages : Address(m) \/ AddressNobody(m)
  \/ \E s \in Senders : Send(s)
  \/ \E b \in Boxes : Unmount(b) \/ Receive(b) \/ Handled(b)

Spec == Init /\ [][Next]_vars

\* Workers run: a Publish or a broadcast that has begun goes on, and so does a
\* module with a message.  Nobody has to publish, to start or to end.
FairSpec ==
  /\ Spec
  /\ \A h \in Threads : WF_vars(Sync(h) \/ Route(h))
  /\ \A s \in Senders : WF_vars(Send(s))
  /\ \A b \in Boxes : WF_vars(Receive(b) \/ Handled(b))

-----------------------------------------------------------------------------
(* Properties *)

IsTable(table) ==
  /\ DOMAIN table \subseteq Types
  /\ \A t \in DOMAIN table : Range(table[t]) \subseteq Boxes

\* State of ActorEventBus, of the messages and of the mailboxes.
TypeOK ==
  /\ IsTable(bus) /\ \A h \in Threads : IsTable(local_bus[h])
  /\ version \in 0 .. MaxVersion + Cardinality(Boxes)
  /\ local_version \in [Threads -> Nat] /\ known \in [Threads -> Nat]
  /\ pc \in [Senders -> {"idle", "sync", "route", "send"}]
  /\ msg \in [Senders -> Messages \cup {Null}]
  /\ type \in [Senders -> Types \cup {Null}]
  /\ \A s \in Senders : Range(route[s]) \subseteq Boxes
  /\ ref \in [Messages -> Nat]
  /\ live \subseteq created /\ created \subseteq Messages
  /\ \A b \in Boxes : Range(box[b]) \subseteq Messages /\ Len(box[b]) <= Capacity
  /\ held \in [Boxes -> Messages \cup {Null}]
  /\ topic \in [Boxes -> Types \cup {Null}]
  /\ by \in [Boxes -> Threads \cup {Null}]
  /\ children \subseteq Boxes

\* Mailboxes that m is still to be sent to.
Ahead(m) ==
  {b \in Boxes : \E s \in Senders : msg[s] = m /\ pc[s] = "send" /\ b \in Range(route[s])}

\* Sends still to be made with m: before the routes are known, the caller's own
\* reference stands for them.
Due(m) ==
  Quantify(Senders, LAMBDA s : msg[s] = m /\ pc[s] # "send") + Cardinality(Ahead(m))

\* Mailboxes that something still points to.
Alive == Tabled \cup children \cup Running

\* ref_ counts exactly the places m is in or is still to be sent to, whatever
\* is delivered, dropped from a full mailbox (Send), handled, or drained with a
\* mailbox that dies; a deleted message is in none of them.  So no receiver
\* touches a deleted message, none is deleted twice and none leaks; nor does
\* Publish, which sets ref_ to the number of mailboxes of the entry it finds,
\* ever find an empty one ("size() is always at least 1", event_bus.cc:46).
RefExact ==
  \A m \in Messages :
    LET places == Due(m) + Quantify(Alive, LAMBDA b : m \in Range(box[b]))
                         + Quantify(Boxes, LAMBDA b : held[b] = m)
    IN  /\ ref[m] = places
        /\ m \in live <=> places > 0

\* A copy with the version of the table is the table: Publish, which compares
\* only the versions, never takes an outdated copy for the current one.
CopyMatchesVersion ==
  \A h \in Threads : local_version[h] = version => local_bus[h] = bus

\* Publish reads version_ with a relaxed load and may use an old copy.  Still,
\* what it sends along reflects every Subscribe and Unsubscribe that its own
\* thread made last: a module that ended on this thread is no longer sent to,
\* and one that started on it is.
OwnChangesRouted ==
  \A h \in Threads : pc[h] = "route" =>
    \A b \in Boxes, t \in Types : by[b] = h =>
      (topic[b] = t <=> t \in DOMAIN local_bus[h] /\ b \in Range(local_bus[h][t]))

\* Every message is deleted in the end, or waits in the mailbox of a module
\* that is not running: publishing, broadcasting and handling strand none.
MessagesGo ==
  \A m \in Messages :
    m \in live ~> \/ m \notin live
                  \/ \E b \in Boxes \ Running : m \in Range(box[b])

=============================================================================
