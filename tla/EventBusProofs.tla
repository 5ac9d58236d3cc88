--------------------------- MODULE EventBusProofs ---------------------------
(***************************************************************************)
(* What the event bus guarantees of its route tables and of the reference  *)
(* counts of its messages, for all threads, mailboxes, types and messages. *)
(*                                                                         *)
(* Publish compares versions only, and reads version_ with a relaxed load. *)
(* The argument: the table lists exactly the subscriptions of the running  *)
(* modules; a copy of the current version is the table; and a thread that  *)
(* changed the table either copied it since, or cannot read a version as   *)
(* old as its copy.                                                        *)
(*                                                                         *)
(* A message is counted where it is: with a publisher that has no routes   *)
(* yet, ahead of a mailbox, in a mailbox, with a module.  The argument: it *)
(* has one sender and is nowhere twice, so every step moves it from one of *)
(* these places to another, or takes away a place and a reference; and a   *)
(* mailbox that nobody points to any more is empty and is not sent to.     *)
(***************************************************************************)
EXTENDS EventBus, FiniteSetTheorems, TLAPS

\* b is a receiver of t in this table.
Listed(table, t, b) == t \in DOMAIN table /\ b \in Range(table[t])

\* A list of receivers: not empty, none twice.
Receivers(s) == s \in Seq(Boxes) /\ Len(s) > 0 /\ IsInjective(s)

\* The parts of the state the tables depend on.
StateInv ==
  /\ version \in Nat
  /\ local_version \in [Threads -> Nat]
  /\ known \in [Threads -> Nat]
  /\ DOMAIN local_bus = Threads /\ DOMAIN pc = Senders
  /\ DOMAIN topic = Boxes /\ DOMAIN by = Boxes
  /\ \A b \in Boxes : topic[b] \in Types \cup {Null}

\* event_bus_ has no empty entry and no mailbox twice.
TableInv ==
  /\ bus = [t \in DOMAIN bus |-> bus[t]]
  /\ DOMAIN bus \subseteq Types
  /\ \A t \in DOMAIN bus : Receivers(bus[t])

\* It lists the subscriptions of the running modules.
SubscribedInv ==
  \A b \in Boxes, t \in Types : topic[b] = t <=> Listed(bus, t, b)

\* No thread is ahead of version_, and one that is level has the same table.
VersionInv ==
  \A h \in Threads : /\ local_version[h] <= version
                     /\ known[h] <= version
                     /\ local_version[h] = version => local_bus[h] = bus

\* The copy of h agrees with the subscription of b.
Reflects(h, b) == \A t \in Types : topic[b] = t <=> Listed(local_bus[h], t, b)

\* A thread that made the last change for b has it in its copy, or is about to
\* renew the copy, or will find that it must.
OwnInv ==
  \A h \in Threads, b \in Boxes : by[b] = h =>
    \/ pc[h] = "sync"
    \/ Reflects(h, b)
    \/ pc[h] # "route" /\ local_version[h] < known[h]

IndInv == StateInv /\ TableInv /\ SubscribedInv /\ VersionInv /\ OwnInv

\* Where m is: with a Publish that has no routes yet, ahead of a mailbox, in a
\* mailbox, in the hands of a module.
Unrouted(m) == {s \in Senders : msg[s] = m /\ pc[s] # "send"}
Boxed(m) == {b \in Boxes : m \in Range(box[b])}
HeldBy(m) == {b \in Boxes : held[b] = m}

Places(m) == Cardinality(Unrouted(m)) + Cardinality(Ahead(m))
               + Cardinality(Boxed(m)) + Cardinality(HeldBy(m))

\* A sender has a message unless it is idle, and receivers while it sends.
SenderInv ==
  /\ pc \in [Senders -> {"idle", "sync", "route", "send"}] /\ pc[Manager] \in {"idle", "send"}
  /\ msg \in [Senders -> Messages \cup {Null}]
  /\ \A s \in Senders : msg[s] = Null <=> pc[s] = "idle"
  /\ type \in [Senders -> Types \cup {Null}]
  /\ route \in [Senders -> Seq(Boxes)]
  /\ \A s \in Senders : pc[s] = "send" => Receivers(route[s])

\* A mailbox has no message twice.
BoxInv ==
  /\ box \in [Boxes -> Seq(Messages)] /\ \A b \in Boxes : IsInjective(box[b])
  /\ held \in [Boxes -> Messages \cup {Null}]

\* A copy is a table.
CopyInv ==
  \A h \in Threads : /\ DOMAIN local_bus[h] \subseteq Types
                     /\ \A t \in DOMAIN local_bus[h] : Receivers(local_bus[h][t])

\* A message that was not created is nowhere.
MadeInv ==
  /\ live \subseteq created /\ created \subseteq Messages
  /\ \A s \in Senders : msg[s] \in created \cup {Null}
  /\ \A b \in Boxes : Range(box[b]) \subseteq created /\ held[b] \in created \cup {Null}

\* A message has one sender; before it has routes nobody else has it, and no
\* mailbox that is yet to get it has it.
PathInv ==
  /\ \A r, s \in Senders : msg[r] = msg[s] /\ msg[r] # Null => r = s
  /\ \A s \in Senders : pc[s] \in {"sync", "route"} =>
       \A b \in Boxes : msg[s] \notin Range(box[b]) /\ held[b] # msg[s]
  /\ \A s \in Senders : pc[s] = "send" =>
       \A b \in Range(route[s]) : msg[s] \notin Range(box[b])

\* The mailboxes of the copies.
Copied == UNION {Routes(local_bus[h]) : h \in Threads}

\* A mailbox nobody points to is empty, and none is sent to.
AliveInv ==
  /\ children \subseteq Boxes /\ Running \subseteq children
  /\ \A b \in Boxes : b \in children \cup Copied \/ box[b] = <<>>
  /\ \A h \in Threads : pc[h] = "send" => Range(route[h]) \subseteq Routes(local_bus[h])
  /\ pc[Manager] = "send" => Range(route[Manager]) \subseteq children

\* The counts.
CountInv ==
  /\ ref \in [Messages -> Nat]
  /\ \A m \in Messages : ref[m] = Places(m) /\ (m \in live <=> ref[m] > 0)

RefInv == SenderInv /\ BoxInv /\ CopyInv /\ MadeInv /\ PathInv /\ AliveInv /\ CountInv

\* No mailbox is over its capacity; every version beyond MaxVersion is the end
\* of a module.
BoundInv ==
  /\ \A b \in Boxes : Len(box[b]) <= Capacity
  /\ version + Cardinality(Running) <= MaxVersion + Cardinality(Boxes)
  /\ topic \in [Boxes -> Types \cup {Null}] /\ by \in [Boxes -> Threads \cup {Null}]

-----------------------------------------------------------------------------
(* Lists without repetition *)

\* push_back of something new.
LEMMA AppendNew ==
  ASSUME NEW S, NEW s \in Seq(S), IsInjective(s), NEW x \in S, x \notin Range(s)
  PROVE  /\ Append(s, x) \in Seq(S) /\ IsInjective(Append(s, x))
         /\ Range(Append(s, x)) = Range(s) \cup {x}
         /\ Len(Append(s, x)) = Len(s) + 1
<1> DEFINE a == Append(s, x)
<1>1. Len(s) \in Nat /\ DOMAIN s = 1 .. Len(s)
  OBVIOUS
<1>2. /\ a \in Seq(S) /\ Len(a) = Len(s) + 1 /\ DOMAIN a = 1 .. Len(s) + 1
      /\ \A i \in 1 .. Len(s) : a[i] = s[i]
      /\ a[Len(s) + 1] = x
  BY <1>1
<1> HIDE DEF a
<1>3. Range(a) = Range(s) \cup {x}
  <2>1. ASSUME NEW y \in Range(a) PROVE y \in Range(s) \cup {x}
    <3>1. PICK i \in 1 .. Len(s) + 1 : y = a[i]
      BY Zenon, <1>2, <2>1 DEF Range
    <3> QED BY <1>1, <1>2, <3>1 DEF Range
  <2>2. ASSUME NEW y \in Range(s) PROVE y \in Range(a)
    <3>1. PICK i \in 1 .. Len(s) : y = s[i]
      BY Zenon, <1>1, <2>2 DEF Range
    <3> QED BY <1>1, <1>2, <3>1 DEF Range
  <2>3. x \in Range(a)
    BY <1>1, <1>2 DEF Range
  <2> QED BY Zenon, <2>1, <2>2, <2>3
<1>4. IsInjective(a)
  <2> SUFFICES ASSUME NEW i \in 1 .. Len(s) + 1, NEW j \in 1 .. Len(s) + 1, a[i] = a[j]
               PROVE  i = j
    BY Zenon, <1>2 DEF IsInjective
  <2>1. \A k \in 1 .. Len(s) : s[k] # x
    BY Zenon, <1>1 DEF Range
  <2> QED BY <1>1, <1>2, <2>1 DEF IsInjective
<1> QED BY Zenon, <1>2, <1>3, <1>4 DEF a

\* Taking the first one away.
LEMMA TakeFirst ==
  ASSUME NEW S, NEW s \in Seq(S), IsInjective(s), s # <<>>
  PROVE  /\ Head(s) \in Range(s) /\ Head(s) \in S
         /\ Tail(s) \in Seq(S) /\ IsInjective(Tail(s)) /\ Len(Tail(s)) = Len(s) - 1
         /\ Range(Tail(s)) = Range(s) \ {Head(s)}
<1> DEFINE r == Tail(s)
<1>1. Len(s) \in Nat /\ Len(s) > 0 /\ DOMAIN s = 1 .. Len(s) /\ Head(s) = s[1]
  OBVIOUS
<1>2. /\ r \in Seq(S) /\ Len(r) = Len(s) - 1 /\ DOMAIN r = 1 .. Len(s) - 1
      /\ \A i \in 1 .. Len(s) - 1 : r[i] = s[i + 1]
  BY <1>1
<1> HIDE DEF r
<1>3. \A i, j \in 1 .. Len(s) : s[i] = s[j] => i = j
  BY Zenon, <1>1 DEF IsInjective
<1>4. IsInjective(r)
  <2> SUFFICES ASSUME NEW i \in 1 .. Len(s) - 1, NEW j \in 1 .. Len(s) - 1, r[i] = r[j]
               PROVE  i = j
    BY Zenon, <1>2 DEF IsInjective
  <2>1. i + 1 \in 1 .. Len(s) /\ j + 1 \in 1 .. Len(s) /\ s[i + 1] = s[j + 1]
    BY <1>1, <1>2
  <2> QED BY <1>3, <2>1
<1>5. Range(r) = Range(s) \ {s[1]}
  <2>1. ASSUME NEW i \in 1 .. Len(s) - 1 PROVE r[i] \in Range(s) \ {s[1]}
    <3>1. i + 1 \in 1 .. Len(s) /\ i + 1 # 1 /\ 1 \in 1 .. Len(s)
      BY <1>1
    <3> QED BY <1>1, <1>2, <1>3, <3>1 DEF Range
  <2>2. ASSUME NEW j \in 1 .. Len(s), s[j] # s[1] PROVE s[j] \in Range(r)
    <3>1. j - 1 \in 1 .. Len(s) - 1 /\ (j - 1) + 1 = j
      BY <1>1, <2>2
    <3>2. r[j - 1] = s[j]
      BY Zenon, <1>2, <3>1
    <3> QED BY Zenon, <1>2, <3>1, <3>2 DEF Range
  <2>3. Range(r) = {r[i] : i \in 1 .. Len(s) - 1} /\ Range(s) = {s[i] : i \in 1 .. Len(s)}
    BY Zenon, <1>1, <1>2 DEF Range
  <2> QED BY ZenonT(60), <2>1, <2>2, <2>3
<1>6. s[1] \in S /\ s[1] \in Range(s)
  BY <1>1 DEF Range
<1> QED BY Zenon, <1>1, <1>2, <1>4, <1>5, <1>6 DEF r

\* It has as many members as places.
LEMMA CountMembers ==
  ASSUME NEW S, NEW s \in Seq(S), IsInjective(s)
  PROVE  IsFiniteSet(Range(s)) /\ Cardinality(Range(s)) = Len(s)
<1>1. Len(s) \in Nat /\ DOMAIN s = 1 .. Len(s)
  OBVIOUS
<1>2. s \in Bijection(1 .. Len(s), Range(s))
  BY <1>1 DEF Bijection, Injection, Surjection, IsInjective, Range
<1>3. IsFiniteSet(1 .. Len(s)) /\ Cardinality(1 .. Len(s)) = Len(s)
  BY SMTT(30), <1>1, FS_Interval
<1> QED BY Zenon, <1>2, <1>3, FS_Bijection DEF ExistsBijection

\* push_back of a new mailbox.
LEMMA AppendReceiver ==
  ASSUME NEW s, Receivers(s), NEW b \in Boxes, b \notin Range(s)
  PROVE  Receivers(Append(s, b)) /\ Range(Append(s, b)) = Range(s) \cup {b}
<1>1. s \in Seq(Boxes) /\ IsInjective(s) /\ Len(s) \in Nat /\ Len(s) > 0
  BY DEF Receivers
<1> QED BY <1>1, AppendNew DEF Receivers

\* The search of Unsubscribe finds the one place of b.
LEMMA SearchFinds ==
  ASSUME NEW s, Receivers(s), NEW b \in Range(s)
  PROVE  LET i == Min({k \in DOMAIN s : s[k] = b}) IN i \in 1 .. Len(s) /\ s[i] = b
<1>1. PICK i \in 1 .. Len(s) : s[i] = b
  BY DEF Receivers, Range
<1>2. {k \in DOMAIN s : s[k] = b} = {i}
  BY <1>1 DEF Receivers, IsInjective
<1>3. Min({i}) = i
  BY DEF Min
<1> QED BY Zenon, <1>1, <1>2, <1>3

\* Moving the last mailbox into its place removes b and nothing else.
LEMMA RemoveReceiver ==
  ASSUME NEW s, Receivers(s), NEW b \in Range(s), Len(s) # 1
  PROVE  Receivers(Without(s, b)) /\ Range(Without(s, b)) = Range(s) \ {b}
<1> DEFINE k == Min({i \in DOMAIN s : s[i] = b})
           n == Len(s)
           w == [i \in 1 .. n - 1 |-> IF i = k THEN s[n] ELSE s[i]]
<1>1. k \in 1 .. n /\ s[k] = b
  BY Zenon, SearchFinds
<1>2. Without(s, b) = w
  BY Zenon DEF Without
<1> HIDE DEF k
<1>3. s \in Seq(Boxes) /\ n \in Nat /\ n > 1 /\ DOMAIN s = 1 .. n
  <2>1. s \in Seq(Boxes) /\ n > 0 /\ n # 1
    BY Zenon DEF Receivers
  <2>2. n \in Nat /\ DOMAIN s = 1 .. n
    BY <2>1
  <2> QED BY <2>1, <2>2
<1>4. \A i \in 1 .. n : s[i] \in Boxes
  BY <1>3
<1> HIDE DEF n
<1>5. n - 1 \in Nat /\ n \in 1 .. n /\ \A i \in 1 .. n - 1 : i \in 1 .. n
  BY <1>3
<1>6. /\ w \in Seq(Boxes) /\ Len(w) = n - 1 /\ DOMAIN w = 1 .. n - 1
      /\ \A i \in 1 .. n - 1 : w[i] = IF i = k THEN s[n] ELSE s[i]
  BY <1>4, <1>5
<1> HIDE DEF w
<1>7. \A i, j \in 1 .. n : s[i] = s[j] => i = j
  BY Zenon, <1>3 DEF Receivers, IsInjective
<1>8. IsInjective(w)
  <2> SUFFICES ASSUME NEW i \in 1 .. n - 1, NEW j \in 1 .. n - 1, w[i] = w[j]
               PROVE  i = j
    BY Zenon, <1>6 DEF IsInjective
  <2> QED BY <1>1, <1>3, <1>6, <1>7
<1>9. Range(w) = Range(s) \ {b}
  <2>1. ASSUME NEW i \in 1 .. n - 1 PROVE w[i] \in Range(s) \ {b}
    <3>1. CASE i = k
      BY <1>1, <1>3, <1>6, <1>7, <3>1 DEF Range
    <3>2. CASE i # k
      BY <1>1, <1>3, <1>6, <1>7, <3>2 DEF Range
    <3> QED BY Zenon, <3>1, <3>2
  <2>2. ASSUME NEW j \in 1 .. n, s[j] # b PROVE s[j] \in Range(w)
    <3>1. CASE j = n
      <4>1. k \in 1 .. n - 1 /\ w[k] = s[j]
        BY <1>1, <1>3, <1>6, <2>2, <3>1
      <4> QED BY Zenon, <1>6, <4>1 DEF Range
    <3>2. CASE j # n
      <4>1. j \in 1 .. n - 1 /\ w[j] = s[j]
        BY <1>1, <1>3, <1>6, <2>2, <3>2
      <4> QED BY Zenon, <1>6, <4>1 DEF Range
    <3> QED BY Zenon, <3>1, <3>2
  <2>3. Range(w) = {w[i] : i \in 1 .. n - 1} /\ Range(s) = {s[i] : i \in 1 .. n}
    BY Zenon, <1>3, <1>6 DEF Range
  <2> QED BY Zenon, <2>1, <2>2, <2>3
<1> QED BY <1>2, <1>3, <1>6, <1>8, <1>9 DEF Receivers

\* A list with b and nothing else.
LEMMA OnlyReceiver ==
  ASSUME NEW s, Receivers(s), NEW b \in Range(s), Len(s) = 1
  PROVE  Range(s) = {b}
BY DEF Receivers, Range

-----------------------------------------------------------------------------
(* The table *)

\* Subscribe adds b to the receivers of t.
LEMMA SubscribeAdds ==
  ASSUME TableInv, NEW h \in Threads, NEW b \in Boxes, NEW t \in Types, Subscribe(h, b, t),
         ~ Listed(bus, t, b)
  PROVE  /\ TableInv'
         /\ \A c \in Boxes, u \in Types :
              Listed(bus', u, c) <=> Listed(bus, u, c) \/ (u = t /\ c = b)
<1>1. CASE t \in DOMAIN bus
  <2>1. bus' = [bus EXCEPT ![t] = Append(bus[t], b)] /\ DOMAIN bus' = DOMAIN bus
    BY Zenon, <1>1 DEF Subscribe
  <2>2. /\ bus'[t] = Append(bus[t], b)
        /\ \A u \in DOMAIN bus : u # t => bus'[u] = bus[u]
        /\ bus' = [u \in DOMAIN bus' |-> bus'[u]]
    BY Zenon, <1>1, <2>1 DEF TableInv
  <2>3. Receivers(bus'[t]) /\ Range(bus'[t]) = Range(bus[t]) \cup {b}
    BY <1>1, <2>2, AppendReceiver DEF TableInv, Listed
  <2>4. TableInv'
    BY Zenon, <1>1, <2>1, <2>2, <2>3 DEF TableInv
  <2> QED BY Zenon, <1>1, <2>1, <2>2, <2>3, <2>4 DEF Listed
<1>2. CASE t \notin DOMAIN bus
  <2>1. bus' = [u \in DOMAIN bus \cup {t} |-> IF u = t THEN <<b>> ELSE bus[u]]
    BY Zenon, <1>2 DEF Subscribe
  <2>2. /\ DOMAIN bus' = DOMAIN bus \cup {t} /\ bus'[t] = <<b>>
        /\ \A u \in DOMAIN bus : bus'[u] = bus[u]
        /\ bus' = [u \in DOMAIN bus' |-> bus'[u]]
    BY Zenon, <1>2, <2>1
  <2>3. Receivers(<<b>>) /\ Range(<<b>>) = {b}
    BY DEF Receivers, Range, IsInjective
  <2>4. TableInv'
    BY Zenon, <2>2, <2>3 DEF TableInv
  <2> QED BY Zenon, <1>2, <2>2, <2>3, <2>4 DEF Listed
<1> QED BY Zenon, <1>1, <1>2

\* Unsubscribe takes b away from the receivers of t, and bumps the version.
LEMMA UnsubscribeRemoves ==
  ASSUME TableInv, NEW h \in Threads, NEW b \in Boxes, NEW t \in Types, Unsubscribe(h, b, t),
         Listed(bus, t, b)
  PROVE  /\ TableInv' /\ version' = version + 1
         /\ \A c \in Boxes, u \in Types :
              Listed(bus', u, c) <=> Listed(bus, u, c) /\ ~ (u = t /\ c = b)
<1>1. t \in DOMAIN bus /\ b \in Range(bus[t]) /\ Receivers(bus[t])
  BY Zenon DEF Listed, TableInv
<1>2. bus' = Dropped(t, b) /\ version' = version + 1
  BY Zenon, <1>1 DEF Unsubscribe
<1>3. CASE Len(bus[t]) = 1
  <2>1. bus' = [u \in DOMAIN bus \ {t} |-> bus[u]]
    BY Zenon, <1>2, <1>3 DEF Dropped
  <2>2. /\ DOMAIN bus' = DOMAIN bus \ {t}
        /\ \A u \in DOMAIN bus' : bus'[u] = bus[u]
        /\ bus' = [u \in DOMAIN bus' |-> bus'[u]]
    BY Zenon, <2>1
  <2>3. Range(bus[t]) = {b}
    BY Zenon, <1>1, <1>3, OnlyReceiver
  <2>4. TableInv'
    BY Zenon, <2>2 DEF TableInv
  <2> QED BY Zenon, <1>1, <1>2, <2>2, <2>3, <2>4 DEF Listed
<1>4. CASE Len(bus[t]) # 1
  <2>1. bus' = [bus EXCEPT ![t] = Without(bus[t], b)] /\ DOMAIN bus' = DOMAIN bus
    BY Zenon, <1>2, <1>4 DEF Dropped
  <2>2. /\ bus'[t] = Without(bus[t], b)
        /\ \A u \in DOMAIN bus : u # t => bus'[u] = bus[u]
        /\ bus' = [u \in DOMAIN bus' |-> bus'[u]]
    BY Zenon, <1>1, <2>1 DEF TableInv
  <2>3. Receivers(bus'[t]) /\ Range(bus'[t]) = Range(bus[t]) \ {b}
    BY <1>1, <1>4, <2>2, RemoveReceiver
  <2>4. TableInv'
    BY Zenon, <2>1, <2>2, <2>3 DEF TableInv
  <2> QED BY Zenon, <1>1, <1>2, <2>1, <2>2, <2>3, <2>4 DEF Listed
<1> QED BY Zenon, <1>3, <1>4

-----------------------------------------------------------------------------
(* The steps *)

\* A step that leaves the tables, the versions and the subscriptions alone, and
\* makes no thread use its copy, keeps the invariant.
LEMMA OthersKeep ==
  ASSUME IndInv, UNCHANGED <<busVars, tableVars, topic, by>>, DOMAIN pc' = Senders,
         \A h \in Threads : pc'[h] = pc[h] \/ (pc[h] = "route" /\ pc'[h] \in {"send", "idle"})
                              \/ (pc[h] = "send" /\ pc'[h] = "idle")
  PROVE  IndInv'
<1>1. UNCHANGED <<bus, version, local_bus, local_version, known, topic, by>>
  BY Zenon DEF busVars, tableVars
<1>2. StateInv' /\ TableInv' /\ SubscribedInv' /\ VersionInv'
  BY ZenonT(60), <1>1 DEF IndInv, StateInv, TableInv, SubscribedInv, VersionInv
<1>3. OwnInv'
  <2> SUFFICES ASSUME NEW h \in Threads, NEW b \in Boxes, by[b] = h
               PROVE  \/ pc'[h] = "sync"
                      \/ Reflects(h, b)
                      \/ pc'[h] # "route" /\ local_version[h] < known[h]
    BY <1>1 DEF OwnInv, Reflects
  <2> QED BY Zenon DEF IndInv, OwnInv
<1> QED BY Zenon, <1>2, <1>3 DEF IndInv

\* A module starts.
LEMMA StartKeeps ==
  ASSUME IndInv, NEW h \in Threads, NEW b \in Boxes, NEW t \in Types, Start(h, b, t)
  PROVE  IndInv'
<1>0. /\ Subscribe(h, b, t) /\ version' = version + 1
      /\ known' = [known EXCEPT ![h] = version + 1]
      /\ topic' = [topic EXCEPT ![b] = t] /\ by' = [by EXCEPT ![b] = h]
      /\ topic[b] = Null /\ pc[h] = "idle"
      /\ UNCHANGED <<local_bus, local_version, pc>>
  BY Zenon DEF Start, Subscribe, Running, sendVars
<1>1. ~ Listed(bus, t, b)
  BY Zenon, <1>0, NullAssumption DEF IndInv, SubscribedInv
<1>2. /\ TableInv'
      /\ \A c \in Boxes, u \in Types :
           Listed(bus', u, c) <=> Listed(bus, u, c) \/ (u = t /\ c = b)
  BY Zenon, <1>0, <1>1, SubscribeAdds DEF IndInv
<1>3. StateInv'
  BY <1>0 DEF IndInv, StateInv
<1>4. SubscribedInv'
  <2> SUFFICES ASSUME NEW c \in Boxes, NEW u \in Types
               PROVE  topic'[c] = u <=> Listed(bus', u, c)
    BY Zenon DEF SubscribedInv
  <2>1. topic[c] = u <=> Listed(bus, u, c)
    BY Zenon DEF IndInv, SubscribedInv
  <2>2. topic'[c] = IF c = b THEN t ELSE topic[c]
    BY Zenon, <1>0 DEF IndInv, StateInv
  <2> QED BY Zenon, <1>0, <1>2, <2>1, <2>2, NullAssumption
<1>5. VersionInv'
  BY <1>0 DEF IndInv, StateInv, VersionInv
<1>6. OwnInv'
  <2> SUFFICES ASSUME NEW g \in Threads, NEW c \in Boxes, by'[c] = g
               PROVE  \/ pc'[g] = "sync"
                      \/ Reflects(g, c)'
                      \/ pc'[g] # "route" /\ local_version'[g] < known'[g]
    BY Zenon DEF OwnInv
  <2>1. CASE g = h
    BY SMTT(30), <1>0, <2>1 DEF IndInv, StateInv, VersionInv
  <2>2. CASE g # h
    <3>1. c # b /\ by[c] = g /\ topic'[c] = topic[c] /\ known'[g] = known[g]
      BY Zenon, <1>0, <2>2 DEF IndInv, StateInv
    <3>2. Reflects(g, c)' <=> Reflects(g, c)
      BY Zenon, <1>0, <3>1 DEF Reflects
    <3> QED BY Zenon, <1>0, <3>1, <3>2 DEF IndInv, OwnInv
  <2> QED BY Zenon, <2>1, <2>2
<1> QED BY Zenon, <1>2, <1>3, <1>4, <1>5, <1>6 DEF IndInv

\* A module ends.
LEMMA EndKeeps ==
  ASSUME IndInv, NEW h \in Threads, NEW b \in Boxes, End(h, b)
  PROVE  IndInv'
<1> DEFINE t == topic[b]
<1>0. /\ Unsubscribe(h, b, t)
      /\ topic' = [topic EXCEPT ![b] = Null] /\ by' = [by EXCEPT ![b] = h]
      /\ t \in Types /\ pc[h] = "idle"
      /\ UNCHANGED <<local_bus, local_version, pc>>
  BY Zenon DEF End, Running, sendVars, IndInv, StateInv
<1> HIDE DEF t
<1>1. Listed(bus, t, b)
  BY Zenon, <1>0 DEF IndInv, SubscribedInv, t
<1>2. /\ TableInv' /\ version' = version + 1
      /\ \A c \in Boxes, u \in Types :
           Listed(bus', u, c) <=> Listed(bus, u, c) /\ ~ (u = t /\ c = b)
  BY Zenon, <1>0, <1>1, UnsubscribeRemoves DEF IndInv
<1>3. known' = [known EXCEPT ![h] = version + 1]
  BY Zenon, <1>0, <1>2 DEF Unsubscribe
<1>4. StateInv'
  BY <1>0, <1>2, <1>3 DEF IndInv, StateInv
<1>5. SubscribedInv'
  <2> SUFFICES ASSUME NEW c \in Boxes, NEW u \in Types
               PROVE  topic'[c] = u <=> Listed(bus', u, c)
    BY Zenon DEF SubscribedInv
  <2>1. topic[c] = u <=> Listed(bus, u, c)
    BY Zenon DEF IndInv, SubscribedInv
  <2>2. topic'[c] = IF c = b THEN Null ELSE topic[c]
    BY Zenon, <1>0 DEF IndInv, StateInv
  <2> QED BY Zenon, <1>0, <1>2, <2>1, <2>2, NullAssumption DEF t
<1>6. VersionInv'
  <2> SUFFICES ASSUME NEW g \in Threads
               PROVE  /\ local_version[g] < version + 1
                      /\ known'[g] <= version + 1
    BY <1>0, <1>2 DEF IndInv, StateInv, VersionInv
  <2>1. known'[g] \in {known[g], version + 1}
    BY Zenon, <1>3 DEF IndInv, StateInv
  <2>2. /\ version \in Nat /\ local_version[g] \in Nat /\ known[g] \in Nat
        /\ local_version[g] <= version /\ known[g] <= version
    BY Zenon DEF IndInv, StateInv, VersionInv
  <2> QED BY SMTT(30), <2>1, <2>2
<1>7. OwnInv'
  <2> SUFFICES ASSUME NEW g \in Threads, NEW c \in Boxes, by'[c] = g
               PROVE  \/ pc'[g] = "sync"
                      \/ Reflects(g, c)'
                      \/ pc'[g] # "route" /\ local_version'[g] < known'[g]
    BY Zenon DEF OwnInv
  <2>1. CASE g = h
    BY <1>0, <1>3, <2>1 DEF IndInv, StateInv, VersionInv
  <2>2. CASE g # h
    <3>1. c # b /\ by[c] = g /\ topic'[c] = topic[c] /\ known'[g] = known[g]
      BY Zenon, <1>0, <1>3, <2>2 DEF IndInv, StateInv
    <3>2. Reflects(g, c)' <=> Reflects(g, c)
      BY Zenon, <1>0, <3>1 DEF Reflects
    <3> QED BY Zenon, <1>0, <3>1, <3>2 DEF IndInv, OwnInv
  <2> QED BY Zenon, <2>1, <2>2
<1> QED BY Zenon, <1>2, <1>4, <1>5, <1>6, <1>7 DEF IndInv

\* Publish compares its copy's version with the one it sees.
LEMMA PublishKeeps ==
  ASSUME IndInv, NEW h \in Threads, NEW m \in Messages, NEW t \in Types, Publish(h, m, t)
  PROVE  IndInv'
<1>1. PICK seen \in known[h] .. version :
        /\ known' = [known EXCEPT ![h] = seen]
        /\ pc' = [pc EXCEPT ![h] = IF local_version[h] < seen THEN "sync" ELSE "route"]
  BY Zenon DEF Publish
<1>2. pc[h] = "idle" /\ UNCHANGED <<bus, version, local_bus, local_version, topic, by>>
  BY Zenon DEF Publish, busVars, moduleVars
<1>3. seen \in Nat /\ known[h] <= seen /\ seen <= version
  BY <1>1 DEF IndInv, StateInv
<1>4. h \in Senders
  BY Zenon DEF Senders
<1>5. StateInv' /\ TableInv' /\ SubscribedInv'
  BY Zenon, <1>1, <1>2, <1>3 DEF IndInv, StateInv, TableInv, SubscribedInv
<1>6. VersionInv'
  BY Zenon, <1>1, <1>2, <1>3 DEF IndInv, StateInv, VersionInv
<1>7. OwnInv'
  <2> SUFFICES ASSUME NEW g \in Threads, NEW c \in Boxes, by[c] = g
               PROVE  \/ pc'[g] = "sync"
                      \/ Reflects(g, c)
                      \/ pc'[g] # "route" /\ local_version[g] < known'[g]
    BY Zenon, <1>2 DEF OwnInv, Reflects
  <2>1. \/ pc[g] = "sync"
        \/ Reflects(g, c)
        \/ pc[g] # "route" /\ local_version[g] < known[g]
    BY Zenon DEF IndInv, OwnInv
  <2>2. CASE g = h
    <3>1. local_version[h] \in Nat /\ known[h] \in Nat
      BY Zenon DEF IndInv, StateInv
    <3>2. local_version[h] < known[h] => pc'[h] = "sync"
      BY SMTT(30), <1>1, <1>3, <1>4, <3>1 DEF IndInv, StateInv
    <3> QED BY Zenon, <1>2, <2>1, <2>2, <3>2
  <2>3. CASE g # h
    BY <1>1, <2>1, <2>3 DEF IndInv, StateInv
  <2> QED BY Zenon, <2>2, <2>3
<1> QED BY Zenon, <1>5, <1>6, <1>7 DEF IndInv

\* __sync_route_table: the copy is the table.
LEMMA SyncKeeps ==
  ASSUME IndInv, NEW h \in Threads, Sync(h)
  PROVE  IndInv'
<1>1. /\ local_bus' = [local_bus EXCEPT ![h] = bus]
      /\ local_version' = [local_version EXCEPT ![h] = version]
      /\ known' = [known EXCEPT ![h] = version]
      /\ pc' = [pc EXCEPT ![h] = "route"]
      /\ UNCHANGED <<bus, version, topic, by>>
  BY Zenon DEF Sync, CopyTable, busVars, moduleVars
<1>2. StateInv' /\ TableInv' /\ SubscribedInv'
  BY Zenon, <1>1 DEF IndInv, StateInv, TableInv, SubscribedInv
<1>3. VersionInv'
  BY <1>1 DEF IndInv, StateInv, VersionInv
<1>4. OwnInv'
  <2> SUFFICES ASSUME NEW g \in Threads, NEW c \in Boxes, by'[c] = g
               PROVE  \/ pc'[g] = "sync"
                      \/ Reflects(g, c)'
                      \/ pc'[g] # "route" /\ local_version'[g] < known'[g]
    BY Zenon DEF OwnInv
  <2>1. CASE g = h
    <3>1. local_bus'[g] = bus
      BY Zenon, <1>1, <2>1 DEF IndInv, StateInv
    <3>2. Reflects(g, c)'
      BY Zenon, <1>1, <3>1 DEF Reflects, IndInv, SubscribedInv
    <3> QED BY Zenon, <3>2
  <2>2. CASE g # h
    <3>1. /\ local_bus'[g] = local_bus[g] /\ local_version'[g] = local_version[g]
          /\ known'[g] = known[g] /\ pc'[g] = pc[g]
      BY SMTT(30), <1>1, <2>2 DEF IndInv, StateInv
    <3>2. Reflects(g, c)' <=> Reflects(g, c)
      BY Zenon, <1>1, <3>1 DEF Reflects
    <3> QED BY Zenon, <1>1, <3>1, <3>2 DEF IndInv, OwnInv
  <2> QED BY Zenon, <2>1, <2>2
<1> QED BY Zenon, <1>2, <1>3, <1>4 DEF IndInv

\* The steps that end Publish, and a turn of a loop of Sends.
LEMMA SendsKeep ==
  ASSUME IndInv, (\E h \in Threads : Route(h)) \/ (\E s \in Senders : Send(s))
  PROVE  IndInv'
<1>1. ASSUME NEW h \in Threads, Route(h) PROVE IndInv'
  <2>1. /\ pc[h] = "route" /\ UNCHANGED <<busVars, tableVars, topic, by>>
        /\ pc' = [pc EXCEPT ![h] = "send"] \/ pc' = [pc EXCEPT ![h] = "idle"]
    <3>1. pc[h] = "route" /\ UNCHANGED <<busVars, tableVars, topic, by>>
      BY Zenon, <1>1 DEF Route, moduleVars
    <3>2. CASE type[h] \in DOMAIN local_bus[h]
      BY Zenon, <1>1, <3>1, <3>2 DEF Route
    <3>3. CASE type[h] \notin DOMAIN local_bus[h]
      BY Zenon, <1>1, <3>1, <3>3 DEF Route, Idle
    <3> QED BY Zenon, <3>2, <3>3
  <2>2. DOMAIN pc = Senders /\ Threads \subseteq Senders
    BY Zenon DEF IndInv, StateInv, Senders
  <2>3. /\ DOMAIN pc' = Senders
        /\ \A g \in Threads : pc'[g] = pc[g] \/ (g = h /\ pc'[g] \in {"send", "idle"})
    BY Zenon, <2>1, <2>2
  <2> QED BY Zenon, <2>1, <2>3, OthersKeep
<1>2. ASSUME NEW s \in Senders, Send(s) PROVE IndInv'
  <2>1. /\ pc[s] = "send" /\ UNCHANGED <<busVars, tableVars, topic, by>>
        /\ pc' = pc \/ pc' = [pc EXCEPT ![s] = "idle"]
    <3>1. pc[s] = "send" /\ UNCHANGED <<busVars, tableVars, topic, by>> /\ Onward(s)
      BY Zenon, <1>2 DEF Send, moduleVars
    <3> QED BY Zenon, <3>1 DEF Onward, Idle
  <2>2. DOMAIN pc = Senders /\ Threads \subseteq Senders
    BY Zenon DEF IndInv, StateInv, Senders
  <2>3. /\ DOMAIN pc' = Senders
        /\ \A g \in Threads : pc'[g] = pc[g] \/ (g = s /\ pc'[g] = "idle")
    BY Zenon, <2>1, <2>2
  <2> QED BY Zenon, <2>1, <2>3, OthersKeep
<1> QED BY Zenon, <1>1, <1>2

\* The manager's and the modules' other steps.
LEMMA ManagerKeeps ==
  ASSUME IndInv,
         \/ \E m \in Messages : Address(m) \/ AddressNobody(m)
         \/ \E b \in Boxes : Unmount(b) \/ Receive(b) \/ Handled(b)
         \/ UNCHANGED vars
  PROVE  IndInv'
<1>1. UNCHANGED <<busVars, tableVars, topic, by>>
  BY Zenon DEF Address, AddressNobody, Unmount, Receive, Handled, moduleVars, vars, busVars,
               tableVars
<1>2. pc' = pc \/ pc' = [pc EXCEPT ![Manager] = "send"]
  BY Zenon DEF Address, AddressNobody, Unmount, Receive, Handled, sendVars, vars
<1>3. DOMAIN pc' = Senders /\ \A g \in Threads : pc'[g] = pc[g]
  BY Zenon, <1>2, ThreadsAssumption DEF IndInv, StateInv, Senders
<1> QED BY Zenon, <1>1, <1>3, OthersKeep

\* The invariant holds at first, of the empty table.
LEMMA InitIndInv ==
  ASSUME Init
  PROVE  IndInv
<1>1. bus = <<>> /\ \A h \in Threads : local_bus[h] = <<>>
  BY Zenon DEF Init
<1>2. StateInv
  BY Zenon DEF Init, StateInv
<1>3. DOMAIN bus = {} /\ \A h \in Threads : DOMAIN local_bus[h] = {}
  BY <1>1
<1>4. TableInv
  BY <1>1, <1>3 DEF TableInv
<1>5. \A b \in Boxes, t \in Types : topic[b] # t
  BY Zenon, NullAssumption DEF Init
<1>6. SubscribedInv
  BY Zenon, <1>3, <1>5 DEF SubscribedInv, Listed
<1>7. VersionInv
  BY <1>1 DEF Init, VersionInv
<1>8. OwnInv
  BY Zenon, <1>3, <1>5 DEF OwnInv, Reflects, Listed
<1> QED BY Zenon, <1>2, <1>4, <1>6, <1>7, <1>8 DEF IndInv

\* Every step keeps it.
LEMMA NextIndInv ==
  ASSUME IndInv, [Next]_vars
  PROVE  IndInv'
BY Zenon, StartKeeps, EndKeeps, PublishKeeps, SyncKeeps, SendsKeep, ManagerKeeps DEF Next

\* The invariant is an invariant.
LEMMA Invariance == Spec => []IndInv
<1>1. Init => IndInv
  BY Zenon, InitIndInv
<1>2. IndInv /\ [Next]_vars => IndInv'
  BY Zenon, NextIndInv
<1> QED BY <1>1, <1>2, PTL DEF Spec

-----------------------------------------------------------------------------
(* Counting the places of a message *)

\* Sets of mailboxes and of senders have a number of members.
LEMMA FiniteParts ==
  /\ \A B \in SUBSET Boxes : IsFiniteSet(B) /\ Cardinality(B) \in Nat
  /\ \A S \in SUBSET Senders : IsFiniteSet(S) /\ Cardinality(S) \in Nat
<1>1. IsFiniteSet(Senders)
  BY Zenon, FiniteAssumption, FS_AddElement DEF Senders
<1> QED BY Zenon, <1>1, FiniteAssumption, FS_Subset, FS_CardinalityType

\* So have the places of a message.
LEMMA FinitePlaces ==
  ASSUME NEW m
  PROVE  /\ IsFiniteSet(Unrouted(m)) /\ Cardinality(Unrouted(m)) \in Nat
         /\ IsFiniteSet(Ahead(m)) /\ Cardinality(Ahead(m)) \in Nat
         /\ IsFiniteSet(Boxed(m)) /\ Cardinality(Boxed(m)) \in Nat
         /\ IsFiniteSet(HeldBy(m)) /\ Cardinality(HeldBy(m)) \in Nat
BY Zenon, FiniteParts DEF Unrouted, Ahead, Boxed, HeldBy

\* A step of sender s changes nothing for the others.
OthersSame(s) ==
  \A r \in Senders : r # s => pc'[r] = pc[r] /\ msg'[r] = msg[r] /\ route'[r] = route[r]

\* It changes no sends of the messages s does not have.
LEMMA OtherSends ==
  ASSUME NEW s \in Senders, NEW m, msg[s] # m, msg'[s] # m, OthersSame(s)
  PROVE  Unrouted(m)' = Unrouted(m) /\ Ahead(m)' = Ahead(m)
<1>1. Unrouted(m)' = Unrouted(m)
  BY Zenon DEF Unrouted, OthersSame
<1>2. Ahead(m)' = Ahead(m)
  BY Zenon DEF Ahead, OthersSame
<1> QED BY Zenon, <1>1, <1>2

\* The sends of a message are those of its sender.
SendsRight ==
  \A s \in Senders : msg[s] # Null =>
    /\ pc[s] = "send" => Unrouted(msg[s]) = {} /\ Ahead(msg[s]) = Range(route[s])
    /\ pc[s] # "send" => Unrouted(msg[s]) = {s} /\ Ahead(msg[s]) = {}

\* One sender per message makes it so.
LEMMA SendsOf == SenderInv /\ PathInv => SendsRight
<1> SUFFICES ASSUME SenderInv, PathInv, NEW s \in Senders, msg[s] # Null
             PROVE  /\ pc[s] = "send" => Unrouted(msg[s]) = {} /\ Ahead(msg[s]) = Range(route[s])
                    /\ pc[s] # "send" => Unrouted(msg[s]) = {s} /\ Ahead(msg[s]) = {}
  BY Zenon DEF SendsRight
<1>1. \A r \in Senders : msg[r] = msg[s] => r = s
  BY Zenon DEF PathInv
<1>2. Range(route[s]) \subseteq Boxes
  <2>1. route[s] \in Seq(Boxes)
    BY Zenon DEF SenderInv
  <2> QED BY <2>1 DEF Range
<1>3. pc[s] = "send" => Unrouted(msg[s]) = {} /\ Ahead(msg[s]) = Range(route[s])
  BY Zenon, <1>1, <1>2 DEF Unrouted, Ahead
<1>4. pc[s] # "send" => Unrouted(msg[s]) = {s} /\ Ahead(msg[s]) = {}
  BY Zenon, <1>1 DEF Unrouted, Ahead
<1> QED BY Zenon, <1>3, <1>4

\* The count of a message is right: what CountInv says of m.
Counted(m) == ref[m] \in Nat /\ ref[m] = Places(m) /\ (m \in live <=> ref[m] > 0)

\* A message whose places and count stay keeps its count right.
LEMMA SameCount ==
  ASSUME NEW m, Counted(m), ref'[m] = ref[m], m \in live' <=> m \in live,
         Unrouted(m)' = Unrouted(m), Ahead(m)' = Ahead(m), Boxed(m)' = Boxed(m),
         HeldBy(m)' = HeldBy(m)
  PROVE  Counted(m)'
BY Zenon DEF Counted, Places

\* All counts.
LEMMA AllCounted ==
  /\ CountInv => ref \in [Messages -> Nat] /\ \A m \in Messages : Counted(m)
  /\ ref' = [m \in Messages |-> ref'[m]] /\ (\A m \in Messages : Counted(m)') => CountInv'
<1>1. CountInv => ref \in [Messages -> Nat] /\ \A m \in Messages : Counted(m)
  BY Zenon DEF CountInv, Counted
<1>2. ref' = [m \in Messages |-> ref'[m]] /\ (\A m \in Messages : Counted(m)') => CountInv'
  BY Zenon DEF CountInv, Counted
<1> QED BY Zenon, <1>1, <1>2

\* event_message_release by one holder.
LEMMA ReleaseOne ==
  ASSUME CountInv, NEW m \in Messages, ref[m] > 0, Release(Once(m))
  PROVE  /\ ref' = [ref EXCEPT ![m] = ref[m] - 1] /\ live' \subseteq live /\ created' = created
         /\ \A x \in Messages : x \in live' <=> ref'[x] > 0
<1>1. ref \in [Messages -> Nat] /\ \A x \in Messages : x \in live <=> ref[x] > 0
  BY Zenon DEF CountInv
<1>2. /\ \A x \in Messages : Once(m)[x] = IF x = m THEN 1 ELSE 0
      /\ ref' = [x \in Messages |-> ref[x] - Once(m)[x]]
      /\ live' = {x \in live : Once(m)[x] = 0 \/ ref[x] # Once(m)[x]}
      /\ created' = created
  BY Zenon DEF Release, Once
<1>3. \A x \in Messages : ref'[x] = IF x = m THEN ref[x] - 1 ELSE ref[x]
  BY <1>1, <1>2
<1>4. ref' = [ref EXCEPT ![m] = ref[m] - 1]
  BY Zenon, <1>1, <1>2, <1>3
<1>5. \A x \in Messages : x \in live' <=> ref'[x] > 0
  BY SMTT(30), <1>1, <1>2, <1>3
<1> QED BY Zenon, <1>2, <1>4, <1>5

\* A mailbox that is destroyed releases the messages in it.
LEMMA DestroyCounts ==
  ASSUME CountInv, NEW gone \in SUBSET Boxes, Destroy(gone), DOMAIN box = Boxes,
         UNCHANGED <<msg, route, held>>,
         \A s \in Senders : pc'[s] = pc[s] \/ (pc[s] = "sync" /\ pc'[s] = "route")
  PROVE  CountInv' /\ live' \subseteq live
<1> DEFINE n == [m \in Messages |-> Quantify(gone, LAMBDA b : m \in Range(box[b]))]
<1>1. Release(n) /\ box' = [b \in Boxes |-> IF b \in gone THEN <<>> ELSE box[b]]
  BY Zenon DEF Destroy
<1>2. \A m \in Messages : n[m] = Cardinality(Boxed(m) \cap gone)
  <2> SUFFICES ASSUME NEW m \in Messages PROVE n[m] = Cardinality(Boxed(m) \cap gone)
    BY Zenon
  <2>1. n[m] = Cardinality({b \in gone : m \in Range(box[b])})
    BY Zenon DEF Quantify
  <2>2. {b \in gone : m \in Range(box[b])} = Boxed(m) \cap gone
    BY Zenon DEF Boxed
  <2> QED BY Zenon, <2>1, <2>2
<1>3. /\ ref' = [m \in Messages |-> ref[m] - n[m]]
      /\ live' = {m \in live : n[m] = 0 \/ ref[m] # n[m]}
  BY Zenon, <1>1 DEF Release
<1> HIDE DEF n
<1>4. ASSUME NEW m \in Messages PROVE Counted(m)'
  <2>1. Boxed(m)' = Boxed(m) \ gone
    BY SMTT(30), <1>1 DEF Boxed, Range
  <2>2. Unrouted(m)' = Unrouted(m) /\ Ahead(m)' = Ahead(m) /\ HeldBy(m)' = HeldBy(m)
    <3>1. Unrouted(m)' = Unrouted(m)
      BY Zenon DEF Unrouted
    <3>2. Ahead(m)' = Ahead(m)
      BY Zenon DEF Ahead
    <3> QED BY Zenon, <3>1, <3>2 DEF HeldBy
  <2>3. /\ Cardinality(Boxed(m) \ gone) = Cardinality(Boxed(m)) - n[m]
        /\ Cardinality(Boxed(m) \ gone) \in Nat /\ n[m] \in Nat
    <3>1. Boxed(m) \ gone \in SUBSET Boxes /\ Boxed(m) \cap gone \in SUBSET Boxes
      BY Zenon DEF Boxed
    <3>2. IsFiniteSet(Boxed(m)) /\ Cardinality(Boxed(m)) \in Nat
      BY Zenon, FinitePlaces
    <3>3. Cardinality(Boxed(m) \ gone) = Cardinality(Boxed(m)) - Cardinality(Boxed(m) \cap gone)
      BY ZenonT(60), <3>2, FS_Difference
    <3> QED BY Zenon, <1>2, <3>1, <3>3, FiniteParts
  <2>4. Places(m)' = Places(m) - n[m]
    BY SMTT(30), <2>1, <2>2, <2>3, FinitePlaces DEF Places
  <2>5. Places(m)' \in Nat /\ Places(m) \in Nat
    BY SMTT(30), <2>1, <2>2, <2>3, FinitePlaces DEF Places
  <2>6. ref[m] = Places(m) /\ (m \in live <=> ref[m] > 0)
    BY Zenon DEF CountInv
  <2>7. ref'[m] = ref[m] - n[m] /\ (m \in live' <=> m \in live /\ (n[m] = 0 \/ ref[m] # n[m]))
    BY Zenon, <1>3
  <2> QED BY SMTT(30), <2>3, <2>4, <2>5, <2>6, <2>7 DEF Counted
<1>5. ref' \in [Messages -> Nat]
  BY Zenon, <1>3, <1>4 DEF Counted
<1> QED BY Zenon, <1>3, <1>4, <1>5 DEF CountInv, Counted

-----------------------------------------------------------------------------
(* The way of a message, step by step *)

\* The table has the mailboxes of running modules only; copies, of modules.
LEMMA TablesOfModules ==
  /\ IndInv => Routes(bus) \subseteq Running
  /\ CopyInv => \A h \in Threads : Routes(local_bus[h]) \subseteq Boxes
<1>1. ASSUME IndInv, NEW t \in DOMAIN bus, NEW b \in Range(bus[t]) PROVE b \in Running
  <2>1. t \in Types /\ bus[t] \in Seq(Boxes)
    BY Zenon, <1>1 DEF IndInv, TableInv, Receivers
  <2>2. b \in Boxes
    BY <2>1 DEF Range
  <2>3. topic[b] = t
    BY Zenon, <1>1, <2>1, <2>2 DEF IndInv, SubscribedInv, Listed
  <2> QED BY Zenon, <2>1, <2>2, <2>3, NullAssumption DEF Running
<1>2. ASSUME CopyInv, NEW h \in Threads, NEW t \in DOMAIN local_bus[h],
             NEW b \in Range(local_bus[h][t])
      PROVE  b \in Boxes
  <2>1. local_bus[h][t] \in Seq(Boxes)
    BY Zenon, <1>2 DEF CopyInv, Receivers
  <2> QED BY <2>1 DEF Range
<1> QED BY Zenon, <1>1, <1>2 DEF Routes

\* A step that moves no message: a module starts or ends, or the manager's
\* message finds no child.
LEMMA NothingMoves ==
  ASSUME RefInv, UNCHANGED <<local_bus, sendVars, ref, live, box, held, children>>,
         created \subseteq created', created' \subseteq Messages, Running' \subseteq children
  PROVE  RefInv'
<1>1. UNCHANGED <<pc, msg, type, route>>
  BY Zenon DEF sendVars
<1>2. SenderInv' /\ BoxInv' /\ CopyInv'
  BY Zenon, <1>1 DEF RefInv, SenderInv, BoxInv, CopyInv
<1>3. MadeInv' /\ PathInv'
  BY Zenon, <1>1 DEF RefInv, MadeInv, PathInv
<1>4. AliveInv'
  BY Zenon, <1>1 DEF RefInv, AliveInv, Copied
<1>5. CountInv'
  BY Zenon, <1>1 DEF RefInv, CountInv, Places, Unrouted, Ahead, Boxed, HeldBy
<1> QED BY Zenon, <1>2, <1>3, <1>4, <1>5 DEF RefInv

\* A sender takes up a message nobody has: Publish, or a broadcast.
TakesUp(s, m, p) ==
  /\ pc[s] = "idle" /\ msg' = [msg EXCEPT ![s] = m] /\ pc' = [pc EXCEPT ![s] = p]
  /\ type' \in [Senders -> Types \cup {Null}] /\ route' \in [Senders -> Seq(Boxes)]
  /\ \A r \in Senders : r # s => route'[r] = route[r]

\* It has its receivers at once, or one reference until it has them.
Countable(s, n, p) ==
  /\ s = Manager => p = "send"
  /\ p = "send" => /\ s = Manager /\ Receivers(route'[s]) /\ Range(route'[s]) \subseteq children
                   /\ n = Cardinality(Range(route'[s]))
  /\ p # "send" => n = 1

\* The counts are right afterwards.
LEMMA NewMessage ==
  ASSUME RefInv, NEW s \in Senders, NEW m \in Messages \ created, NEW n \in Nat \ {0},
         NEW p \in {"sync", "route", "send"}, TakesUp(s, m, p), Countable(s, n, p), Create(m, n),
         UNCHANGED <<local_bus, box, held, topic, children>>
  PROVE  RefInv'
<1>0. /\ created' = created \cup {m} /\ live' = live \cup {m} /\ ref' = [ref EXCEPT ![m] = n]
      /\ m # Null
  BY Zenon, NullAssumption DEF Create
<1>1. /\ pc'[s] = p /\ msg'[s] = m /\ msg[s] = Null
      /\ \A r \in Senders : r # s => pc'[r] = pc[r] /\ msg'[r] = msg[r] /\ route'[r] = route[r]
  BY Zenon DEF RefInv, SenderInv, TakesUp
<1>2. /\ \A r \in Senders : msg[r] # m
      /\ \A b \in Boxes : m \notin Range(box[b]) /\ held[b] # m
  <2>1. m \notin created \cup {Null}
    BY Zenon, <1>0
  <2> QED BY Zenon, <2>1 DEF RefInv, MadeInv
<1>3. SenderInv'
  <2>1. /\ pc' \in [Senders -> {"idle", "sync", "route", "send"}]
        /\ msg' \in [Senders -> Messages \cup {Null}]
        /\ type' \in [Senders -> Types \cup {Null}] /\ route' \in [Senders -> Seq(Boxes)]
    BY Zenon DEF RefInv, SenderInv, TakesUp
  <2>2. pc'[Manager] \in {"idle", "send"}
    BY Zenon, <1>1 DEF RefInv, SenderInv, Senders, Countable
  <2>3. \A r \in Senders : msg'[r] = Null <=> pc'[r] = "idle"
    BY ZenonT(60), <1>0, <1>1 DEF RefInv, SenderInv
  <2>4. \A r \in Senders : pc'[r] = "send" => Receivers(route'[r])
    BY Zenon, <1>1 DEF RefInv, SenderInv, Countable
  <2> QED BY Zenon, <2>1, <2>2, <2>3, <2>4 DEF SenderInv
<1>4. BoxInv' /\ CopyInv'
  BY Zenon DEF RefInv, BoxInv, CopyInv
<1>5. MadeInv'
  BY Zenon, <1>0, <1>1 DEF RefInv, MadeInv
<1>6. PathInv'
  <2>1. ASSUME NEW r \in Senders, NEW q \in Senders, msg'[r] = msg'[q], msg'[r] # Null
        PROVE  r = q
    <3>1. \A u \in Senders : u = s \/ (msg'[u] = msg[u] /\ msg'[u] # m)
      BY Zenon, <1>1, <1>2
    <3>2. CASE r = s \/ q = s
      BY Zenon, <1>1, <2>1, <3>1, <3>2
    <3>3. CASE r # s /\ q # s
      BY Zenon, <2>1, <3>1, <3>3 DEF RefInv, PathInv
    <3> QED BY Zenon, <3>2, <3>3
  <2>2. ASSUME NEW r \in Senders
        PROVE  /\ pc'[r] \in {"sync", "route"} =>
                    \A b \in Boxes : msg'[r] \notin Range(box[b]) /\ held[b] # msg'[r]
               /\ pc'[r] = "send" => \A b \in Range(route'[r]) : msg'[r] \notin Range(box[b])
    <3>1. CASE r = s
      <4>1. pc'[r] = "send" => Range(route'[r]) \subseteq Boxes
        BY Zenon, <1>1, <3>1 DEF RefInv, AliveInv, Countable
      <4> QED BY Zenon, <1>1, <1>2, <3>1, <4>1
    <3>2. CASE r # s
      BY ZenonT(60), <1>1, <3>2 DEF RefInv, PathInv
    <3> QED BY Zenon, <3>1, <3>2
  <2> QED BY Zenon, <2>1, <2>2 DEF PathInv
<1>7. AliveInv'
  <2>1. Copied' = Copied /\ Running' = Running
    BY Zenon DEF Copied, Running
  <2>2. \A h \in Threads : pc'[h] = "send" => Range(route'[h]) \subseteq Routes(local_bus[h])
    BY Zenon, <1>1, ThreadsAssumption DEF RefInv, AliveInv, Senders, Countable
  <2>3. pc'[Manager] = "send" => Range(route'[Manager]) \subseteq children
    BY Zenon, <1>1 DEF RefInv, AliveInv, Senders, Countable
  <2> QED BY Zenon, <2>1, <2>2, <2>3 DEF RefInv, AliveInv
<1>8. CountInv'
  <2>1. ref \in [Messages -> Nat] /\ \A x \in Messages : Counted(x)
    BY Zenon, AllCounted DEF RefInv
  <2>2. ASSUME NEW x \in Messages PROVE Boxed(x)' = Boxed(x) /\ HeldBy(x)' = HeldBy(x)
    BY Zenon DEF Boxed, HeldBy
  <2>3. ASSUME NEW x \in Messages, x # m PROVE Counted(x)'
    <3>1. Unrouted(x)' = Unrouted(x) /\ Ahead(x)' = Ahead(x)
      BY Zenon, <1>1, <2>3, NullAssumption, OtherSends DEF OthersSame
    <3> QED BY ZenonT(60), <1>0, <2>1, <2>2, <2>3, <3>1, SameCount
  <2>4. Counted(m)'
    <3>1. Boxed(m)' = {} /\ HeldBy(m)' = {}
      BY Zenon, <1>2, <2>2 DEF Boxed, HeldBy
    <3>2. SendsRight'
      BY <1>3, <1>6, SendsOf, PTL
    <3>3. /\ p = "send" => Unrouted(m)' = {} /\ Ahead(m)' = Range(route'[s])
          /\ p # "send" => Unrouted(m)' = {s} /\ Ahead(m)' = {}
      BY Zenon, <1>0, <1>1, <3>2 DEF SendsRight
    <3>4. Cardinality(Unrouted(m)') + Cardinality(Ahead(m)') = n
      <4>1. Cardinality({s}) = 1 /\ Cardinality({}) = 0
        BY Zenon, FS_EmptySet, FS_Singleton
      <4>2. \/ Cardinality(Unrouted(m)') = 0 /\ Cardinality(Ahead(m)') = n
            \/ Cardinality(Unrouted(m)') = 1 /\ Cardinality(Ahead(m)') = 0 /\ n = 1
        BY <3>3, <4>1, Zenon DEF Countable
      <4> QED BY <4>2
    <3>5. Places(m)' = n
      BY SMTT(30), <3>1, <3>4, FS_EmptySet DEF Places
    <3> QED BY SMTT(30), <1>0, <2>1, <3>5 DEF Counted
  <2>5. ref' = [x \in Messages |-> ref'[x]]
    BY Zenon, <1>0, <2>1
  <2> QED BY Zenon, <2>3, <2>4, <2>5, AllCounted
<1> QED BY ZenonT(60), <1>3, <1>4, <1>5, <1>6, <1>7, <1>8 DEF RefInv

\* Publish.
LEMMA PublishCounts ==
  ASSUME RefInv, NEW h \in Threads, NEW m \in Messages, NEW t \in Types, Publish(h, m, t)
  PROVE  RefInv'
<1>1. PICK p \in {"sync", "route"} : pc' = [pc EXCEPT ![h] = p]
  BY Zenon DEF Publish
<1>2. /\ pc[h] = "idle" /\ Create(m, 1) /\ msg' = [msg EXCEPT ![h] = m]
      /\ type' = [type EXCEPT ![h] = t] /\ route' = route
      /\ UNCHANGED <<local_bus, box, held, topic, children>>
  BY Zenon DEF Publish, moduleVars
<1>3. h \in Senders /\ h # Manager /\ m \notin created
  BY Zenon, <1>2, ThreadsAssumption DEF Senders, Create
<1>4. type' \in [Senders -> Types \cup {Null}] /\ route' \in [Senders -> Seq(Boxes)]
  BY Zenon, <1>2 DEF RefInv, SenderInv
<1>5. /\ m \in Messages \ created /\ 1 \in Nat \ {0}
      /\ p \in {"sync", "route", "send"} /\ p # "send"
  BY <1>1, <1>3
<1>6. TakesUp(h, m, p) /\ Countable(h, 1, p)
  BY Zenon, <1>1, <1>2, <1>3, <1>4, <1>5 DEF TakesUp, Countable
<1> QED BY <1>2, <1>3, <1>5, <1>6, NewMessage, Zenon

\* An order of a set is a list of its members.
LEMMA OrderOfSet ==
  ASSUME NEW to \in SUBSET Boxes, to # {}, NEW s \in Bijection(1 .. Cardinality(to), to)
  PROVE  Receivers(s) /\ Range(s) = to
<1> DEFINE n == Cardinality(to)
<1>1. n \in Nat /\ n # 0
  BY Zenon, FiniteParts, FS_EmptySet
<1>2. /\ s \in [1 .. n -> to] /\ IsInjective(s)
      /\ \A x \in to : \E i \in 1 .. n : s[i] = x
  BY Zenon DEF Bijection, Injection, Surjection
<1> HIDE DEF n
<1>3. Range(s) = to
  BY Zenon, <1>2 DEF Range
<1>4. s \in Seq(Boxes) /\ Len(s) = n
  BY <1>1, <1>2
<1> QED BY <1>1, <1>2, <1>3, <1>4 DEF Receivers

\* A broadcast.
LEMMA AddressCounts ==
  ASSUME RefInv, NEW m \in Messages, Address(m)
  PROVE  RefInv'
<1>1. PICK to \in {children} \cup {{b} : b \in children} :
        /\ to # {}
        /\ Create(m, Cardinality(to))
        /\ \E s \in Bijection(1 .. Cardinality(to), to) : route' = [route EXCEPT ![Manager] = s]
  BY Zenon DEF Address
<1>2. PICK s \in Bijection(1 .. Cardinality(to), to) : route' = [route EXCEPT ![Manager] = s]
  BY Zenon, <1>1
<1>3. /\ pc[Manager] = "idle" /\ pc' = [pc EXCEPT ![Manager] = "send"]
      /\ msg' = [msg EXCEPT ![Manager] = m] /\ type' = type
      /\ UNCHANGED <<local_bus, box, held, topic, children>>
  BY Zenon DEF Address, tableVars, moduleVars
<1>4. to \subseteq children /\ to \in SUBSET Boxes
  BY Zenon DEF RefInv, AliveInv
<1>5. Receivers(s) /\ Range(s) = to
  BY Zenon, <1>1, <1>4, OrderOfSet
<1>6. Cardinality(to) \in Nat \ {0}
  BY Zenon, <1>1, <1>4, FiniteParts, FS_EmptySet
<1>7. Manager \in Senders /\ m \notin created
  BY Zenon, <1>1 DEF Senders, Create
<1>8. /\ route' \in [Senders -> Seq(Boxes)] /\ type' \in [Senders -> Types \cup {Null}]
      /\ route'[Manager] = s /\ \A r \in Senders : r # Manager => route'[r] = route[r]
  BY Zenon, <1>2, <1>3, <1>5, <1>7 DEF RefInv, SenderInv, Receivers
<1>9. TakesUp(Manager, m, "send") /\ Countable(Manager, Cardinality(to), "send")
  BY Zenon, <1>3, <1>4, <1>5, <1>8 DEF TakesUp, Countable
<1> QED BY Zenon, <1>1, <1>3, <1>6, <1>7, <1>9, NewMessage

\* The receivers a sender has ahead of it are mailboxes.
LEMMA RoutesInBoxes ==
  ASSUME RefInv, NEW s \in Senders
  PROVE  Range(route[s]) \subseteq Boxes
<1>1. route[s] \in Seq(Boxes)
  BY Zenon DEF RefInv, SenderInv
<1> QED BY <1>1 DEF Range

\* Mailboxes that die are nobody's receivers.
LEMMA DestroyMoves ==
  ASSUME RefInv, NEW gone \in SUBSET Boxes, Destroy(gone),
         UNCHANGED <<msg, type, route, held>>,
         pc' \in [Senders -> {"idle", "sync", "route", "send"}],
         \A s \in Senders : pc'[s] = pc[s] \/ (s \in Threads /\ pc[s] = "sync" /\ pc'[s] = "route")
  PROVE  /\ SenderInv' /\ BoxInv' /\ MadeInv' /\ PathInv' /\ CountInv'
         /\ \A b \in Boxes : box'[b] = IF b \in gone THEN <<>> ELSE box[b]
<1>1. /\ box' = [b \in Boxes |-> IF b \in gone THEN <<>> ELSE box[b]]
      /\ created' = created
  BY Zenon DEF Destroy, Release
<1>2. Range(<<>>) = {} /\ IsInjective(<<>>)
  BY DEF Range, IsInjective
<1>3. \A b \in Boxes : Range(box'[b]) \subseteq Range(box[b])
  BY Zenon, <1>1, <1>2
<1>4. SenderInv'
  <2>1. pc'[Manager] \in {"idle", "send"}
    BY Zenon, ThreadsAssumption DEF RefInv, SenderInv, Senders
  <2> QED BY Zenon, <2>1 DEF RefInv, SenderInv
<1>5. BoxInv'
  BY SMTT(30), <1>1, <1>2 DEF RefInv, BoxInv
<1>6. CountInv' /\ live' \subseteq live
  BY Zenon, DestroyCounts DEF RefInv, BoxInv
<1>7. MadeInv'
  BY Zenon, <1>1, <1>3, <1>6 DEF RefInv, MadeInv
<1>8. PathInv'
  <2>1. \A s \in Senders : pc'[s] = "send" => Range(route[s]) \subseteq Boxes
    BY Zenon, RoutesInBoxes
  <2> QED BY ZenonT(60), <1>3, <2>1 DEF RefInv, PathInv
<1> QED BY Zenon, <1>1, <1>4, <1>5, <1>6, <1>7, <1>8

\* __sync_route_table replaces the copy.
LEMMA SyncCounts ==
  ASSUME IndInv, RefInv, NEW h \in Threads, Sync(h)
  PROVE  RefInv'
<1> DEFINE others == UNION {Routes(local_bus[k]) : k \in Threads \ {h}}
           gone == Routes(local_bus[h]) \ (children \cup Running \cup Routes(bus) \cup others)
<1>1. /\ pc[h] = "sync" /\ local_bus' = [local_bus EXCEPT ![h] = bus] /\ Destroy(gone)
      /\ pc' = [pc EXCEPT ![h] = "route"]
      /\ UNCHANGED <<msg, type, route, held, topic, children>>
  BY Zenon DEF Sync, CopyTable, moduleVars
<1>2. gone \in SUBSET Boxes
  BY Zenon, TablesOfModules DEF RefInv
<1>3. /\ pc' \in [Senders -> {"idle", "sync", "route", "send"}] /\ pc'[h] = "route"
      /\ \A s \in Senders : s # h => pc'[s] = pc[s]
  BY Zenon, <1>1 DEF RefInv, SenderInv, Senders
<1>4. /\ SenderInv' /\ BoxInv' /\ MadeInv' /\ PathInv' /\ CountInv'
      /\ \A b \in Boxes : box'[b] = IF b \in gone THEN <<>> ELSE box[b]
  BY ZenonT(60), <1>1, <1>2, <1>3, DestroyMoves
<1>5. /\ local_bus'[h] = bus
      /\ \A k \in Threads : k # h => local_bus'[k] = local_bus[k]
  BY Zenon, <1>1 DEF IndInv, StateInv
<1>6. CopyInv'
  <2>1. DOMAIN bus \subseteq Types /\ \A t \in DOMAIN bus : Receivers(bus[t])
    BY Zenon DEF IndInv, TableInv
  <2> QED BY Zenon, <1>5, <2>1 DEF RefInv, CopyInv
<1>7. AliveInv'
  <2>1. Running' = Running /\ Routes(bus) \subseteq Running
    BY Zenon, <1>1, TablesOfModules DEF Running
  <2>2. others \subseteq Copied' /\ Copied = others \cup Routes(local_bus[h])
    BY Zenon, <1>5 DEF Copied
  <2>3. children \subseteq Boxes /\ Running \subseteq children
    BY Zenon DEF RefInv, AliveInv
  <2>4. ASSUME NEW b \in Boxes PROVE b \in children \cup Copied' \/ box'[b] = <<>>
    <3>1. b \in children \cup Copied \/ box[b] = <<>>
      BY Zenon DEF RefInv, AliveInv
    <3> QED BY Zenon, <1>4, <2>1, <2>2, <2>3, <3>1
  <2>5. ASSUME NEW k \in Threads, pc'[k] = "send"
        PROVE  Range(route'[k]) \subseteq Routes(local_bus'[k])
    BY Zenon, <1>1, <1>3, <1>5, <2>5 DEF RefInv, AliveInv, Senders
  <2>6. pc'[Manager] = "send" => Range(route'[Manager]) \subseteq children'
    BY Zenon, <1>1, <1>3, ThreadsAssumption DEF RefInv, AliveInv, Senders
  <2> QED BY Zenon, <1>1, <2>1, <2>3, <2>4, <2>5, <2>6 DEF AliveInv
<1> QED BY Zenon, <1>4, <1>6, <1>7 DEF RefInv

\* The manager forgets a child.
LEMMA UnmountCounts ==
  ASSUME IndInv, RefInv, NEW b \in Boxes, Unmount(b)
  PROVE  RefInv'
<1> DEFINE gone == {b} \ Tabled
<1>1. /\ pc[Manager] = "idle" /\ b \notin Running /\ children' = children \ {b} /\ Destroy(gone)
      /\ UNCHANGED <<local_bus, pc, msg, type, route, held, topic>>
  BY Zenon DEF Unmount, tableVars, sendVars
<1>2. gone \in SUBSET Boxes
  BY Zenon
<1>3. /\ SenderInv' /\ BoxInv' /\ MadeInv' /\ PathInv' /\ CountInv'
      /\ \A c \in Boxes : box'[c] = IF c \in gone THEN <<>> ELSE box[c]
  <2>1. pc' \in [Senders -> {"idle", "sync", "route", "send"}]
    BY Zenon, <1>1 DEF RefInv, SenderInv
  <2> QED BY Zenon, <1>1, <1>2, <2>1, DestroyMoves
<1>4. CopyInv'
  BY Zenon, <1>1 DEF RefInv, CopyInv
<1>5. AliveInv'
  <2>1. Running' = Running /\ Copied' = Copied /\ Tabled = Routes(bus) \cup Copied
    BY Zenon, <1>1 DEF Running, Copied, Tabled
  <2>2. Routes(bus) \subseteq Running
    BY Zenon, TablesOfModules
  <2>3. ASSUME NEW c \in Boxes PROVE c \in children' \cup Copied' \/ box'[c] = <<>>
    <3>1. c \in children \cup Copied \/ box[c] = <<>>
      BY Zenon DEF RefInv, AliveInv
    <3> QED BY Zenon, <1>1, <1>3, <2>1, <2>2, <3>1
  <2> QED BY Zenon, <1>1, <2>1, <2>3 DEF RefInv, AliveInv
<1> QED BY Zenon, <1>3, <1>4, <1>5 DEF RefInv

\* What the senders' variables hold.
SendersTyped ==
  /\ pc \in [Senders -> {"idle", "sync", "route", "send"}]
  /\ msg \in [Senders -> Messages \cup {Null}]
  /\ type \in [Senders -> Types \cup {Null}]
  /\ route \in [Senders -> Seq(Boxes)]

\* What a step of the sender of m keeps, if no message moves into a mailbox.
SenderKept(m) ==
  /\ SenderInv' /\ CopyInv'
  /\ \A r, q \in Senders : msg'[r] = msg'[q] /\ msg'[r] # Null => r = q
  /\ \A h \in Threads : pc'[h] = "send" => Range(route'[h]) \subseteq Routes(local_bus'[h])
  /\ pc'[Manager] = "send" => Range(route'[Manager]) \subseteq children'
  /\ Running' = Running /\ Copied' = Copied
  /\ \A x \in Messages : x # m => Unrouted(x)' = Unrouted(x) /\ Ahead(x)' = Ahead(x)
  /\ \A x \in Messages : HeldBy(x)' = HeldBy(x)

\* The sender is done with m, or has receivers that are alive.
SenderOn(s, m) ==
  \/ pc'[s] = "idle" /\ msg'[s] = Null
  \/ /\ pc'[s] = "send" /\ msg'[s] = m /\ Receivers(route'[s])
     /\ s \in Threads => Range(route'[s]) \subseteq Routes(local_bus[s])
     /\ s = Manager => Range(route'[s]) \subseteq children

\* Either way the rest is as it was.
LEMMA SenderSteps ==
  ASSUME RefInv, NEW s \in Senders, NEW m \in Messages, msg[s] = m,
         OthersSame(s), SenderOn(s, m), SendersTyped',
         UNCHANGED <<local_bus, topic, children, created, held>>
  PROVE  SenderKept(m)
<1>1. SenderInv'
  <2>1. pc'[Manager] \in {"idle", "send"}
    BY Zenon DEF RefInv, SenderInv, Senders, OthersSame, SenderOn
  <2>2. \A r \in Senders : msg'[r] = Null <=> pc'[r] = "idle"
    BY Zenon, NullAssumption DEF RefInv, SenderInv, OthersSame, SenderOn
  <2>3. \A r \in Senders : pc'[r] = "send" => Receivers(route'[r])
    BY Zenon DEF RefInv, SenderInv, OthersSame, SenderOn
  <2> QED BY Zenon, <2>1, <2>2, <2>3 DEF SenderInv, SendersTyped
<1>2. CopyInv' /\ Running' = Running /\ Copied' = Copied
  BY Zenon DEF RefInv, CopyInv, Running, Copied
<1>3. \A r, q \in Senders : msg'[r] = msg'[q] /\ msg'[r] # Null => r = q
  <2>1. \A r \in Senders : msg'[r] = msg[r] \/ msg'[r] = Null
    BY Zenon DEF OthersSame, SenderOn
  <2>2. \A r, q \in Senders : msg[r] = msg[q] /\ msg[r] # Null => r = q
    BY Zenon DEF RefInv, PathInv
  <2> QED BY Zenon, <2>1, <2>2
<1>4. \A h \in Threads : pc'[h] = "send" => Range(route'[h]) \subseteq Routes(local_bus'[h])
  BY Zenon DEF RefInv, AliveInv, Senders, OthersSame, SenderOn
<1>5. pc'[Manager] = "send" => Range(route'[Manager]) \subseteq children'
  BY Zenon DEF RefInv, AliveInv, Senders, OthersSame, SenderOn
<1>6. \A x \in Messages : x # m => Unrouted(x)' = Unrouted(x) /\ Ahead(x)' = Ahead(x)
  BY Zenon, NullAssumption, OtherSends DEF SenderOn
<1>7. \A x \in Messages : HeldBy(x)' = HeldBy(x)
  BY Zenon DEF HeldBy
<1> QED BY Zenon, <1>1, <1>2, <1>3, <1>4, <1>5, <1>6, <1>7 DEF SenderKept

\* Before it has routes a message is with its publisher only.
LEMMA UnroutedOnly ==
  ASSUME RefInv, NEW s \in Senders, pc[s] \in {"sync", "route"}
  PROVE  /\ msg[s] \in Messages /\ Unrouted(msg[s]) = {s} /\ Ahead(msg[s]) = {}
         /\ Boxed(msg[s]) = {} /\ HeldBy(msg[s]) = {} /\ ref[msg[s]] = 1
<1>1. msg[s] \in Messages
  BY Zenon DEF RefInv, SenderInv
<1>2. Unrouted(msg[s]) = {s} /\ Ahead(msg[s]) = {}
  BY Zenon, <1>1, NullAssumption, SendsOf DEF RefInv, SendsRight
<1>3. Boxed(msg[s]) = {} /\ HeldBy(msg[s]) = {}
  BY Zenon DEF RefInv, PathInv, Boxed, HeldBy
<1>4. Places(msg[s]) = 1
  <2>1. Cardinality({s}) = 1 /\ Cardinality({}) = 0
    BY Zenon, FS_EmptySet, FS_Singleton
  <2> QED BY SMTT(30), <1>2, <1>3, <2>1 DEF Places
<1>5. ref[msg[s]] = 1
  BY Zenon, <1>1, <1>4 DEF RefInv, CountInv
<1> QED BY Zenon, <1>1, <1>2, <1>3, <1>5

\* Publish finds receivers: the count is their number.
LEMMA RouteFound ==
  ASSUME RefInv, NEW h \in Threads, Route(h), type[h] \in DOMAIN local_bus[h]
  PROVE  RefInv'
<1> DEFINE to == local_bus[h][type[h]]
<1>1. /\ pc[h] = "route" /\ ref' = [ref EXCEPT ![msg[h]] = Len(to)]
      /\ route' = [route EXCEPT ![h] = to] /\ pc' = [pc EXCEPT ![h] = "send"]
      /\ UNCHANGED <<msg, type, live, created, local_bus, box, held, topic, children>>
  BY Zenon DEF Route, tableVars, moduleVars
<1>2. /\ h \in Senders /\ h # Manager
      /\ Receivers(to) /\ Range(to) \subseteq Routes(local_bus[h])
  BY Zenon, ThreadsAssumption DEF Senders, RefInv, CopyInv, Routes
<1>3. PICK m \in Messages :
        /\ m = msg[h] /\ Unrouted(m) = {h} /\ Ahead(m) = {}
        /\ Boxed(m) = {} /\ HeldBy(m) = {} /\ ref[m] = 1
  BY Zenon, <1>1, <1>2, UnroutedOnly
<1>4. /\ pc'[h] = "send" /\ msg'[h] = m /\ route'[h] = to
      /\ \A r \in Senders : r # h => pc'[r] = pc[r] /\ msg'[r] = msg[r] /\ route'[r] = route[r]
  BY Zenon, <1>1, <1>2, <1>3 DEF RefInv, SenderInv
<1> HIDE DEF to
<1>5. /\ msg[h] = m /\ Receivers(route'[h]) /\ Range(route'[h]) \subseteq Routes(local_bus[h])
      /\ UNCHANGED <<local_bus, topic, children, created, held>>
  BY Zenon, <1>1, <1>2, <1>3, <1>4
<1>6. SenderKept(m)
  <2>1. SendersTyped'
    BY Zenon, <1>1, <1>2 DEF RefInv, SenderInv, SendersTyped, Receivers, to
  <2>2. SenderOn(h, m) /\ OthersSame(h)
    BY Zenon, <1>2, <1>4, <1>5 DEF SenderOn, OthersSame
  <2> QED BY <1>2, <1>5, <2>1, <2>2, SenderSteps, Zenon
<1>7. BoxInv' /\ MadeInv'
  BY Zenon, <1>1 DEF RefInv, BoxInv, MadeInv
<1>8. PathInv'
  <2>1. to \in Seq(Boxes) /\ Range(to) \subseteq Boxes
    BY SMTT(30), <1>2 DEF Receivers, Range
  <2>2. \A b \in Boxes : m \notin Range(box[b])
    BY Zenon, <1>3 DEF Boxed
  <2>3. ASSUME NEW r \in Senders
        PROVE  /\ pc'[r] \in {"sync", "route"} =>
                    \A b \in Boxes : msg'[r] \notin Range(box[b]) /\ held[b] # msg'[r]
               /\ pc'[r] = "send" => \A b \in Range(route'[r]) : msg'[r] \notin Range(box[b])
    <3>1. CASE r = h
      BY Zenon, <1>4, <2>1, <2>2, <3>1
    <3>2. CASE r # h
      BY Zenon, <1>4, <3>2 DEF RefInv, PathInv
    <3> QED BY Zenon, <3>1, <3>2
  <2> QED BY Zenon, <1>1, <1>6, <2>3 DEF PathInv, SenderKept
<1>9. AliveInv'
  BY Zenon, <1>1, <1>6 DEF RefInv, AliveInv, SenderKept
<1>10. CountInv'
  <2>1. ref \in [Messages -> Nat] /\ \A x \in Messages : Counted(x)
    BY Zenon, AllCounted DEF RefInv
  <2>2. \A x \in Messages : Boxed(x)' = Boxed(x)
    BY Zenon, <1>1 DEF Boxed
  <2>3. ASSUME NEW x \in Messages, x # m PROVE Counted(x)'
    <3>1. ref'[x] = ref[x] /\ (x \in live' <=> x \in live)
      BY Zenon, <1>1, <1>3, <2>1, <2>3
    <3> QED BY Zenon, <1>6, <2>1, <2>2, <2>3, <3>1, SameCount DEF SenderKept
  <2>4. Counted(m)'
    <3>1. SendsRight'
      <4>1. SenderInv'
        BY Zenon, <1>6 DEF SenderKept
      <4> QED BY <1>8, <4>1, SendsOf, PTL
    <3>2. Unrouted(m)' = {} /\ Ahead(m)' = Range(to)
      BY Zenon, <1>2, <1>4, <3>1, NullAssumption DEF SendsRight
    <3>3. Cardinality({}) = 0 /\ Cardinality(Range(to)) = Len(to) /\ Len(to) \in Nat /\ Len(to) > 0
      BY SMTT(30), <1>2, CountMembers, FS_EmptySet DEF Receivers
    <3>4. Boxed(m)' = {} /\ HeldBy(m)' = {}
      BY ZenonT(60), <1>3, <1>6, <2>2 DEF SenderKept
    <3>5. Places(m)' = Len(to)
      BY SMTT(30), <3>2, <3>3, <3>4 DEF Places
    <3>6. ref'[m] = Len(to) /\ m \in live'
      <4>1. 1 > 0
        OBVIOUS
      <4>2. ref'[m] = Len(to)
        BY Zenon, <1>1, <1>3, <2>1
      <4> QED BY Zenon, <1>1, <1>3, <2>1, <4>1, <4>2 DEF Counted
    <3> QED BY Zenon, <3>3, <3>5, <3>6 DEF Counted
  <2>5. ref' = [x \in Messages |-> ref'[x]]
    BY Zenon, <1>1, <1>3, <2>1
  <2> QED BY Zenon, <2>3, <2>4, <2>5, AllCounted
<1> QED BY Zenon, <1>6, <1>7, <1>8, <1>9, <1>10 DEF RefInv, SenderKept

\* A message that loses one place and one reference.
LEMMA ReleaseCounts ==
  ASSUME CountInv, NEW m \in Messages, ref[m] > 0, Release(Once(m)),
         Places(m)' = Places(m) - 1,
         \A x \in Messages : x # m =>
           /\ Unrouted(x)' = Unrouted(x) /\ Ahead(x)' = Ahead(x)
           /\ Boxed(x)' = Boxed(x) /\ HeldBy(x)' = HeldBy(x)
  PROVE  CountInv' /\ live' \subseteq live /\ created' = created
<1>1. /\ ref' = [ref EXCEPT ![m] = ref[m] - 1] /\ live' \subseteq live /\ created' = created
      /\ \A x \in Messages : x \in live' <=> ref'[x] > 0
  BY Zenon, ReleaseOne
<1>2. ref \in [Messages -> Nat] /\ \A x \in Messages : Counted(x)
  BY Zenon, AllCounted
<1>3. ref' = [x \in Messages |-> ref'[x]] /\ ref'[m] = ref[m] - 1 /\ ref'[m] \in Nat
  <2>1. ref[m] \in Nat /\ ref[m] - 1 \in Nat
    BY <1>2
  <2>2. ref' = [x \in Messages |-> ref'[x]] /\ ref'[m] = ref[m] - 1
    BY Zenon, <1>1, <1>2
  <2> QED BY Zenon, <2>1, <2>2
<1>4. ASSUME NEW x \in Messages, x # m PROVE Counted(x)'
  <2>1. ref'[x] = ref[x] /\ (x \in live' <=> x \in live)
    BY Zenon, <1>1, <1>2, <1>4 DEF Counted
  <2> QED BY Zenon, <1>2, <1>4, <2>1, SameCount
<1>5. Counted(m)'
  BY Zenon, <1>1, <1>2, <1>3 DEF Counted
<1> QED BY Zenon, <1>1, <1>3, <1>4, <1>5, AllCounted

\* Publish finds nobody: it releases the message.
LEMMA RouteNobody ==
  ASSUME RefInv, NEW h \in Threads, Route(h), type[h] \notin DOMAIN local_bus[h]
  PROVE  RefInv'
<1>1. /\ pc[h] = "route" /\ Release(Once(msg[h])) /\ Idle(h)
      /\ UNCHANGED <<local_bus, box, held, topic, children>>
  BY Zenon DEF Route, tableVars, moduleVars
<1>2. h \in Senders /\ h # Manager
  BY Zenon, ThreadsAssumption DEF Senders
<1>3. PICK m \in Messages :
        /\ m = msg[h] /\ Unrouted(m) = {h} /\ Ahead(m) = {}
        /\ Boxed(m) = {} /\ HeldBy(m) = {} /\ ref[m] = 1
  BY Zenon, <1>1, <1>2, UnroutedOnly
<1>4. /\ pc'[h] = "idle" /\ msg'[h] = Null
      /\ \A r \in Senders : r # h => pc'[r] = pc[r] /\ msg'[r] = msg[r] /\ route'[r] = route[r]
  BY Zenon, <1>1, <1>2 DEF RefInv, SenderInv, Idle
<1>5. created' = created /\ UNCHANGED <<local_bus, topic, children, created, held>>
  BY Zenon, <1>1 DEF Release
<1>6. SenderKept(m)
  <2>1. SendersTyped'
    <3>1. SendersTyped
      BY Zenon DEF RefInv, SenderInv, SendersTyped
    <3>2. Idle(h)
      BY Zenon, <1>1
    <3> QED BY SMTT(30), <1>2, <3>1, <3>2 DEF SendersTyped, Idle
  <2>2. SenderOn(h, m) /\ OthersSame(h)
    BY Zenon, <1>4 DEF SenderOn, OthersSame
  <2> QED BY <1>2, <1>3, <1>5, <2>1, <2>2, SenderSteps, Zenon
<1>7. \A x \in Messages : Boxed(x)' = Boxed(x)
  BY Zenon, <1>1 DEF Boxed
<1>8. Places(m)' = 0 /\ Places(m) = 1
  <2>1. ASSUME NEW r \in Senders PROVE msg'[r] # m
    <3>1. CASE r = h
      BY Zenon, <1>4, <3>1, NullAssumption
    <3>2. CASE r # h
      <4>1. msg[r] # msg[h]
        BY Zenon, <1>2, <1>3, <3>2, NullAssumption DEF RefInv, PathInv
      <4> QED BY Zenon, <1>3, <1>4, <3>2, <4>1
    <3> QED BY Zenon, <3>1, <3>2
  <2>2. Unrouted(m)' = {} /\ Ahead(m)' = {}
    BY Zenon, <2>1 DEF Unrouted, Ahead
  <2>3. Boxed(m)' = {} /\ HeldBy(m)' = {}
    BY Zenon, <1>3, <1>6, <1>7 DEF SenderKept
  <2>4. Cardinality({}) = 0 /\ Cardinality({h}) = 1
    BY Zenon, FS_EmptySet, FS_Singleton
  <2>5. /\ Cardinality(Unrouted(m))' = 0 /\ Cardinality(Ahead(m))' = 0
        /\ Cardinality(Boxed(m))' = 0 /\ Cardinality(HeldBy(m))' = 0
        /\ Cardinality(Unrouted(m)) = 1 /\ Cardinality(Ahead(m)) = 0
        /\ Cardinality(Boxed(m)) = 0 /\ Cardinality(HeldBy(m)) = 0
    BY Zenon, <1>3, <2>2, <2>3, <2>4
  <2> QED BY SMTT(30), <2>5 DEF Places
<1>9. CountInv' /\ live' \subseteq live
  <2>1. Places(m)' = Places(m) - 1 /\ ref[m] > 0
    BY SMTT(30), <1>3, <1>8
  <2> QED BY Zenon, <1>1, <1>3, <1>6, <1>7, <2>1, ReleaseCounts DEF RefInv, SenderKept
<1>10. BoxInv' /\ MadeInv'
  BY Zenon, <1>1, <1>4, <1>5, <1>9 DEF RefInv, BoxInv, MadeInv
<1>11. PathInv'
  <2>1. \A r \in Senders : pc'[r] # "idle" => r # h
    BY Zenon, <1>4
  <2> QED BY ZenonT(60), <1>1, <1>4, <1>6, <2>1 DEF RefInv, PathInv, SenderKept
<1>12. AliveInv'
  BY Zenon, <1>1, <1>6 DEF RefInv, AliveInv, SenderKept
<1> QED BY Zenon, <1>6, <1>9, <1>10, <1>11, <1>12 DEF RefInv, SenderKept

\* A turn of a loop of Sends, of the sender's side: the first receiver is done.
Turned(s, m, b) ==
  /\ m \in Messages /\ b \in Boxes /\ b \in Range(route[s])
  /\ OthersSame(s) /\ SendersTyped'
  /\ \/ pc'[s] = "idle" /\ msg'[s] = Null /\ Range(route[s]) = {b}
     \/ /\ pc'[s] = "send" /\ msg'[s] = m /\ Receivers(route'[s])
        /\ Range(route'[s]) = Range(route[s]) \ {b}

\* That is what Onward does.
LEMMA TurnOfSends ==
  ASSUME RefInv, NEW s \in Senders, NEW m, NEW b, m = msg[s], b = Head(route[s]),
         pc[s] = "send", Onward(s)
  PROVE  Turned(s, m, b)
<1>1. SendersTyped
  BY Zenon DEF RefInv, SenderInv, SendersTyped
<1>2. m \in Messages /\ Receivers(route[s])
  BY Zenon DEF RefInv, SenderInv
<1>3. /\ b \in Range(route[s]) /\ b \in Boxes
      /\ Tail(route[s]) \in Seq(Boxes) /\ IsInjective(Tail(route[s]))
      /\ Len(Tail(route[s])) = Len(route[s]) - 1
      /\ Range(Tail(route[s])) = Range(route[s]) \ {b}
  <2>1. route[s] \in Seq(Boxes) /\ IsInjective(route[s]) /\ route[s] # <<>>
    <3>1. \A q \in Seq(Boxes) : Len(q) > 0 => q # <<>>
      BY SMTT(30)
    <3> QED BY Zenon, <1>2, <3>1 DEF Receivers
  <2> QED BY Zenon, <2>1, TakeFirst
<1>4. CASE Len(route[s]) = 1
  <2>1. Range(route[s]) = {b}
    BY Zenon, <1>2, <1>3, <1>4, OnlyReceiver
  <2>2. Idle(s)
    BY Zenon, <1>4 DEF Onward
  <2>3. /\ pc'[s] = "idle" /\ msg'[s] = Null
        /\ OthersSame(s)
    BY Zenon, <1>1, <2>2 DEF Idle, SendersTyped, OthersSame
  <2>4. SendersTyped'
    BY SMTT(30), <1>1, <2>2 DEF Idle, SendersTyped
  <2> QED BY Zenon, <1>2, <1>3, <2>1, <2>3, <2>4 DEF Turned
<1>5. CASE Len(route[s]) # 1
  <2>1. route' = [route EXCEPT ![s] = Tail(route[s])] /\ UNCHANGED <<pc, msg, type>>
    BY Zenon, <1>5 DEF Onward
  <2>2. route'[s] = Tail(route[s]) /\ \A r \in Senders : r # s => route'[r] = route[r]
    BY Zenon, <1>1, <2>1 DEF SendersTyped
  <2>3. route' \in [Senders -> Seq(Boxes)]
    BY ZenonT(60), <1>1, <1>3, <2>1 DEF SendersTyped
  <2>4. Len(route[s]) \in Nat /\ Len(route[s]) > 0
    BY SMTT(30), <1>2 DEF Receivers
  <2>5. Receivers(route'[s])
    <3>0. \A n \in Nat : n > 0 /\ n # 1 => n - 1 > 0
      OBVIOUS
    <3>1. Len(route[s]) - 1 > 0
      BY ZenonT(60), <1>5, <2>4, <3>0
    <3>2. Len(Tail(route[s])) > 0
      BY Zenon, <1>3, <3>1
    <3> QED BY ZenonT(60), <1>3, <2>2, <3>2 DEF Receivers
  <2>6. OthersSame(s) /\ SendersTyped'
    BY Zenon, <1>1, <2>1, <2>2, <2>3 DEF OthersSame, SendersTyped
  <2> QED BY Zenon, <1>2, <1>3, <2>1, <2>2, <2>5, <2>6 DEF Turned
<1> QED BY Zenon, <1>4, <1>5

\* What that does to the places of messages.
MovesOff(m, b) ==
  /\ Unrouted(m) = {} /\ Unrouted(m)' = {}
  /\ b \in Ahead(m) /\ Ahead(m)' = Ahead(m) \ {b} /\ b \notin Boxed(m)
  /\ b \in children \cup Copied

\* The message is no longer ahead of b.
LEMMA SendAhead ==
  ASSUME RefInv, NEW s \in Senders, NEW m \in Messages, NEW b \in Boxes,
         m = msg[s], b = Head(route[s]), pc[s] = "send", Onward(s),
         UNCHANGED <<local_bus, topic, children, created, held>>
  PROVE  SenderKept(m) /\ MovesOff(m, b)
<1>1. Turned(s, m, b)
  BY TurnOfSends, Zenon
<1>2. /\ s \in Threads => Range(route[s]) \subseteq Routes(local_bus[s])
      /\ s = Manager => Range(route[s]) \subseteq children
  BY Zenon DEF RefInv, AliveInv
<1>3. SenderOn(s, m)
  BY Zenon, <1>1, <1>2 DEF Turned, SenderOn
<1>4. SenderKept(m)
  BY <1>1, <1>3, SenderSteps, Zenon DEF Turned
<1>5. Unrouted(m) = {} /\ Ahead(m) = Range(route[s])
  BY Zenon, NullAssumption, SendsOf DEF RefInv, SendsRight
<1>6. \A r \in Senders : r # s => msg'[r] # m
  BY ZenonT(60), <1>1, NullAssumption DEF RefInv, PathInv, Turned, OthersSame
<1>7. Unrouted(m)' = {}
  BY Zenon, <1>1, <1>6, NullAssumption DEF Unrouted, Turned
<1>8. Ahead(m)' = Range(route[s]) \ {b}
  <2>1. Range(route[s]) \subseteq Boxes
    BY Zenon, <1>5 DEF Ahead
  <2>2. CASE pc'[s] = "idle" /\ msg'[s] = Null /\ Range(route[s]) = {b}
    BY Zenon, <1>6, <2>2, NullAssumption DEF Ahead
  <2>3. CASE /\ pc'[s] = "send" /\ msg'[s] = m
             /\ Range(route'[s]) = Range(route[s]) \ {b}
    BY Zenon, <1>6, <2>1, <2>3 DEF Ahead
  <2> QED BY Zenon, <1>1, <2>2, <2>3 DEF Turned
<1>9. b \notin Boxed(m)
  BY Zenon, <1>1 DEF RefInv, PathInv, Boxed, Turned
<1>10. b \in children \cup Copied
  <2>1. s \in Threads => Routes(local_bus[s]) \subseteq Copied
    BY Zenon DEF Copied
  <2> QED BY Zenon, <1>1, <1>2, <2>1 DEF Senders, Turned
<1> QED BY Zenon, <1>1, <1>4, <1>5, <1>7, <1>8, <1>9, <1>10 DEF MovesOff, Turned

\* No mailbox gets a message but b, and b gets only m.
GainsOnly(b, m) ==
  \A c \in Boxes : Range(box'[c]) \subseteq Range(box[c]) \cup (IF c = b THEN {m} ELSE {})

\* Nobody gains a receiver, and the one that had b first no longer has it.
LEMMA SendPath ==
  ASSUME RefInv, NEW s \in Senders, NEW m \in Messages, NEW b \in Boxes,
         m = msg[s], b = Head(route[s]), pc[s] = "send", Onward(s), held' = held,
         \A r, q \in Senders : msg'[r] = msg'[q] /\ msg'[r] # Null => r = q,
         GainsOnly(b, m)
  PROVE  PathInv'
<1>1. Turned(s, m, b)
  BY TurnOfSends, Zenon
<1>2. \A r \in Senders : pc[r] = "send" => Range(route[r]) \subseteq Boxes
  BY Zenon, RoutesInBoxes
<1>3. ASSUME NEW r \in Senders, r # s, pc[r] # "idle" PROVE msg'[r] = msg[r] /\ msg[r] # m
  <2>1. msg'[r] = msg[r]
    BY Zenon, <1>1, <1>3 DEF Turned, OthersSame
  <2>2. m # Null
    BY Zenon, NullAssumption
  <2>3. msg[r] = msg[s] /\ msg[r] # Null => r = s
    BY Zenon DEF RefInv, PathInv
  <2> QED BY Zenon, <1>3, <2>1, <2>2, <2>3
<1>4. ASSUME NEW r \in Senders
      PROVE  /\ pc'[r] \in {"sync", "route"} =>
                  \A c \in Boxes : msg'[r] \notin Range(box'[c]) /\ held'[c] # msg'[r]
             /\ pc'[r] = "send" => \A c \in Range(route'[r]) : msg'[r] \notin Range(box'[c])
  <2>1. CASE r # s
    <3>1. /\ pc[r] \in {"sync", "route"} =>
               \A c \in Boxes : msg[r] \notin Range(box[c]) /\ held[c] # msg[r]
          /\ pc[r] = "send" => \A c \in Range(route[r]) : msg[r] \notin Range(box[c])
      BY Zenon DEF RefInv, PathInv
    <3>2. pc'[r] = pc[r] /\ route'[r] = route[r]
      BY Zenon, <1>1, <2>1 DEF Turned, OthersSame
    <3> QED BY Zenon, <1>2, <1>3, <2>1, <3>1, <3>2 DEF GainsOnly
  <2>2. CASE r = s
    <3>1. \A c \in Range(route[s]) : m \notin Range(box[c])
      BY Zenon DEF RefInv, PathInv
    <3> QED BY Zenon, <1>1, <1>2, <2>2, <3>1 DEF Turned, GainsOnly
  <2> QED BY Zenon, <2>1, <2>2
<1> QED BY Zenon, <1>4 DEF PathInv

\* A Send that delivers: from ahead of b into b.
LEMMA SendDelivers ==
  ASSUME RefInv, NEW s \in Senders, Send(s), Room(Head(route[s]))
  PROVE  RefInv'
<1> DEFINE b == Head(route[s])
<1>1. /\ pc[s] = "send" /\ Onward(s) /\ box' = [box EXCEPT ![b] = Append(box[b], msg[s])]
      /\ UNCHANGED <<ref, live, local_bus, topic, children, created, held>>
  BY Zenon DEF Send, tableVars, moduleVars, refVars
<1>2. PICK m \in Messages, c \in Boxes : m = msg[s] /\ c = Head(route[s])
  <2>1. msg[s] \in Messages /\ b \in Boxes
    BY <1>1, TurnOfSends, Zenon DEF Turned
  <2> QED BY Zenon, <2>1
<1> HIDE DEF b
<1>3. SenderKept(m) /\ MovesOff(m, c)
  BY <1>1, <1>2, SendAhead, Zenon
<1>4. box \in [Boxes -> Seq(Messages)] /\ IsInjective(box[c]) /\ m \notin Range(box[c])
  BY Zenon, <1>3 DEF RefInv, BoxInv, Boxed, MovesOff
<1>5. /\ Append(box[c], m) \in Seq(Messages) /\ IsInjective(Append(box[c], m))
      /\ Range(Append(box[c], m)) = Range(box[c]) \cup {m}
  BY SMTT(30), <1>4, AppendNew
<1>6. box'[c] = Append(box[c], m) /\ \A d \in Boxes : d # c => box'[d] = box[d]
  BY Zenon, <1>1, <1>2, <1>4 DEF b
<1>7. \A d \in Boxes : Range(box'[d]) = Range(box[d]) \cup (IF d = c THEN {m} ELSE {})
  BY Zenon, <1>5, <1>6
<1>8. BoxInv'
  <2>1. box' \in [Boxes -> Seq(Messages)]
    BY Zenon, <1>1, <1>2, <1>4, <1>5 DEF b
  <2>2. \A d \in Boxes : IsInjective(box'[d])
    BY Zenon, <1>5, <1>6 DEF RefInv, BoxInv
  <2> QED BY Zenon, <1>1, <2>1, <2>2 DEF RefInv, BoxInv
<1>9. PathInv'
  <2>1. GainsOnly(c, m)
    BY Zenon, <1>7 DEF GainsOnly
  <2>2. held' = held /\ \A r, q \in Senders : msg'[r] = msg'[q] /\ msg'[r] # Null => r = q
    BY Zenon, <1>1, <1>3 DEF SenderKept
  <2> QED BY Zenon, <1>1, <1>2, <2>1, <2>2, SendPath
<1>10. MadeInv'
  <2>1. m \in created
    BY Zenon, <1>2, NullAssumption DEF RefInv, MadeInv
  <2>2. \A r \in Senders : msg'[r] \in created \cup {Null}
    <3>1. \A r \in Senders : msg'[r] \in {msg[r], Null}
      BY ZenonT(60), <1>1, <1>2, TurnOfSends DEF Turned, OthersSame
    <3> QED BY Zenon, <3>1 DEF RefInv, MadeInv
  <2> QED BY Zenon, <1>1, <1>7, <2>1, <2>2 DEF RefInv, MadeInv
<1>11. AliveInv'
  BY Zenon, <1>1, <1>3, <1>6 DEF RefInv, AliveInv, SenderKept, MovesOff
<1>12. CountInv'
  <2>1. ref \in [Messages -> Nat] /\ \A x \in Messages : Counted(x)
    BY Zenon, AllCounted DEF RefInv
  <2>2. /\ \A x \in Messages : x # m => Boxed(x)' = Boxed(x)
        /\ Boxed(m)' = Boxed(m) \cup {c}
    BY Zenon, <1>7 DEF Boxed
  <2>3. ASSUME NEW x \in Messages, x # m PROVE Counted(x)'
    BY ZenonT(60), <1>1, <1>3, <2>1, <2>2, <2>3, SameCount DEF SenderKept
  <2>4. Places(m)' = Places(m)
    <3>1. Cardinality(Ahead(m) \ {c}) = Cardinality(Ahead(m)) - 1
      BY ZenonT(60), <1>3, FinitePlaces, FS_RemoveElement DEF MovesOff
    <3>2. Cardinality(Boxed(m) \cup {c}) = Cardinality(Boxed(m)) + 1
      BY Zenon, <1>3, FinitePlaces, FS_AddElement DEF MovesOff
    <3>3. /\ Cardinality(Unrouted(m))' = Cardinality(Unrouted(m))
          /\ Cardinality(Ahead(m))' = Cardinality(Ahead(m)) - 1
          /\ Cardinality(Boxed(m))' = Cardinality(Boxed(m)) + 1
          /\ Cardinality(HeldBy(m))' = Cardinality(HeldBy(m))
      BY Zenon, <1>3, <2>2, <3>1, <3>2 DEF SenderKept, MovesOff
    <3> QED BY SMTT(30), <3>3, FinitePlaces DEF Places
  <2>5. Counted(m)'
    BY Zenon, <1>1, <2>1, <2>4 DEF Counted
  <2> QED BY Zenon, <1>1, <2>1, <2>3, <2>5, AllCounted
<1> QED BY ZenonT(60), <1>3, <1>8, <1>9, <1>10, <1>11, <1>12 DEF RefInv, SenderKept

\* A Send to a full mailbox: the reference goes with the message.
LEMMA SendDrops ==
  ASSUME RefInv, NEW s \in Senders, Send(s), ~Room(Head(route[s]))
  PROVE  RefInv'
<1>1. /\ pc[s] = "send" /\ Onward(s) /\ Release(Once(msg[s])) /\ box' = box
      /\ UNCHANGED <<local_bus, topic, children, created, held>>
  BY Zenon DEF Send, tableVars, moduleVars, Release
<1>2. PICK m \in Messages, c \in Boxes : m = msg[s] /\ c = Head(route[s])
  <2>1. msg[s] \in Messages /\ Head(route[s]) \in Boxes
    BY <1>1, TurnOfSends, Zenon DEF Turned
  <2> QED BY Zenon, <2>1
<1>3. SenderKept(m) /\ MovesOff(m, c)
  BY <1>1, <1>2, SendAhead, Zenon
<1>4. \A x \in Messages : Boxed(x)' = Boxed(x)
  BY Zenon, <1>1 DEF Boxed
<1>5. Places(m)' = Places(m) - 1 /\ Places(m) > 0
  <2>1. /\ Cardinality(Ahead(m) \ {c}) = Cardinality(Ahead(m)) - 1
        /\ Cardinality(Ahead(m) \ {c}) \in Nat
    BY Zenon, <1>3, FinitePlaces, FS_RemoveElement, FS_CardinalityType DEF MovesOff
  <2>2. /\ Cardinality(Unrouted(m))' = Cardinality(Unrouted(m))
        /\ Cardinality(Ahead(m))' = Cardinality(Ahead(m)) - 1
        /\ Cardinality(Boxed(m))' = Cardinality(Boxed(m))
        /\ Cardinality(HeldBy(m))' = Cardinality(HeldBy(m))
    BY ZenonT(60), <1>3, <1>4, <2>1 DEF SenderKept, MovesOff
  <2> QED BY SMTT(30), <2>1, <2>2, FinitePlaces DEF Places
<1>6. CountInv' /\ live' \subseteq live
  <2>1. ref[m] > 0
    BY Zenon, <1>5 DEF RefInv, CountInv
  <2> QED BY Zenon, <1>1, <1>2, <1>3, <1>4, <1>5, <2>1, ReleaseCounts DEF RefInv, SenderKept
<1>7. PathInv'
  <2>1. GainsOnly(c, m)
    BY Zenon, <1>1 DEF GainsOnly
  <2> QED BY ZenonT(60), <1>1, <1>2, <1>3, <2>1, SendPath DEF SenderKept
<1>8. BoxInv' /\ MadeInv'
  <2>1. \A r \in Senders : msg'[r] \in {msg[r], Null}
    BY Zenon, <1>1, <1>2, TurnOfSends DEF Turned, OthersSame
  <2> QED BY Zenon, <1>1, <1>6, <2>1 DEF RefInv, BoxInv, MadeInv
<1>9. AliveInv'
  BY Zenon, <1>1, <1>3 DEF RefInv, AliveInv, SenderKept
<1> QED BY Zenon, <1>3, <1>6, <1>7, <1>8, <1>9 DEF RefInv, SenderKept

\* A module takes a message out of its mailbox.
LEMMA ReceiveCounts ==
  ASSUME RefInv, NEW b \in Boxes, Receive(b)
  PROVE  RefInv'
<1>1. /\ held[b] = Null /\ box[b] # <<>> /\ held' = [held EXCEPT ![b] = Head(box[b])]
      /\ box' = [box EXCEPT ![b] = Tail(box[b])]
      /\ UNCHANGED <<local_bus, pc, msg, type, route, ref, live, created, topic, children>>
  BY Zenon DEF Receive, tableVars, sendVars, refVars
<1>2. /\ box \in [Boxes -> Seq(Messages)] /\ \A c \in Boxes : IsInjective(box[c])
      /\ held \in [Boxes -> Messages \cup {Null}]
  BY Zenon DEF RefInv, BoxInv
<1>3. PICK m \in Messages : /\ m = Head(box[b]) /\ m \in Range(box[b])
                            /\ Tail(box[b]) \in Seq(Messages) /\ IsInjective(Tail(box[b]))
                            /\ Range(Tail(box[b])) = Range(box[b]) \ {m}
  BY Zenon, <1>1, <1>2, TakeFirst
<1>4. /\ box'[b] = Tail(box[b]) /\ \A c \in Boxes : c # b => box'[c] = box[c]
      /\ held'[b] = m /\ \A c \in Boxes : c # b => held'[c] = held[c]
  BY ZenonT(60), <1>1, <1>2, <1>3
<1>5. \A c \in Boxes : Range(box'[c]) = Range(box[c]) \ (IF c = b THEN {m} ELSE {})
  BY Zenon, <1>3, <1>4
<1>6. BoxInv'
  <2>1. box' \in [Boxes -> Seq(Messages)] /\ held' \in [Boxes -> Messages \cup {Null}]
    BY ZenonT(60), <1>1, <1>2, <1>3
  <2> QED BY Zenon, <1>2, <1>3, <1>4, <2>1 DEF BoxInv
<1>7. SenderInv' /\ CopyInv' /\ Copied' = Copied /\ Running' = Running
  BY ZenonT(60), <1>1 DEF RefInv, SenderInv, CopyInv, Copied, Running
<1>8. MadeInv'
  <2>1. m \in created
    BY Zenon, <1>3 DEF RefInv, MadeInv
  <2>2. ASSUME NEW c \in Boxes
        PROVE  Range(box'[c]) \subseteq created' /\ held'[c] \in created' \cup {Null}
    <3>1. created' = created /\ Range(box[c]) \subseteq created /\ held[c] \in created \cup {Null}
      BY Zenon, <1>1 DEF RefInv, MadeInv
    <3>2. Range(box'[c]) \subseteq Range(box[c])
      BY Zenon, <1>5
    <3>3. held'[c] = m \/ held'[c] = held[c]
      BY Zenon, <1>4
    <3> QED BY ZenonT(60), <2>1, <3>1, <3>2, <3>3
  <2> QED BY Zenon, <1>1, <2>2 DEF RefInv, MadeInv
<1>9. PathInv'
  <2>1. \A s \in Senders : pc[s] = "send" => Range(route[s]) \subseteq Boxes
    BY Zenon, RoutesInBoxes
  <2>2. \A s \in Senders : pc[s] \in {"sync", "route"} =>
          \A c \in Boxes : msg[s] \notin Range(box'[c]) /\ held'[c] # msg[s]
    <3> SUFFICES ASSUME NEW s \in Senders, pc[s] \in {"sync", "route"}, NEW c \in Boxes
                 PROVE  msg[s] \notin Range(box'[c]) /\ held'[c] # msg[s]
      BY Zenon
    <3>1. \A d \in Boxes : msg[s] \notin Range(box[d]) /\ held[d] # msg[s]
      BY Zenon DEF RefInv, PathInv
    <3> QED BY ZenonT(60), <1>3, <1>4, <1>5, <3>1
  <2>3. \A s \in Senders : pc[s] = "send" => \A c \in Range(route[s]) : msg[s] \notin Range(box'[c])
    BY Zenon, <1>5, <2>1 DEF RefInv, PathInv
  <2> QED BY Zenon, <1>1, <2>2, <2>3 DEF RefInv, PathInv
<1>10. AliveInv'
  BY ZenonT(60), <1>1, <1>4, <1>7 DEF RefInv, AliveInv
<1>11. CountInv'
  <2>1. ref \in [Messages -> Nat] /\ \A x \in Messages : Counted(x)
    BY Zenon, AllCounted DEF RefInv
  <2>2. /\ \A x \in Messages : x # m => Boxed(x)' = Boxed(x)
        /\ Boxed(m)' = Boxed(m) \ {b} /\ b \in Boxed(m)
    BY ZenonT(60), <1>3, <1>5 DEF Boxed
  <2>3. /\ \A x \in Messages : x # m => HeldBy(x)' = HeldBy(x)
        /\ HeldBy(m)' = HeldBy(m) \cup {b} /\ b \notin HeldBy(m)
    BY Zenon, <1>1, <1>4, NullAssumption DEF HeldBy
  <2>4. \A x \in Messages : Unrouted(x)' = Unrouted(x) /\ Ahead(x)' = Ahead(x)
    BY Zenon, <1>1 DEF Unrouted, Ahead
  <2>5. ASSUME NEW x \in Messages, x # m PROVE Counted(x)'
    BY Zenon, <1>1, <2>1, <2>2, <2>3, <2>4, <2>5, SameCount
  <2>6. Places(m)' = Places(m)
    <3>1. Cardinality(Boxed(m) \ {b}) = Cardinality(Boxed(m)) - 1
      BY Zenon, <2>2, FinitePlaces, FS_RemoveElement
    <3>2. Cardinality(HeldBy(m) \cup {b}) = Cardinality(HeldBy(m)) + 1
      BY ZenonT(60), <2>3, FinitePlaces, FS_AddElement
    <3>3. /\ Cardinality(Unrouted(m))' = Cardinality(Unrouted(m))
          /\ Cardinality(Ahead(m))' = Cardinality(Ahead(m))
          /\ Cardinality(Boxed(m))' = Cardinality(Boxed(m)) - 1
          /\ Cardinality(HeldBy(m))' = Cardinality(HeldBy(m)) + 1
      BY Zenon, <2>2, <2>3, <2>4, <3>1, <3>2
    <3> QED BY SMTT(30), <3>3, FinitePlaces DEF Places
  <2>7. Counted(m)'
    BY Zenon, <1>1, <2>1, <2>6 DEF Counted
  <2> QED BY Zenon, <1>1, <2>1, <2>5, <2>7, AllCounted
<1> QED BY Zenon, <1>6, <1>7, <1>8, <1>9, <1>10, <1>11 DEF RefInv

\* A module is done with a message.
LEMMA HandledCounts ==
  ASSUME RefInv, NEW b \in Boxes, Handled(b)
  PROVE  RefInv'
<1>1. /\ held[b] # Null /\ Release(Once(held[b])) /\ held' = [held EXCEPT ![b] = Null]
      /\ UNCHANGED <<local_bus, pc, msg, type, route, created, box, topic, children>>
  BY Zenon DEF Handled, tableVars, sendVars, Release
<1>2. held \in [Boxes -> Messages \cup {Null}]
  BY Zenon DEF RefInv, BoxInv
<1>3. PICK m \in Messages : m = held[b]
  BY Zenon, <1>1, <1>2
<1>4. held'[b] = Null /\ \A c \in Boxes : c # b => held'[c] = held[c]
  BY Zenon, <1>1, <1>2
<1>5. SenderInv' /\ CopyInv' /\ Copied' = Copied /\ Running' = Running
  BY ZenonT(60), <1>1 DEF RefInv, SenderInv, CopyInv, Copied, Running
<1>6. BoxInv'
  <2>1. held' \in [Boxes -> Messages \cup {Null}]
    BY Zenon, <1>1, <1>2
  <2> QED BY Zenon, <1>1, <2>1 DEF RefInv, BoxInv
<1>7. /\ \A x \in Messages : x # m => HeldBy(x)' = HeldBy(x)
      /\ HeldBy(m)' = HeldBy(m) \ {b} /\ b \in HeldBy(m)
  BY ZenonT(60), <1>3, <1>4, NullAssumption DEF HeldBy
<1>8. \A x \in Messages : /\ Unrouted(x)' = Unrouted(x) /\ Ahead(x)' = Ahead(x)
                          /\ Boxed(x)' = Boxed(x)
  BY ZenonT(60), <1>1 DEF Unrouted, Ahead, Boxed
<1>9. Places(m)' = Places(m) - 1 /\ Places(m) > 0
  <2>1. /\ Cardinality(HeldBy(m) \ {b}) = Cardinality(HeldBy(m)) - 1
        /\ Cardinality(HeldBy(m) \ {b}) \in Nat
    BY ZenonT(60), <1>7, FinitePlaces, FS_RemoveElement, FS_CardinalityType
  <2>2. /\ Cardinality(Unrouted(m))' = Cardinality(Unrouted(m))
        /\ Cardinality(Ahead(m))' = Cardinality(Ahead(m))
        /\ Cardinality(Boxed(m))' = Cardinality(Boxed(m))
        /\ Cardinality(HeldBy(m))' = Cardinality(HeldBy(m)) - 1
    BY ZenonT(60), <1>7, <1>8, <2>1
  <2> QED BY SMTT(30), <2>1, <2>2, FinitePlaces DEF Places
<1>10. CountInv' /\ live' \subseteq live
  <2>1. ref[m] > 0
    BY Zenon, <1>9 DEF RefInv, CountInv
  <2> QED BY Zenon, <1>1, <1>3, <1>7, <1>8, <1>9, <2>1, ReleaseCounts DEF RefInv
<1>11. MadeInv'
  BY ZenonT(60), <1>1, <1>4, <1>10 DEF RefInv, MadeInv
<1>12. PathInv'
  <2>1. \A s \in Senders : pc[s] \in {"sync", "route"} => msg[s] # Null
    BY Zenon DEF RefInv, SenderInv
  <2> QED BY ZenonT(60), <1>1, <1>4, <2>1 DEF RefInv, PathInv
<1>13. AliveInv'
  BY Zenon, <1>1, <1>5 DEF RefInv, AliveInv
<1> QED BY Zenon, <1>5, <1>6, <1>10, <1>11, <1>12, <1>13 DEF RefInv

\* A module starts or ends.
LEMMA ModulesMove ==
  ASSUME IndInv, RefInv, NEW h \in Threads, NEW b \in Boxes,
         (\E t \in Types : Start(h, b, t)) \/ End(h, b)
  PROVE  RefInv'
<1>1. DOMAIN topic = Boxes /\ Running \subseteq children
  BY Zenon DEF IndInv, StateInv, RefInv, AliveInv
<1>2. ASSUME NEW t \in Types, Start(h, b, t) PROVE RefInv'
  <2>1. /\ UNCHANGED <<local_bus, sendVars, ref, live, box, held, children>> /\ created' = created
        /\ b \in children /\ topic' = [topic EXCEPT ![b] = t]
    BY Zenon, <1>2 DEF Start, refVars
  <2>2. Running' \subseteq children
    BY Zenon, <1>1, <2>1 DEF Running
  <2>3. created \subseteq created' /\ created' \subseteq Messages
    BY Zenon, <2>1 DEF RefInv, MadeInv
  <2> QED BY ZenonT(60), <2>1, <2>2, <2>3, NothingMoves
<1>3. ASSUME End(h, b) PROVE RefInv'
  <2>1. /\ UNCHANGED <<local_bus, sendVars, ref, live, box, held, children>> /\ created' = created
        /\ topic' = [topic EXCEPT ![b] = Null]
    BY Zenon, <1>3 DEF End, refVars
  <2>2. Running' \subseteq children
    BY Zenon, <1>1, <2>1 DEF Running
  <2>3. created \subseteq created' /\ created' \subseteq Messages
    BY Zenon, <2>1 DEF RefInv, MadeInv
  <2> QED BY Zenon, <2>1, <2>2, <2>3, NothingMoves
<1> QED BY Zenon, <1>2, <1>3

\* Nothing happens, or a message is created that finds no child.
LEMMA NobodyAddressed ==
  ASSUME RefInv, (\E m \in Messages : AddressNobody(m)) \/ UNCHANGED vars
  PROVE  RefInv'
<1>1. /\ UNCHANGED <<local_bus, sendVars, ref, live, box, held, topic, children>>
      /\ created \subseteq created' /\ created' \subseteq Messages
  BY Zenon DEF AddressNobody, vars, sendVars, tableVars, moduleVars, RefInv, MadeInv
<1>2. Running' \subseteq children
  BY Zenon, <1>1 DEF Running, RefInv, AliveInv
<1> QED BY ZenonT(60), <1>1, <1>2, NothingMoves

\* Every step keeps the counts.
LEMMA NextRefInv ==
  ASSUME IndInv, RefInv, [Next]_vars
  PROVE  RefInv'
BY Zenon, ModulesMove, PublishCounts, SyncCounts, RouteFound, RouteNobody, AddressCounts,
   NobodyAddressed, SendDelivers, SendDrops, UnmountCounts, ReceiveCounts, HandledCounts DEF Next

\* No message at first.
LEMMA InitRefInv == Init => RefInv
<1> SUFFICES ASSUME Init PROVE RefInv
  OBVIOUS
<1>1. <<>> \in Seq(Boxes) /\ <<>> \in Seq(Messages) /\ IsInjective(<<>>) /\ Range(<<>>) = {}
  BY DEF IsInjective, Range
<1>2. Manager \in Senders
  BY Zenon DEF Senders
<1>3. SenderInv
  BY ZenonT(60), <1>1, <1>2 DEF Init, SenderInv
<1>4. BoxInv /\ CopyInv /\ PathInv
  BY SMTT(30), <1>1 DEF Init, BoxInv, CopyInv, PathInv
<1>5. MadeInv
  BY Zenon, <1>1 DEF Init, MadeInv
<1>6. AliveInv
  BY Zenon, <1>2 DEF Init, AliveInv, Running, Senders
<1>7. CountInv
  <2>1. ASSUME NEW m \in Messages
        PROVE  Unrouted(m) = {} /\ Ahead(m) = {} /\ Boxed(m) = {} /\ HeldBy(m) = {}
    BY ZenonT(60), <1>1, NullAssumption DEF Init, Unrouted, Ahead, Boxed, HeldBy
  <2>2. \A m \in Messages : Places(m) = 0
    BY <2>1, FS_EmptySet DEF Places
  <2> QED BY <2>2 DEF Init, CountInv
<1> QED BY ZenonT(60), <1>3, <1>4, <1>5, <1>6, <1>7 DEF RefInv

-----------------------------------------------------------------------------
(* The bounds *)

\* A step in which no module starts or ends and no mailbox grows.
LEMMA BoundsKeep ==
  ASSUME BoundInv, UNCHANGED <<version, topic, by>>,
         \A b \in Boxes : Len(box'[b]) <= Capacity
  PROVE  BoundInv'
<1>1. Running' = Running
  BY Zenon DEF Running
<1> QED BY Zenon, <1>1 DEF BoundInv

\* Subscribe takes a version below the bound; Unsubscribe, that of its module.
LEMMA ModulesBound ==
  ASSUME IndInv, BoundInv, NEW h \in Threads, NEW b \in Boxes,
         (\E t \in Types : Start(h, b, t)) \/ End(h, b)
  PROVE  BoundInv'
<1>1. version \in Nat /\ DOMAIN topic = Boxes
  BY Zenon DEF IndInv, StateInv
<1>2. /\ Cardinality(Boxes) \in Nat /\ Cardinality(Running) \in Nat /\ IsFiniteSet(Running)
      /\ Cardinality(Running') \in Nat /\ Cardinality(Running') <= Cardinality(Boxes)
  <2>1. Running \in SUBSET Boxes /\ Running' \in SUBSET Boxes /\ Boxes \in SUBSET Boxes
    BY Zenon DEF Running
  <2> QED BY ZenonT(60), <2>1, FiniteParts, FiniteAssumption, FS_Subset
<1>3. box' = box /\ by' = [by EXCEPT ![b] = h]
  BY Zenon DEF Start, End
<1>4. /\ by' \in [Boxes -> Threads \cup {Null}] /\ topic' \in [Boxes -> Types \cup {Null}]
      /\ \A c \in Boxes : Len(box'[c]) <= Capacity
  <2>1. \E t \in Types \cup {Null} : topic' = [topic EXCEPT ![b] = t]
    BY Zenon DEF Start, End
  <2> QED BY Zenon, <1>3, <2>1 DEF BoundInv
<1>5. version' + Cardinality(Running') <= MaxVersion + Cardinality(Boxes)
  <2>1. ASSUME NEW t \in Types, Start(h, b, t)
        PROVE  version' + Cardinality(Running') <= MaxVersion + Cardinality(Boxes)
    <3>1. version < MaxVersion /\ version' = version + 1
      BY Zenon, <2>1 DEF Start, Subscribe
    <3> QED BY SMTT(30), <1>1, <1>2, <3>1, BoundAssumption
  <2>2. ASSUME End(h, b)
        PROVE  version' + Cardinality(Running') <= MaxVersion + Cardinality(Boxes)
    <3>1. /\ b \in Running /\ topic' = [topic EXCEPT ![b] = Null]
          /\ version' = version \/ version' = version + 1
      BY Zenon, <2>2 DEF End, Unsubscribe, busVars
    <3>2. Running' = Running \ {b}
      BY Zenon, <1>1, <3>1 DEF Running
    <3>3. Cardinality(Running') = Cardinality(Running) - 1
      BY Zenon, <1>2, <3>1, <3>2, FS_RemoveElement
    <3>4. version + Cardinality(Running) <= MaxVersion + Cardinality(Boxes)
      BY Zenon DEF BoundInv
    <3> QED BY SMTT(30), <1>1, <1>2, <3>1, <3>3, <3>4, BoundAssumption
  <2> QED BY ZenonT(60), <2>1, <2>2
<1> QED BY Zenon, <1>4, <1>5 DEF BoundInv

\* A Send appends only where there is room.
LEMMA SendBound ==
  ASSUME RefInv, BoundInv, NEW s \in Senders, Send(s)
  PROVE  BoundInv'
<1>1. pc[s] = "send" /\ UNCHANGED <<version, topic, by>> /\ Onward(s)
  BY Zenon DEF Send, busVars, moduleVars
<1>2. CASE ~Room(Head(route[s]))
  BY Zenon, <1>1, <1>2, BoundsKeep DEF Send, BoundInv
<1>3. CASE Room(Head(route[s]))
  <2>1. PICK m \in Messages, b \in Boxes : m = msg[s] /\ b = Head(route[s])
    <3>1. msg[s] \in Messages /\ Head(route[s]) \in Boxes
      BY <1>1, TurnOfSends, Zenon DEF Turned
    <3> QED BY Zenon, <3>1
  <2>2. box' = [box EXCEPT ![b] = Append(box[b], m)] /\ Len(box[b]) < Capacity
    BY ZenonT(60), <1>3, <2>1 DEF Send, Room
  <2>3. box \in [Boxes -> Seq(Messages)]
    BY Zenon DEF RefInv, BoxInv
  <2>4. Len(Append(box[b], m)) = Len(box[b]) + 1 /\ Len(box[b]) \in Nat
    BY SMTT(30), <2>3
  <2>5. Len(box'[b]) <= Capacity /\ \A c \in Boxes : c # b => box'[c] = box[c]
    BY SMTT(30), <2>2, <2>3, <2>4, BoundAssumption
  <2> QED BY Zenon, <1>1, <2>5, BoundsKeep DEF BoundInv
<1> QED BY Zenon, <1>2, <1>3

\* Receive and the destructor of a mailbox only take messages out.
LEMMA TakingBound ==
  ASSUME RefInv, BoundInv, UNCHANGED <<version, topic, by>>,
         \/ \E b \in Boxes : Receive(b)
         \/ \E gone : Destroy(gone)
  PROVE  BoundInv'
<1>1. box \in [Boxes -> Seq(Messages)] /\ \A b \in Boxes : IsInjective(box[b])
  BY Zenon DEF RefInv, BoxInv
<1>2. ASSUME NEW b \in Boxes, Receive(b) PROVE \A c \in Boxes : Len(box'[c]) <= Capacity
  <2>1. box[b] # <<>> /\ box' = [box EXCEPT ![b] = Tail(box[b])]
    BY Zenon, <1>2 DEF Receive
  <2>2. Len(Tail(box[b])) = Len(box[b]) - 1 /\ Len(box[b]) \in Nat
    BY SMTT(30), <1>1, <2>1, TakeFirst
  <2>3. box'[b] = Tail(box[b]) /\ \A c \in Boxes : c # b => box'[c] = box[c]
    BY ZenonT(60), <1>1, <2>1
  <2>4. Len(box[b]) - 1 <= Capacity
    BY SMTT(30), <2>2, BoundAssumption DEF BoundInv
  <2>5. Len(box'[b]) <= Capacity
    BY Zenon, <2>2, <2>3, <2>4
  <2> QED BY Zenon, <2>3, <2>5 DEF BoundInv
<1>3. ASSUME NEW gone, Destroy(gone) PROVE \A c \in Boxes : Len(box'[c]) <= Capacity
  <2>1. box' = [c \in Boxes |-> IF c \in gone THEN <<>> ELSE box[c]]
    BY Zenon, <1>3 DEF Destroy
  <2> QED BY SMTT(30), <2>1, BoundAssumption DEF BoundInv
<1> QED BY Zenon, <1>2, <1>3, BoundsKeep

\* Every step stays within the bounds.
LEMMA NextBoundInv ==
  ASSUME IndInv, RefInv, BoundInv, [Next]_vars
  PROVE  BoundInv'
<1>1. CASE \/ \E h \in Threads : (\E m \in Messages, t \in Types : Publish(h, m, t)) \/ Route(h)
           \/ \E m \in Messages : Address(m) \/ AddressNobody(m)
           \/ \E b \in Boxes : Handled(b)
           \/ UNCHANGED vars
  <2>1. UNCHANGED <<version, topic, by, box>>
    BY ZenonT(60), <1>1
      DEF Publish, Route, Address, AddressNobody, Handled, vars, busVars, moduleVars
  <2> QED BY Zenon, <2>1, BoundsKeep DEF BoundInv
<1>2. ASSUME NEW h \in Threads, Sync(h) PROVE BoundInv'
  <2>1. UNCHANGED <<version, topic, by>> /\ \E gone : Destroy(gone)
    BY Zenon, <1>2 DEF Sync, CopyTable, busVars, moduleVars
  <2> QED BY ZenonT(60), <2>1, TakingBound
<1>3. ASSUME NEW b \in Boxes, Unmount(b) \/ Receive(b) PROVE BoundInv'
  <2>1. UNCHANGED <<version, topic, by>>
    BY Zenon, <1>3 DEF Unmount, Receive, busVars
  <2>2. Receive(b) \/ \E gone : Destroy(gone)
    BY Zenon, <1>3 DEF Unmount
  <2> QED BY ZenonT(60), <2>1, <2>2, TakingBound
<1> QED BY ZenonT(60), <1>1, <1>2, <1>3, ModulesBound, SendBound DEF Next

\* Nothing runs at first.
LEMMA InitBoundInv == Init => BoundInv
<1> SUFFICES ASSUME Init PROVE BoundInv
  OBVIOUS
<1>1. Running = {}
  BY Zenon DEF Init, Running
<1>2. Cardinality(Running) = 0 /\ Cardinality(Boxes) \in Nat
  BY ZenonT(60), <1>1, FS_EmptySet, FiniteParts
<1> QED BY SMTT(30), <1>2, BoundAssumption DEF Init, BoundInv

\* The three invariants together.
LEMMA CountInvariance == Spec => [](IndInv /\ RefInv /\ BoundInv)
<1>1. Init => IndInv /\ RefInv /\ BoundInv
  BY ZenonT(60), InitIndInv, InitRefInv, InitBoundInv
<1>2. IndInv /\ RefInv /\ BoundInv /\ [Next]_vars => (IndInv /\ RefInv /\ BoundInv)'
  BY ZenonT(60), NextIndInv, NextRefInv, NextBoundInv
<1> QED BY <1>1, <1>2, PTL DEF Spec

-----------------------------------------------------------------------------
(* The theorems *)

\* The state of the bus, the messages and the mailboxes is as declared: no
\* count below zero, no mailbox over its capacity.
THEOREM TypeCorrect == Spec => []TypeOK
<1>1. IndInv /\ RefInv /\ BoundInv => TypeOK
  <2> SUFFICES ASSUME IndInv, RefInv, BoundInv PROVE TypeOK
    BY Zenon
  <2>1. IsTable(bus)
    BY SMTT(30) DEF IsTable, IndInv, TableInv, Receivers, Range
  <2>2. \A h \in Threads : IsTable(local_bus[h])
    BY SMTT(30) DEF IsTable, RefInv, CopyInv, Receivers, Range
  <2>3. version \in 0 .. MaxVersion + Cardinality(Boxes)
    <3>1. Running \in SUBSET Boxes /\ Boxes \in SUBSET Boxes
      BY Zenon DEF Running
    <3>2. Cardinality(Running) \in Nat /\ Cardinality(Boxes) \in Nat /\ version \in Nat
      BY Zenon, <3>1, FiniteParts DEF IndInv, StateInv
    <3> QED BY SMTT(30), <3>2, BoundAssumption DEF BoundInv
  <2>4. local_version \in [Threads -> Nat] /\ known \in [Threads -> Nat]
    BY Zenon DEF IndInv, StateInv
  <2>5. topic \in [Boxes -> Types \cup {Null}]
    BY ZenonT(60) DEF BoundInv
  <2>6. /\ pc \in [Senders -> {"idle", "sync", "route", "send"}]
        /\ msg \in [Senders -> Messages \cup {Null}]
        /\ type \in [Senders -> Types \cup {Null}]
        /\ \A s \in Senders : Range(route[s]) \subseteq Boxes
    BY SMTT(30) DEF RefInv, SenderInv, Range
  <2>7. /\ ref \in [Messages -> Nat]
        /\ live \subseteq created /\ created \subseteq Messages
        /\ children \subseteq Boxes
    BY Zenon DEF RefInv, CountInv, MadeInv, AliveInv
  <2>8. /\ \A b \in Boxes : Range(box[b]) \subseteq Messages /\ Len(box[b]) <= Capacity
        /\ held \in [Boxes -> Messages \cup {Null}]
        /\ by \in [Boxes -> Threads \cup {Null}]
    <3>1. /\ box \in [Boxes -> Seq(Messages)] /\ held \in [Boxes -> Messages \cup {Null}]
          /\ \A b \in Boxes : Len(box[b]) <= Capacity
          /\ by \in [Boxes -> Threads \cup {Null}]
      BY Zenon DEF RefInv, BoxInv, BoundInv
    <3>2. \A b \in Boxes : Range(box[b]) \subseteq Messages
      BY SMTT(30), <3>1 DEF Range
    <3> QED BY ZenonT(60), <3>1, <3>2
  <2> QED BY Zenon, <2>1, <2>2, <2>3, <2>4, <2>5, <2>6, <2>7, <2>8 DEF TypeOK
<1> QED BY <1>1, CountInvariance, PTL

\* ref_ is exactly the number of places a message is in or still has to reach,
\* and a message is deleted exactly when that number falls to zero: no receiver
\* is left with a deleted message and no message leaks, for any number of
\* threads, mailboxes and messages and any order of their steps.
THEOREM RefExactHolds == Spec => []RefExact
<1>1. IndInv /\ RefInv => RefExact
  <2> SUFFICES ASSUME IndInv, RefInv, NEW m \in Messages
               PROVE  LET places == Due(m) + Quantify(Alive, LAMBDA b : m \in Range(box[b]))
                                           + Quantify(Boxes, LAMBDA b : held[b] = m)
                      IN  ref[m] = places /\ (m \in live <=> places > 0)
    BY Zenon DEF RefExact
  <2>1. Due(m) = Cardinality(Unrouted(m)) + Cardinality(Ahead(m))
    BY Zenon DEF Due, Quantify, Unrouted
  <2>2. Quantify(Boxes, LAMBDA b : held[b] = m) = Cardinality(HeldBy(m))
    BY Zenon DEF Quantify, HeldBy
  <2>3. {b \in Alive : m \in Range(box[b])} = Boxed(m)
    <3>1. Alive \subseteq Boxes
      BY ZenonT(60), TablesOfModules DEF Alive, Tabled, RefInv, AliveInv, Running
    <3>2. children \cup Copied \subseteq Alive
      BY Zenon DEF Alive, Tabled, Copied
    <3>3. \A b \in Boxes : m \in Range(box[b]) => b \in children \cup Copied
      BY DEF RefInv, AliveInv, Range
    <3> QED BY ZenonT(60), <3>1, <3>2, <3>3 DEF Boxed
  <2>4. Quantify(Alive, LAMBDA b : m \in Range(box[b])) = Cardinality(Boxed(m))
    BY ZenonT(60), <2>3 DEF Quantify
  <2>5. ref[m] = Places(m) /\ (m \in live <=> Places(m) > 0)
    BY Zenon DEF RefInv, CountInv
  <2> QED BY ZenonT(60), <2>1, <2>2, <2>4, <2>5, FinitePlaces DEF Places
<1> QED BY <1>1, CountInvariance, PTL

\* A thread whose local_version equals version_ has the current table, however
\* Subscribe and Unsubscribe of the other threads fall around its Publish.
THEOREM CopiesCurrent == Spec => []CopyMatchesVersion
<1>1. IndInv => CopyMatchesVersion
  BY Zenon DEF IndInv, VersionInv, CopyMatchesVersion
<1> QED BY <1>1, Invariance, PTL

\* The relaxed load in Publish never makes a thread miss a Subscribe or an
\* Unsubscribe of its own.
THEOREM OwnChangesSeen == Spec => []OwnChangesRouted
<1>1. IndInv => OwnChangesRouted
  BY Zenon DEF IndInv, OwnInv, Reflects, Listed, OwnChangesRouted
<1> QED BY <1>1, Invariance, PTL

=============================================================================
