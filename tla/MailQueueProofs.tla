--------------------------- MODULE MailQueueProofs ---------------------------
(***************************************************************************)
(* Proofs about MailQueue for every number of producers, every set of      *)
(* messages and every ring size of at least two slots.                     *)
(*                                                                         *)
(* The argument: the tickets from Released on occupy pairwise different    *)
(* slots, because there are never more than Size of them.  A slot's        *)
(* sequence therefore speaks about one ticket only, and says whether that  *)
(* ticket is free, owned by a producer, or published.                      *)
(*                                                                         *)
(* The last part shows that the ring implements the bounded FIFO.  Three   *)
(* steps of the ring are steps of the channel: the compare-exchange that   *)
(* takes a ticket (Claim), the release store of the sequence (Publish)     *)
(* and the read of the message (Receive).  All the others leave the        *)
(* channel alone; for the store that hands a slot back this is so because  *)
(* the next ticket of that slot is outside the window.                     *)
(***************************************************************************)
EXTENDS MailQueue, SequenceTheorems, TLAPS

-----------------------------------------------------------------------------
(* Slots *)

\* write_idx & mask_ is an index of the array.
LEMMA SlotInRange == ASSUME NEW a \in Nat PROVE Slot(a) \in Slots
  BY SizeAssumption DEF Slot, Slots

\* Two tickets on the same slot are at least a lap apart.
LEMMA SlotDistance ==
  ASSUME NEW a \in Nat, NEW b \in Nat, Slot(a) = Slot(b), a < b
  PROVE  a + Size <= b
<1> DEFINE qa == a \div Size
           qb == b \div Size
           k == qb - qa
<1>1. a = Size * qa + (a % Size) /\ b = Size * qb + (b % Size)
  BY SizeAssumption
<1>2. qa \in Int /\ qb \in Int /\ (a % Size) \in Int
  BY SizeAssumption
<1>3. Size * k = b - a
  <2>1. Size * qb - Size * qa = b - a
    BY <1>1, <1>2, SizeAssumption DEF Slot
  <2>2. Size * qb - Size * qa = Size * k
    BY <1>2, SizeAssumption
  <2> QED BY <2>1, <2>2
<1>4. k \in Int
  BY <1>2
<1> HIDE DEF k
<1>5. Size * k > 0
  BY <1>3
<1>6. Size * k >= Size
  BY <1>4, <1>5, SizeAssumption
<1> QED
  BY <1>3, <1>6, SizeAssumption

\* Tickets a whole number of laps apart use the same slot.
LEMMA SlotLaps ==
  ASSUME NEW a \in Nat, NEW b \in Nat, NEW n \in Int, b - a = Size * n
  PROVE  Slot(b) = Slot(a)
<1> DEFINE qa == a \div Size
           qb == b \div Size
           k == qb - qa - n
<1>1. a = Size * qa + (a % Size) /\ b = Size * qb + (b % Size)
  BY SizeAssumption
<1>2. qa \in Int /\ qb \in Int /\ (a % Size) \in 0 .. Size - 1 /\ (b % Size) \in 0 .. Size - 1
  BY SizeAssumption
<1>3. Size * k = (a % Size) - (b % Size)
  <2>1. Size * qb - Size * qa - Size * n = (a % Size) - (b % Size)
    BY <1>1, <1>2, SizeAssumption
  <2>2. Size * qb - Size * qa - Size * n = Size * k
    BY <1>2, SizeAssumption
  <2> QED BY <2>1, <2>2
<1>4. k \in Int
  BY <1>2
<1> HIDE DEF k
<1>5. Size * k < Size /\ Size * k > -Size
  BY <1>2, <1>3, SizeAssumption
<1>6. Size * k = 0
  BY <1>4, <1>5, SizeAssumption
<1> QED
  BY <1>2, <1>3, <1>6, SizeAssumption DEF Slot

\* The slot that read_idx releases is the one of ticket read_idx + size_.
LEMMA SlotPeriod == ASSUME NEW a \in Nat PROVE Slot(a + Size) = Slot(a)
<1>1. (a + Size) - a = Size * 1 /\ a + Size \in Nat
  BY SizeAssumption
<1> QED BY <1>1, SlotLaps

\* Any lap of consecutive tickets uses every slot.
LEMMA SlotCovered ==
  ASSUME NEW a \in Nat, NEW b \in Nat
  PROVE  \E t \in Nat : b <= t /\ t < b + Size /\ Slot(t) = Slot(a)
<1> DEFINE q == (a - b) \div Size
           t == b + ((a - b) % Size)
<1>1. a - b = Size * q + ((a - b) % Size)
  BY SizeAssumption
<1>2. q \in Int /\ ((a - b) % Size) \in 0 .. Size - 1
  BY SizeAssumption
<1>3. t \in Nat /\ b <= t /\ t < b + Size
  BY <1>2, SizeAssumption
<1>4. a - t = Size * q
  BY <1>1, <1>2, <1>3, SizeAssumption
<1> HIDE DEF t, q
<1>5. q \in Int
  BY <1>2 DEF q
<1>6. Slot(t) = Slot(a)
  BY <1>3, <1>4, <1>5, SlotLaps
<1> QED BY <1>3, <1>6

\* Slots of two tickets less than a lap apart differ.
LEMMA SlotInjective ==
  ASSUME NEW a \in Nat, NEW b \in Nat, a < b + Size, b < a + Size, Slot(a) = Slot(b)
  PROVE  a = b
  BY SlotDistance, SizeAssumption

\* The slots of tickets 0 .. Size - 1 are 0 .. Size - 1.
LEMMA SlotSmall == ASSUME NEW a \in Slots PROVE Slot(a) = a
  BY SizeAssumption DEF Slot, Slots

-----------------------------------------------------------------------------
(* The inductive invariant *)

\* The window of tickets in use is at most a lap wide, and the histories are
\* as long as the indices say.
Window ==
  /\ cpc = "release" => read_index >= 1
  /\ read_index <= write_index
  /\ write_index <= Released + Size
  /\ cpc \in {"take", "advance"} => read_index < write_index
  /\ Len(log) = write_index
  /\ Len(received) = IF cpc = "advance" THEN read_index + 1 ELSE read_index

\* What a slot's sequence says about its ticket.
Sequences ==
  /\ \A t \in Nat : Released <= t /\ t < write_index
       => sequence[Slot(t)] = t \/ sequence[Slot(t)] = t + 1
  /\ \A t \in Nat : write_index <= t /\ t < Released + Size => sequence[Slot(t)] = t
  /\ cpc \in {"take", "advance"} => sequence[Slot(read_index)] = read_index + 1
  /\ cpc = "release" => sequence[Slot(read_index - 1)] = read_index

\* Where the producers are.
Tickets ==
  /\ \A p \in Producers :
       ppc[p] # "idle" => held[p] \in Messages
  /\ \A p \in Producers :
       ppc[p] \in {"sequence", "cas"} => write_idx[p] <= write_index
  /\ \A p \in Producers :
       ppc[p] = "cas" /\ write_idx[p] = write_index => sequence[Slot(write_index)] = write_index
  /\ \A p \in Producers :
       OwnsTicket(p) =>
         /\ read_index <= write_idx[p]
         /\ write_idx[p] < write_index
         /\ sequence[Slot(write_idx[p])] = write_idx[p]
         /\ log[write_idx[p] + 1] = held[p]
  /\ \A p, q \in Producers :
       OwnsTicket(p) /\ OwnsTicket(q) /\ write_idx[p] = write_idx[q] => p = q

\* What the slots hold: the message of a producer that has written it, and
\* the message of every published ticket that is not taken.
Contents ==
  /\ \A p \in Producers : ppc[p] = "publish" => message[Slot(write_idx[p])] = held[p]
  /\ \A t \in Nat :
       Taken <= t /\ t < write_index /\ sequence[Slot(t)] = t + 1
         => message[Slot(t)] = log[t + 1]

IndInv == TypeOK /\ Window /\ Sequences /\ Tickets /\ Contents /\ DeliveredInOrder

-----------------------------------------------------------------------------
(* Initially *)

\* A newly built queue: slot i waits for ticket i.
LEMMA InitIndInv == Init => IndInv
<1> SUFFICES ASSUME Init PROVE IndInv
  OBVIOUS
<1>1. TypeOK
  BY SizeAssumption DEF Init, TypeOK, Slots
<1>2. Window
  BY SizeAssumption DEF Init, Window, Released
<1>3. Sequences
  <2>1. \A t \in Nat : t < Size => t \in Slots /\ Slot(t) = t
    BY SlotSmall, SizeAssumption DEF Slots
  <2> QED BY <2>1, SizeAssumption DEF Init, Sequences, Released
<1>4. Tickets
  BY DEF Init, Tickets, OwnsTicket
<1>5. Contents
  BY DEF Init, Contents, Taken
<1>6. DeliveredInOrder
  BY DEF Init, DeliveredInOrder
<1> QED BY <1>1, <1>2, <1>3, <1>4, <1>5, <1>6 DEF IndInv

-----------------------------------------------------------------------------
(* Steps of a producer that has no ticket yet *)

\* Entering try_enqueue touches no slot.
LEMMA CallTryEnqueueIndInv ==
  ASSUME IndInv, NEW p \in Producers, NEW m \in Messages, CallTryEnqueue(p, m)
  PROVE  IndInv'
<1> USE DEF IndInv, CallTryEnqueue, slotVars
<1>1. TypeOK'
  BY DEF TypeOK
<1>2. Window'
  BY DEF Window, Released
<1>3. Sequences'
  BY DEF Sequences, Released
<1>4. Tickets'
  BY DEF Tickets, OwnsTicket, TypeOK
<1>5. Contents'
  BY DEF Contents, Taken, TypeOK
<1>6. DeliveredInOrder'
  BY DEF DeliveredInOrder
<1> QED BY <1>1, <1>2, <1>3, <1>4, <1>5, <1>6

\* The loaded index, however old, is at most write_index_.
LEMMA LoadWriteIndexIndInv ==
  ASSUME IndInv, NEW p \in Producers, LoadWriteIndex(p)
  PROVE  IndInv'
<1> USE DEF IndInv, LoadWriteIndex, slotVars
<1>1. TypeOK'
  BY DEF TypeOK
<1>2. Window'
  BY DEF Window, Released
<1>3. Sequences'
  BY DEF Sequences, Released
<1>4. Tickets'
  BY DEF Tickets, OwnsTicket, TypeOK
<1>5. Contents'
  BY DEF Contents, Taken, TypeOK
<1>6. DeliveredInOrder'
  BY DEF DeliveredInOrder
<1> QED BY <1>1, <1>2, <1>3, <1>4, <1>5, <1>6

\* The ways a producer leaves the test of the sequence or the failed
\* compare-exchange: only its place and what it holds change.
LEMMA TestIndInv ==
  ASSUME IndInv, NEW p \in Producers, QueueFull(p) \/ TicketGone(p) \/ CasFails(p)
  PROVE  IndInv'
<1> USE DEF IndInv, QueueFull, TicketGone, CasFails, slotVars
<1>1. TypeOK'
  BY Zenon DEF TypeOK
<1>2. Window'
  BY DEF Window, Released
<1>3. Sequences'
  BY DEF Sequences, Released
<1>4. Tickets'
  <2>1. CASE QueueFull(p)
    BY SMTT(30), <2>1 DEF Tickets, OwnsTicket, TypeOK
  <2>2. CASE TicketGone(p)
    BY <2>2 DEF Tickets, OwnsTicket, TypeOK
  <2>3. CASE CasFails(p)
    BY ZenonT(60), <2>3 DEF Tickets, OwnsTicket, TypeOK
  <2> QED BY <2>1, <2>2, <2>3
<1>5. Contents'
  BY Zenon DEF Contents, Taken, TypeOK
<1>6. DeliveredInOrder'
  BY DEF DeliveredInOrder
<1> QED BY <1>1, <1>2, <1>3, <1>4, <1>5, <1>6

\* A sequence equal to write_idx: if no other producer took that ticket, its
\* slot is free.
LEMMA SlotFreeIndInv ==
  ASSUME IndInv, NEW p \in Producers, SlotFree(p)
  PROVE  IndInv'
<1> USE DEF IndInv, SlotFree, slotVars
<1>1. TypeOK'
  BY DEF TypeOK
<1>2. Window'
  BY DEF Window, Released
<1>3. Sequences'
  BY DEF Sequences, Released
<1>4. Tickets'
  <2>1. sequence[Slot(write_idx[p])] = write_idx[p]
    BY SlotInRange DEF EnqueueDiff, TypeOK
  <2> QED BY ZenonT(60), <2>1 DEF Tickets, OwnsTicket, TypeOK
<1>5. Contents'
  BY DEF Contents, Taken, TypeOK
<1>6. DeliveredInOrder'
  BY DEF DeliveredInOrder
<1> QED BY <1>1, <1>2, <1>3, <1>4, <1>5, <1>6

-----------------------------------------------------------------------------
(* Steps of a producer that takes a ticket and fills its slot *)

\* A slot whose sequence equals the next ticket is outside the window, so the
\* window stays at most a lap wide.
LEMMA CasHasRoom ==
  ASSUME IndInv, NEW p \in Producers, CasSucceeds(p)
  PROVE  /\ sequence[Slot(write_index)] = write_index
         /\ write_index < Released + Size
<1> USE DEF IndInv, TypeOK
<1>1. sequence[Slot(write_index)] = write_index
  BY DEF CasSucceeds, Tickets
<1>2. Released \in Nat
  BY DEF Window, Released
<1>3. ASSUME write_index = Released + Size PROVE FALSE
  <2>1. Slot(write_index) = Slot(Released)
    BY <1>2, <1>3, SlotPeriod
  <2>2. sequence[Slot(Released)] = Released \/ sequence[Slot(Released)] = Released + 1
    BY <1>2, <1>3, SizeAssumption DEF Sequences
  <2> QED BY <1>1, <1>2, <1>3, <2>1, <2>2, SizeAssumption
<1> QED BY <1>1, <1>2, <1>3, SizeAssumption DEF Window

\* The producer that moves write_index_ owns a free slot.
LEMMA CasSucceedsIndInv ==
  ASSUME IndInv, NEW p \in Producers, CasSucceeds(p)
  PROVE  IndInv'
<1>a. sequence[Slot(write_index)] = write_index /\ write_index < Released + Size
  BY CasHasRoom
<1> USE DEF IndInv, CasSucceeds, slotVars
<1>b. held[p] \in Messages /\ Released \in Nat
  BY DEF Tickets, Window, Released, TypeOK
<1>0. /\ sequence[Slot(write_index)] = write_index
      /\ write_index < Released + Size
      /\ held[p] \in Messages
      /\ Released \in Nat
  BY <1>a, <1>b
<1>1. TypeOK'
  BY SMTT(30), <1>0 DEF TypeOK
<1>2. Window'
  BY <1>0, SizeAssumption DEF Window, Released, TypeOK
<1>3. Sequences'
  <2>1. Released' = Released
    BY DEF Released
  <2> QED BY SMTT(30), <1>0, <2>1, SizeAssumption DEF Sequences, TypeOK
<1>4. log' = Append(log, held[p]) /\ log'[write_index + 1] = held[p]
        /\ \A i \in 1 .. write_index : log'[i] = log[i]
  BY SMTT(30), <1>0 DEF Window, TypeOK
<1>5. Tickets'
  BY SMTT(30), <1>0, <1>4, SizeAssumption DEF Tickets, OwnsTicket, TypeOK, Window
<1>6. Contents'
  <2>1. ASSUME NEW q \in Producers, ppc'[q] = "publish"
        PROVE  message'[Slot(write_idx'[q])] = held'[q]
    BY <2>1 DEF Contents, TypeOK
  <2>2. ASSUME NEW t \in Nat, Taken' <= t, t < write_index', sequence'[Slot(t)] = t + 1
        PROVE  message'[Slot(t)] = log'[t + 1]
    <3>1. t # write_index
      BY <1>0, <2>2
    <3>2. Taken <= t /\ t < write_index /\ sequence[Slot(t)] = t + 1
      BY <2>2, <3>1 DEF Taken, TypeOK
    <3>a. t + 1 \in 1 .. write_index
      BY <3>2 DEF TypeOK
    <3>3. log'[t + 1] = log[t + 1]
      BY Zenon, <1>4, <3>a
    <3> QED BY <3>2, <3>3 DEF Contents
  <2> QED BY Zenon, <2>1, <2>2 DEF Contents
<1>7. DeliveredInOrder'
  BY SMTT(30), <1>0, <1>4 DEF DeliveredInOrder, TypeOK, Window
<1> QED BY <1>1, <1>2, <1>3, <1>5, <1>6, <1>7

\* Two tickets in the window that share a slot are the same ticket.
LEMMA WindowSlots ==
  ASSUME TypeOK, Window,
         NEW t \in Nat, Released <= t, t < Released + Size,
         NEW u \in Nat, Released <= u, u < Released + Size,
         Slot(t) = Slot(u)
  PROVE  t = u
<1>1. Released \in Nat
  BY DEF Window, Released, TypeOK
<1> QED BY <1>1, SlotInjective, SizeAssumption

\* The owner writes its own slot and no other.
LEMMA WriteMessageIndInv ==
  ASSUME IndInv, NEW p \in Producers, WriteMessage(p)
  PROVE  IndInv'
<1> USE DEF IndInv, WriteMessage
<1> DEFINE w == write_idx[p]
<1>0. /\ w \in Nat /\ Released \in Nat /\ Released <= w /\ w < write_index
      /\ Slot(w) \in Slots
      /\ sequence[Slot(w)] = w
      /\ held[p] \in Messages
  <2>1. w \in Nat /\ OwnsTicket(p)
    BY DEF TypeOK, OwnsTicket
  <2>2. Released \in Nat
    BY SMTT(30) DEF Window, Released, TypeOK
  <2>3. /\ read_index <= w /\ w < write_index /\ sequence[Slot(w)] = w
        /\ held[p] \in Messages
    BY <2>1 DEF Tickets
  <2>4. read_index \in Nat /\ Released <= read_index
    BY DEF TypeOK, Released
  <2> QED BY <2>1, <2>2, <2>3, <2>4, SlotInRange
<1>1. TypeOK'
  BY <1>0 DEF TypeOK
<1>2. Window'
  BY SMTT(30) DEF Window, Released
<1>3. Sequences'
  BY SMTT(30) DEF Sequences, Released
<1>4. Tickets'
  BY SMTT(30) DEF Tickets, OwnsTicket, TypeOK
<1>5. Contents'
  <2>1. ASSUME NEW q \in Producers, ppc'[q] = "publish"
        PROVE  message'[Slot(write_idx'[q])] = held'[q]
    <3>1. CASE q = p
      BY SMTT(30), <1>0, <3>1 DEF TypeOK
    <3>2. CASE q # p
      <4>1. ppc[q] = "publish" /\ write_idx[q] # w
        BY SMTT(30), <2>1, <3>2 DEF TypeOK, Tickets, OwnsTicket
      <4>2. write_idx[q] \in Nat /\ Released <= write_idx[q] /\ write_idx[q] < Released + Size
              /\ w < Released + Size
        BY SMTT(30), <1>0, <4>1, SizeAssumption
          DEF Tickets, OwnsTicket, TypeOK, Window, Released
      <4>3. Slot(write_idx[q]) # Slot(w)
        BY SMTT(30), <1>0, <4>1, <4>2, WindowSlots
      <4> QED BY SMTT(30), <4>1, <4>3 DEF Contents, TypeOK
    <3> QED BY SMTT(30), <3>1, <3>2
  <2>2. ASSUME NEW t \in Nat, Taken' <= t, t < write_index', sequence'[Slot(t)] = t + 1
        PROVE  message'[Slot(t)] = log'[t + 1]
    <3>1. Taken <= t /\ t < write_index /\ sequence[Slot(t)] = t + 1
      BY SMTT(30), <2>2 DEF Taken
    <3>2. Slot(t) # Slot(w)
      BY SMTT(30), <1>0, <3>1, SizeAssumption, WindowSlots DEF Taken, Window, Released, TypeOK
    <3> QED BY <3>1, <3>2 DEF Contents, TypeOK
  <2> QED BY SMTT(30), <2>1, <2>2 DEF Contents
<1>6. DeliveredInOrder'
  BY Zenon DEF DeliveredInOrder
<1> QED BY SMTT(30), <1>1, <1>2, <1>3, <1>4, <1>5, <1>6

\* The release store publishes the message of the ticket.
LEMMA PublishSlotIndInv ==
  ASSUME IndInv, NEW p \in Producers, PublishSlot(p)
  PROVE  IndInv'
<1> USE DEF IndInv, PublishSlot
<1> DEFINE w == write_idx[p]
<1>a. OwnsTicket(p) /\ w \in Nat /\ Slot(w) \in Slots
  BY SlotInRange DEF OwnsTicket, TypeOK
<1>b. /\ read_index <= w /\ w < write_index
      /\ sequence[Slot(w)] = w
      /\ log[w + 1] = held[p]
  BY <1>a DEF Tickets
<1>c. message[Slot(w)] = held[p]
  BY Zenon DEF Contents
<1>d. Released \in Nat /\ Released <= w /\ write_index <= Released + Size /\ w < Released + Size
  BY SMTT(30), <1>a, <1>b, SizeAssumption DEF Window, Released, TypeOK
<1>0. /\ w \in Nat /\ Released \in Nat /\ Released <= w /\ w < write_index
      /\ read_index <= w
      /\ write_index <= Released + Size /\ w < Released + Size
      /\ Slot(w) \in Slots
      /\ sequence[Slot(w)] = w
      /\ log[w + 1] = held[p]
      /\ message[Slot(w)] = held[p]
  BY Zenon, <1>a, <1>b, <1>c, <1>d
<1>1. /\ Released' = Released
      /\ sequence'[Slot(w)] = w + 1
      /\ \A i \in Slots : i # Slot(w) => sequence'[i] = sequence[i]
  BY <1>0 DEF Released, TypeOK
<1>2. ASSUME NEW t \in Nat, Released <= t, t < Released + Size, t # w
      PROVE  Slot(t) \in Slots /\ sequence'[Slot(t)] = sequence[Slot(t)]
  <2>1. Slot(t) # Slot(w)
    BY ZenonT(60), <1>0, <1>2, WindowSlots, SizeAssumption
  <2> QED BY <1>1, <2>1, SlotInRange
<1> HIDE DEF w
<1>3. TypeOK'
  BY SMTT(30), <1>0 DEF TypeOK, w
<1>4. Window'
  BY <1>1 DEF Window
<1>5. Sequences'
  <2>1. \A t \in Nat : Released <= t /\ t < write_index
          => sequence'[Slot(t)] = t \/ sequence'[Slot(t)] = t + 1
    BY SMTT(30), <1>0, <1>1, <1>2, SizeAssumption DEF Sequences, TypeOK
  <2>2. ASSUME NEW t \in Nat, write_index <= t, t < Released + Size
        PROVE  sequence'[Slot(t)] = t
    <3>1. write_index \in Nat
      BY SMTT(30) DEF TypeOK
    <3>2. Released <= t /\ t # w
      BY SMTT(30), <1>0, <2>2, <3>1
    <3>3. sequence[Slot(t)] = t
      BY SMTT(30), <2>2 DEF Sequences
    <3> QED BY <1>2, <2>2, <3>2, <3>3
  <2>3. cpc \in {"take", "advance"} => sequence'[Slot(read_index)] = read_index + 1
    <3>1. cpc \in {"take", "advance"} => read_index # w
      BY SMTT(30), <1>0 DEF Sequences, TypeOK
    <3>2. cpc \in {"take", "advance"} => Released = read_index /\ read_index \in Nat
      BY DEF Released, TypeOK
    <3> QED BY SMTT(30), <1>2, <3>1, <3>2, SizeAssumption DEF Sequences
  <2>4. cpc = "release" => sequence'[Slot(read_index - 1)] = read_index
    <3>1. cpc = "release" => Released = read_index - 1 /\ Released # w
      BY <1>0 DEF Released, TypeOK
    <3> QED BY SMTT(30), <1>0, <1>2, <3>1, SizeAssumption DEF Sequences
  <2> QED BY Zenon, <1>1, <2>1, <2>2, <2>3, <2>4 DEF Sequences
<1>6. Tickets'
  <2>1. ASSUME NEW q \in Producers, OwnsTicket(q)'
        PROVE  /\ q # p /\ OwnsTicket(q)
               /\ write_idx[q] # w
               /\ sequence'[Slot(write_idx[q])] = write_idx[q]
    <3>1. q # p /\ OwnsTicket(q)
      BY <2>1 DEF OwnsTicket, TypeOK
    <3>2. write_idx[q] # w
      BY ZenonT(60), <3>1 DEF OwnsTicket, Tickets, TypeOK, w
    <3>3. write_idx[q] \in Nat /\ Released <= write_idx[q] /\ write_idx[q] < Released + Size
      BY SMTT(30), <1>0, <3>1, SizeAssumption DEF Tickets, TypeOK, Window, Released
    <3> QED BY Zenon, <1>2, <3>1, <3>2, <3>3 DEF Tickets
  <2>2. ASSUME NEW q \in Producers, ppc'[q] = "cas", write_idx'[q] = write_index'
        PROVE  sequence'[Slot(write_index')] = write_index'
    <3>1. sequence[Slot(write_index)] = write_index
      BY Zenon, <2>2 DEF Tickets, TypeOK
    <3>2. Slot(write_index) # Slot(w)
      BY <1>0, <3>1
    <3> QED BY <1>1, <3>1, <3>2, SlotInRange DEF TypeOK
  <2>3. \A q \in Producers : ppc'[q] # "idle" => held'[q] \in Messages
    BY Zenon DEF Tickets, TypeOK
  <2>4. \A q \in Producers : ppc'[q] \in {"sequence", "cas"} => write_idx'[q] <= write_index'
    BY Zenon DEF Tickets, TypeOK
  <2>5. \A q \in Producers : OwnsTicket(q)' =>
          /\ read_index' <= write_idx'[q]
          /\ write_idx'[q] < write_index'
          /\ sequence'[Slot(write_idx'[q])] = write_idx'[q]
          /\ log'[write_idx'[q] + 1] = held'[q]
    BY Zenon, <2>1 DEF Tickets, TypeOK
  <2>6. \A q, r \in Producers :
          OwnsTicket(q)' /\ OwnsTicket(r)' /\ write_idx'[q] = write_idx'[r] => q = r
    BY Zenon, <2>1 DEF Tickets
  <2> QED BY Zenon, <2>2, <2>3, <2>4, <2>5, <2>6 DEF Tickets
<1>7. Contents'
  <2>1. \A q \in Producers : ppc'[q] = "publish" => message'[Slot(write_idx'[q])] = held'[q]
    BY Zenon DEF Contents, TypeOK
  <2>2. ASSUME NEW t \in Nat, Taken' <= t, t < write_index', sequence'[Slot(t)] = t + 1
        PROVE  message'[Slot(t)] = log'[t + 1]
    <3>1. CASE t = w
      BY <1>0, <3>1
    <3>2. CASE t # w
      <4>1. Taken <= t /\ t < write_index
        BY <2>2 DEF Taken
      <4>2. read_index \in Nat /\ write_index \in Nat /\ Size \in Nat
        BY SMTT(30), SizeAssumption DEF TypeOK
      <4>3. Released <= t /\ t < Released + Size
        BY SMTT(30), <1>0, <4>1, <4>2 DEF Taken, Released, Window
      <4>4. sequence[Slot(t)] = t + 1
        BY Zenon, <1>2, <2>2, <3>2, <4>3
      <4> QED BY <4>1, <4>4 DEF Contents
    <3> QED BY SMTT(30), <3>1, <3>2
  <2> QED BY Zenon, <2>1, <2>2 DEF Contents
<1>8. DeliveredInOrder'
  BY DEF DeliveredInOrder
<1> QED BY SMTT(30), <1>3, <1>4, <1>5, <1>6, <1>7, <1>8

-----------------------------------------------------------------------------
(* Steps of the consumer *)

\* A sequence past read_idx is exactly one past it: the head is published.
LEMMA BeginDequeueIndInv ==
  ASSUME IndInv, BeginDequeue
  PROVE  IndInv'
<1> USE DEF IndInv, BeginDequeue, slotVars, prodVars
<1>0. Released = read_index /\ Released' = Released /\ read_index \in Nat
  BY Zenon DEF Released, TypeOK
<1>1. sequence[Slot(read_index)] \in Nat /\ sequence[Slot(read_index)] >= read_index + 1
  BY <1>0, SlotInRange DEF CanDequeue, TypeOK
<1>2. read_index < write_index
  <2>1. ASSUME read_index = write_index PROVE FALSE
    BY SMTT(30), <1>0, <1>1, <2>1, SizeAssumption DEF Sequences
  <2> QED BY <2>1 DEF Window, TypeOK
<1>3. sequence[Slot(read_index)] = read_index + 1
  BY SMTT(30), <1>0, <1>1, <1>2 DEF Sequences
<1>4. TypeOK'
  BY DEF TypeOK
<1>5. Window'
  BY Zenon, <1>0, <1>2 DEF Window
<1>6. Sequences'
  BY <1>0, <1>3 DEF Sequences
<1>7. Tickets'
  BY Zenon DEF Tickets, OwnsTicket
<1>8. Contents'
  BY Zenon DEF Contents, Taken
<1>9. DeliveredInOrder'
  BY DEF DeliveredInOrder
<1> QED BY <1>4, <1>5, <1>6, <1>7, <1>8, <1>9

\* The consumer reads the message of the oldest ticket.
LEMMA TakeMessageIndInv ==
  ASSUME IndInv, TakeMessage
  PROVE  IndInv'
<1> USE DEF IndInv, TakeMessage, prodVars
<1> DEFINE r == read_index
<1>0. /\ Released = r /\ Released' = r /\ r \in Nat /\ Slot(r) \in Slots
      /\ r < write_index /\ write_index <= r + Size
      /\ sequence[Slot(r)] = r + 1
      /\ Len(received) = r /\ Len(log) = write_index
  BY Zenon, SlotInRange DEF Released, TypeOK, Window, Sequences
<1>1. message[Slot(r)] = log[r + 1] /\ log[r + 1] \in Messages
  <2>1. Taken <= r
    BY <1>0 DEF Taken
  <2>2. message[Slot(r)] = log[r + 1]
    BY Zenon, <1>0, <2>1 DEF Contents
  <2>3. r + 1 \in 1 .. Len(log) /\ log \in Seq(Messages)
    BY SMTT(30), <1>0 DEF TypeOK
  <2> QED BY <2>2, <2>3
<1>2. /\ Len(received') = r + 1
      /\ received'[r + 1] = log[r + 1]
      /\ \A i \in 1 .. r : received'[i] = received[i]
  BY SMTT(30), <1>0, <1>1 DEF TypeOK
<1>3. ASSUME NEW t \in Nat, r < t, t < write_index
      PROVE  message'[Slot(t)] = message[Slot(t)]
  <2>1. Slot(t) # Slot(r)
    BY SMTT(30), <1>0, <1>3, WindowSlots, SizeAssumption DEF TypeOK
  <2> QED BY SMTT(30), <2>1, SlotInRange DEF TypeOK
<1>4. TypeOK'
  BY SMTT(30), <1>0, <1>1 DEF TypeOK
<1>5. Window'
  BY Zenon, <1>0, <1>2 DEF Window
<1>6. Sequences'
  BY <1>0 DEF Sequences
<1>7. Tickets'
  BY Zenon DEF Tickets, OwnsTicket
<1>8. Contents'
  <2>1. ASSUME NEW p \in Producers, ppc'[p] = "publish"
        PROVE  message'[Slot(write_idx'[p])] = held'[p]
    <3>1. write_idx[p] \in Nat /\ r < write_idx[p] /\ write_idx[p] < write_index
      BY SMTT(30), <1>0, <2>1 DEF Tickets, OwnsTicket, TypeOK
    <3> QED BY Zenon, <1>3, <2>1, <3>1 DEF Contents
  <2>2. ASSUME NEW t \in Nat, Taken' <= t, t < write_index', sequence'[Slot(t)] = t + 1
        PROVE  message'[Slot(t)] = log'[t + 1]
    <3>1. r < t /\ Taken <= t /\ t < write_index
      BY SMTT(30), <1>0, <1>2, <2>2 DEF Taken
    <3> QED BY Zenon, <1>3, <2>2, <3>1 DEF Contents
  <2> QED BY Zenon, <2>1, <2>2 DEF Contents
<1>9. DeliveredInOrder'
  BY SMTT(30), <1>0, <1>2 DEF DeliveredInOrder, TypeOK
<1> QED BY <1>4, <1>5, <1>6, <1>7, <1>8, <1>9

\* read_index_ moves on while the slot is still occupied.
LEMMA AdvanceReadIndexIndInv ==
  ASSUME IndInv, AdvanceReadIndex
  PROVE  IndInv'
<1> USE DEF IndInv, AdvanceReadIndex, slotVars, prodVars
<1>0. /\ Released = read_index /\ Released' = Released /\ read_index \in Nat
      /\ read_index < write_index /\ write_index \in Nat
      /\ sequence[Slot(read_index)] = read_index + 1
  BY SMTT(30) DEF Released, TypeOK, Window, Sequences
<1>1. TypeOK'
  BY DEF TypeOK
<1>2. Window'
  BY <1>0 DEF Window
<1>3. Sequences'
  BY <1>0 DEF Sequences
<1>4. Tickets'
  <2>1. \A p \in Producers : OwnsTicket(p) => read_index + 1 <= write_idx[p]
    BY SMTT(30), <1>0 DEF Tickets, TypeOK
  <2> QED BY Zenon, <2>1 DEF Tickets, OwnsTicket
<1>5. Contents'
  BY Zenon DEF Contents, Taken
<1>6. DeliveredInOrder'
  BY DEF DeliveredInOrder
<1> QED BY Zenon, <1>1, <1>2, <1>3, <1>4, <1>5, <1>6

\* The released slot is free for the ticket one lap later.
LEMMA ReleaseSlotIndInv ==
  ASSUME IndInv, ReleaseSlot
  PROVE  IndInv'
<1> USE DEF IndInv, ReleaseSlot, prodVars
<1> DEFINE r == read_index - 1
<1>0. /\ Released = r /\ Released' = r + 1 /\ r \in Nat /\ Slot(r) \in Slots
      /\ read_index = r + 1
      /\ r < write_index /\ write_index <= r + Size /\ write_index \in Nat
      /\ sequence[Slot(r)] = r + 1
  BY SMTT(30), SlotInRange, SizeAssumption DEF Released, TypeOK, Window, Sequences
<1>1. /\ sequence'[Slot(r)] = r + Size
      /\ \A i \in Slots : i # Slot(r) => sequence'[i] = sequence[i]
  BY Zenon, <1>0 DEF TypeOK
<1>2. ASSUME NEW t \in Nat, r < t, t < r + Size
      PROVE  sequence'[Slot(t)] = sequence[Slot(t)]
  <2>1. Slot(t) # Slot(r)
    BY SMTT(30), <1>0, <1>2, WindowSlots, SizeAssumption DEF TypeOK
  <2> QED BY SMTT(30), <1>1, <2>1, SlotInRange
<1>3. TypeOK'
  BY SMTT(30), <1>0, SizeAssumption DEF TypeOK
<1>4. Window'
  BY SMTT(30), <1>0, SizeAssumption DEF Window
<1> HIDE DEF r
<1>5. Sequences'
  <2>1. \A t \in Nat : r + 1 <= t /\ t < write_index
          => sequence'[Slot(t)] = t \/ sequence'[Slot(t)] = t + 1
    BY <1>0, <1>2, SizeAssumption DEF Sequences
  <2>2. ASSUME NEW t \in Nat, write_index <= t, t < r + 1 + Size
        PROVE  sequence'[Slot(t)] = t
    <3>1. CASE t = r + Size
      BY <1>0, <1>1, <3>1, SlotPeriod
    <3>2. CASE t # r + Size
      BY <1>0, <1>2, <2>2, <3>2, SizeAssumption DEF Sequences
    <3> QED BY Zenon, <3>1, <3>2
  <2> QED BY Zenon, <1>0, <2>1, <2>2 DEF Sequences
<1>6. Tickets'
  <2>1. ASSUME NEW p \in Producers, OwnsTicket(p)
        PROVE  sequence'[Slot(write_idx[p])] = write_idx[p]
    <3>1. write_idx[p] \in Nat /\ r < write_idx[p] /\ write_idx[p] < r + Size
      BY SMTT(30), <1>0, <2>1, SizeAssumption DEF Tickets, TypeOK
    <3> QED BY Zenon, <1>2, <2>1, <3>1 DEF Tickets
  <2>2. ASSUME sequence[Slot(write_index)] = write_index
        PROVE  sequence'[Slot(write_index)] = write_index
    <3>1. CASE Slot(write_index) = Slot(r)
      BY SMTT(30), <1>0, <1>1, <2>2, <3>1, SlotDistance, SizeAssumption
    <3>2. CASE Slot(write_index) # Slot(r)
      BY <1>0, <1>1, <2>2, <3>2, SlotInRange
    <3> QED BY <3>1, <3>2
  <2> QED BY Zenon, <2>1, <2>2 DEF Tickets, OwnsTicket
<1>7. Contents'
  <2>1. ASSUME NEW t \in Nat, Taken' <= t, t < write_index', sequence'[Slot(t)] = t + 1
        PROVE  message'[Slot(t)] = log'[t + 1]
    <3>1. Taken <= t /\ t < write_index /\ r < t /\ t < r + Size
      BY <1>0, <2>1, SizeAssumption DEF Taken, Window
    <3>2. sequence[Slot(t)] = t + 1
      BY Zenon, <1>2, <2>1, <3>1
    <3> QED BY Zenon, <3>1, <3>2 DEF Contents
  <2> QED BY Zenon, <2>1 DEF Contents
<1>8. DeliveredInOrder'
  BY Zenon DEF DeliveredInOrder
<1> QED BY SMTT(30), <1>3, <1>4, <1>5, <1>6, <1>7, <1>8

-----------------------------------------------------------------------------
(* Every step, and the theorems *)

\* Every step of try_enqueue and try_dequeue preserves the invariant.
LEMMA NextIndInv ==
  ASSUME IndInv, [Next]_vars
  PROVE  IndInv'
<1>1. ASSUME NEW p \in Producers, NEW m \in Messages, CallTryEnqueue(p, m)
      PROVE  IndInv'
  BY <1>1, CallTryEnqueueIndInv
<1>2. ASSUME NEW p \in Producers, TryEnqueue(p)
      PROVE  IndInv'
  <2>1. CASE LoadWriteIndex(p)
    BY <2>1, LoadWriteIndexIndInv
  <2>2. CASE QueueFull(p) \/ TicketGone(p) \/ CasFails(p)
    BY SMTT(30), <2>2, TestIndInv
  <2>3. CASE SlotFree(p)
    BY <2>3, SlotFreeIndInv
  <2>4. CASE CasSucceeds(p)
    BY <2>4, CasSucceedsIndInv
  <2>5. CASE WriteMessage(p)
    BY <2>5, WriteMessageIndInv
  <2>6. CASE PublishSlot(p)
    BY <2>6, PublishSlotIndInv
  <2> QED BY <1>2, <2>1, <2>2, <2>3, <2>4, <2>5, <2>6 DEF TryEnqueue
<1>3. CASE TryDequeue
  <2>1. CASE BeginDequeue
    BY <2>1, BeginDequeueIndInv
  <2>2. CASE TakeMessage
    BY <2>2, TakeMessageIndInv
  <2>3. CASE AdvanceReadIndex
    BY <2>3, AdvanceReadIndexIndInv
  <2>4. CASE ReleaseSlot
    BY <2>4, ReleaseSlotIndInv
  <2> QED BY <1>3, <2>1, <2>2, <2>3, <2>4 DEF TryDequeue
<1>4. CASE UNCHANGED vars
  BY ZenonT(60), <1>4 DEF vars, IndInv, TypeOK, Window, Sequences, Tickets, Contents,
              DeliveredInOrder, Released, Taken, OwnsTicket
<1> QED BY <1>1, <1>2, <1>3, <1>4 DEF Next

\* The strengthened invariant holds in every reachable state.
THEOREM Invariance == Spec => []IndInv
<1>1. Init => IndInv
  BY InitIndInv
<1>2. IndInv /\ [Next]_vars => IndInv'
  BY NextIndInv
<1> QED BY <1>1, <1>2, PTL DEF Spec

\* Indices, slots and local variables of MailQueue keep their types.
THEOREM TypeCorrect == Spec => []TypeOK
<1>1. IndInv => TypeOK
  BY DEF IndInv
<1> QED BY <1>1, Invariance, PTL

\* For any number of producers and any ring of at least two slots,
\* try_dequeue returns the messages in the order of their tickets, each once
\* and each as its producer wrote it.
THEOREM DeliveryOrder == Spec => []DeliveredInOrder
<1>1. IndInv => DeliveredInOrder
  BY DEF IndInv
<1> QED BY <1>1, Invariance, PTL

\* The invariant keeps the threads on different slots.
LEMMA IndInvSlotExclusive ==
  ASSUME IndInv
  PROVE  SlotExclusive
<1> USE DEF IndInv
<1>0. /\ Released \in Nat /\ write_index \in Nat /\ read_index \in Nat
      /\ Released <= read_index /\ write_index <= Released + Size
  BY SizeAssumption DEF TypeOK, Window, Released
<1>1. ASSUME NEW p \in Producers, OwnsTicket(p)
      PROVE  /\ write_idx[p] \in Nat
             /\ read_index <= write_idx[p] /\ write_idx[p] < write_index
             /\ sequence[Slot(write_idx[p])] = write_idx[p]
  BY Zenon, <1>1 DEF TypeOK, Tickets
<1>2. ASSUME NEW p \in Producers, NEW q \in Producers, p # q,
             OwnsTicket(p), OwnsTicket(q), Slot(write_idx[p]) = Slot(write_idx[q])
      PROVE  FALSE
  <2>1. write_idx[p] = write_idx[q]
    BY Zenon, <1>0, <1>1, <1>2, SlotInjective, SizeAssumption
  <2> QED BY Zenon, <1>2, <2>1 DEF Tickets
<1>3. ASSUME NEW p \in Producers, OwnsTicket(p), cpc # "idle",
             Slot(write_idx[p]) = Slot(Released)
      PROVE  FALSE
  <2>1. write_idx[p] = Released
    BY <1>0, <1>1, <1>3, SlotInjective, SizeAssumption
  <2>2. sequence[Slot(Released)] = Released + 1
    <3>1. cpc \in {"take", "advance", "release"} /\ read_index \in Nat
      BY Zenon, <1>3 DEF TypeOK
    <3>2. CASE cpc = "release"
      BY <3>1, <3>2 DEF Sequences, Released
    <3>3. CASE cpc # "release"
      BY Zenon, <3>1, <3>3 DEF Sequences, Released
    <3> QED BY <3>2, <3>3
  <2> QED BY SMTT(30), <1>0, <1>1, <1>3, <2>1, <2>2
<1> QED BY <1>2, <1>3 DEF SlotExclusive

\* The plain field Slot::message is never accessed by two threads at once:
\* the acquire/release protocol on the sequences leaves no data race on it.
THEOREM ExclusiveSlots == Spec => []SlotExclusive
<1>1. IndInv => SlotExclusive
  BY IndInvSlotExclusive
<1> QED BY <1>1, Invariance, PTL

\* A producer that sees a negative difference sees a full queue: a stale
\* write_idx meets a sequence that is past it, never one behind it.
LEMMA RefusalFull ==
  ASSUME IndInv, NEW p \in Producers, QueueFull(p)
  PROVE  write_index - Released = Size
<1> USE DEF IndInv, QueueFull
<1> DEFINE w == write_idx[p]
<1>0. /\ Released \in Nat /\ write_index \in Nat /\ w \in Nat
      /\ w <= write_index /\ write_index <= Released + Size /\ Slot(w) \in Slots
      /\ sequence[Slot(w)] \in Nat /\ sequence[Slot(w)] < w
  <2>1. w \in Nat /\ write_index \in Nat /\ read_index \in Nat /\ Size \in Nat
    BY Zenon, SizeAssumption DEF TypeOK
  <2>2. Slot(w) \in Slots
    BY Zenon, <2>1, SlotInRange
  <2>3. sequence[Slot(w)] \in Nat
    BY Zenon, <2>2 DEF TypeOK
  <2>4. sequence[Slot(w)] < w
    BY <2>1, <2>3 DEF EnqueueDiff
  <2>5. Released \in Nat /\ write_index <= Released + Size
    BY SMTT(30), <2>1, SizeAssumption DEF Window, Released, TypeOK
  <2>6. w <= write_index
    BY Zenon DEF Tickets
  <2> QED BY Zenon, <2>1, <2>2, <2>3, <2>4, <2>5, <2>6
<1>1. ASSUME write_index < Released + Size PROVE FALSE
  <2>1. CASE Released <= w
    BY SMTT(30), <1>0, <1>1, <2>1 DEF Sequences
  <2>2. CASE w < Released
    <3>1. PICK t \in Nat : Released <= t /\ t < Released + Size /\ Slot(t) = Slot(w)
      BY Zenon, <1>0, SlotCovered
    <3>2. sequence[Slot(t)] = t \/ sequence[Slot(t)] = t + 1
      BY SMTT(30), <1>0, <3>1 DEF Sequences
    <3> QED BY <1>0, <2>2, <3>1, <3>2
  <2> QED BY SMTT(30), <1>0, <2>1, <2>2
<1> QED BY <1>0, <1>1, SizeAssumption

\* try_enqueue never refuses a message while a slot is free, however stale
\* the index that the producer loaded.
THEOREM RefusalsAreJustified == Spec => RefusedOnlyWhenFull
<1> DEFINE Refused ==
             \A p \in Producers :
               ppc[p] = "sequence" /\ ppc'[p] = "idle" => write_index - Released = Size
<1>1. IndInv /\ [Next]_vars => [Refused]_vars
  <2> SUFFICES ASSUME IndInv, Next, NEW p \in Producers,
                      ppc[p] = "sequence", ppc'[p] = "idle"
               PROVE  write_index - Released = Size
    OBVIOUS
  <2>0. ppc \in [Producers -> {"idle", "load", "sequence", "cas", "write", "publish"}]
    BY Zenon DEF IndInv, TypeOK
  <2>1. ASSUME NEW q \in Producers, NEW m \in Messages, CallTryEnqueue(q, m)
        PROVE  FALSE
    BY Zenon, <2>0, <2>1 DEF CallTryEnqueue
  <2>2. ASSUME NEW q \in Producers, TryEnqueue(q)
        PROVE  QueueFull(p)
    <3>1. CASE q = p
      BY Zenon, <2>0, <2>2, <3>1 DEF TryEnqueue, LoadWriteIndex, SlotFree, TicketGone,
           CasSucceeds, CasFails, WriteMessage, PublishSlot
    <3>2. CASE q # p
      BY Zenon, <2>0, <2>2, <3>2
        DEF TryEnqueue, LoadWriteIndex, QueueFull, SlotFree, TicketGone,
           CasSucceeds, CasFails, WriteMessage, PublishSlot
    <3> QED BY Zenon, <3>1, <3>2
  <2>3. ASSUME TryDequeue
        PROVE  FALSE
    BY Zenon, <2>0, <2>3 DEF TryDequeue, BeginDequeue, TakeMessage, AdvanceReadIndex,
         ReleaseSlot, prodVars
  <2> QED BY Zenon, <2>1, <2>2, <2>3, RefusalFull DEF Next
<1> QED BY <1>1, Invariance, PTL DEF Spec, RefusedOnlyWhenFull

-----------------------------------------------------------------------------
(* The channel *)

\* A place of the channel.
Place == [msg : Messages, ready : BOOLEAN]

-----------------------------------------------------------------------------
(* The places of the channel *)

\* What the invariant says of the tickets that are not taken.
LEMMA TakenRange ==
  ASSUME IndInv
  PROVE  /\ Taken \in Nat /\ write_index \in Nat /\ Released \in Nat
         /\ Released <= Taken /\ Taken <= write_index /\ write_index <= Released + Size
         /\ Len(log) = write_index
BY SizeAssumption DEF IndInv, TypeOK, Window, Taken, Released

\* The refinement mapping yields a sequence of places, one for every ticket.
LEMMA PlacesType ==
  IndInv => /\ Places \in Seq(Place)
            /\ Len(Places) = write_index - Taken
            /\ DOMAIN Places = 1 .. write_index - Taken
<1> SUFFICES ASSUME IndInv
             PROVE  /\ Places \in Seq(Place)
                    /\ Len(Places) = write_index - Taken
                    /\ DOMAIN Places = 1 .. write_index - Taken
  OBVIOUS
<1> DEFINE n == write_index - Taken
           e(i) == [msg |-> log[Taken + i], ready |-> sequence[Slot(Taken + i - 1)] = Taken + i]
<1>1. n \in Nat /\ Taken \in Nat /\ Len(log) = n + Taken /\ log \in Seq(Messages)
  BY SMTT(30), TakenRange DEF IndInv, TypeOK
<1> HIDE DEF n
<1>2. \A i \in 1 .. n : e(i) \in Place
  <2> SUFFICES ASSUME NEW i \in 1 .. n PROVE e(i) \in Place
    BY Zenon
  <2>1. Taken + i \in 1 .. Len(log)
    BY <1>1
  <2>2. log[Taken + i] \in Messages
    BY <1>1, <2>1, ElementOfSeq
  <2> QED BY Zenon, <2>2 DEF Place
<1> HIDE DEF e
<1>3. Places = [i \in 1 .. n |-> e(i)]
  BY Zenon DEF Places, n, e
<1>4. Places \in [1 .. n -> Place]
  BY <1>2, <1>3
<1>5. Places \in Seq(Place) /\ DOMAIN Places = 1 .. n
  BY <1>1, <1>4
<1>6. Len(Places) = n
  BY <1>1, <1>5, LenProperties
<1> QED BY <1>5, <1>6 DEF n

\* The fields of a place.
LEMMA PlaceFields ==
  ASSUME NEW m, NEW b, NEW x, x = [msg |-> m, ready |-> b]
  PROVE  x.msg = m /\ x.ready = b
OBVIOUS

\* Two places with equal fields are equal.
LEMMA PlaceEqual ==
  ASSUME NEW x \in Place, NEW y \in Place, x.msg = y.msg, x.ready = y.ready
  PROVE  x = y
BY DEF Place

\* A place once it is ready.
LEMMA PlaceReady ==
  ASSUME NEW x \in Place
  PROVE  [x EXCEPT !.ready = TRUE] = [msg |-> x.msg, ready |-> TRUE]
<1> DEFINE y == [x EXCEPT !.ready = TRUE]
           z == [msg |-> x.msg, ready |-> TRUE]
<1>1. y \in Place /\ y.msg = x.msg
  BY Zenon DEF Place
<1>2. y.ready = TRUE
  BY DEF Place
<1>3. z \in Place /\ z.msg = x.msg /\ z.ready = TRUE
  BY Zenon DEF Place
<1> HIDE DEF y, z
<1>4. y = z
  BY Zenon, <1>1, <1>2, <1>3, PlaceEqual
<1> QED BY <1>4 DEF y, z

\* A place, by its ticket.
LEMMA PlaceOfTicket ==
  ASSUME IndInv, NEW i \in 1 .. write_index - Taken
  PROVE  Places[i] = [msg |-> log[Taken + i],
                      ready |-> sequence[Slot(Taken + i - 1)] = Taken + i]
BY Zenon DEF Places

\* A step that takes no ticket and no message, and changes the sequence of no
\* ticket in between, leaves the channel alone.
LEMMA PlacesSame ==
  ASSUME IndInv, write_index' = write_index, log' = log, received' = received,
         \A t \in Nat : Taken <= t /\ t < write_index => sequence'[Slot(t)] = sequence[Slot(t)]
  PROVE  Places' = Places
<1>1. Taken' = Taken /\ Taken \in Nat /\ write_index \in Nat
  BY Zenon, TakenRange DEF Taken
<1>2. ASSUME NEW i \in 1 .. write_index - Taken
      PROVE  sequence'[Slot(Taken + i - 1)] = sequence[Slot(Taken + i - 1)]
  <2>1. Taken + i - 1 \in Nat /\ Taken <= Taken + i - 1 /\ Taken + i - 1 < write_index
    BY <1>1
  <2> QED BY Zenon, <2>1
<1> QED BY Zenon, <1>1, <1>2 DEF Places

-----------------------------------------------------------------------------
(* The three steps of the channel *)

\* A successful compare-exchange claims the next place.
LEMMA CasClaims ==
  ASSUME IndInv, IndInv', NEW p \in Producers, CasSucceeds(p)
  PROVE  Channel!Claim(held[p])
<1> DEFINE m == held[p]
           new == [msg |-> m, ready |-> FALSE]
           n == write_index - Taken
<1>0. /\ write_index' = write_index + 1 /\ log' = Append(log, m)
      /\ received' = received /\ sequence' = sequence
  BY DEF CasSucceeds, slotVars
<1>1. sequence[Slot(write_index)] = write_index /\ write_index < Released + Size
  BY SMTT(30), CasHasRoom
<1>2. /\ Taken \in Nat /\ write_index \in Nat /\ Released \in Nat /\ Released <= Taken
      /\ Taken <= write_index /\ Len(log) = write_index /\ Taken' = Taken
      /\ log \in Seq(Messages) /\ n \in Nat
  BY SMTT(30), <1>0, TakenRange DEF Taken, IndInv, TypeOK
<1>3. m \in Messages
  BY Zenon DEF CasSucceeds, IndInv, Tickets
<1>4. Places \in Seq(Place) /\ Len(Places) = n /\ Places' \in Seq(Place) /\ Len(Places') = n + 1
  <2>0. (/\ Places \in Seq(Place)
         /\ Len(Places) = write_index - Taken
         /\ DOMAIN Places = 1 .. write_index - Taken)'
    BY PlacesType, PTL
  <2>1. Places' \in Seq(Place) /\ Len(Places') = (write_index - Taken)'
    BY <2>0
  <2> QED BY <1>0, <1>2, <2>1, PlacesType
<1>5. n < Size
  BY <1>1, <1>2, SizeAssumption
<1>6. new \in Place
  BY Zenon, <1>3 DEF Place
<1> HIDE DEF new, n
<1>7. Append(Places, new) \in Seq(Place) /\ Len(Append(Places, new)) = n + 1
        /\ \A i \in 1 .. n + 1 : Append(Places, new)[i] = IF i = n + 1 THEN new ELSE Places[i]
  BY <1>2, <1>4, <1>6
<1>8. ASSUME NEW i \in 1 .. n + 1
      PROVE  Places'[i] = Append(Places, new)[i]
  <2>0. i \in 1 .. (write_index - Taken)'
    BY <1>0, <1>2 DEF n
  <2>1. Places'[i] = [msg |-> log'[Taken + i],
                      ready |-> sequence[Slot(Taken + i - 1)] = Taken + i]
    BY Zenon, <1>0, <1>2, <2>0 DEF Places
  <2>2. CASE i = n + 1
    <3>1. Taken + i = write_index + 1 /\ Taken + i - 1 = write_index
      BY SMTT(30), <1>2, <2>2 DEF n
    <3>2. log'[Taken + i] = m
      BY SMTT(30), <1>0, <1>2, <1>3, <3>1
    <3>3. (sequence[Slot(Taken + i - 1)] = Taken + i) = FALSE
      BY <1>1, <1>2, <3>1
    <3> QED BY Zenon, <1>7, <2>1, <2>2, <3>2, <3>3 DEF new
  <2>3. CASE i # n + 1
    <3>1. i \in 1 .. write_index - Taken /\ Taken + i \in 1 .. Len(log)
      BY SMTT(30), <1>2, <2>3 DEF n
    <3>2. log'[Taken + i] = log[Taken + i]
      BY <1>0, <1>2, <1>3, <3>1
    <3>3. Places[i] = Places'[i]
      BY Zenon, <2>1, <3>1, <3>2, PlaceOfTicket
    <3> QED BY Zenon, <1>7, <2>3, <3>3
  <2> QED BY Zenon, <2>2, <2>3
<1>9. Places' = Append(Places, new)
  BY Zenon, <1>4, <1>7, <1>8, SeqEqual
<1> QED BY Zenon, <1>0, <1>4, <1>5, <1>9 DEF Channel!Claim, new

\* The release store of a sequence publishes the place of its ticket.
LEMMA StorePublishes ==
  ASSUME IndInv, IndInv', NEW p \in Producers, PublishSlot(p)
  PROVE  \E i \in DOMAIN Places : Channel!Publish(i)
<1> DEFINE w == write_idx[p]
           k == w - Taken + 1
<1>0. /\ write_index' = write_index /\ log' = log /\ received' = received
      /\ sequence' = [sequence EXCEPT ![Slot(w)] = w + 1]
  BY Zenon DEF PublishSlot
<1>1. /\ Taken \in Nat /\ write_index \in Nat /\ Released \in Nat /\ Released <= Taken
      /\ Taken <= write_index /\ write_index <= Released + Size /\ Taken' = Taken
  BY Zenon, <1>0, TakenRange DEF Taken
<1>2. /\ w \in Nat /\ read_index <= w /\ w < write_index /\ sequence[Slot(w)] = w
      /\ read_index \in Nat /\ Slot(w) \in Slots /\ sequence \in [Slots -> Nat]
  BY Zenon, SlotInRange DEF PublishSlot, IndInv, TypeOK, Tickets, OwnsTicket
<1>3. Taken <= w
  <2>1. CASE cpc = "advance"
    <3>1. Taken = read_index + 1 /\ sequence[Slot(read_index)] = read_index + 1
      BY Zenon, <2>1 DEF IndInv, Window, Sequences, Taken
    <3>2. w # read_index
      BY <1>2, <3>1
    <3> QED BY <1>2, <3>1, <3>2
  <2>2. CASE cpc # "advance"
    BY Zenon, <1>2, <2>2 DEF IndInv, Window, Taken
  <2> QED BY <2>1, <2>2
<1>4. k \in 1 .. write_index - Taken /\ Taken + k = w + 1 /\ Taken + k - 1 = w
  BY <1>1, <1>2, <1>3
<1> HIDE DEF k
<1>5. ASSUME NEW i \in 1 .. write_index - Taken
      PROVE  Places'[i] = [Places EXCEPT ![k].ready = TRUE][i]
  <2>1. Places'[i] = [msg |-> log[Taken + i],
                      ready |-> sequence'[Slot(Taken + i - 1)] = Taken + i]
    BY Zenon, <1>0, <1>1 DEF Places
  <2>2. Places[i] = [msg |-> log[Taken + i],
                     ready |-> sequence[Slot(Taken + i - 1)] = Taken + i]
    BY Zenon, PlaceOfTicket
  <2>3. DOMAIN Places = 1 .. write_index - Taken
    BY PlacesType
  <2>4. CASE i = k
    <3>1. sequence'[Slot(Taken + i - 1)] = Taken + i
      BY Zenon, <1>0, <1>2, <1>4, <2>4
    <3>2. Places'[i] = [msg |-> log[Taken + i], ready |-> TRUE]
      BY Zenon, <2>1, <3>1
    <3>3. [Places EXCEPT ![k].ready = TRUE][i] = [Places[i] EXCEPT !.ready = TRUE]
      BY <2>3, <2>4
    <3>4. [Places[i] EXCEPT !.ready = TRUE] = [msg |-> log[Taken + i], ready |-> TRUE]
      <4>1. Places[i].msg = log[Taken + i]
        BY SMTT(30), <2>2
      <4>2. Places[i] \in Place
        BY <2>3, PlacesType, ElementOfSeq
      <4>3. [Places[i] EXCEPT !.ready = TRUE] = [msg |-> Places[i].msg, ready |-> TRUE]
        BY <4>2, PlaceReady
      <4> QED BY SMTT(30), <4>1, <4>3
    <3> QED BY <3>2, <3>3, <3>4
  <2>5. CASE i # k
    <3>1. Taken + i - 1 \in Nat /\ Taken + i - 1 # w /\ Released <= Taken + i - 1
            /\ Taken + i - 1 < Released + Size /\ Released <= w /\ w < Released + Size
      BY <1>1, <1>2, <1>3, <1>4, <2>5, SizeAssumption
    <3>2. Slot(Taken + i - 1) # Slot(w) /\ Slot(Taken + i - 1) \in Slots
      BY Zenon, <1>2, <3>1, WindowSlots, SlotInRange DEF IndInv
    <3>3. sequence'[Slot(Taken + i - 1)] = sequence[Slot(Taken + i - 1)]
      BY Zenon, <1>0, <1>2, <3>2
    <3> QED BY SMTT(30), <1>4, <2>1, <2>2, <2>3, <2>5, <3>3
  <2> QED BY <2>4, <2>5
<1>6. Places' = [Places EXCEPT ![k].ready = TRUE]
  <2>1. DOMAIN Places = 1 .. write_index - Taken /\ DOMAIN Places' = 1 .. write_index - Taken
    BY Zenon, <1>0, <1>1, PlacesType DEF Places
  <2> QED BY Zenon, <1>5, <2>1 DEF Places
<1>7. k \in DOMAIN Places /\ ~Places[k].ready
  <2>1. Places[k] = [msg |-> log[Taken + k], ready |-> sequence[Slot(Taken + k - 1)] = Taken + k]
    BY Zenon, <1>4, PlaceOfTicket
  <2>2. (sequence[Slot(Taken + k - 1)] = Taken + k) = FALSE
    BY <1>2, <1>4
  <2>3. Places[k] = [msg |-> log[Taken + k], ready |-> FALSE]
    BY Zenon, <2>1, <2>2
  <2>4. Places[k].ready = FALSE
    BY SMTT(30), <2>3, PlaceFields
  <2> QED BY Zenon, <1>4, <2>4, PlacesType
<1> QED BY Zenon, <1>0, <1>6, <1>7 DEF Channel!Publish

\* The consumer's read receives the first place.
LEMMA TakeReceives ==
  ASSUME IndInv, IndInv', TakeMessage
  PROVE  Channel!Receive
<1> DEFINE r == read_index
           n == write_index - r
<1>0. /\ write_index' = write_index /\ log' = log /\ sequence' = sequence
      /\ received' = Append(received, message[Slot(r)])
  BY DEF TakeMessage, prodVars
<1>1. /\ r \in Nat /\ write_index \in Nat /\ Taken = r /\ r < write_index
      /\ sequence[Slot(r)] = r + 1 /\ n \in Nat
  <2>1. cpc = "take" /\ r \in Nat /\ write_index \in Nat
    BY Zenon DEF TakeMessage, IndInv, TypeOK
  <2>2. Taken = r /\ r < write_index
    BY Zenon, <2>1 DEF IndInv, Window, Taken
  <2>3. sequence[Slot(r)] = r + 1
    BY Zenon, <2>1 DEF IndInv, Sequences
  <2> QED BY <2>1, <2>2, <2>3
<1>2. message[Slot(r)] = log[r + 1]
  <2>1. Contents
    BY DEF IndInv
  <2> QED BY <1>1, <2>1 DEF Contents
<1>3. Taken' = r + 1
  <2>1. cpc' = "advance" /\ read_index' = read_index
    BY DEF TakeMessage
  <2> QED BY Zenon, <2>1 DEF IndInv, Window, Taken
<1>4. /\ Places \in Seq(Place) /\ Len(Places) = n
      /\ Places' \in Seq(Place) /\ Len(Places') = n - 1
  <2>0. (/\ Places \in Seq(Place)
         /\ Len(Places) = write_index - Taken
         /\ DOMAIN Places = 1 .. write_index - Taken)'
    BY PlacesType, PTL
  <2>1. Places' \in Seq(Place) /\ Len(Places') = (write_index - Taken)'
    BY <2>0
  <2> QED BY <1>0, <1>1, <1>3, <2>1, PlacesType
<1>5. Places # <<>>
  BY <1>1, <1>4, EmptySeq
<1>6. Places[1].ready /\ Places[1].msg = log[r + 1]
  <2>1. 1 \in 1 .. write_index - Taken
    BY SMTT(30), <1>1
  <2>2. Places[1] = [msg |-> log[r + 1], ready |-> sequence[Slot(r)] = r + 1]
    BY SMTT(30), <1>1, <2>1, PlaceOfTicket
  <2>3. Places[1] = [msg |-> log[r + 1], ready |-> TRUE]
    BY Zenon, <1>1, <2>2
  <2> QED BY <2>3, PlaceFields
<1> HIDE DEF n
<1>7. Tail(Places) \in Seq(Place) /\ Len(Tail(Places)) = n - 1
        /\ \A i \in 1 .. n - 1 : Tail(Places)[i] = Places[i + 1]
  BY Zenon, <1>4, <1>5, HeadTailProperties
<1>8. ASSUME NEW i \in 1 .. n - 1
      PROVE  Places'[i] = Tail(Places)[i]
  <2>1. i \in 1 .. (write_index - Taken)' /\ i + 1 \in 1 .. write_index - Taken
          /\ Taken' + i = Taken + (i + 1)
    BY <1>0, <1>1, <1>3 DEF n
  <2>2. Places'[i].msg = log[Taken' + i]
          /\ Places'[i].ready = (sequence[Slot(Taken' + i - 1)] = Taken' + i)
    BY Zenon, <1>0, <2>1 DEF Places
  <2>3. Places[i + 1].msg = log[Taken + (i + 1)]
          /\ Places[i + 1].ready = (sequence[Slot(Taken + (i + 1) - 1)] = Taken + (i + 1))
    BY Zenon, <2>1 DEF Places
  <2>4. Places'[i] = Places[i + 1]
    <3>1. Places'[i] \in Place /\ Places[i + 1] \in Place
      BY <1>4, <2>1, ElementOfSeq DEF n
    <3>2. Taken' + i = Taken + (i + 1) /\ Taken' + i - 1 = Taken + (i + 1) - 1
      BY <1>1, <1>3
    <3>3. Places'[i].msg = Places[i + 1].msg
      BY Zenon, <2>2, <2>3, <3>2
    <3>4. (sequence[Slot(Taken' + i - 1)] = Taken' + i)
            = (sequence[Slot(Taken + (i + 1) - 1)] = Taken + (i + 1))
      BY <3>2
    <3>5. Places'[i].ready = Places[i + 1].ready
      BY Zenon, <2>2, <2>3, <3>4
    <3> QED BY Zenon, <3>1, <3>3, <3>5, PlaceEqual
  <2> QED BY <1>7, <2>4
<1>9. Places' = Tail(Places)
  BY <1>4, <1>7, <1>8, SeqEqual
<1> QED BY Zenon, <1>0, <1>2, <1>5, <1>6, <1>9 DEF Channel!Receive, Channel!CanDequeue

-----------------------------------------------------------------------------
(* The other steps *)

\* Handing a slot back changes the sequence of no ticket that is in use.
LEMMA ReleaseKeepsPlaces ==
  ASSUME IndInv, ReleaseSlot
  PROVE  UNCHANGED <<Places, received>>
<1> DEFINE r == read_index - 1
<1>0. /\ write_index' = write_index /\ log' = log /\ received' = received
      /\ sequence' = [sequence EXCEPT ![Slot(r)] = r + Size] /\ cpc = "release"
  BY Zenon DEF ReleaseSlot, prodVars
<1>1. /\ r \in Nat /\ Released = r /\ Taken = r + 1
      /\ write_index \in Nat /\ write_index <= r + Size /\ sequence \in [Slots -> Nat]
  BY SMTT(30), <1>0 DEF IndInv, TypeOK, Window, Released, Taken
<1> HIDE DEF r
<1>2. ASSUME NEW t \in Nat, Taken <= t, t < write_index
      PROVE  sequence'[Slot(t)] = sequence[Slot(t)]
  <2>1. Released <= t /\ t < Released + Size /\ Released < Released + Size /\ t # r
    BY <1>1, <1>2, SizeAssumption
  <2>2. Slot(t) # Slot(r) /\ Slot(t) \in Slots
    BY <1>1, <2>1, WindowSlots, SlotInRange DEF IndInv
  <2> QED BY Zenon, <1>0, <1>1, <2>2
<1> QED BY Zenon, <1>0, <1>2, PlacesSame

\* So do the steps that touch no sequence.
LEMMA OthersKeepPlaces ==
  ASSUME IndInv, UNCHANGED <<write_index, log, received, sequence>>
  PROVE  UNCHANGED <<Places, received>>
BY PlacesSame

\* Every step of try_enqueue and try_dequeue is a step of the channel or none.
LEMMA StepRefines ==
  ASSUME IndInv, IndInv', [Next]_vars
  PROVE  [Channel!ChanNext]_(Channel!chanVars)
<1> USE DEF Channel!ChanNext, Channel!chanVars
<1>1. ASSUME NEW p \in Producers, NEW m \in Messages, CallTryEnqueue(p, m)
      PROVE  UNCHANGED <<Places, received>>
  BY <1>1, OthersKeepPlaces DEF CallTryEnqueue, slotVars
<1>2. ASSUME NEW p \in Producers, LoadWriteIndex(p) \/ QueueFull(p) \/ SlotFree(p) \/ TicketGone(p)
                                    \/ CasFails(p) \/ WriteMessage(p)
      PROVE  UNCHANGED <<Places, received>>
  <2>1. UNCHANGED <<write_index, log, received, sequence>>
    BY Zenon, <1>2
      DEF LoadWriteIndex, QueueFull, SlotFree, TicketGone, CasFails, WriteMessage, slotVars
  <2> QED BY <2>1, OthersKeepPlaces
<1>3. ASSUME NEW p \in Producers, CasSucceeds(p)
      PROVE  \E m \in Messages : Channel!Claim(m)
  <2>1. held[p] \in Messages
    BY Zenon, <1>3 DEF CasSucceeds, IndInv, Tickets
  <2> QED BY Zenon, <1>3, <2>1, CasClaims
<1>4. ASSUME NEW p \in Producers, PublishSlot(p)
      PROVE  \E i \in DOMAIN Places : Channel!Publish(i)
  BY Zenon, <1>4, StorePublishes
<1>5. CASE BeginDequeue \/ AdvanceReadIndex
  <2>1. UNCHANGED <<write_index, log, received, sequence>>
    BY <1>5 DEF BeginDequeue, AdvanceReadIndex, slotVars
  <2> QED BY <2>1, OthersKeepPlaces
<1>6. CASE TakeMessage
  BY <1>6, TakeReceives
<1>7. CASE ReleaseSlot
  BY <1>7, ReleaseKeepsPlaces
<1>8. CASE UNCHANGED vars
  BY <1>8, OthersKeepPlaces DEF vars
<1> QED BY Zenon, <1>1, <1>2, <1>3, <1>4, <1>5, <1>6, <1>7, <1>8
          DEF Next, TryEnqueue, TryDequeue

\* An empty ring is an empty channel.
LEMMA InitRefines ==
  ASSUME Init
  PROVE  Channel!ChanInit
<1>1. IndInv
  BY InitIndInv
<1>2. write_index = 0 /\ Taken = 0 /\ received = <<>>
  BY DEF Init, Taken
<1>3. Places \in Seq(Place) /\ Len(Places) = 0
  BY <1>1, <1>2, PlacesType
<1>4. Places = <<>>
  BY <1>3, EmptySeq
<1> QED BY <1>2, <1>4 DEF Channel!ChanInit

\* The lock-free ring of MailQueue is a bounded FIFO with a two-step enqueue:
\* what the mailbox relies on holds of its queue.
THEOREM RingIsChannel == Spec => ImplementsChannel
<1>1. Init => Channel!ChanInit
  BY InitRefines
<1>2. IndInv /\ IndInv' /\ [Next]_vars => [Channel!ChanNext]_(Channel!chanVars)
  BY StepRefines
<1> QED BY <1>1, <1>2, Invariance, PTL DEF Spec, ImplementsChannel, Channel!ChanSpec

=============================================================================
