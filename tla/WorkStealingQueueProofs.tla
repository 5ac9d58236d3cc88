----------------------- MODULE WorkStealingQueueProofs -----------------------
(***************************************************************************)
(* Proofs about WorkStealingQueue for every number of thieves, every set   *)
(* of tasks, every size of the ring and every width of the indices, as     *)
(* long as bottom_ has not passed the sign bit (NoOverflow).               *)
(*                                                                         *)
(* The argument: top_ only grows, so a thief whose compare-exchange        *)
(* succeeds has seen the top_ of now.  The task there was queued when the  *)
(* thief looked at bottom_, and the owner takes it only with a             *)
(* compare-exchange of its own.  The queued tasks lie in different slots,  *)
(* because there are never more than N of them.                            *)
(***************************************************************************)
EXTENDS WorkStealingQueue, SequenceTheorems, TLAPS

\* The first index that is negative as a signed number, and the number of words.
Half == 2^(Width - 1)
Modulus == 2^Width

\* The end of the queue is representable as a signed index.  On 64 bits it
\* takes a worker 2^63 pushes to leave this range.
NoOverflow == End < Half

-----------------------------------------------------------------------------
(* Words and slots *)

\* The range of a word, without powers.
LEMMA WordFacts ==
  /\ Half \in Nat \ {0}
  /\ Modulus = 2 * Half
  /\ Modulus \in Nat
  /\ Word = 0 .. Modulus - 1
  BY WordAssumption DEF Half, Modulus, Word

\* An index in range does not wrap.
LEMMA WrapSmall == ASSUME NEW x \in Word PROVE Wrap(x) = x
<1>1. Wrap(x) = x % Modulus
  BY DEF Wrap, Modulus
<1> QED BY <1>1, WordFacts

\* Below zero and past the end it does.
LEMMA WrapEnds == Wrap(-1) = Modulus - 1 /\ Wrap(Modulus) = 0
<1>1. \A x : Wrap(x) = x % Modulus
  BY DEF Wrap, Modulus
<1>2. PICK m \in Nat \ {0} : m = Modulus
  BY WordFacts
<1>3. m % m = 0
  BY <1>2
<1>4. (-1) % m = m - 1
  BY <1>2
<1> QED BY <1>1, <1>2, <1>3, <1>4

\* Sums and differences are words again.
LEMMA WrapType == ASSUME NEW x \in Int PROVE Wrap(x) \in Word
<1>1. Wrap(x) = x % Modulus
  BY DEF Wrap, Modulus
<1> QED BY <1>1, WordFacts

\* A word below the sign bit is itself as a signed number; the largest word
\* is -1.
LEMMA SignedFacts ==
  /\ \A x \in Word : x < Half => Signed(x) = x
  /\ Signed(Modulus - 1) = -1
<1>1. \A x : Signed(x) = IF x < Half THEN x ELSE x - Modulus
  BY DEF Signed, Half, Modulus
<1> QED BY <1>1, WordFacts

\* index & kMask is an index of the array.
LEMMA SlotInRange == ASSUME NEW a \in Nat PROVE Slot(a) \in 0 .. N - 1
  BY SlotsAssumption DEF Slot

\* Two indices on one slot are at least N apart.
LEMMA SlotApart ==
  ASSUME NEW a \in Nat, NEW b \in Nat, Slot(a) = Slot(b), a < b
  PROVE  a + N <= b
<1> DEFINE k == (b \div N) - (a \div N)
<1>n. N \in Nat \ {0}
  BY SlotsAssumption
<1>1. /\ a = N * (a \div N) + (a % N)
      /\ b = N * (b \div N) + (b % N)
      /\ a \div N \in Int /\ b \div N \in Int /\ (a % N) \in Int
  BY <1>n
<1>2. N * (b \div N) - N * (a \div N) = b - a
  BY <1>1, <1>n DEF Slot
<1>3. N * k = b - a /\ k \in Int
  <2>1. N * (b \div N) - N * (a \div N) = N * k
    BY <1>1, <1>n
  <2> QED BY <1>1, <1>2, <2>1
<1> HIDE DEF k
<1>4. N * k >= N
  BY <1>3, <1>n
<1> QED BY <1>3, <1>4, <1>n

\* Indices less than N apart use different slots.
LEMMA SlotInjective ==
  ASSUME NEW a \in Nat, NEW b \in Nat, a < b + N, b < a + N, Slot(a) = Slot(b)
  PROVE  a = b
  BY SlotApart, SlotsAssumption

-----------------------------------------------------------------------------
(* The inductive invariant *)

\* pop has moved bottom_ down and not yet decided or restored it.
Reserved == opc \in {"load_top", "cas", "restore"}

\* The first index that holds no task of the queue: push writes its slot
\* before it moves bottom_.
Stored == IF opc = "publish" THEN End + 1 ELSE End

\* At most N tasks, from top_ on.
WindowInv == top <= End /\ Stored <= top + N

\* A pop that competes for the only task: that task is there, or a thief took it.
OwnerInv ==
  opc = "cas" => End >= 1 /\ owner_tp = End - 1 /\ bottom = End - 1 /\ End - 1 <= top

\* A thief knows a top_ of the past.  If it is still the top_ of now, the task
\* is still queued, and the handle the thief loaded is the one in the slot.
ThiefInv ==
  \A h \in Thieves :
    /\ tpc[h] # "idle" => tp[h] <= top
    /\ tpc[h] \in {"load_slot", "cas"} /\ tp[h] = top => top < End
    /\ tpc[h] = "cas" /\ tp[h] = top => ptr[h] = queue[Slot(top)]

\* The stored handles are tasks that nobody obtained yet, each in one slot.
ContentInv ==
  /\ \A a \in Nat : top <= a /\ a < Stored =>
       /\ queue[Slot(a)] \in Tasks
       /\ \A i \in DOMAIN obtained : obtained[i] # queue[Slot(a)]
  /\ \A a, b \in Nat :
       top <= a /\ a < Stored /\ top <= b /\ b < Stored /\ queue[Slot(a)] = queue[Slot(b)]
         => a = b

\* All of it, together with the property.
IndInv == TypeOK /\ WindowInv /\ OwnerInv /\ ThiefInv /\ ContentInv /\ ExactlyOnce

\* What the words say about the end of the queue while it is in range.
LEMMA Ends ==
  ASSUME IndInv, NoOverflow
  PROVE  /\ End \in Nat /\ top \in Nat /\ top <= End /\ End + 1 \in Word
         /\ Signed(top) = top
         /\ ~Reserved => bottom = End
         /\ Reserved /\ End >= 1 => bottom = End - 1 /\ Signed(bottom) = End - 1
         /\ Reserved /\ End = 0 => bottom = Modulus - 1 /\ Signed(bottom) = -1
         /\ Reserved => Wrap(bottom + 1) = End
         /\ Wrap(End - top) = End - top
<1> USE DEF NoOverflow
<1>1. top \in Word /\ bottom \in Word /\ top <= End
  BY DEF IndInv, TypeOK, WindowInv
<1>2. ~Reserved => End = bottom
  BY DEF End, Reserved
<1>3. Reserved => End = Wrap(bottom + 1)
  BY DEF End, Reserved
<1>4. Reserved => \/ bottom = Modulus - 1 /\ End = 0
                  \/ End >= 1 /\ bottom = End - 1
  <2>1. bottom + 1 \in Word \/ bottom + 1 = Modulus
    BY <1>1, WordFacts
  <2> QED BY <2>1, <1>1, <1>3, WrapSmall, WrapEnds, WordFacts
<1>5. End \in Nat /\ top \in Nat /\ End + 1 \in Word /\ End \in Word
  <2>1. End \in Word
    <3>1. bottom + 1 \in Int
      BY <1>1, WordFacts
    <3> QED BY <1>1, <1>2, <1>3, <3>1, WrapType
  <2> QED BY <1>1, <2>1, WordFacts
<1>6. Signed(top) = top
  BY <1>1, <1>5, SignedFacts, WordFacts
<1>7. End >= 1 => Signed(End - 1) = End - 1
  <2>1. End >= 1 => End - 1 \in Word /\ End - 1 < Half
    BY <1>5, WordFacts
  <2> QED BY <2>1, SignedFacts
<1>8. Wrap(End - top) = End - top
  <2>1. End - top \in Word
    BY <1>1, <1>5, WordFacts
  <2> QED BY <2>1, WrapSmall
<1>9. Reserved /\ End = 0 => bottom = Modulus - 1 /\ Signed(bottom) = -1
  BY <1>4, SignedFacts
<1>10. Reserved /\ End >= 1 => bottom = End - 1 /\ Signed(bottom) = End - 1
  BY <1>4, <1>5, <1>7
<1> QED
  BY <1>1, <1>2, <1>3, <1>5, <1>6, <1>8, <1>9, <1>10

\* The queue starts empty.
LEMMA InitInv == Init => IndInv
<1> SUFFICES ASSUME Init PROVE IndInv
  OBVIOUS
<1> USE DEF Init
<1>1. 0 \in Word
  BY WordFacts
<1>2. TypeOK
  BY <1>1 DEF TypeOK
<1>3. End = 0 /\ Stored = 0
  BY DEF End, Stored
<1>4. WindowInv
  BY <1>3, SlotsAssumption DEF WindowInv
<1>5. OwnerInv /\ ThiefInv
  BY DEF OwnerInv, ThiefInv
<1>6. ContentInv
  BY <1>3 DEF ContentInv
<1>7. ExactlyOnce
  BY DEF ExactlyOnce
<1> QED BY <1>2, <1>4, <1>5, <1>6, <1>7 DEF IndInv

-----------------------------------------------------------------------------
(* What a step does to the queue *)

\* push writes a slot that holds none of the queued tasks.
LEMMA StoreStep ==
  ASSUME IndInv, NoOverflow, NEW t \in Tasks, PushStore(t)
  PROVE  /\ End' = End /\ top' = top /\ Stored = End /\ Stored' = End + 1
         /\ End - top < N
         /\ queue' = [queue EXCEPT ![Slot(End)] = t]
         /\ \A a \in Nat : top <= a /\ a < End => queue'[Slot(a)] = queue[Slot(a)]
         /\ queue'[Slot(End)] = t
<1>1. bottom = End /\ Wrap(End - top) = End - top /\ End \in Nat /\ top \in Nat
  BY Ends DEF PushStore, Reserved
<1>2. End' = End /\ top' = top /\ Stored = End /\ Stored' = End + 1
  BY <1>1 DEF PushStore, End, Stored
<1>3. queue' = [queue EXCEPT ![Slot(End)] = t] /\ End - top < N
  BY <1>1 DEF PushStore
<1>4. DOMAIN queue = 0 .. N - 1
  BY DEF IndInv, TypeOK
<1>5. queue'[Slot(End)] = t
  BY <1>1, <1>3, <1>4, SlotInRange
<1>6. ASSUME NEW a \in Nat, top <= a, a < End
      PROVE  queue'[Slot(a)] = queue[Slot(a)]
  <2>1. Slot(a) # Slot(End)
    <3>1. a < End + N /\ End < a + N
      BY <1>1, <1>3, <1>6, SlotsAssumption
    <3> QED BY <1>1, <1>6, <3>1, SlotInjective
  <2>2. Slot(a) \in 0 .. N - 1
    BY SlotInRange
  <2> QED BY <1>3, <1>4, <2>1, <2>2
<1> QED BY <1>2, <1>3, <1>5, <1>6

\* The other steps that take no task leave the queue as it is, but for
\* bottom_ moving past the slot that push wrote.
LEMMA QuietSteps ==
  ASSUME IndInv, NoOverflow,
         \/ PushPublish \/ PopReserve \/ PopOnly \/ PopEmpty \/ PopRestore
         \/ \E h \in Thieves : StealLoadTop(h) \/ StealLoadBottom(h) \/ StealLoadSlot(h)
  PROVE  /\ top' = top /\ queue' = queue /\ obtained' = obtained
         /\ End' = IF PushPublish THEN End + 1 ELSE End
         /\ Stored' = Stored
<1> USE Ends
<1>1. CASE PushPublish
  <2>1. bottom' = End + 1 /\ Stored = End + 1
    BY <1>1, WrapSmall DEF PushPublish, Reserved, Stored
  <2> QED BY <1>1, <2>1 DEF PushPublish, End, Stored
<1>2. CASE PopReserve
  <2>1. End' = Wrap(bottom' + 1) /\ bottom = End /\ Stored = End /\ Stored' = End' /\ ~PushPublish
    BY <1>2 DEF PopReserve, PushPublish, End, Stored, Reserved
  <2>2. Wrap(bottom' + 1) = End
    <3>1. CASE End = 0
      <4>1. bottom' = Modulus - 1
        BY <1>2, <2>1, <3>1, WrapEnds DEF PopReserve
      <4>2. bottom' + 1 = Modulus
        BY <4>1, WordFacts
      <4> QED BY <4>2, <3>1, WrapEnds
    <3>2. CASE End >= 1
      <4>1. End - 1 \in Word /\ End \in Word
        BY <3>2, WordFacts
      <4>2. bottom' = End - 1
        BY <1>2, <2>1, <4>1, WrapSmall DEF PopReserve
      <4>3. bottom' + 1 = End
        BY <4>2
      <4> QED BY <4>1, <4>3, WrapSmall
    <3> QED BY <3>1, <3>2
  <2> QED BY <1>2, <2>1, <2>2 DEF PopReserve
<1>3. CASE PopOnly \/ PopEmpty
  BY ZenonT(60), <1>3 DEF PopOnly, PopEmpty, PushPublish, End, Stored
<1>4. CASE PopRestore
  BY ZenonT(60), <1>4 DEF PopRestore, PushPublish, End, Stored, Reserved
<1>5. ASSUME NEW h \in Thieves, StealLoadTop(h) \/ StealLoadBottom(h) \/ StealLoadSlot(h)
      PROVE  /\ top' = top /\ queue' = queue /\ obtained' = obtained
             /\ End' = IF PushPublish THEN End + 1 ELSE End
             /\ Stored' = Stored
  <2>1. opc' = opc /\ bottom' = bottom /\ top' = top /\ queue' = queue /\ obtained' = obtained
        /\ (tpc' # tpc)
    BY ZenonT(60), <1>5
      DEF StealLoadTop, StealLoadBottom, StealLoadSlot, ownerVars, IndInv, TypeOK
  <2>2. ~PushPublish
    BY <2>1 DEF PushPublish, thiefVars
  <2> QED BY <2>1, <2>2 DEF End, Stored
<1> QED BY <1>1, <1>2, <1>3, <1>4, <1>5

\* The owner takes the last of several tasks.
LEMMA LastStep ==
  ASSUME IndInv, NoOverflow, PopLast
  PROVE  /\ top' = top /\ queue' = queue /\ top < End - 1
         /\ End' = End - 1 /\ Stored = End /\ Stored' = End - 1
         /\ obtained' = Append(obtained, queue[Slot(End - 1)])
<1>1. Reserved /\ Signed(top) < Signed(bottom)
  BY DEF PopLast, Reserved
<1>2. End >= 1 /\ bottom = End - 1 /\ top < End - 1 /\ End \in Nat
  BY <1>1, Ends
<1>3. End' = End - 1 /\ Stored = End /\ Stored' = End - 1
  <2>1. End' = bottom' /\ Stored' = End' /\ Stored = End
    BY DEF PopLast, End, Stored
  <2> QED BY <1>2, <2>1 DEF PopLast
<1> QED BY <1>2, <1>3 DEF PopLast

\* A compare-exchange that succeeds takes the task at top_, whoever does it.
LEMMA CasSteps ==
  ASSUME IndInv, NoOverflow, PopCas \/ \E h \in Thieves : StealCas(h)
  PROVE  /\ queue' = queue /\ End' = End /\ Stored' = Stored
         /\ \/ /\ top' = top + 1 /\ top < End
               /\ obtained' = Append(obtained, queue[Slot(top)])
            \/ top' = top /\ obtained' = obtained
<1>1. top < End => Wrap(top + 1) = top + 1
  <2>1. top < End => top + 1 \in Word
    BY Ends, WordFacts
  <2> QED BY <2>1, WrapSmall
<1>2. CASE PopCas
  <2>1. End' = End /\ Stored' = Stored /\ queue' = queue
    BY <1>2 DEF PopCas, End, Stored
  <2>2. top = owner_tp => top = bottom /\ top < End
    BY SMTT(30), <1>2, Ends DEF IndInv, OwnerInv, PopCas
  <2> QED BY <1>1, <1>2, <2>1, <2>2 DEF PopCas
<1>3. ASSUME NEW h \in Thieves, StealCas(h)
      PROVE  /\ queue' = queue /\ End' = End /\ Stored' = Stored
             /\ \/ /\ top' = top + 1 /\ top < End
                   /\ obtained' = Append(obtained, queue[Slot(top)])
                \/ top' = top /\ obtained' = obtained
  <2>1. End' = End /\ Stored' = Stored /\ queue' = queue
    BY <1>3 DEF StealCas, ownerVars, End, Stored
  <2>2. top = tp[h] => top < End /\ ptr[h] = queue[Slot(top)]
    BY Zenon, <1>3 DEF IndInv, ThiefInv, StealCas
  <2> QED BY SMTT(30), <1>1, <1>3, <2>1, <2>2 DEF StealCas
<1> QED BY <1>2, <1>3

\* Taking one stored task out of the queue keeps the rest, and the task is
\* new to whoever takes it.
LEMMA TakeKeeps ==
  ASSUME IndInv, NEW x \in Nat, top <= x, x < Stored,
         Stored \in Nat, top' \in Nat, Stored' \in Nat,
         obtained' = Append(obtained, queue[Slot(x)]), queue' = queue,
         top <= top', Stored' <= Stored, x < top' \/ Stored' <= x
  PROVE  ContentInv' /\ ExactlyOnce' /\ obtained' \in Seq(Tasks)
<1> DEFINE q == queue[Slot(x)]
<1>1. top \in Nat /\ obtained \in Seq(Tasks)
  BY WordFacts DEF IndInv, TypeOK
<1>2. q \in Tasks /\ \A i \in DOMAIN obtained : obtained[i] # q
  BY SMTT(30), <1>1 DEF IndInv, ContentInv
<1>3. /\ obtained' \in Seq(Tasks)
      /\ DOMAIN obtained' = 1 .. Len(obtained) + 1
      /\ DOMAIN obtained = 1 .. Len(obtained)
      /\ Len(obtained) \in Nat
      /\ \A i \in 1 .. Len(obtained) : obtained'[i] = obtained[i]
      /\ obtained'[Len(obtained) + 1] = q
  BY <1>1, <1>2
<1> HIDE DEF q
<1>4. ExactlyOnce'
  BY <1>2, <1>3 DEF ExactlyOnce, IndInv
<1>5. ContentInv'
  <2>1. ASSUME NEW a \in Nat, top' <= a, a < Stored'
        PROVE  top <= a /\ a < Stored /\ a # x
    BY <1>1, <2>1
  <2>2. ASSUME NEW a \in Nat, top' <= a, a < Stored', NEW i \in DOMAIN obtained'
        PROVE  obtained'[i] # queue'[Slot(a)]
    <3>1. queue[Slot(a)] # q /\ \A j \in DOMAIN obtained : obtained[j] # queue[Slot(a)]
      BY SMTT(30), <2>1, <2>2, <1>1 DEF IndInv, ContentInv, q
    <3> QED BY <3>1, <1>3
  <2>3. ASSUME NEW a \in Nat, top' <= a, a < Stored' PROVE queue'[Slot(a)] \in Tasks
    BY <2>1, <2>3 DEF IndInv, ContentInv
  <2>4. ASSUME NEW a \in Nat, NEW b \in Nat, top' <= a, a < Stored', top' <= b, b < Stored',
               queue'[Slot(a)] = queue'[Slot(b)]
        PROVE  a = b
    BY <2>1, <2>4 DEF IndInv, ContentInv
  <2> QED BY <2>2, <2>3, <2>4 DEF ContentInv
<1> QED BY <1>3, <1>4, <1>5

-----------------------------------------------------------------------------
(* Every step keeps the invariant *)

\* Types.
LEMMA StepTypes ==
  ASSUME IndInv, NoOverflow, Next
  PROVE  TypeOK'
<1> USE DEF TypeOK
<1>0. TypeOK /\ 0 \in Word
  BY WordFacts DEF IndInv
<1>w. /\ top + 1 \in Int /\ bottom + 1 \in Int /\ bottom - 1 \in Int
      /\ Wrap(top + 1) \in Word /\ Wrap(bottom + 1) \in Word /\ Wrap(bottom - 1) \in Word
  <2>1. top + 1 \in Int /\ bottom + 1 \in Int /\ bottom - 1 \in Int
    BY <1>0, WordFacts
  <2> QED BY <2>1, WrapType
<1>1. ASSUME NEW t \in Tasks, PushStore(t) PROVE TypeOK'
  <2>1. queue' = [queue EXCEPT ![Slot(End)] = t]
    BY <1>1, StoreStep
  <2> QED BY Zenon, <1>0, <1>1, <2>1 DEF PushStore, thiefVars
<1>2. CASE PushPublish
  BY SMTT(30), <1>0, <1>2, <1>w DEF PushPublish, thiefVars
<1>3. CASE PopReserve \/ PopOnly \/ PopEmpty \/ PopRestore
  BY SMTT(30), <1>0, <1>3, <1>w DEF PopReserve, PopOnly, PopEmpty, PopRestore, thiefVars
<1>4. CASE PopLast
  <2>1. obtained' \in Seq(Tasks)
    <3>1. /\ End - 1 \in Nat /\ top <= End - 1 /\ End - 1 < Stored
          /\ Stored \in Nat /\ top' \in Nat /\ Stored' \in Nat
          /\ top <= top' /\ Stored' <= Stored /\ Stored' <= End - 1
      BY <1>4, LastStep, Ends
    <3> QED BY SMTT(30), <1>4, <3>1, LastStep, TakeKeeps
  <2> QED BY <1>0, <1>4, <2>1 DEF PopLast, thiefVars
<1>5. CASE PopCas \/ \E h \in Thieves : StealCas(h)
  <2>1. obtained' \in Seq(Tasks)
    <3>1. CASE top' = top /\ obtained' = obtained
      BY <1>0, <3>1
    <3>2. CASE top' = top + 1 /\ top < End /\ obtained' = Append(obtained, queue[Slot(top)])
      <4>1. /\ top \in Nat /\ top' \in Nat /\ Stored \in Nat /\ Stored' = Stored
            /\ top < Stored /\ top < top' /\ queue' = queue
        BY <1>5, <3>2, CasSteps, Ends DEF Stored
      <4> QED BY <3>2, <4>1, TakeKeeps
    <3> QED BY <1>5, <3>1, <3>2, CasSteps
  <2> QED BY SMTT(30), <1>0, <1>5, <2>1, <1>w DEF PopCas, StealCas, thiefVars, ownerVars
<1>6. ASSUME NEW h \in Thieves, StealLoadTop(h) \/ StealLoadBottom(h)
      PROVE  TypeOK'
  BY ZenonT(60), <1>0, <1>6 DEF StealLoadTop, StealLoadBottom, ownerVars
<1>7. ASSUME NEW h \in Thieves, StealLoadSlot(h)
      PROVE  TypeOK'
  <2>1. queue[Slot(tp[h])] \in Tasks \cup {Null}
    <3>1. tp[h] \in Nat
      BY <1>0, WordFacts
    <3> QED BY <1>0, <3>1, SlotInRange
  <2> QED BY <1>0, <1>7, <2>1 DEF StealLoadSlot, ownerVars
<1> QED
  BY ZenonT(60), <1>1, <1>2, <1>3, <1>4, <1>5, <1>6, <1>7 DEF Next, Push, Pop, Steal

\* The window, and the owner in the middle of its compare-exchange.
LEMMA StepWindow ==
  ASSUME IndInv, NoOverflow, Next
  PROVE  WindowInv' /\ OwnerInv'
<1>0. /\ WindowInv /\ OwnerInv /\ top \in Nat /\ End \in Nat /\ N \in Nat /\ top <= End
      /\ Stored \in Nat /\ End <= Stored
  BY Ends, SlotsAssumption DEF IndInv, Stored
<1>1. ASSUME NEW t \in Tasks, PushStore(t) PROVE WindowInv' /\ OwnerInv'
  <2>1. opc' # "cas"
    BY <1>1 DEF PushStore
  <2> QED BY <1>0, <1>1, <2>1, StoreStep DEF WindowInv, OwnerInv
<1>2. CASE PushPublish
  <2>1. opc' # "cas" /\ Stored = End + 1
    BY <1>2 DEF PushPublish, Stored
  <2> QED BY <1>0, <1>2, <2>1, QuietSteps DEF WindowInv, OwnerInv
<1>3. CASE PopReserve \/ PopEmpty \/ PopRestore
  <2>1. opc' # "cas" /\ ~PushPublish
    BY <1>3 DEF PopReserve, PopEmpty, PopRestore, PushPublish
  <2> QED BY SMTT(30), <1>0, <1>3, <2>1, QuietSteps DEF WindowInv, OwnerInv
<1>4. CASE PopOnly
  <2>1. top' = top /\ End' = End /\ Stored' = Stored
    <3>1. ~PushPublish
      BY <1>4 DEF PopOnly, PushPublish
    <3> QED BY <1>4, <3>1, QuietSteps
  <2>2. Reserved /\ top = bottom /\ owner_tp' = top /\ bottom' = bottom
    BY <1>4 DEF PopOnly, Reserved
  <2>3. End >= 1 /\ bottom = End - 1
    <3>1. top # Modulus - 1
      BY Ends, WordFacts DEF NoOverflow
    <3> QED BY <2>2, <3>1, Ends
  <2> QED BY <1>0, <2>1, <2>2, <2>3 DEF WindowInv, OwnerInv
<1>5. CASE PopLast
  <2>1. opc' # "cas"
    BY <1>5 DEF PopLast
  <2> QED BY <1>0, <1>5, <2>1, LastStep DEF WindowInv, OwnerInv
<1>6. CASE PopCas
  <2>1. opc' # "cas"
    BY <1>6 DEF PopCas
  <2> QED BY <1>0, <1>6, <2>1, CasSteps DEF WindowInv, OwnerInv
<1>7. ASSUME NEW h \in Thieves, StealCas(h) PROVE WindowInv' /\ OwnerInv'
  <2>1. opc' = opc /\ owner_tp' = owner_tp /\ bottom' = bottom
    BY <1>7 DEF StealCas, ownerVars
  <2> QED BY SMTT(30), <1>0, <1>7, <2>1, CasSteps DEF WindowInv, OwnerInv
<1>8. ASSUME NEW h \in Thieves, StealLoadTop(h) \/ StealLoadBottom(h) \/ StealLoadSlot(h)
      PROVE  WindowInv' /\ OwnerInv'
  <2>1. opc' = opc /\ owner_tp' = owner_tp /\ bottom' = bottom
    BY <1>8 DEF StealLoadTop, StealLoadBottom, StealLoadSlot, ownerVars
  <2>2. top' = top /\ End' = End /\ Stored' = Stored
    BY Zenon, <1>8, <2>1 DEF StealLoadTop, StealLoadBottom, StealLoadSlot, End, Stored
  <2> QED BY <1>0, <2>1, <2>2 DEF WindowInv, OwnerInv
<1> QED
  BY SMTT(30), <1>1, <1>2, <1>3, <1>4, <1>5, <1>6, <1>7, <1>8 DEF Next, Push, Pop, Steal

\* The thieves that are not the one that moves: a step that keeps the slot at
\* top_, or moves top_, keeps what they know.
LEMMA OtherThieves ==
  ASSUME IndInv, NEW h \in Thieves, top \in Nat, top' \in Nat, top <= top',
         tpc'[h] = tpc[h], tp'[h] = tp[h], ptr'[h] = ptr[h],
         top' = top /\ top < End => top' < End' /\ queue'[Slot(top)] = queue[Slot(top)]
  PROVE  /\ tpc'[h] # "idle" => tp'[h] <= top'
         /\ tpc'[h] \in {"load_slot", "cas"} /\ tp'[h] = top' => top' < End'
         /\ tpc'[h] = "cas" /\ tp'[h] = top' => ptr'[h] = queue'[Slot(top')]
<1>1. tp[h] \in Nat
  BY SMTT(30), WordFacts DEF IndInv, TypeOK
<1>2. /\ tpc[h] # "idle" => tp[h] <= top
      /\ tpc[h] \in {"load_slot", "cas"} /\ tp[h] = top => top < End
      /\ tpc[h] = "cas" /\ tp[h] = top => ptr[h] = queue[Slot(top)]
  BY DEF IndInv, ThiefInv
<1>3. tpc[h] \in {"load_slot", "cas"} /\ tp[h] = top' => top' = top
  BY <1>1, <1>2
<1>4. tpc'[h] # "idle" => tp'[h] <= top'
  BY <1>1, <1>2
<1>5. tpc'[h] \in {"load_slot", "cas"} /\ tp'[h] = top' => top' < End'
  BY SMTT(30), <1>2, <1>3
<1>6. tpc'[h] = "cas" /\ tp'[h] = top' => ptr'[h] = queue'[Slot(top')]
  BY <1>2, <1>3
<1> QED BY Zenon, <1>4, <1>5, <1>6

\* What every step does to the slot at top_.
LEMMA TopSlot ==
  ASSUME IndInv, NoOverflow, Next
  PROVE  /\ top \in Nat /\ top' \in Nat /\ top <= top'
         /\ top' = top /\ top < End => top' < End' /\ queue'[Slot(top)] = queue[Slot(top)]
<1>0. top \in Nat /\ End \in Nat
  BY Ends
<1>1. ASSUME NEW t \in Tasks, PushStore(t)
      PROVE  /\ top' \in Nat /\ top <= top'
             /\ top < End => top' < End' /\ queue'[Slot(top)] = queue[Slot(top)]
  BY <1>0, <1>1, StoreStep
<1>2. ASSUME \/ PushPublish \/ PopReserve \/ PopOnly \/ PopEmpty \/ PopRestore
             \/ \E h \in Thieves : StealLoadTop(h) \/ StealLoadBottom(h) \/ StealLoadSlot(h)
      PROVE  /\ top' \in Nat /\ top <= top'
             /\ top < End => top' < End' /\ queue'[Slot(top)] = queue[Slot(top)]
  <2>1. top' = top /\ queue' = queue /\ End' = IF PushPublish THEN End + 1 ELSE End
    BY <1>2, QuietSteps
  <2> QED BY <1>0, <2>1
<1>3. CASE PopLast
  BY <1>0, <1>3, LastStep
<1>4. CASE PopCas \/ \E h \in Thieves : StealCas(h)
  BY <1>0, <1>4, CasSteps
<1> QED BY Zenon, <1>0, <1>1, <1>2, <1>3, <1>4 DEF Next, Push, Pop, Steal

\* What the thieves know stays true.
LEMMA StepThieves ==
  ASSUME IndInv, NoOverflow, Next
  PROVE  ThiefInv'
<1>0. /\ top \in Nat /\ top' \in Nat /\ top <= top'
      /\ top' = top /\ top < End => top' < End' /\ queue'[Slot(top)] = queue[Slot(top)]
  BY TopSlot
<1> DEFINE Knows(h) ==
      /\ tpc[h] # "idle" => tp[h] <= top
      /\ tpc[h] \in {"load_slot", "cas"} /\ tp[h] = top => top < End
      /\ tpc[h] = "cas" /\ tp[h] = top => ptr[h] = queue[Slot(top)]
<1>1. ASSUME UNCHANGED thiefVars PROVE ThiefInv'
  <2>1. ASSUME NEW h \in Thieves PROVE Knows(h)'
    <3>1. tpc'[h] = tpc[h] /\ tp'[h] = tp[h] /\ ptr'[h] = ptr[h]
      BY <1>1 DEF thiefVars
    <3> QED BY SMTT(30), <1>0, <3>1, OtherThieves
  <2> QED BY SMTT(30), <2>1 DEF ThiefInv
<1>2. ASSUME NEW h \in Thieves, Steal(h) PROVE ThiefInv'
  <2>0. tpc \in [Thieves -> {"idle", "load_bottom", "load_slot", "cas"}]
        /\ tp \in [Thieves -> Word] /\ ptr \in [Thieves -> Tasks \cup {Null}]
    BY SMTT(30) DEF IndInv, TypeOK
  <2>1. ASSUME NEW g \in Thieves, g # h PROVE Knows(g)'
    <3>1. tpc'[g] = tpc[g] /\ tp'[g] = tp[g] /\ ptr'[g] = ptr[g]
      BY Zenon, <1>2, <2>0, <2>1
      DEF Steal, StealLoadTop, StealLoadBottom, StealLoadSlot, StealCas
    <3> QED BY <1>0, <3>1, OtherThieves
  <2>2. Knows(h)'
    <3>1. CASE StealLoadTop(h)
      <4>1. tpc'[h] = "load_bottom" /\ tp'[h] = top /\ top' = top
        BY <3>1, <2>0 DEF StealLoadTop
      <4> QED BY ZenonT(60), <1>0, <4>1
    <3>2. CASE StealLoadBottom(h)
      <4>1. /\ tpc[h] = "load_bottom" /\ tp'[h] = tp[h] /\ top' = top
            /\ tpc'[h] = IF Signed(tp[h]) < Signed(bottom) THEN "load_slot" ELSE "idle"
        BY SMTT(30), <3>2, <2>0 DEF StealLoadBottom
      <4>2. tp[h] <= top /\ tp[h] \in Nat
        BY SMTT(30), <4>1, <2>0, WordFacts DEF IndInv, ThiefInv
      <4>3. End' = End
        BY <3>2 DEF StealLoadBottom, ownerVars, End
      <4>4. ASSUME tp[h] = top, Signed(top) < Signed(bottom) PROVE top < End
        <5>1. CASE Reserved
          BY <4>4, <5>1, Ends
        <5>2. CASE ~Reserved
          <6>1. bottom = End /\ End \in Word /\ End < Half
            BY <5>2, Ends, WordFacts DEF NoOverflow
          <6>2. Signed(bottom) = End
            BY SMTT(30), <6>1, SignedFacts
          <6> QED BY <4>4, <6>2, Ends
        <5> QED BY <5>1, <5>2
      <4> QED BY ZenonT(60), <4>1, <4>2, <4>3, <4>4
    <3>3. CASE StealLoadSlot(h)
      <4>1. /\ tpc[h] = "load_slot" /\ tp'[h] = tp[h] /\ top' = top /\ queue' = queue
            /\ ptr'[h] = queue[Slot(tp[h])]
        BY <3>3, <2>0 DEF StealLoadSlot
      <4>2. tp[h] <= top /\ (tp[h] = top => top < End)
        BY <4>1 DEF IndInv, ThiefInv
      <4>3. End' = End
        BY <3>3 DEF StealLoadSlot, ownerVars, End
      <4> QED BY SMTT(30), <4>1, <4>2, <4>3
    <3>4. CASE StealCas(h)
      <4>1. tpc'[h] = "idle"
        BY <3>4, <2>0 DEF StealCas
      <4> QED BY <4>1
    <3> QED BY Zenon, <1>2, <3>1, <3>2, <3>3, <3>4 DEF Steal
  <2> QED BY Zenon, <2>1, <2>2 DEF ThiefInv
<1>3. CASE \E t \in Tasks : PushStore(t)
  BY <1>1, <1>3 DEF PushStore
<1>4. CASE PushPublish \/ Pop
  BY Zenon, <1>1, <1>4
  DEF PushPublish, Pop, PopReserve, PopLast, PopOnly, PopEmpty, PopCas, PopRestore
<1> QED BY SMTT(30), <1>2, <1>3, <1>4 DEF Next, Push

\* The stored tasks stay different and new, and no task is obtained twice.
LEMMA StepContents ==
  ASSUME IndInv, NoOverflow, Next
  PROVE  ContentInv' /\ ExactlyOnce'
<1>0. /\ top \in Nat /\ End \in Nat /\ top <= End /\ ContentInv /\ ExactlyOnce
      /\ Stored \in Nat /\ End <= Stored
  BY SMTT(30), Ends DEF IndInv, Stored
<1>1. ASSUME NEW t \in Tasks, PushStore(t) PROVE ContentInv' /\ ExactlyOnce'
  <2>1. /\ Stored = End /\ Stored' = End + 1 /\ top' = top
        /\ \A a \in Nat : top <= a /\ a < End => queue'[Slot(a)] = queue[Slot(a)]
        /\ queue'[Slot(End)] = t
    BY <1>1, StoreStep
  <2>2. obtained' = obtained /\ Fresh(t)
    BY <1>1 DEF PushStore
  <2>3. ASSUME NEW a \in Nat, top <= a, a < End PROVE queue[Slot(a)] # t
    <3>1. Slot(a) \in DOMAIN queue
      BY SMTT(30), SlotInRange DEF IndInv, TypeOK
    <3> QED BY SMTT(30), <2>2, <3>1 DEF Fresh
  <2>4. ASSUME NEW a \in Nat, top' <= a, a < Stored'
        PROVE  a = End \/ (a < End /\ top <= a)
    BY <1>0, <2>1, <2>4
  <2>5. ASSUME NEW a \in Nat, top' <= a, a < Stored'
        PROVE  /\ queue'[Slot(a)] \in Tasks
               /\ \A i \in DOMAIN obtained' : obtained'[i] # queue'[Slot(a)]
    <3>1. CASE a = End
      BY SMTT(30), <3>1, <2>1, <2>2 DEF Fresh
    <3>2. CASE a < End /\ top <= a
      BY <3>2, <2>1, <2>2, <1>0 DEF ContentInv
    <3> QED BY SMTT(30), <2>4, <2>5, <3>1, <3>2
  <2>6. ASSUME NEW a \in Nat, NEW b \in Nat, top' <= a, a < Stored', top' <= b, b < Stored',
               queue'[Slot(a)] = queue'[Slot(b)]
        PROVE  a = b
    <3>1. a = End \/ (a < End /\ top <= a)
      BY <2>4, <2>6
    <3>2. b = End \/ (b < End /\ top <= b)
      BY SMTT(30), <2>4, <2>6
    <3>3. CASE a = End \/ b = End
      BY SMTT(30), <3>1, <3>2, <3>3, <2>1, <2>3, <2>6
    <3>4. CASE a < End /\ top <= a /\ b < End /\ top <= b
      BY <3>4, <2>1, <2>6, <1>0 DEF ContentInv
    <3> QED BY SMTT(30), <3>1, <3>2, <3>3, <3>4
  <2>7. ExactlyOnce'
    BY <1>0, <2>2 DEF ExactlyOnce
  <2> QED BY SMTT(30), <2>5, <2>6, <2>7 DEF ContentInv
<1>2. ASSUME \/ PushPublish \/ PopReserve \/ PopOnly \/ PopEmpty \/ PopRestore
             \/ \E h \in Thieves : StealLoadTop(h) \/ StealLoadBottom(h) \/ StealLoadSlot(h)
      PROVE  ContentInv' /\ ExactlyOnce'
  <2>1. top' = top /\ queue' = queue /\ obtained' = obtained /\ Stored' = Stored
    BY <1>2, QuietSteps
  <2> QED BY ZenonT(60), <1>0, <2>1 DEF ContentInv, ExactlyOnce
<1>3. CASE PopLast
  <2>1. /\ End - 1 \in Nat /\ top <= End - 1 /\ End - 1 < Stored
        /\ top' \in Nat /\ Stored' \in Nat
        /\ top <= top' /\ Stored' <= Stored /\ Stored' <= End - 1
    BY <1>0, <1>3, LastStep
  <2> QED BY <1>0, <1>3, <2>1, LastStep, TakeKeeps
<1>4. CASE PopCas \/ \E h \in Thieves : StealCas(h)
  <2>1. queue' = queue /\ Stored' = Stored
    BY <1>4, CasSteps
  <2>2. CASE top' = top /\ obtained' = obtained
    BY Zenon, <1>0, <2>1, <2>2 DEF ContentInv, ExactlyOnce
  <2>3. CASE top' = top + 1 /\ top < End /\ obtained' = Append(obtained, queue[Slot(top)])
    <3>1. top' \in Nat /\ top < Stored /\ top < top' /\ top <= top' /\ Stored' <= Stored /\ Stored' \in Nat
      BY <1>0, <2>1, <2>3
    <3> QED BY <1>0, <2>1, <2>3, <3>1, TakeKeeps
  <2> QED BY <1>4, <2>2, <2>3, CasSteps
<1> QED BY <1>1, <1>2, <1>3, <1>4 DEF Next, Push, Pop, Steal

\* The invariant is inductive as long as the end of the queue is in range.
LEMMA StepInv == IndInv /\ NoOverflow /\ [Next]_vars => IndInv'
<1> SUFFICES ASSUME IndInv, NoOverflow, [Next]_vars PROVE IndInv'
  OBVIOUS
<1>1. CASE Next
  BY <1>1, StepTypes, StepWindow, StepThieves, StepContents DEF IndInv
<1>2. CASE UNCHANGED vars
  BY ZenonT(60), <1>2
    DEF vars, IndInv, TypeOK, WindowInv, OwnerInv, ThiefInv, ContentInv, ExactlyOnce,
              End, Stored
<1> QED BY <1>1, <1>2

\* The invariant holds in every behaviour that stays in range.
LEMMA Invariance == Spec /\ []NoOverflow => []IndInv
  BY InitInv, StepInv, PTL DEF Spec

\* pop() and steal() never hand out a coroutine handle twice, for any number of
\* thieves and any size of the ring, while bottom_ stays below the sign bit
\* (queue.h, pop and steal).
THEOREM ObtainedOnce == Spec /\ []NoOverflow => []ExactlyOnce
<1>1. IndInv => ExactlyOnce
  BY DEF IndInv
<1> QED BY <1>1, Invariance, PTL

\* Indices and handles keep their types; in particular no pop or steal that
\* succeeds returns a null handle.
THEOREM TypeCorrect == Spec /\ []NoOverflow => []TypeOK
<1>1. IndInv => TypeOK
  BY DEF IndInv
<1> QED BY <1>1, Invariance, PTL

\* The comment "the queue is empty" (queue.h:203) is right while bottom_ stays
\* below the sign bit: pop gives up without a compare-exchange only on an
\* empty queue.
THEOREM EmptyMeansEmpty == Spec /\ []NoOverflow => PopEmptyWhenEmpty
<1>1. IndInv /\ NoOverflow /\ [Next]_vars
        => [opc = "load_top" /\ opc' = "restore" => top = End]_vars
  <2> SUFFICES ASSUME IndInv, NoOverflow, Next, opc = "load_top", opc' = "restore"
               PROVE  top = End
    OBVIOUS
  <2>1. PopEmpty
    BY Zenon
      DEF Next, Push, Pop, Steal, PushStore, PushPublish, PopReserve, PopLast, PopOnly,
           PopCas, PopRestore, StealLoadTop, StealLoadBottom, StealLoadSlot, StealCas, ownerVars
  <2>2. Reserved /\ Signed(top) > Signed(bottom)
    BY <2>1 DEF PopEmpty, Reserved
  <2> QED BY <2>2, Ends
<1> QED BY <1>1, Invariance, PTL DEF Spec, PopEmptyWhenEmpty

-----------------------------------------------------------------------------
(* The ring implements the double-ended queue *)

\* The queued tasks, without words.
Queued == [k \in 1 .. End - top |-> queue[Slot(top + k - 1)]]

\* Contents is that sequence, of as many tasks as the indices say.
Plain ==
  /\ Contents = Queued
  /\ Queued \in Seq(Tasks)
  /\ Len(Queued) = End - top
  /\ End \in Nat /\ top \in Nat /\ top <= End

\* That is so in range.
LEMMA ContentsQueued == IndInv /\ NoOverflow => Plain
<1> SUFFICES ASSUME IndInv, NoOverflow PROVE Plain
  OBVIOUS
<1>1. End \in Nat /\ top \in Nat /\ top <= End /\ Wrap(End - top) = End - top /\ End + 1 \in Word
  BY Ends
<1>2. ASSUME NEW k \in 1 .. End - top PROVE Wrap(top + k - 1) = top + k - 1
  <2>1. top + k - 1 \in Word
    BY <1>1, WordFacts
  <2> QED BY <2>1, WrapSmall
<1>3. Contents = Queued
  BY Zenon, <1>1, <1>2 DEF Contents, Queued
<1>4. ASSUME NEW k \in 1 .. End - top PROVE queue[Slot(top + k - 1)] \in Tasks
  <2>1. top + k - 1 \in Nat /\ top <= top + k - 1 /\ top + k - 1 < Stored
    BY <1>1 DEF Stored
  <2> QED BY Zenon, <2>1 DEF IndInv, ContentInv
<1>5. Queued \in Seq(Tasks) /\ Len(Queued) = End - top
  <2>1. End - top \in Nat
    BY <1>1
  <2> QED BY <1>4, <2>1 DEF Queued
<1> QED BY <1>1, <1>3, <1>5 DEF Plain

\* Moving bottom_ past the slot that push wrote appends the task.
LEMMA PublishPushes ==
  ASSUME IndInv, NoOverflow, IndInv', NoOverflow', PushPublish
  PROVE  \E t \in Tasks : Deque!PushBack(t)
<1>1. /\ Contents = Queued /\ Queued \in Seq(Tasks) /\ Len(Queued) = End - top
      /\ End \in Nat /\ top \in Nat /\ top <= End
  BY ContentsQueued DEF Plain
<1>2. Contents' = Queued' /\ Queued' \in Seq(Tasks) /\ Len(Queued') = End' - top'
  <2>1. Plain'
    BY ContentsQueued, PTL
  <2> QED BY <2>1 DEF Plain
<1>3. top' = top /\ queue' = queue /\ obtained' = obtained /\ End' = End + 1
  BY QuietSteps
<1> DEFINE t == queue[Slot(End)]
<1>4. End < Stored /\ Stored <= top + N
  BY <1>1 DEF PushPublish, Stored, IndInv, WindowInv
<1>5. t \in Tasks
  BY ZenonT(60), <1>1, <1>4 DEF IndInv, ContentInv
<1> HIDE DEF t
<1>6. Queued' = Append(Queued, t)
  <2>1. Queued' = [k \in 1 .. (End + 1) - top |-> queue[Slot(top + k - 1)]]
    BY <1>3 DEF Queued
  <2>2. Append(Queued, t) \in Seq(Tasks) /\ Len(Append(Queued, t)) = (End + 1) - top
    BY <1>1, <1>5
  <2>3. ASSUME NEW k \in 1 .. (End + 1) - top PROVE Queued'[k] = Append(Queued, t)[k]
    <3>1. CASE k \in 1 .. End - top
      <4>1. Append(Queued, t)[k] = Queued[k]
        BY <1>1, <1>5, <3>1
      <4>2. Queued[k] = queue[Slot(top + k - 1)]
        BY <3>1 DEF Queued
      <4> QED BY <2>1, <4>1, <4>2
    <3>2. CASE k = (End + 1) - top
      <4>1. Append(Queued, t)[k] = t
        BY <1>1, <1>5, <3>2
      <4>2. top + k - 1 = End
        BY <1>1, <3>2
      <4> QED BY <2>1, <4>1, <4>2 DEF t
    <3>3. k \in 1 .. End - top \/ k = (End + 1) - top
      BY <1>1
    <3> QED BY Zenon, <3>1, <3>2, <3>3
  <2>4. Len(Queued') = (End + 1) - top
    BY <1>2, <1>3
  <2> QED BY SMTT(30), <1>2, <2>2, <2>3, <2>4, SeqEqual
<1>7. Len(Contents) < N
  BY <1>1, <1>4, SlotsAssumption DEF PushPublish, Stored
<1> QED BY SMTT(30), <1>1, <1>2, <1>3, <1>5, <1>6, <1>7 DEF Deque!PushBack

\* The owner's pop of one task among several takes the back.
LEMMA LastPops ==
  ASSUME IndInv, NoOverflow, IndInv', NoOverflow', PopLast
  PROVE  Deque!PopBack
<1>1. /\ Contents = Queued /\ Queued \in Seq(Tasks) /\ Len(Queued) = End - top
      /\ End \in Nat /\ top \in Nat /\ top <= End
  BY ContentsQueued DEF Plain
<1>2. Contents' = Queued' /\ Queued' \in Seq(Tasks) /\ Len(Queued') = End' - top'
  <2>1. Plain'
    BY ContentsQueued, PTL
  <2> QED BY <2>1 DEF Plain
<1>3. /\ top' = top /\ queue' = queue /\ top < End - 1 /\ End' = End - 1
      /\ obtained' = Append(obtained, queue[Slot(End - 1)])
  BY LastStep
<1>4. Queued # <<>> /\ Queued[Len(Queued)] = queue[Slot(End - 1)]
  <2>1. End - top \in 1 .. End - top /\ top + (End - top) - 1 = End - 1
    BY <1>1, <1>3
  <2>2. Queued[End - top] = queue[Slot(End - 1)]
    BY <2>1 DEF Queued
  <2> QED BY <1>1, <2>1, <2>2
<1>5. Queued' = SubSeq(Queued, 1, Len(Queued) - 1)
  <2>1. Queued' = [k \in 1 .. End - 1 - top |-> queue[Slot(top + k - 1)]]
    BY <1>3 DEF Queued
  <2>2. SubSeq(Queued, 1, Len(Queued) - 1) = [k \in 1 .. End - 1 - top |-> Queued[k]]
    BY SMTT(30), <1>1, <1>3
  <2>3. \A k \in 1 .. End - 1 - top : Queued[k] = queue[Slot(top + k - 1)]
    BY <1>1 DEF Queued
  <2> QED BY SMTT(30), <2>1, <2>2, <2>3
<1> QED BY SMTT(30), <1>1, <1>2, <1>3, <1>4, <1>5 DEF Deque!PopBack

\* A compare-exchange that succeeds takes the front, and one that fails nothing.
LEMMA CasSteals ==
  ASSUME IndInv, NoOverflow, IndInv', NoOverflow',
         PopCas \/ \E h \in Thieves : StealCas(h)
  PROVE  Deque!StealFront \/ (Contents' = Contents /\ obtained' = obtained)
<1>1. /\ Contents = Queued /\ Queued \in Seq(Tasks) /\ Len(Queued) = End - top
      /\ End \in Nat /\ top \in Nat /\ top <= End
  BY ContentsQueued DEF Plain
<1>2. Contents' = Queued' /\ Queued' \in Seq(Tasks) /\ Len(Queued') = End' - top'
  <2>1. Plain'
    BY ContentsQueued, PTL
  <2> QED BY <2>1 DEF Plain
<1>3. queue' = queue /\ End' = End
  BY CasSteps
<1>4. CASE top' = top /\ obtained' = obtained
  BY SMTT(30), <1>1, <1>2, <1>3, <1>4 DEF Queued
<1>5. CASE top' = top + 1 /\ top < End /\ obtained' = Append(obtained, queue[Slot(top)])
  <2>1. Queued # <<>> /\ Head(Queued) = queue[Slot(top)]
    <3>1. 1 \in 1 .. End - top /\ top + 1 - 1 = top
      BY <1>1, <1>5
    <3>2. Queued[1] = queue[Slot(top)]
      BY SMTT(30), <3>1 DEF Queued
    <3> QED BY <1>1, <1>5, <3>2
  <2>2. Queued' = Tail(Queued)
    <3>1. Queued' = [k \in 1 .. End - (top + 1) |-> queue[Slot((top + 1) + k - 1)]]
      BY <1>3, <1>5 DEF Queued
    <3>2. Tail(Queued) \in Seq(Tasks) /\ Len(Tail(Queued)) = End - (top + 1)
          /\ \A k \in 1 .. End - (top + 1) : Tail(Queued)[k] = Queued[k + 1]
      BY <1>1, <1>5, <2>1
    <3>3. ASSUME NEW k \in 1 .. End - (top + 1) PROVE Queued'[k] = Tail(Queued)[k]
      <4>1. (top + 1) + k - 1 = top + (k + 1) - 1 /\ k + 1 \in 1 .. End - top
        BY <1>1, <1>5
      <4>2. Queued[k + 1] = queue[Slot(top + (k + 1) - 1)]
        BY <4>1 DEF Queued
      <4> QED BY Zenon, <3>1, <3>2, <4>1, <4>2
    <3> QED BY SMTT(30), <1>2, <1>3, <1>5, <3>2, <3>3, SeqEqual
  <2> QED BY SMTT(30), <1>1, <1>2, <1>5, <2>1, <2>2 DEF Deque!StealFront
<1> QED BY <1>4, <1>5, CasSteps

\* Every step of the ring is a step of the deque or none.
LEMMA StepRefines ==
  IndInv /\ NoOverflow /\ IndInv' /\ NoOverflow' /\ [Next]_vars
    => [Deque!DequeNext]_(Deque!dequeVars)
<1> SUFFICES ASSUME IndInv, NoOverflow, IndInv', NoOverflow', [Next]_vars,
                    ~(Contents' = Contents /\ obtained' = obtained)
             PROVE  Deque!DequeNext
  BY DEF Deque!dequeVars
<1>1. Contents = Queued /\ Contents' = Queued'
  <2>1. Plain'
    BY ContentsQueued, PTL
  <2> QED BY <2>1, ContentsQueued DEF Plain
<1>2. CASE UNCHANGED vars
  BY Zenon, <1>2 DEF vars, Contents, End
<1>3. ASSUME NEW t \in Tasks, PushStore(t) PROVE FALSE
  <2>1. /\ End' = End /\ top' = top
        /\ \A a \in Nat : top <= a /\ a < End => queue'[Slot(a)] = queue[Slot(a)]
    BY SMTT(30), <1>3, StoreStep
  <2>2. End \in Nat /\ top \in Nat
    BY Ends
  <2>3. ASSUME NEW k \in 1 .. End - top
        PROVE  queue'[Slot(top + k - 1)] = queue[Slot(top + k - 1)]
    <3>1. top + k - 1 \in Nat /\ top <= top + k - 1 /\ top + k - 1 < End
      BY <2>2
    <3> QED BY Zenon, <2>1, <3>1
  <2>4. Queued' = Queued
    BY Zenon, <2>1, <2>3 DEF Queued
  <2> QED BY SMTT(30), <1>1, <1>3, <2>4 DEF PushStore
<1>4. CASE PushPublish
  BY <1>4, PublishPushes DEF Deque!DequeNext
<1>5. CASE \/ PopReserve \/ PopOnly \/ PopEmpty \/ PopRestore
           \/ \E h \in Thieves : StealLoadTop(h) \/ StealLoadBottom(h) \/ StealLoadSlot(h)
  <2>1. CASE PushPublish
    BY <1>4, <2>1
  <2>2. CASE ~PushPublish
    <3>1. top' = top /\ queue' = queue /\ obtained' = obtained /\ End' = End
      BY <1>5, <2>2, QuietSteps
    <3> QED BY <1>1, <3>1 DEF Queued
  <2> QED BY <2>1, <2>2
<1>6. CASE PopLast
  BY <1>6, LastPops DEF Deque!DequeNext
<1>7. CASE PopCas \/ \E h \in Thieves : StealCas(h)
  BY <1>7, CasSteals DEF Deque!DequeNext
<1> QED
  BY SMTT(30), <1>2, <1>3, <1>4, <1>5, <1>6, <1>7 DEF Next, Push, Pop, Steal

\* Every push, pop and steal takes effect at one instant, the owner's at the
\* back and the thieves' at the front, and no task is lost: the ring
\* implements the double-ended queue for any thieves, tasks and size, while
\* bottom_ stays below the sign bit.
THEOREM RingIsDeque == Spec /\ []NoOverflow => ImplementsDeque
<1>1. Init /\ NoOverflow => Deque!DequeInit
  <2> SUFFICES ASSUME Init, NoOverflow PROVE Deque!DequeInit
    OBVIOUS
  <2>1. Contents = Queued /\ End - top = 0
    BY InitInv, ContentsQueued DEF Init, End, Plain
  <2> QED BY <2>1 DEF Queued, Init, Deque!DequeInit
<1>2. IndInv /\ NoOverflow /\ IndInv' /\ NoOverflow' /\ [Next]_vars
        => [Deque!DequeNext]_(Deque!dequeVars)
  BY StepRefines
<1> QED BY <1>1, <1>2, Invariance, PTL DEF Spec, ImplementsDeque, Deque!DequeSpec

==============================================================================
