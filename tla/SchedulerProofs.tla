--------------------------- MODULE SchedulerProofs ---------------------------
(***************************************************************************)
(* Proofs about the scheduler, for any numbers of workers, of other        *)
(* threads and of tasks, any size of the local queues and any period: the  *)
(* global queue is looked at, and stop() leaves nobody asleep.  The proofs *)
(* about wakeups, in SchedulerWakeProofs, rest on the same invariant.      *)
(***************************************************************************)
EXTENDS Scheduler, FiniteSetTheorems, SequenceTheorems, TLAPS

\* The workers between prepare_park() and the end of parking.
Parked == {w \in Workers : parking[w]}

\* idle_threads_ is the number of workers between prepare_park() and the end of
\* their wait or cancel_park(), and those are where the code has them.
ParkInv ==
  /\ idle = Cardinality(Parked)
  /\ \A w \in Workers :
       /\ parking[w] => pc[w] \notin {"loop", "run", "pushed", "exited"}
       /\ pc[w] \in {"cancel", "asleep", "woken"} => parking[w]
       /\ fresh[w] => parking[w]

\* What a search has established: a thief loses a race only while it steals and
\* finds a task unless it does; a worker that sleeps has tried all the others;
\* and its own queue, which only it fills, is empty once it has looked further.
SearchInv ==
  \A w \in Workers :
    /\ beaten[w] => pc[w] = "steal"
    /\ pc[w] = "steal" /\ ~beaten[w] => local[victim[w]] # <<>>
    /\ pc[w] \in {"asleep", "woken"} => left[w] = {}
    /\ pc[w] \in {"choose", "steal", "asleep", "woken"} => local[w] = <<>>

\* The tasks a worker got since it looked at the global queue are bounded by the
\* searches it made since tick was last a multiple of the period.
TickInv ==
  \A w \in Workers :
    /\ skipped[w] <= CheckPeriod
    /\ pc[w] = "pop" => skipped[w] <= tick[w]
    /\ pc[w] # "check_global" => skipped[w] <= tick[w] + 1

-----------------------------------------------------------------------------
(* Lemmas about the operators *)

\* A batch is a non-empty sequence of handles (push_batch).
LEMMA BatchType ==
  ASSUME NEW b \in Batches
  PROVE  b \in Seq(Tasks) /\ Len(b) \in Nat \ {0} /\ {b[i] : i \in DOMAIN b} \subseteq Tasks
<1>1. PICK n \in 1 .. MaxBatch : b \in [1 .. n -> Tasks]
  BY DEF Batches
<1>2. n \in Nat \ {0}
  BY SizeAssumption
<1>3. b \in Seq(Tasks) /\ Len(b) = n /\ DOMAIN b = 1 .. n
  BY <1>1, <1>2
<1> QED
  BY <1>1, <1>2, <1>3

\* A queue that was pushed to is not empty.
LEMMA AppendNonEmpty ==
  ASSUME NEW S, NEW s \in Seq(S), NEW e \in S
  PROVE  Append(s, e) # <<>> /\ Len(Append(s, e)) = Len(s) + 1
<1>1. Len(s) \in Nat /\ Len(Append(s, e)) = Len(s) + 1
  OBVIOUS
<1> QED
  BY <1>1, EmptySeq

\* What pop() leaves of a queue.
LEMMA PoppedLength ==
  ASSUME NEW S, NEW s \in Seq(S), s # <<>>
  PROVE  /\ Len(s) \in Nat \ {0}
         /\ SubSeq(s, 1, Len(s) - 1) \in Seq(S)
         /\ Len(SubSeq(s, 1, Len(s) - 1)) = Len(s) - 1
         /\ Len(s) > 1 => SubSeq(s, 1, Len(s) - 1) # <<>>
<1>1. Len(s) \in Nat \ {0} /\ \A i \in 1 .. Len(s) - 1 : s[i] \in S
  BY EmptySeq, ElementOfSeq
<1> DEFINE n == Len(s) - 1
<1>2. n \in Int /\ 1 \in Int /\ \A i \in 1 .. n : s[i] \in S
  BY <1>1
<1> HIDE DEF n
<1>3. SubSeq(s, 1, n) \in Seq(S) /\ Len(SubSeq(s, 1, n)) = IF 1 <= n THEN n - 1 + 1 ELSE 0
  BY <1>2, SubSeqProperties
<1>4. n \in Nat /\ (Len(s) > 1 => n # 0)
  <2>1. \A k \in Nat \ {0} : k - 1 \in Nat /\ (k > 1 => k - 1 # 0)
    OBVIOUS
  <2> QED
    BY <1>1, <2>1, Zenon DEF n
<1>5. Len(SubSeq(s, 1, n)) = n
  <2>1. (IF 1 <= n THEN n - 1 + 1 ELSE 0) = n
    BY <1>4
  <2> QED
    BY <1>3, <2>1
<1>6. n # 0 => SubSeq(s, 1, n) # <<>>
  BY Zenon, <1>5, EmptySeq
<1> QED
  BY <1>1, <1>3, <1>4, <1>5, <1>6, Zenon DEF n

\* What steal() leaves of a queue.
LEMMA TailLength ==
  ASSUME NEW S, NEW s \in Seq(S), s # <<>>
  PROVE  Len(Tail(s)) = Len(s) - 1
BY HeadTailProperties

\* prepare_park() counts the worker that calls it.
LEMMA ParkedGrows ==
  ASSUME TypeOK, idle = Cardinality(Parked), NEW w \in Workers, ~parking[w],
         idle' = idle + 1, parking' = [parking EXCEPT ![w] = TRUE]
  PROVE  idle' = Cardinality(Parked')
<1>1. Parked' = Parked \cup {w}
  BY SMTT(30) DEF Parked, TypeOK
<1>2. IsFiniteSet(Parked) /\ w \notin Parked
  BY WorkersAssumption, FS_Subset DEF Parked
<1> QED
  BY SMTT(30), <1>1, <1>2, FS_AddElement

\* cancel_park() and the end of a wait take the worker out of the count.
LEMMA ParkedShrinks ==
  ASSUME TypeOK, idle = Cardinality(Parked), NEW w \in Workers, parking[w], Unpark(w)
  PROVE  idle' = Cardinality(Parked')
<1>1. Parked' = Parked \ {w}
  BY DEF Parked, TypeOK, Unpark
<1>2. IsFiniteSet(Parked) /\ w \in Parked
  BY WorkersAssumption, FS_Subset DEF Parked
<1>3. Cardinality(Parked \ {w}) = Cardinality(Parked) - 1
  BY Zenon, <1>2, FS_RemoveElement
<1> QED
  BY <1>1, <1>3 DEF Unpark

\* The count is a number, and zero only when nobody is parking.
LEMMA IdleCounts ==
  ASSUME idle = Cardinality(Parked)
  PROVE  idle \in Nat /\ (idle = 0 <=> Parked = {})
BY WorkersAssumption, FS_Subset, FS_CardinalityType, FS_EmptySet DEF Parked

\* A push or a notify_one_idle that finds an idle worker begins a new epoch and
\* calls notify_one; one that finds none has nobody to wake.
LEMMA WakeEffect ==
  ASSUME TypeOK, idle = Cardinality(Parked),
         NEW c \in Workers \cup Outsiders, NEW n \in Nat \ {0}, Wake(c, n)
  PROVE  /\ wakes' \in [Workers \cup Outsiders -> Nat]
         /\ fresh' \in [Workers -> BOOLEAN]
         /\ \A w \in Workers : fresh'[w] => fresh[w]
         /\ \/ /\ Parked = {}
               /\ UNCHANGED <<fresh, wakes>>
            \/ /\ \A w \in Workers : ~fresh'[w]
               /\ wakes'[c] > 0
               /\ \A d \in Workers \cup Outsiders : d # c => wakes'[d] = wakes[d]
<1>1. idle \in Nat /\ (idle = 0 <=> Parked = {})
  BY IdleCounts
<1>2. CASE idle = 0
  BY SMTT(30), <1>1, <1>2 DEF Wake, TypeOK
<1>3. CASE idle > 0
  <2>1. NewEpoch /\ \E k \in Nat : k > 0 /\ wakes' = [wakes EXCEPT ![c] = k]
    BY <1>1, <1>3 DEF Wake
  <2> QED
    BY <2>1 DEF NewEpoch, TypeOK
<1> QED
  BY <1>1, <1>2, <1>3

\* ++tick % 61 is the next number, or zero.
LEMMA TickStep ==
  ASSUME NEW k \in 0 .. CheckPeriod - 1
  PROVE  /\ (k + 1) % CheckPeriod \in 0 .. CheckPeriod - 1
         /\ (k + 1) % CheckPeriod \in {0, k + 1}
<1>1. CASE k + 1 = CheckPeriod
  BY <1>1, SizeAssumption
<1>2. CASE k + 1 < CheckPeriod
  BY <1>2, SizeAssumption
<1> QED
  BY SMTT(30), <1>1, <1>2, SizeAssumption

-----------------------------------------------------------------------------
(* Types and the idle count *)

\* Steps that neither prepare to park nor end it.
Ordinary ==
  \/ Enqueue
  \/ Shutdown
  \/ \E c \in Workers \cup Outsiders : NotifyOne(c)
  \/ \E w \in Workers :
       \/ Pushed(w) \/ NotifyOneIdle(w) \/ Loop(w) \/ CheckGlobal(w) \/ Pop(w) \/ Global(w)
       \/ Choose(w) \/ Steal(w) \/ Stolen(w) \/ Return(w) \/ SpuriousWakeup(w)

\* They leave idle_threads_ and the state of every parking worker alone.
LEMMA OrdinaryKeepsParking == Ordinary => UNCHANGED <<idle, parking>>
BY ZenonT(60)
  DEF Ordinary, Enqueue, Shutdown, PushLocal, PushOverflow, PushOutside, PushGlobal, PushBatch,
       StopRunning, Stop, NotifyAll, NotifyOne, Pushed, NotifyOneIdle, Loop, CheckGlobal, Pop,
       Global, Choose, Steal, Stolen, Return, SpuriousWakeup, parkVars

\* idle_threads_ stays the number of parking workers.
LEMMA CountStep ==
  ASSUME TypeOK, ParkInv, [Next]_vars
  PROVE  idle' = Cardinality(Parked')
<1>1. CASE UNCHANGED <<idle, parking>>
  BY <1>1 DEF ParkInv, Parked
<1>2. ASSUME NEW w \in Workers, PreparePark(w)
      PROVE  idle' = Cardinality(Parked')
  BY Zenon, <1>2, ParkedGrows DEF ParkInv, PreparePark
<1>3. ASSUME NEW w \in Workers, CancelPark(w)
      PROVE  idle' = Cardinality(Parked')
  <2>1. parking[w]
    BY <1>3 DEF ParkInv, CancelPark, At
  <2> QED
    BY SMTT(30), <1>3, <2>1, ParkedShrinks DEF ParkInv, CancelPark
<1>4. ASSUME NEW w \in Workers, Park(w) \/ WakeUp(w)
      PROVE  idle' = Cardinality(Parked')
  <2>1. parking[w]
    BY <1>4 DEF ParkInv, Park, WakeUp, At
  <2>2. Unpark(w) \/ UNCHANGED <<idle, parking>>
    BY <1>4 DEF Park, WakeUp, Wait, parkVars
  <2> QED
    BY SMTT(30), <1>1, <2>1, <2>2, ParkedShrinks DEF ParkInv
<1> QED
  BY <1>1, <1>2, <1>3, <1>4, OrdinaryKeepsParking DEF Next, Work, Ordinary, vars

\* A jump to a place of the code.
LEMMA GotoType ==
  ASSUME TypeOK, NEW w \in Workers, NEW p \in Places, Goto(w, p)
  PROVE  pc' \in [Workers -> Places]
BY DEF TypeOK, Goto

\* A worker with a task goes to cancel_park() or resumes it.
LEMMA OnwardType == \A w \in Workers : Onward(w) \in Places
BY DEF Onward, Places

\* A worker takes a handle.
LEMMA GotType ==
  ASSUME TypeOK, NEW w \in Workers, NEW t \in Tasks, Got(w, t)
  PROVE  task' \in [Workers -> Tasks \cup {Null}] /\ owed' \subseteq Tasks
BY ZenonT(60) DEF TypeOK, Got

\* try_pop() takes the oldest handle of the global queue, if there is one.
LEMMA TryPopType ==
  ASSUME TypeOK, NEW w \in Workers, NEW p, TryPop(w, p)
  PROVE  /\ global' \in Seq(Tasks)
         /\ task' \in [Workers -> Tasks \cup {Null}]
         /\ owed' \subseteq Tasks
<1>1. CASE global = <<>>
  BY <1>1 DEF TryPop, TypeOK
<1>2. CASE global # <<>>
  <2>1. Head(global) \in Tasks /\ Tail(global) \in Seq(Tasks)
    BY SMTT(30), <1>2 DEF TypeOK
  <2> QED
    BY SMTT(30), <1>2, <2>1, GotType DEF TryPop
<1> QED
  BY SMTT(30), <1>1, <1>2

\* The types, by the part of the scheduler they belong to.
QueueType == global \in Seq(Tasks) /\ local \in [Workers -> Seq(Tasks)] /\ owed \subseteq Tasks
ParkType == fresh \in [Workers -> BOOLEAN] /\ parking \in [Workers -> BOOLEAN]
StopType == stop_flag \in BOOLEAN /\ running \in BOOLEAN /\ broadcast \in BOOLEAN
SearchType == tick \in [Workers -> 0 .. CheckPeriod - 1] /\ skipped \in [Workers -> Nat]
StealType ==
  /\ left \in [Workers -> SUBSET Workers]
  /\ victim \in [Workers -> Workers]
  /\ beaten \in [Workers -> BOOLEAN]
WakesType == wakes \in [Workers \cup Outsiders -> Nat]
PlaceType == pc \in [Workers -> Places]
TaskType == task \in [Workers -> Tasks \cup {Null}]

\* They make up the type invariant.
LEMMA TypeParts ==
  /\ TypeOK <=> /\ idle \in Nat /\ QueueType /\ ParkType /\ StopType /\ SearchType
                /\ StealType /\ WakesType /\ PlaceType /\ TaskType
  /\ TypeOK' <=> /\ idle' \in Nat /\ QueueType' /\ ParkType' /\ StopType' /\ SearchType'
                 /\ StealType' /\ WakesType' /\ PlaceType' /\ TaskType'
BY Zenon
  DEF TypeOK, QueueType, ParkType, StopType, SearchType, StealType, WakesType, PlaceType,
             TaskType

\* What a step leaves alone keeps its type.
LEMMA TypeFrame ==
  ASSUME TypeOK
  PROVE  /\ UNCHANGED queueVars => QueueType'
         /\ UNCHANGED <<fresh, parking>> => ParkType'
         /\ UNCHANGED parkVars => ParkType'
         /\ UNCHANGED stopVars => StopType'
         /\ UNCHANGED searchVars => SearchType'
         /\ UNCHANGED stealVars => StealType'
         /\ UNCHANGED wakes => WakesType'
         /\ UNCHANGED pc => PlaceType'
         /\ UNCHANGED task => TaskType'
<1>1. UNCHANGED queueVars => QueueType'
  BY TypeParts DEF queueVars, QueueType
<1>2. (UNCHANGED <<fresh, parking>> => ParkType') /\ (UNCHANGED parkVars => ParkType')
  BY TypeParts DEF parkVars, ParkType
<1>3. UNCHANGED stopVars => StopType'
  BY Zenon, TypeParts DEF stopVars, StopType
<1>4. UNCHANGED searchVars => SearchType'
  BY Zenon, TypeParts DEF searchVars, SearchType
<1>5. UNCHANGED stealVars => StealType'
  BY TypeParts DEF stealVars, StealType
<1>6. /\ UNCHANGED wakes => WakesType'
      /\ UNCHANGED pc => PlaceType'
      /\ UNCHANGED task => TaskType'
  BY ZenonT(60), TypeParts DEF WakesType, PlaceType, TaskType
<1> QED BY SMTT(30), <1>1, <1>2, <1>3, <1>4, <1>5, <1>6

\* Every step keeps the types.
LEMMA TypeStep ==
  ASSUME TypeOK, ParkInv, SearchInv, [Next]_vars
  PROVE  TypeOK'
<1>0. idle' \in Nat
  <2>1. Parked' \in SUBSET Workers
    BY DEF Parked
  <2> QED
    BY SMTT(30), <2>1, CountStep, WorkersAssumption, FS_Subset, FS_CardinalityType
<1>1. ASSUME NEW w \in Workers, NEW t \in Tasks, PushLocal(w, t)
      PROVE  TypeOK'
  <2>1. ParkType' /\ StopType' /\ SearchType' /\ StealType' /\ WakesType' /\ TaskType'
    BY SMTT(30), <1>1, TypeFrame DEF PushLocal
  <2>2. PlaceType'
    BY SMTT(30), <1>1, GotoType DEF PlaceType, Places, PushLocal
  <2>3. QueueType'
    BY SMTT(30), <1>1, TypeParts DEF QueueType, PushLocal
  <2> QED
    BY SMTT(30), <1>0, <2>1, <2>2, <2>3, TypeParts
<1>2. ASSUME NEW c \in Workers \cup Outsiders, NEW t \in Tasks, PushGlobal(c, t)
      PROVE  TypeOK'
  <2>1. StopType' /\ SearchType' /\ StealType' /\ PlaceType' /\ TaskType'
    BY Zenon, <1>2, TypeFrame DEF PushGlobal
  <2>2. Wake(c, 1) /\ idle = Cardinality(Parked) /\ UNCHANGED parking
    BY <1>2 DEF PushGlobal, ParkInv
  <2>3. WakesType' /\ fresh' \in [Workers -> BOOLEAN]
    BY SMTT(30), <2>2, WakeEffect DEF WakesType
  <2>4. ParkType'
    BY SMTT(30), <2>2, <2>3, TypeParts DEF ParkType
  <2>5. QueueType'
    BY <1>2, TypeParts DEF QueueType, PushGlobal
  <2> QED
    BY SMTT(30), <1>0, <2>1, <2>2, <2>3, <2>4, <2>5, TypeParts
<1>3. ASSUME NEW c \in Workers \cup Outsiders, NEW b \in Batches, PushBatch(c, b)
      PROVE  TypeOK'
  <2>1. StopType' /\ SearchType' /\ StealType' /\ PlaceType' /\ TaskType'
    BY Zenon, <1>3, TypeFrame DEF PushBatch
  <2>2. b \in Seq(Tasks) /\ Len(b) \in Nat \ {0} /\ {b[i] : i \in DOMAIN b} \subseteq Tasks
    BY BatchType
  <2>3. Wake(c, Len(b)) /\ idle = Cardinality(Parked) /\ UNCHANGED parking
    BY Zenon, <1>3 DEF PushBatch, ParkInv
  <2>4. WakesType' /\ fresh' \in [Workers -> BOOLEAN]
    BY Zenon, <2>2, <2>3, WakeEffect DEF WakesType
  <2>5. ParkType'
    BY ZenonT(60), <2>3, <2>4, TypeParts DEF ParkType
  <2>6. QueueType'
    BY SMTT(30), <1>3, <2>2, TypeParts DEF QueueType, PushBatch
  <2> QED
    BY ZenonT(60), <1>0, <2>1, <2>2, <2>3, <2>4, <2>5, <2>6, TypeParts
<1>4. ASSUME Shutdown
      PROVE  TypeOK'
  <2>1. UNCHANGED <<queueVars, wakes, searchVars, task, stealVars, parking>>
    BY Zenon, <1>4 DEF Shutdown, StopRunning, Stop, NotifyAll, parkVars
  <2>2. QueueType' /\ SearchType' /\ StealType' /\ WakesType' /\ TaskType'
    BY Zenon, <2>1, TypeFrame
  <2>3. PlaceType'
    BY Zenon, <1>4, TypeParts DEF Shutdown, StopRunning, Stop, NotifyAll, PlaceType, Places
  <2>4. StopType'
    BY Zenon, <1>4, TypeParts DEF Shutdown, StopRunning, Stop, NotifyAll, StopType
  <2>5. ParkType'
    BY Zenon, <1>4, <2>1, TypeParts
       DEF Shutdown, StopRunning, Stop, NotifyAll, NewEpoch, ParkType, parkVars
  <2> QED
    BY ZenonT(60), <1>0, <2>2, <2>3, <2>4, <2>5, TypeParts
<1>5. ASSUME NEW c \in Workers \cup Outsiders, NotifyOne(c)
      PROVE  TypeOK'
  <2>1. QueueType' /\ ParkType' /\ StopType' /\ SearchType' /\ StealType' /\ TaskType'
    BY Zenon, <1>5, TypeFrame DEF NotifyOne
  <2>2. PlaceType'
    BY ZenonT(60), <1>5, GotoType, TypeParts DEF PlaceType, Places, NotifyOne, Asleep
  <2>3. WakesType'
    BY SMTT(30), <1>5, TypeParts DEF WakesType, NotifyOne
  <2> QED
    BY SMTT(30), <1>0, <2>1, <2>2, <2>3, TypeParts
<1>6. ASSUME NEW w \in Workers, NotifyOneIdle(w)
      PROVE  TypeOK'
  <2>1. QueueType' /\ StopType' /\ SearchType' /\ StealType' /\ TaskType'
    BY Zenon, <1>6, TypeFrame DEF NotifyOneIdle
  <2>2. PlaceType'
    BY SMTT(30), <1>6, OnwardType, GotoType DEF PlaceType, NotifyOneIdle
  <2>3. PICK c \in Workers \cup Outsiders : c = w
    OBVIOUS
  <2>4. Wake(c, 1) /\ idle = Cardinality(Parked) /\ UNCHANGED parking
    BY Zenon, <1>6, <2>3 DEF NotifyOneIdle, ParkInv
  <2>5. WakesType' /\ fresh' \in [Workers -> BOOLEAN]
    BY SMTT(30), <2>4, WakeEffect DEF WakesType
  <2>6. ParkType'
    BY SMTT(30), <2>4, <2>5, TypeParts DEF ParkType
  <2> QED
    BY SMTT(30), <1>0, <2>1, <2>2, <2>3, <2>4, <2>5, <2>6, TypeParts
<1>7. ASSUME NEW w \in Workers, Loop(w)
      PROVE  TypeOK'
  <2>1. QueueType' /\ ParkType' /\ StopType' /\ StealType' /\ WakesType' /\ TaskType'
    BY Zenon, <1>7, TypeFrame DEF Loop
  <2>2. PlaceType'
    BY Zenon, <1>7, GotoType DEF PlaceType, Places, Loop, BeginSearch
  <2>3. (tick[w] + 1) % CheckPeriod \in 0 .. CheckPeriod - 1
    BY Zenon, TickStep, TypeParts DEF SearchType
  <2>4. SearchType'
    BY ZenonT(60), <1>7, <2>3, TypeParts DEF SearchType, Loop, BeginSearch, searchVars
  <2> QED
    BY Zenon, <1>0, <2>1, <2>2, <2>3, <2>4, TypeParts
<1>8. ASSUME NEW w \in Workers, PreparePark(w)
      PROVE  TypeOK'
  <2>1. QueueType' /\ StopType' /\ StealType' /\ WakesType' /\ TaskType'
    BY Zenon, <1>8, TypeFrame DEF PreparePark
  <2>2. PlaceType'
    BY Zenon, <1>8, GotoType DEF PlaceType, Places, PreparePark, BeginSearch
  <2>3. (tick[w] + 1) % CheckPeriod \in 0 .. CheckPeriod - 1
    BY Zenon, TickStep, TypeParts DEF SearchType
  <2>4. SearchType'
    BY Zenon, <1>8, <2>3, TypeParts DEF SearchType, PreparePark, BeginSearch, searchVars
  <2>5. ParkType'
    BY Zenon, <1>8, TypeParts DEF ParkType, PreparePark
  <2> QED
    BY Zenon, <1>0, <2>1, <2>2, <2>3, <2>4, <2>5, TypeParts
<1>9. ASSUME NEW w \in Workers, Pushed(w)
      PROVE  TypeOK'
  <2>1. QueueType' /\ ParkType' /\ StopType' /\ SearchType' /\ StealType' /\ WakesType' /\ TaskType'
    BY ZenonT(60), <1>9, TypeFrame DEF Pushed
  <2>2. PlaceType'
    BY SMTT(30), <1>9, OnwardType, GotoType DEF PlaceType, Places, Pushed, SizeChecked
  <2> QED
    BY Zenon, <1>0, <2>1, <2>2, TypeParts
<1>10. ASSUME NEW w \in Workers, Stolen(w)
      PROVE  TypeOK'
  <2>1. QueueType' /\ ParkType' /\ StopType' /\ SearchType' /\ StealType' /\ WakesType' /\ TaskType'
    BY SMTT(30), <1>10, TypeFrame DEF Stolen
  <2>2. PlaceType'
    BY SMTT(30), <1>10, OnwardType, GotoType DEF PlaceType, Places, Stolen, SizeChecked
  <2> QED
    BY SMTT(30), <1>0, <2>1, <2>2, TypeParts
<1>11. ASSUME NEW w \in Workers, CheckGlobal(w)
      PROVE  TypeOK'
  <2>1. ParkType' /\ StopType' /\ StealType' /\ WakesType'
    BY SMTT(30), <1>11, TypeFrame DEF CheckGlobal
  <2>2. PlaceType'
    BY ZenonT(60), <1>11, OnwardType, GotoType DEF PlaceType, Places, CheckGlobal, TryPop
  <2>3. global' \in Seq(Tasks) /\ TaskType' /\ owed' \subseteq Tasks
    BY SMTT(30), <1>11, TryPopType DEF CheckGlobal, TaskType
  <2>4. UNCHANGED <<local, tick>> /\ skipped' = [skipped EXCEPT ![w] = 0]
    BY Zenon, <1>11 DEF CheckGlobal, TryPop
  <2>5. QueueType' /\ SearchType'
    BY ZenonT(60), <2>3, <2>4, TypeParts DEF QueueType, SearchType
  <2> QED
    BY Zenon, <1>0, <2>1, <2>2, <2>3, <2>4, <2>5, TypeParts
<1>12. ASSUME NEW w \in Workers, Global(w)
      PROVE  TypeOK'
  <2>1. ParkType' /\ StopType' /\ WakesType'
    BY Zenon, <1>12, TypeFrame DEF Global
  <2>2. PlaceType'
    BY Zenon, <1>12, OnwardType, GotoType DEF PlaceType, Places, Global, TryPop
  <2>3. global' \in Seq(Tasks) /\ TaskType' /\ owed' \subseteq Tasks
    BY Zenon, <1>12, TryPopType DEF Global, TaskType
  <2>4. UNCHANGED <<local, tick>> /\ skipped' = [skipped EXCEPT ![w] = 0]
    BY Zenon, <1>12 DEF Global, TryPop
  <2>5. QueueType' /\ SearchType'
    BY SMTT(30), <2>3, <2>4, TypeParts DEF QueueType, SearchType
  <2>6. StealType'
    BY ZenonT(60), <1>12, TypeParts DEF StealType, Global
  <2> QED
    BY Zenon, <1>0, <2>1, <2>2, <2>3, <2>4, <2>5, <2>6, TypeParts
<1>13. ASSUME NEW w \in Workers, Pop(w)
      PROVE  TypeOK'
  <2>1. ParkType' /\ StopType' /\ WakesType'
    BY Zenon, <1>13, TypeFrame DEF Pop
  <2>2. PlaceType'
    BY ZenonT(60), <1>13, OnwardType, GotoType DEF PlaceType, Pop
  <2>3. local[w][Len(local[w])] \in Tasks /\ SubSeq(local[w], 1, Len(local[w]) - 1) \in Seq(Tasks)
    BY SMTT(30), <1>13, PoppedLength, TypeParts DEF QueueType, Pop
  <2>4. TaskType' /\ owed' \subseteq Tasks
    BY Zenon, <1>13, <2>3, GotType DEF TaskType, Pop
  <2>5. QueueType'
    BY Zenon, <1>13, <2>3, <2>4, TypeParts DEF QueueType, Pop
  <2>6. beaten' \in [Workers -> BOOLEAN]
    BY Zenon, <1>13, TypeParts DEF StealType, Pop, TopChanges
  <2>7. StealType' /\ SearchType'
    <3>1. UNCHANGED <<tick, left, victim>> /\ skipped' = [skipped EXCEPT ![w] = @ + 1]
      BY Zenon, <1>13 DEF Pop
    <3>2. StealType'
      BY Zenon, <2>6, <3>1, TypeParts DEF StealType
    <3>3. SearchType'
      BY SMTT(30), <3>1, TypeParts DEF SearchType
    <3> QED BY Zenon, <3>2, <3>3
  <2> QED
    BY Zenon, <1>0, <2>1, <2>2, <2>3, <2>4, <2>5, <2>6, <2>7, TypeParts
<1>14. ASSUME NEW w \in Workers, Choose(w)
      PROVE  TypeOK'
  <2>1. QueueType' /\ ParkType' /\ StopType' /\ SearchType' /\ WakesType' /\ TaskType'
    BY Zenon, <1>14, TypeFrame DEF Choose
  <2>2. PlaceType'
    BY Zenon, <1>14, GotoType, TypeFrame DEF PlaceType, Places, Choose
  <2>3. \E v \in left[w] : victim' = victim \/ victim' = [victim EXCEPT ![w] = v]
    BY Zenon, <1>14 DEF Choose
  <2>4. victim' \in [Workers -> Workers]
    BY ZenonT(60), <2>3, TypeParts DEF StealType
  <2>5. StealType'
    BY SMTT(30), <1>14, <2>4, TypeParts DEF StealType, Choose
  <2> QED
    BY Zenon, <1>0, <2>1, <2>2, <2>3, <2>4, <2>5, TypeParts
<1>15. ASSUME NEW w \in Workers, Steal(w)
      PROVE  TypeOK'
  <2>1. ParkType' /\ StopType' /\ SearchType' /\ WakesType'
    BY Zenon, <1>15, TypeFrame DEF Steal
  <2>2. PlaceType'
    BY Zenon, <1>15, GotoType DEF PlaceType, Places, Steal
  <2>3. StealType'
    <3>1. beaten' \in [Workers -> BOOLEAN]
      BY Zenon, <1>15, TypeParts DEF StealType, Steal, TopChanges
    <3> QED
      BY Zenon, <1>15, <3>1, TypeParts DEF StealType, Steal
  <2>4. CASE beaten[w]
    <3>1. QueueType' /\ TaskType'
      BY Zenon, <1>15, <2>4, TypeFrame DEF Steal, queueVars
    <3> QED
      BY Zenon, <1>0, <2>1, <2>2, <2>3, <3>1, TypeParts
  <2>5. CASE ~beaten[w]
    <3>1. victim[w] \in Workers /\ local[victim[w]] \in Seq(Tasks) /\ local[victim[w]] # <<>>
      BY ZenonT(60), <1>15, <2>5, TypeParts DEF QueueType, StealType, SearchInv, Steal, At
    <3>2. Head(local[victim[w]]) \in Tasks /\ Tail(local[victim[w]]) \in Seq(Tasks)
      BY <3>1
    <3>3. TaskType' /\ owed' \subseteq Tasks
      BY Zenon, <1>15, <2>5, <3>2, GotType DEF TaskType, Steal
    <3>4. QueueType'
      BY ZenonT(60), <1>15, <2>5, <3>2, <3>3, TypeParts DEF QueueType, Steal
    <3> QED
      BY Zenon, <1>0, <2>1, <2>2, <2>3, <3>3, <3>4, TypeParts
  <2> QED
    BY Zenon, <2>4, <2>5
<1>16. ASSUME NEW w \in Workers, CancelPark(w)
      PROVE  TypeOK'
  <2>1. QueueType' /\ StopType' /\ SearchType' /\ StealType' /\ WakesType' /\ TaskType'
    BY Zenon, <1>16, TypeFrame DEF CancelPark
  <2>2. PlaceType'
    BY Zenon, <1>16, GotoType DEF PlaceType, Places, CancelPark
  <2>3. ParkType'
    BY Zenon, <1>16, TypeParts DEF ParkType, CancelPark, Unpark
  <2> QED
    BY Zenon, <1>0, <2>1, <2>2, <2>3, TypeParts
<1>17. ASSUME NEW w \in Workers, Park(w) \/ WakeUp(w)
      PROVE  TypeOK'
  <2>1. QueueType' /\ StopType' /\ SearchType' /\ StealType' /\ WakesType' /\ TaskType'
    BY Zenon, <1>17, TypeFrame DEF Park, WakeUp, Wait
  <2>2. PlaceType'
    BY Zenon, <1>17, GotoType DEF PlaceType, Places, Park, WakeUp, Wait
  <2>3. ParkType'
    BY Zenon, <1>17, TypeParts DEF ParkType, Park, WakeUp, Wait, Unpark, parkVars
  <2> QED
    BY Zenon, <1>0, <2>1, <2>2, <2>3, TypeParts
<1>18. ASSUME NEW w \in Workers, Return(w)
      PROVE  TypeOK'
  <2>1. QueueType' /\ ParkType' /\ StopType' /\ SearchType' /\ StealType' /\ WakesType'
    BY Zenon, <1>18, TypeFrame DEF Return
  <2>2. PlaceType'
    BY Zenon, <1>18, GotoType DEF PlaceType, Places, Return
  <2>3. TaskType'
    BY Zenon, <1>18, TypeParts DEF TaskType, Return
  <2> QED
    BY ZenonT(60), <1>0, <2>1, <2>2, <2>3, TypeParts
<1>19. ASSUME NEW w \in Workers, SpuriousWakeup(w)
      PROVE  TypeOK'
  <2>1. QueueType' /\ ParkType' /\ StopType' /\ SearchType' /\ StealType' /\ WakesType' /\ TaskType'
    BY Zenon, <1>19, TypeFrame DEF SpuriousWakeup
  <2>2. PlaceType'
    BY ZenonT(60), <1>19, GotoType DEF PlaceType, Places, SpuriousWakeup
  <2> QED
    BY <1>0, <2>1, <2>2, TypeParts
<1>20. CASE UNCHANGED vars
  BY <1>20, Zenon DEF TypeOK, vars
<1> QED
  BY Zenon, <1>1, <1>2, <1>3, <1>4, <1>5, <1>6, <1>7, <1>8, <1>9, <1>10, <1>11, <1>12, <1>13,
     <1>14, <1>15, <1>16, <1>17, <1>18, <1>19, <1>20
  DEF Next, Enqueue, Work, PushOverflow, PushOutside

\* Every step keeps the idle count and the places of the parking workers.
LEMMA ParkStep ==
  ASSUME TypeOK, ParkInv, [Next]_vars
  PROVE  ParkInv'
<1> SUFFICES ASSUME NEW u \in Workers
             PROVE  /\ parking'[u] => pc'[u] \notin {"loop", "run", "pushed", "exited"}
                    /\ pc'[u] \in {"cancel", "asleep", "woken"} => parking'[u]
                    /\ fresh'[u] => parking'[u]
  BY Zenon, CountStep DEF ParkInv
<1> DEFINE Goal == /\ parking'[u] => pc'[u] \notin {"loop", "run", "pushed", "exited"}
                   /\ pc'[u] \in {"cancel", "asleep", "woken"} => parking'[u]
                   /\ fresh'[u] => parking'[u]
<1>t. /\ pc \in [Workers -> Places]
      /\ parking \in [Workers -> BOOLEAN]
      /\ fresh \in [Workers -> BOOLEAN]
      /\ idle \in Nat
  BY Zenon DEF TypeOK
<1> USE <1>t DEF queueVars, parkVars, stopVars, stealVars, searchVars, At, Goto
<1>1. ASSUME NEW w \in Workers, NEW t \in Tasks, PushLocal(w, t)
      PROVE  Goal
  BY Zenon, <1>1 DEF ParkInv, PushLocal
<1>2. ASSUME NEW c \in Workers \cup Outsiders, NEW t \in Tasks, PushGlobal(c, t)
      PROVE  Goal
  <2>1. idle = Cardinality(Parked) /\ Wake(c, 1)
    BY ZenonT(60), <1>2 DEF ParkInv, PushGlobal
  <2>2. fresh'[u] => fresh[u]
    BY <2>1, WakeEffect
  <2> QED
    BY Zenon, <1>2, <2>2 DEF ParkInv, PushGlobal
<1>3. ASSUME NEW c \in Workers \cup Outsiders, NEW b \in Batches, PushBatch(c, b)
      PROVE  Goal
  <2>1. idle = Cardinality(Parked) /\ Wake(c, Len(b))
    BY Zenon, <1>3 DEF ParkInv, PushBatch
  <2>2. fresh'[u] => fresh[u]
    BY Zenon, <2>1, WakeEffect, BatchType
  <2> QED
    BY Zenon, <1>3, <2>2 DEF ParkInv, PushBatch
<1>4. ASSUME StopRunning
      PROVE  Goal
  BY Zenon, <1>4 DEF ParkInv, StopRunning
<1>5. ASSUME Stop
      PROVE  Goal
  BY Zenon, <1>5 DEF ParkInv, Stop, NewEpoch
<1>6. ASSUME NotifyAll
      PROVE  Goal
  BY Zenon, <1>6 DEF ParkInv, NotifyAll, Asleep
<1>7. ASSUME NEW c \in Workers \cup Outsiders, NotifyOne(c)
      PROVE  Goal
  BY Zenon, <1>7 DEF ParkInv, NotifyOne, Asleep
<1>8. ASSUME NEW w \in Workers, Pushed(w)
      PROVE  Goal
  BY Zenon, <1>8 DEF ParkInv, Pushed, SizeChecked, Onward
<1>9. ASSUME NEW w \in Workers, NotifyOneIdle(w)
      PROVE  Goal
  <2>1. idle = Cardinality(Parked) /\ Wake(w, 1)
    BY Zenon, <1>9 DEF ParkInv, NotifyOneIdle
  <2>2. fresh'[u] => fresh[u]
    BY SMTT(30), <2>1, w \in Workers \cup Outsiders, WakeEffect
  <2> QED
    BY Zenon, <1>9, <2>2 DEF ParkInv, NotifyOneIdle, Onward
<1>10. ASSUME NEW w \in Workers, Loop(w)
      PROVE  Goal
  BY Zenon, <1>10 DEF ParkInv, Loop, BeginSearch
<1>11. ASSUME NEW w \in Workers, CheckGlobal(w)
      PROVE  Goal
  BY Zenon, <1>11 DEF ParkInv, CheckGlobal, TryPop, Got, Onward
<1>12. ASSUME NEW w \in Workers, Pop(w)
      PROVE  Goal
  BY Zenon, <1>12 DEF ParkInv, Pop, Got, Onward, TopChanges
<1>13. ASSUME NEW w \in Workers, Global(w)
      PROVE  Goal
  BY Zenon, <1>13 DEF ParkInv, Global, TryPop, Got, Onward
<1>14. ASSUME NEW w \in Workers, Choose(w)
      PROVE  Goal
  BY Zenon, <1>14 DEF ParkInv, Choose
<1>15. ASSUME NEW w \in Workers, Steal(w)
      PROVE  Goal
  BY Zenon, <1>15 DEF ParkInv, Steal, Got, TopChanges
<1>16. ASSUME NEW w \in Workers, Stolen(w)
      PROVE  Goal
  BY Zenon, <1>16 DEF ParkInv, Stolen, SizeChecked, Onward
<1>17. ASSUME NEW w \in Workers, PreparePark(w)
      PROVE  Goal
  BY Zenon, <1>17 DEF ParkInv, PreparePark, BeginSearch
<1>18. ASSUME NEW w \in Workers, CancelPark(w)
      PROVE  Goal
  BY Zenon, <1>18 DEF ParkInv, CancelPark, Unpark
<1>19. ASSUME NEW w \in Workers, Park(w)
      PROVE  Goal
  <2>1. CASE u = w
    BY Zenon, <1>19, <2>1 DEF ParkInv, Park, Wait, Unpark
  <2>2. CASE u # w
    BY Zenon, <1>19, <2>2 DEF ParkInv, Park, Wait, Unpark
  <2> QED
    BY Zenon, <2>1, <2>2
<1>20. ASSUME NEW w \in Workers, WakeUp(w)
      PROVE  Goal
  BY ZenonT(60), <1>20 DEF ParkInv, WakeUp, Wait, Unpark
<1>21. ASSUME NEW w \in Workers, Return(w)
      PROVE  Goal
  BY Zenon, <1>21 DEF ParkInv, Return
<1>22. ASSUME NEW w \in Workers, SpuriousWakeup(w)
      PROVE  Goal
  BY Zenon, <1>22 DEF ParkInv, SpuriousWakeup
<1>23. CASE UNCHANGED vars
  BY Zenon, <1>23 DEF ParkInv, vars
<1> QED
  BY Zenon, <1>1, <1>2, <1>3, <1>4, <1>5, <1>6, <1>7, <1>8, <1>9, <1>10, <1>11, <1>12, <1>13, <1>14,
     <1>15, <1>16, <1>17, <1>18, <1>19, <1>20, <1>21, <1>22, <1>23
  DEF Next, Enqueue, Shutdown, Work, PushOverflow, PushOutside

-----------------------------------------------------------------------------
(* What a search has established *)

\* Every step keeps it.
LEMMA SearchStep ==
  ASSUME TypeOK, SearchInv, [Next]_vars
  PROVE  SearchInv'
<1> SUFFICES ASSUME NEW u \in Workers
             PROVE  /\ beaten'[u] => pc'[u] = "steal"
                    /\ pc'[u] = "steal" /\ ~beaten'[u] => local'[victim'[u]] # <<>>
                    /\ pc'[u] \in {"asleep", "woken"} => left'[u] = {}
                    /\ pc'[u] \in {"choose", "steal", "asleep", "woken"} => local'[u] = <<>>
  BY Zenon DEF SearchInv
<1> DEFINE Goal == /\ beaten'[u] => pc'[u] = "steal"
                   /\ pc'[u] = "steal" /\ ~beaten'[u] => local'[victim'[u]] # <<>>
                   /\ pc'[u] \in {"asleep", "woken"} => left'[u] = {}
                   /\ pc'[u] \in {"choose", "steal", "asleep", "woken"} => local'[u] = <<>>
<1>t. /\ pc \in [Workers -> Places]
      /\ beaten \in [Workers -> BOOLEAN]
      /\ victim \in [Workers -> Workers]
      /\ left \in [Workers -> SUBSET Workers]
      /\ local \in [Workers -> Seq(Tasks)]
  BY Zenon DEF TypeOK
<1> USE <1>t DEF queueVars, parkVars, stopVars, stealVars, searchVars, At, Goto
<1>1. ASSUME NEW w \in Workers, NEW t \in Tasks, PushLocal(w, t)
      PROVE  Goal
  <2>0. local[w] \in Seq(Tasks)
    OBVIOUS
  <2>1. Append(local[w], t) # <<>>
    BY Zenon, <2>0, AppendNonEmpty
  <2>2. \A v \in Workers : local'[v] = local[v] \/ local'[v] # <<>>
    BY Zenon, <1>1, <2>1 DEF PushLocal
  <2>3. u # w => local'[u] = local[u] /\ pc'[u] = pc[u]
    BY Zenon, <1>1 DEF PushLocal
  <2>4. pc'[w] = "pushed" /\ ~beaten[w] /\ UNCHANGED stealVars
    BY Zenon, <1>1 DEF PushLocal, SearchInv
  <2> QED
    BY Zenon, <2>2, <2>3, <2>4 DEF SearchInv
<1>2. ASSUME NEW c \in Workers \cup Outsiders, NEW t \in Tasks, PushGlobal(c, t)
      PROVE  Goal
  BY ZenonT(60), <1>2 DEF SearchInv, PushGlobal
<1>3. ASSUME NEW c \in Workers \cup Outsiders, NEW b \in Batches, PushBatch(c, b)
      PROVE  Goal
  BY Zenon, <1>3 DEF SearchInv, PushBatch
<1>4. ASSUME StopRunning
      PROVE  Goal
  BY Zenon, <1>4 DEF SearchInv, StopRunning
<1>5. ASSUME Stop
      PROVE  Goal
  BY Zenon, <1>5 DEF SearchInv, Stop, NewEpoch
<1>6. ASSUME NotifyAll
      PROVE  Goal
  BY Zenon, <1>6 DEF SearchInv, NotifyAll, Asleep
<1>7. ASSUME NEW c \in Workers \cup Outsiders, NotifyOne(c)
      PROVE  Goal
  BY Zenon, <1>7 DEF SearchInv, NotifyOne, Asleep
<1>8. ASSUME NEW w \in Workers, Pushed(w)
      PROVE  Goal
  BY Zenon, <1>8 DEF SearchInv, Pushed, SizeChecked, Onward
<1>9. ASSUME NEW w \in Workers, NotifyOneIdle(w)
      PROVE  Goal
  BY Zenon, <1>9 DEF SearchInv, NotifyOneIdle, Onward
<1>10. ASSUME NEW w \in Workers, Loop(w)
      PROVE  Goal
  BY ZenonT(60), <1>10 DEF SearchInv, Loop, BeginSearch
<1>11. ASSUME NEW w \in Workers, CheckGlobal(w)
      PROVE  Goal
  BY ZenonT(60), <1>11 DEF SearchInv, CheckGlobal, TryPop, Got, Onward
<1>12. ASSUME NEW w \in Workers, Pop(w)
      PROVE  Goal
  <2> DEFINE n == Len(local[w])
  <2>0. local[w] \in Seq(Tasks) /\ local[w] # <<>>
    BY Zenon, <1>12 DEF Pop
  <2>1. /\ n \in Nat \ {0}
        /\ Len(SubSeq(local[w], 1, n - 1)) = n - 1
    BY Zenon, <2>0, PoppedLength
  <2>6. local'[w] = SubSeq(local[w], 1, n - 1) /\ ~beaten[w]
    BY Zenon, <1>12 DEF Pop, SearchInv
  <2>2. \A v \in Workers \ {w} : local'[v] = local[v] /\ pc'[v] = pc[v]
    BY Zenon, <1>12 DEF Pop
  <2>3. pc'[w] \in {"cancel", "run"} /\ UNCHANGED <<left, victim>>
    BY Zenon, <1>12 DEF Pop, Onward
  <2>4. CASE n = 1
    <3>1. ~beaten'[w]
      BY Zenon, <1>12, <2>4 DEF Pop, TopChanges
    <3>2. u # w => (beaten'[u] <=> beaten[u] \/ (pc[u] = "steal" /\ victim[u] = w))
      BY Zenon, <1>12, <2>4 DEF Pop, TopChanges
    <3> QED
      BY ZenonT(60), <2>2, <2>3, <3>1, <3>2 DEF SearchInv
  <2>5. CASE n > 1
    <3>1. local'[w] # <<>>
      BY ZenonT(60), <2>0, <2>5, <2>6, PoppedLength
    <3>2. beaten' = beaten
      BY SMTT(30), <1>12, <2>5 DEF Pop
    <3> QED
      BY ZenonT(60), <2>2, <2>3, <2>6, <3>1, <3>2 DEF SearchInv
  <2>7. n = 1 \/ n > 1
    BY <2>1
  <2> QED
    BY Zenon, <2>4, <2>5, <2>7
<1>13. ASSUME NEW w \in Workers, Global(w)
      PROVE  Goal
  BY ZenonT(60), <1>13 DEF SearchInv, Global, TryPop, Got, Onward
<1>14. ASSUME NEW w \in Workers, Choose(w)
      PROVE  Goal
  <2>1. local' = local /\ beaten' = beaten /\ pc[w] = "choose"
    BY Zenon, <1>14 DEF Choose
  <2>2. PICK v \in left[w] :
          /\ left' = [left EXCEPT ![w] = @ \ {v}]
          /\ IF local[v] = <<>> THEN UNCHANGED <<pc, victim>>
             ELSE victim' = [victim EXCEPT ![w] = v] /\ pc' = [pc EXCEPT ![w] = "steal"]
    BY Zenon, <1>14 DEF Choose
  <2>3. CASE u # w
    <3>1. pc'[u] = pc[u] /\ victim'[u] = victim[u] /\ left'[u] = left[u]
      BY Zenon, <2>2, <2>3
    <3> QED
      BY Zenon, <2>1, <3>1 DEF SearchInv
  <2>4. CASE u = w
    <3>1. local[w] = <<>> /\ ~beaten[w]
      BY Zenon, <2>1 DEF SearchInv
    <3>2. CASE local[v] = <<>>
      BY Zenon, <2>1, <2>2, <2>4, <3>1, <3>2
    <3>3. CASE local[v] # <<>>
      <4>1. pc'[w] = "steal" /\ victim'[w] = v
        BY Zenon, <2>2, <3>3
      <4> QED
        BY Zenon, <2>1, <2>4, <3>1, <3>3, <4>1
    <3> QED
      BY Zenon, <3>2, <3>3
  <2> QED
    BY Zenon, <2>3, <2>4
<1>15. ASSUME NEW w \in Workers, Steal(w)
      PROVE  Goal
  <2>1. CASE beaten[w]
    <3>1. /\ pc[w] = "steal" /\ pc' = [pc EXCEPT ![w] = "choose"]
          /\ beaten' = [beaten EXCEPT ![w] = FALSE] /\ UNCHANGED <<local, left, victim>>
      BY Zenon, <1>15, <2>1 DEF Steal
    <3>2. CASE u # w
      BY Zenon, <3>1, <3>2 DEF SearchInv
    <3>3. CASE u = w
      BY Zenon, <3>1, <3>3 DEF SearchInv
    <3> QED
      BY Zenon, <3>2, <3>3
  <2>2. CASE ~beaten[w]
    <3> DEFINE x == victim[w]
    <3>1. \A v \in Workers \ {x} : local'[v] = local[v]
      BY Zenon, <1>15, <2>2 DEF Steal
    <3>2. local[u] = <<>> => local'[u] = <<>>
      BY Zenon, <1>15, <2>2, <3>1 DEF Steal, SearchInv
    <3>3. pc'[w] = "stolen" /\ ~beaten'[w] /\ UNCHANGED victim
      BY Zenon, <1>15, <2>2 DEF Steal, TopChanges
    <3>4. u # w => pc'[u] = pc[u] /\ left'[u] = left[u]
      BY ZenonT(60), <1>15, <2>2 DEF Steal, TopChanges
    <3>5. TopChanges(w, x)
      BY Zenon, <1>15, <2>2 DEF Steal
    <3>6. u # w => (beaten'[u] <=> beaten[u] \/ (pc[u] = "steal" /\ victim[u] = x))
      BY Zenon, <3>5 DEF TopChanges
    <3> QED
      BY Zenon, <3>1, <3>2, <3>3, <3>4, <3>6 DEF SearchInv
  <2> QED
    BY Zenon, <2>1, <2>2
<1>16. ASSUME NEW w \in Workers, Stolen(w)
      PROVE  Goal
  BY Zenon, <1>16 DEF SearchInv, Stolen, SizeChecked, Onward
<1>17. ASSUME NEW w \in Workers, PreparePark(w)
      PROVE  Goal
  BY Zenon, <1>17 DEF SearchInv, PreparePark, BeginSearch
<1>18. ASSUME NEW w \in Workers, CancelPark(w)
      PROVE  Goal
  BY ZenonT(60), <1>18 DEF SearchInv, CancelPark, Unpark
<1>19. ASSUME NEW w \in Workers, Park(w)
      PROVE  Goal
  <2>1. /\ pc[w] = "choose" /\ left[w] = {} /\ UNCHANGED <<local, beaten, left, victim>>
        /\ pc' = [pc EXCEPT ![w] = "loop"] \/ pc' = [pc EXCEPT ![w] = "asleep"]
    BY Zenon, <1>19 DEF Park, Wait
  <2>2. CASE u # w
    BY Zenon, <2>1, <2>2 DEF SearchInv
  <2>3. CASE u = w
    BY ZenonT(60), <2>1, <2>3 DEF SearchInv
  <2> QED
    BY Zenon, <2>2, <2>3
<1>20. ASSUME NEW w \in Workers, WakeUp(w)
      PROVE  Goal
  <2>1. /\ pc[w] = "woken" /\ UNCHANGED <<local, beaten, left, victim>>
        /\ pc' = [pc EXCEPT ![w] = "loop"] \/ pc' = [pc EXCEPT ![w] = "asleep"]
    BY Zenon, <1>20 DEF WakeUp, Wait
  <2>2. CASE u # w
    BY Zenon, <2>1, <2>2 DEF SearchInv
  <2>3. CASE u = w
    BY ZenonT(60), <2>1, <2>3 DEF SearchInv
  <2> QED
    BY SMTT(30), <2>2, <2>3
<1>21. ASSUME NEW w \in Workers, Return(w)
      PROVE  Goal
  BY Zenon, <1>21 DEF SearchInv, Return
<1>22. ASSUME NEW w \in Workers, SpuriousWakeup(w)
      PROVE  Goal
  BY Zenon, <1>22 DEF SearchInv, SpuriousWakeup
<1>23. CASE UNCHANGED vars
  BY Zenon, <1>23 DEF SearchInv, vars
<1> QED
  BY Zenon, <1>1, <1>2, <1>3, <1>4, <1>5, <1>6, <1>7, <1>8, <1>9, <1>10, <1>11, <1>12, <1>13, <1>14,
     <1>15, <1>16, <1>17, <1>18, <1>19, <1>20, <1>21, <1>22, <1>23
  DEF Next, Enqueue, Shutdown, Work, PushOverflow, PushOutside

-----------------------------------------------------------------------------
(* The period of the global queue *)

\* A worker that looks at the global queue starts counting again.
LEMMA LookResets ==
  ASSUME TypeOK, TickInv, NEW w \in Workers, NEW u \in Workers,
         tick' = tick, skipped' = [skipped EXCEPT ![w] = 0],
         \E place : pc' = [pc EXCEPT ![w] = place]
  PROVE  /\ skipped'[u] <= CheckPeriod
         /\ pc'[u] = "pop" => skipped'[u] <= tick'[u]
         /\ pc'[u] # "check_global" => skipped'[u] <= tick'[u] + 1
<1>1. /\ DOMAIN pc = Workers /\ DOMAIN skipped = Workers
      /\ tick[u] \in Nat /\ CheckPeriod \in Nat
  BY SMTT(30), SizeAssumption DEF TypeOK
<1>2. CASE u = w
  BY SMTT(30), <1>1, <1>2
<1>3. CASE u # w
  BY Zenon, <1>1, <1>3 DEF TickInv
<1> QED
  BY Zenon, <1>2, <1>3

\* A search that begins: tick goes on by one, or is back at zero and the search
\* begins at the global queue.
LEMMA SearchBegins ==
  ASSUME TypeOK, NEW w \in Workers, skipped'[w] = skipped[w], skipped[w] <= tick[w] + 1,
         skipped[w] <= CheckPeriod, tick'[w] \in {0, tick[w] + 1},
         pc'[w] = IF tick'[w] = 0 THEN "check_global" ELSE "pop"
  PROVE  /\ skipped'[w] <= CheckPeriod
         /\ pc'[w] = "pop" => skipped'[w] <= tick'[w]
         /\ pc'[w] # "check_global" => skipped'[w] <= tick'[w] + 1
<1>1. skipped[w] \in Nat /\ tick[w] \in Nat
  BY SMTT(30), SizeAssumption DEF TypeOK
<1>2. CASE tick'[w] = 0
  BY Zenon, <1>2
<1>3. CASE tick'[w] # 0
  BY SMTT(30), <1>1, <1>3
<1> QED
  BY Zenon, <1>2, <1>3

\* Every step keeps the bound on the tasks since the last look.
LEMMA TickInvStep ==
  ASSUME TypeOK, TickInv, [Next]_vars
  PROVE  TickInv'
<1> SUFFICES ASSUME NEW u \in Workers
             PROVE  /\ skipped'[u] <= CheckPeriod
                    /\ pc'[u] = "pop" => skipped'[u] <= tick'[u]
                    /\ pc'[u] # "check_global" => skipped'[u] <= tick'[u] + 1
  BY Zenon DEF TickInv
<1> DEFINE Goal == /\ skipped'[u] <= CheckPeriod
                   /\ pc'[u] = "pop" => skipped'[u] <= tick'[u]
                   /\ pc'[u] # "check_global" => skipped'[u] <= tick'[u] + 1
<1>t. /\ pc \in [Workers -> Places]
      /\ tick \in [Workers -> 0 .. CheckPeriod - 1]
      /\ skipped \in [Workers -> Nat]
  BY Zenon DEF TypeOK
<1> USE <1>t DEF queueVars, parkVars, stopVars, stealVars, searchVars, At, Goto
<1>1. ASSUME NEW w \in Workers, NEW t \in Tasks, PushLocal(w, t)
      PROVE  Goal
  BY Zenon, <1>1, SizeAssumption DEF TickInv, PushLocal
<1>2. ASSUME NEW c \in Workers \cup Outsiders, NEW t \in Tasks, PushGlobal(c, t)
      PROVE  Goal
  BY ZenonT(60), <1>2, SizeAssumption DEF TickInv, PushGlobal
<1>3. ASSUME NEW c \in Workers \cup Outsiders, NEW b \in Batches, PushBatch(c, b)
      PROVE  Goal
  BY Zenon, <1>3, SizeAssumption DEF TickInv, PushBatch
<1>4. ASSUME StopRunning
      PROVE  Goal
  BY Zenon, <1>4, SizeAssumption DEF TickInv, StopRunning
<1>5. ASSUME Stop
      PROVE  Goal
  BY Zenon, <1>5, SizeAssumption DEF TickInv, Stop, NewEpoch
<1>6. ASSUME NotifyAll
      PROVE  Goal
  BY ZenonT(60), <1>6, SizeAssumption DEF TickInv, NotifyAll, Asleep
<1>7. ASSUME NEW c \in Workers \cup Outsiders, NotifyOne(c)
      PROVE  Goal
  BY Zenon, <1>7, SizeAssumption DEF TickInv, NotifyOne, Asleep
<1>8. ASSUME NEW w \in Workers, Pushed(w)
      PROVE  Goal
  BY Zenon, <1>8, SizeAssumption DEF TickInv, Pushed, SizeChecked, Onward
<1>9. ASSUME NEW w \in Workers, NotifyOneIdle(w)
      PROVE  Goal
  BY Zenon, <1>9, SizeAssumption DEF TickInv, NotifyOneIdle, Onward
<1>10. ASSUME NEW w \in Workers, Loop(w)
      PROVE  Goal
  <2>1. tick[w] \in 0 .. CheckPeriod - 1
    OBVIOUS
  <2>2. (tick[w] + 1) % CheckPeriod \in {0, tick[w] + 1}
    BY Zenon, <2>1, TickStep
  <2>3. CASE u # w
    BY Zenon, <1>10, <2>3 DEF TickInv, Loop, BeginSearch
  <2>4. CASE u = w
    <3>1. skipped'[w] = skipped[w] /\ skipped[w] <= tick[w] + 1 /\ skipped[w] <= CheckPeriod
      BY ZenonT(60), <1>10 DEF TickInv, Loop
    <3>2. CASE running
      <4>1. tick'[w] = (tick[w] + 1) % CheckPeriod
        BY Zenon, <1>10, <3>2 DEF Loop, BeginSearch
      <4>2. tick'[w] \in {0, tick[w] + 1}
        BY Zenon, <2>2, <4>1
      <4>3. pc'[w] = IF tick'[w] = 0 THEN "check_global" ELSE "pop"
        BY Zenon, <1>10, <3>2 DEF Loop, BeginSearch
      <4> QED
        BY Zenon, <2>4, <3>1, <4>2, <4>3, SearchBegins
    <3>3. CASE ~running
      <4>1. tick'[w] = tick[w] /\ pc'[w] = "exited"
        BY Zenon, <1>10, <3>3 DEF Loop
      <4> QED
        BY Zenon, <2>4, <3>1, <4>1
    <3> QED
      BY Zenon, <3>2, <3>3
  <2> QED
    BY ZenonT(60), <2>3, <2>4
<1>11. ASSUME NEW w \in Workers, CheckGlobal(w)
      PROVE  Goal
  <2>1. /\ tick' = tick /\ skipped' = [skipped EXCEPT ![w] = 0]
        /\ \E place : pc' = [pc EXCEPT ![w] = place]
    BY Zenon, <1>11 DEF CheckGlobal, TryPop
  <2> QED
    BY Zenon, <2>1, LookResets
<1>12. ASSUME NEW w \in Workers, Pop(w)
      PROVE  Goal
  <2>1. /\ tick' = tick /\ skipped' = [skipped EXCEPT ![w] = @ + 1] /\ pc[w] = "pop"
        /\ pc' = [pc EXCEPT ![w] = Onward(w)]
    BY Zenon, <1>12 DEF Pop
  <2>2. CASE u # w
    BY Zenon, <2>1, <2>2 DEF TickInv
  <2>3. CASE u = w
    <3>1. skipped'[w] = skipped[w] + 1 /\ pc'[w] # "pop"
      BY Zenon, <2>1 DEF Onward
    <3>2. skipped[w] <= tick[w]
      BY ZenonT(60), <2>1 DEF TickInv
    <3> QED
      BY SMTT(30), <2>1, <2>3, <3>1, <3>2, SizeAssumption
  <2> QED
    BY Zenon, <2>2, <2>3
<1>13. ASSUME NEW w \in Workers, Global(w)
      PROVE  Goal
  <2>1. /\ tick' = tick /\ skipped' = [skipped EXCEPT ![w] = 0]
        /\ \E place : pc' = [pc EXCEPT ![w] = place]
    BY Zenon, <1>13 DEF Global, TryPop
  <2> QED
    BY Zenon, <2>1, LookResets
<1>14. ASSUME NEW w \in Workers, Choose(w)
      PROVE  Goal
  BY Zenon, <1>14, SizeAssumption DEF TickInv, Choose
<1>15. ASSUME NEW w \in Workers, Steal(w)
      PROVE  Goal
  BY Zenon, <1>15, SizeAssumption DEF TickInv, Steal, Got, TopChanges
<1>16. ASSUME NEW w \in Workers, Stolen(w)
      PROVE  Goal
  BY Zenon, <1>16, SizeAssumption DEF TickInv, Stolen, SizeChecked, Onward
<1>17. ASSUME NEW w \in Workers, PreparePark(w)
      PROVE  Goal
  <2>1. tick[w] \in 0 .. CheckPeriod - 1
    OBVIOUS
  <2>2. (tick[w] + 1) % CheckPeriod \in {0, tick[w] + 1}
    BY Zenon, <2>1, TickStep
  <2>3. CASE u # w
    BY Zenon, <1>17, <2>3 DEF TickInv, PreparePark, BeginSearch
  <2>4. CASE u = w
    <3>1. skipped'[w] = skipped[w] /\ skipped[w] <= tick[w] + 1 /\ skipped[w] <= CheckPeriod
      BY Zenon, <1>17 DEF TickInv, PreparePark
    <3>2. tick'[w] = (tick[w] + 1) % CheckPeriod
      BY Zenon, <1>17 DEF PreparePark, BeginSearch
    <3>3. tick'[w] \in {0, tick[w] + 1}
      BY Zenon, <2>2, <3>2
    <3>4. pc'[w] = IF tick'[w] = 0 THEN "check_global" ELSE "pop"
      BY Zenon, <1>17 DEF PreparePark, BeginSearch
    <3> QED
      BY Zenon, <2>4, <3>1, <3>3, <3>4, SearchBegins
  <2> QED
    BY Zenon, <2>3, <2>4
<1>18. ASSUME NEW w \in Workers, CancelPark(w)
      PROVE  Goal
  BY Zenon, <1>18, SizeAssumption DEF TickInv, CancelPark, Unpark
<1>19. ASSUME NEW w \in Workers, Park(w)
      PROVE  Goal
  BY Zenon, <1>19, SizeAssumption DEF TickInv, Park, Wait, Unpark
<1>20. ASSUME NEW w \in Workers, WakeUp(w)
      PROVE  Goal
  BY Zenon, <1>20, SizeAssumption DEF TickInv, WakeUp, Wait, Unpark
<1>21. ASSUME NEW w \in Workers, Return(w)
      PROVE  Goal
  BY Zenon, <1>21, SizeAssumption DEF TickInv, Return
<1>22. ASSUME NEW w \in Workers, SpuriousWakeup(w)
      PROVE  Goal
  BY Zenon, <1>22, SizeAssumption DEF TickInv, SpuriousWakeup
<1>23. CASE UNCHANGED vars
  BY ZenonT(60), <1>23 DEF TickInv, vars
<1> QED
  BY Zenon, <1>1, <1>2, <1>3, <1>4, <1>5, <1>6, <1>7, <1>8, <1>9, <1>10, <1>11, <1>12, <1>13, <1>14,
     <1>15, <1>16, <1>17, <1>18, <1>19, <1>20, <1>21, <1>22, <1>23
  DEF Next, Enqueue, Shutdown, Work, PushOverflow, PushOutside

-----------------------------------------------------------------------------
(* stop() *)

\* No step puts a worker to sleep once stop() has notified all.
LEMMA StopStep ==
  ASSUME TypeOK, StopWakesAll, [Next]_vars
  PROVE  StopWakesAll'
<1> SUFFICES ASSUME NEW u \in Workers, stop_flag', ~broadcast'
             PROVE  pc'[u] # "asleep"
  BY Zenon DEF StopWakesAll, Asleep
<1> DEFINE Goal == pc'[u] # "asleep"
<1>t. /\ pc \in [Workers -> Places]
      /\ stop_flag \in BOOLEAN
      /\ broadcast \in BOOLEAN
  BY Zenon DEF TypeOK
<1> USE <1>t DEF queueVars, parkVars, stopVars, stealVars, searchVars, At, Goto
<1>1. ASSUME NEW w \in Workers, NEW t \in Tasks, PushLocal(w, t)
      PROVE  Goal
  BY Zenon, <1>1 DEF StopWakesAll, Asleep, PushLocal
<1>2. ASSUME NEW c \in Workers \cup Outsiders, NEW t \in Tasks, PushGlobal(c, t)
      PROVE  Goal
  BY ZenonT(60), <1>2 DEF StopWakesAll, Asleep, PushGlobal
<1>3. ASSUME NEW c \in Workers \cup Outsiders, NEW b \in Batches, PushBatch(c, b)
      PROVE  Goal
  BY Zenon, <1>3 DEF StopWakesAll, Asleep, PushBatch
<1>4. ASSUME StopRunning
      PROVE  Goal
  BY Zenon, <1>4 DEF StopWakesAll, Asleep, StopRunning
<1>5. ASSUME Stop
      PROVE  Goal
  BY Zenon, <1>5 DEF StopWakesAll, Asleep, Stop, NewEpoch
<1>6. ASSUME NotifyAll
      PROVE  Goal
  BY Zenon, <1>6 DEF StopWakesAll, Asleep, NotifyAll
<1>7. ASSUME NEW c \in Workers \cup Outsiders, NotifyOne(c)
      PROVE  Goal
  BY Zenon, <1>7 DEF StopWakesAll, Asleep, NotifyOne
<1>8. ASSUME NEW w \in Workers, Pushed(w)
      PROVE  Goal
  BY Zenon, <1>8 DEF StopWakesAll, Asleep, Pushed, SizeChecked, Onward
<1>9. ASSUME NEW w \in Workers, NotifyOneIdle(w)
      PROVE  Goal
  BY Zenon, <1>9 DEF StopWakesAll, Asleep, NotifyOneIdle, Onward
<1>10. ASSUME NEW w \in Workers, Loop(w)
      PROVE  Goal
  BY Zenon, <1>10 DEF StopWakesAll, Asleep, Loop, BeginSearch
<1>11. ASSUME NEW w \in Workers, CheckGlobal(w)
      PROVE  Goal
  BY Zenon, <1>11 DEF StopWakesAll, Asleep, CheckGlobal, TryPop, Got, Onward
<1>12. ASSUME NEW w \in Workers, Pop(w)
      PROVE  Goal
  BY Zenon, <1>12 DEF StopWakesAll, Asleep, Pop, Got, Onward, TopChanges
<1>13. ASSUME NEW w \in Workers, Global(w)
      PROVE  Goal
  BY Zenon, <1>13 DEF StopWakesAll, Asleep, Global, TryPop, Got, Onward
<1>14. ASSUME NEW w \in Workers, Choose(w)
      PROVE  Goal
  BY Zenon, <1>14 DEF StopWakesAll, Asleep, Choose
<1>15. ASSUME NEW w \in Workers, Steal(w)
      PROVE  Goal
  <2>1. pc' = [pc EXCEPT ![w] = "choose"] \/ pc' = [pc EXCEPT ![w] = "stolen"]
    BY Zenon, <1>15 DEF Steal
  <2> QED
    BY Zenon, <1>15, <2>1 DEF StopWakesAll, Asleep, Steal
<1>16. ASSUME NEW w \in Workers, Stolen(w)
      PROVE  Goal
  BY Zenon, <1>16 DEF StopWakesAll, Asleep, Stolen, SizeChecked, Onward
<1>17. ASSUME NEW w \in Workers, PreparePark(w)
      PROVE  Goal
  BY Zenon, <1>17 DEF StopWakesAll, Asleep, PreparePark, BeginSearch
<1>18. ASSUME NEW w \in Workers, CancelPark(w)
      PROVE  Goal
  BY Zenon, <1>18 DEF StopWakesAll, Asleep, CancelPark, Unpark
<1>19. ASSUME NEW w \in Workers, Park(w)
      PROVE  Goal
  <2>1. UNCHANGED <<stop_flag, broadcast>>
        /\ pc' = [pc EXCEPT ![w] = IF stop_flag \/ ~fresh[w] THEN "loop" ELSE "asleep"]
    BY Zenon, <1>19 DEF Park, Wait
  <2>2. pc' = [pc EXCEPT ![w] = "loop"]
    BY Zenon, <2>1
  <2> QED
    BY ZenonT(60), <2>1, <2>2 DEF StopWakesAll, Asleep
<1>20. ASSUME NEW w \in Workers, WakeUp(w)
      PROVE  Goal
  BY ZenonT(60), <1>20 DEF StopWakesAll, Asleep, WakeUp, Wait, Unpark
<1>21. ASSUME NEW w \in Workers, Return(w)
      PROVE  Goal
  BY Zenon, <1>21 DEF StopWakesAll, Asleep, Return
<1>22. ASSUME NEW w \in Workers, SpuriousWakeup(w)
      PROVE  Goal
  BY Zenon, <1>22 DEF StopWakesAll, Asleep, SpuriousWakeup
<1>23. CASE UNCHANGED vars
  BY ZenonT(60), <1>23 DEF StopWakesAll, Asleep, vars
<1> QED
  BY ZenonT(60), <1>1, <1>2, <1>3, <1>4, <1>5, <1>6, <1>7, <1>8, <1>9, <1>10, <1>11, <1>12, <1>13, <1>14,
     <1>15, <1>16, <1>17, <1>18, <1>19, <1>20, <1>21, <1>22, <1>23
  DEF Next, Enqueue, Shutdown, Work, PushOverflow, PushOutside

-----------------------------------------------------------------------------
(* The theorems *)

\* The inductive invariant.
IndInv ==
  /\ TypeOK
  /\ ParkInv
  /\ SearchInv
  /\ TickInv
  /\ StopWakesAll

\* It holds when the constructor returns: all the queues are empty and every
\* worker is at the head of its loop.
LEMMA IndInvInit == Init => IndInv
<1> SUFFICES ASSUME Init PROVE IndInv
  OBVIOUS
<1>1. TypeOK
  <2>1. 0 \in 0 .. CheckPeriod - 1
    BY SizeAssumption
  <2>2. tick \in [Workers -> 0 .. CheckPeriod - 1]
    BY <2>1, Zenon DEF Init
  <2>3. pc \in [Workers -> Places]
    BY Zenon DEF Init, Places
  <2>4. <<>> \in Seq(Tasks)
    BY EmptySeq
  <2>5. global \in Seq(Tasks) /\ local \in [Workers -> Seq(Tasks)]
    BY <2>4, Zenon DEF Init
  <2>6. task \in [Workers -> Tasks \cup {Null}]
    BY Zenon DEF Init
  <2>7. ASSUME NEW w \in Workers
        PROVE  (CHOOSE v \in Workers : Workers # {w} => v # w) \in Workers
    <3>1. \E v \in Workers : Workers # {w} => v # w
      BY Zenon
    <3> QED
      BY Zenon, <3>1
  <2>8. victim \in [Workers -> Workers]
    BY Zenon, <2>7 DEF Init
  <2> QED
    BY Zenon, <2>2, <2>3, <2>5, <2>6, <2>8 DEF Init, TypeOK
<1>2. ParkInv
  <2>1. Parked = {}
    BY ZenonT(60) DEF Init, Parked
  <2>2. Cardinality(Parked) = 0
    BY Zenon, <2>1, FS_EmptySet
  <2> QED
    BY Zenon, <2>2 DEF Init, ParkInv
<1>3. SearchInv
  BY Zenon DEF Init, SearchInv
<1>4. TickInv
  BY SMTT(30), SizeAssumption DEF Init, TickInv
<1>5. StopWakesAll
  BY Zenon DEF Init, StopWakesAll
<1> QED
  BY <1>1, <1>2, <1>3, <1>4, <1>5 DEF IndInv

\* And every step keeps it.
LEMMA IndInvStep == IndInv /\ [Next]_vars => IndInv'
BY SMTT(30), TypeStep, ParkStep, SearchStep, TickInvStep, StopStep DEF IndInv

\* So it is an invariant of the scheduler.
LEMMA Invariance == Spec => []IndInv
BY IndInvInit, IndInvStep, PTL DEF Spec

\* Every variable of the scheduler stays within its type; in particular
\* idle_threads_ never falls below zero.
THEOREM TypeCorrect == Spec => []TypeOK
<1>1. IndInv => TypeOK
  BY Zenon DEF IndInv
<1> QED
  BY <1>1, Invariance, PTL

\* A worker takes at most CheckPeriod tasks of its own between two looks at the
\* global queue (++tick % 61).
THEOREM GlobalQueueServed == Spec => []GlobalNotStarved
<1>1. IndInv => GlobalNotStarved
  BY Zenon DEF IndInv, TickInv, GlobalNotStarved
<1> QED
  BY <1>1, Invariance, PTL

\* After stop() no worker is asleep except between the flag and notify_all().
THEOREM StopReachesAll == Spec => []StopWakesAll
<1>1. IndInv => StopWakesAll
  BY DEF IndInv
<1> QED
  BY <1>1, Invariance, PTL

=============================================================================
