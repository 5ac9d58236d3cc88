------------------------- MODULE SchedulerWakeProofs -------------------------
(***************************************************************************)
(* Proofs about the wakeups of the scheduler and about the handles in its  *)
(* queues, for any numbers of workers, of other threads and of tasks, any  *)
(* size of the local queues and any period: no worker sleeps on a task in  *)
(* the global queue, no backlog in a local queue is passed by for good,    *)
(* and no handle is lost or doubled.                                       *)
(***************************************************************************)
EXTENDS SchedulerProofs

\* NoSleepOnGlobal, whether running_ or not.
GlobalInv ==
  global # <<>> =>
    /\ \A w \in Workers : ~Settled(w)
    /\ Asleep # Workers \/ Waking

\* BacklogNoticed, whether running_ or not.
BacklogInv ==
  \A w \in Workers : Len(local[w]) > 1 =>
    \/ Noticing(w)
    \/ /\ \A v \in Workers \ {w} : ~Passed(v, w)
       /\ Workers \ {w} \subseteq Asleep /\ Workers # {w} => Waking

-----------------------------------------------------------------------------
(* Who may go to sleep, and who is woken *)

\* A worker settles to sleep only by finding the global queue empty after
\* prepare_park(); it then has all the other workers before it.
LEMMA SettledStep ==
  ASSUME TypeOK, ParkInv, [Next]_vars, NEW u \in Workers, Settled(u)'
  PROVE  \/ Settled(u)
         \/ global' = <<>> /\ left'[u] = Workers \ {u} /\ pc'[u] = "choose"
<1> DEFINE Goal == \/ Settled(u)
                   \/ global' = <<>> /\ left'[u] = Workers \ {u} /\ pc'[u] = "choose"
<1>t. /\ pc \in [Workers -> Places]
      /\ left \in [Workers -> SUBSET Workers]
      /\ parking \in [Workers -> BOOLEAN]
      /\ fresh \in [Workers -> BOOLEAN]
  BY DEF TypeOK
<1> USE <1>t DEF queueVars, parkVars, stopVars, stealVars, searchVars, At, Goto
<1>1. ASSUME NEW w \in Workers, NEW t \in Tasks, PushLocal(w, t)
      PROVE  Goal
  BY <1>1 DEF Settled, PushLocal
<1>2. ASSUME NEW c \in Workers \cup Outsiders, NEW t \in Tasks, PushGlobal(c, t)
      PROVE  Goal
  <2>1. idle = Cardinality(Parked) /\ Wake(c, 1)
    BY <1>2 DEF ParkInv, PushGlobal
  <2>2. fresh'[u] => fresh[u]
    BY SMTT(30), <2>1, WakeEffect
  <2> QED
    BY SMTT(30), <1>2, <2>2 DEF Settled, PushGlobal
<1>3. ASSUME NEW c \in Workers \cup Outsiders, NEW b \in Batches, PushBatch(c, b)
      PROVE  Goal
  <2>1. idle = Cardinality(Parked) /\ Wake(c, Len(b))
    BY Zenon, <1>3 DEF ParkInv, PushBatch
  <2>2. fresh'[u] => fresh[u]
    BY Zenon, <2>1, WakeEffect, BatchType
  <2> QED
    BY <1>3, <2>2 DEF Settled, PushBatch
<1>4. ASSUME StopRunning
      PROVE  Goal
  BY <1>4 DEF Settled, StopRunning
<1>5. ASSUME Stop
      PROVE  Goal
  BY <1>5 DEF Settled, Stop, NewEpoch
<1>6. ASSUME NotifyAll
      PROVE  Goal
  BY Zenon, <1>6 DEF Settled, NotifyAll, Asleep
<1>7. ASSUME NEW c \in Workers \cup Outsiders, NotifyOne(c)
      PROVE  Goal
  BY <1>7 DEF Settled, NotifyOne, Asleep
<1>8. ASSUME NEW w \in Workers, Pushed(w)
      PROVE  Goal
  BY Zenon, <1>8 DEF Settled, Pushed, SizeChecked, Onward
<1>9. ASSUME NEW w \in Workers, NotifyOneIdle(w)
      PROVE  Goal
  <2>1. idle = Cardinality(Parked) /\ Wake(w, 1)
    BY <1>9 DEF ParkInv, NotifyOneIdle
  <2>2. fresh'[u] => fresh[u]
    BY <2>1, w \in Workers \cup Outsiders, WakeEffect
  <2> QED
    BY SMTT(30), <1>9, <2>2 DEF Settled, NotifyOneIdle, Onward
<1>10. ASSUME NEW w \in Workers, Loop(w)
      PROVE  Goal
  BY Zenon, <1>10 DEF Settled, Loop, BeginSearch
<1>11. ASSUME NEW w \in Workers, CheckGlobal(w)
      PROVE  Goal
  BY <1>11 DEF Settled, CheckGlobal, TryPop, Got, Onward
<1>12. ASSUME NEW w \in Workers, Pop(w)
      PROVE  Goal
  BY Zenon, <1>12 DEF Settled, Pop, Got, Onward, TopChanges
<1>13. ASSUME NEW w \in Workers, Global(w)
      PROVE  Goal
  BY ZenonT(60), <1>13 DEF Settled, Global, TryPop, Got, Onward
<1>14. ASSUME NEW w \in Workers, Choose(w)
      PROVE  Goal
  BY <1>14 DEF Settled, Choose
<1>15. ASSUME NEW w \in Workers, Steal(w)
      PROVE  Goal
  BY ZenonT(60), <1>15 DEF Settled, Steal, Got, TopChanges
<1>16. ASSUME NEW w \in Workers, Stolen(w)
      PROVE  Goal
  BY ZenonT(60), <1>16 DEF Settled, Stolen, SizeChecked, Onward
<1>17. ASSUME NEW w \in Workers, PreparePark(w)
      PROVE  Goal
  BY ZenonT(60), <1>17 DEF Settled, PreparePark, BeginSearch
<1>18. ASSUME NEW w \in Workers, CancelPark(w)
      PROVE  Goal
  BY SMTT(30), <1>18 DEF Settled, CancelPark, Unpark
<1>19. ASSUME NEW w \in Workers, Park(w)
      PROVE  Goal
  BY SMTT(30), <1>19 DEF Settled, Park, Wait, Unpark
<1>20. ASSUME NEW w \in Workers, WakeUp(w)
      PROVE  Goal
  BY <1>20 DEF Settled, WakeUp, Wait, Unpark
<1>21. ASSUME NEW w \in Workers, Return(w)
      PROVE  Goal
  BY <1>21 DEF Settled, Return
<1>22. ASSUME NEW w \in Workers, SpuriousWakeup(w)
      PROVE  Goal
  BY SMTT(30), <1>22 DEF Settled, SpuriousWakeup
<1>23. CASE UNCHANGED vars
  BY SMTT(30), <1>23 DEF Settled, vars
<1> QED
  BY ZenonT(60), <1>1, <1>2, <1>3, <1>4, <1>5, <1>6, <1>7, <1>8, <1>9, <1>10, <1>11,
     <1>12, <1>13, <1>14,
     <1>15, <1>16, <1>17, <1>18, <1>19, <1>20, <1>21, <1>22, <1>23
  DEF Next, Enqueue, Shutdown, Work, PushOverflow, PushOutside

\* A worker that falls asleep had settled and tried all the others.
LEMMA AsleepStep ==
  ASSUME TypeOK, ParkInv, SearchInv, [Next]_vars, NEW u \in Workers, pc'[u] = "asleep"
  PROVE  pc[u] = "asleep" \/ (Settled(u) /\ left[u] = {} /\ pc[u] # "steal")
<1> DEFINE Goal == pc[u] = "asleep" \/ (Settled(u) /\ left[u] = {} /\ pc[u] # "steal")
<1>t. /\ pc \in [Workers -> Places]
      /\ left \in [Workers -> SUBSET Workers]
      /\ parking \in [Workers -> BOOLEAN]
      /\ fresh \in [Workers -> BOOLEAN]
  BY Zenon DEF TypeOK
<1> USE <1>t DEF queueVars, parkVars, stopVars, stealVars, searchVars, At, Goto
<1>1. ASSUME NEW w \in Workers, NEW t \in Tasks, PushLocal(w, t)
      PROVE  Goal
  BY Zenon, <1>1 DEF Settled, PushLocal
<1>2. ASSUME NEW c \in Workers \cup Outsiders, NEW t \in Tasks, PushGlobal(c, t)
      PROVE  Goal
  BY <1>2 DEF Settled, PushGlobal
<1>3. ASSUME NEW c \in Workers \cup Outsiders, NEW b \in Batches, PushBatch(c, b)
      PROVE  Goal
  BY Zenon, <1>3 DEF Settled, PushBatch
<1>4. ASSUME StopRunning
      PROVE  Goal
  BY <1>4 DEF Settled, StopRunning
<1>5. ASSUME Stop
      PROVE  Goal
  BY <1>5 DEF Settled, Stop, NewEpoch
<1>6. ASSUME NotifyAll
      PROVE  Goal
  BY SMTT(30), <1>6 DEF Settled, NotifyAll, Asleep
<1>7. ASSUME NEW c \in Workers \cup Outsiders, NotifyOne(c)
      PROVE  Goal
  BY <1>7 DEF Settled, NotifyOne, Asleep
<1>8. ASSUME NEW w \in Workers, Pushed(w)
      PROVE  Goal
  BY Zenon, <1>8 DEF Settled, Pushed, SizeChecked, Onward
<1>9. ASSUME NEW w \in Workers, NotifyOneIdle(w)
      PROVE  Goal
  BY SMTT(30), <1>9 DEF Settled, NotifyOneIdle, Onward
<1>10. ASSUME NEW w \in Workers, Loop(w)
      PROVE  Goal
  BY <1>10 DEF Settled, Loop, BeginSearch
<1>11. ASSUME NEW w \in Workers, CheckGlobal(w)
      PROVE  Goal
  BY Zenon, <1>11 DEF Settled, CheckGlobal, TryPop, Got, Onward
<1>12. ASSUME NEW w \in Workers, Pop(w)
      PROVE  Goal
  BY Zenon, <1>12 DEF Settled, Pop, Got, Onward, TopChanges
<1>13. ASSUME NEW w \in Workers, Global(w)
      PROVE  Goal
  BY Zenon, <1>13 DEF Settled, Global, TryPop, Got, Onward
<1>14. ASSUME NEW w \in Workers, Choose(w)
      PROVE  Goal
  BY Zenon, <1>14 DEF Settled, Choose
<1>15. ASSUME NEW w \in Workers, Steal(w)
      PROVE  Goal
  BY Zenon, <1>15 DEF Settled, Steal, Got, TopChanges
<1>16. ASSUME NEW w \in Workers, Stolen(w)
      PROVE  Goal
  BY Zenon, <1>16 DEF Settled, Stolen, SizeChecked, Onward
<1>17. ASSUME NEW w \in Workers, PreparePark(w)
      PROVE  Goal
  BY Zenon, <1>17 DEF Settled, PreparePark, BeginSearch
<1>18. ASSUME NEW w \in Workers, CancelPark(w)
      PROVE  Goal
  BY Zenon, <1>18 DEF Settled, CancelPark, Unpark
<1>19. ASSUME NEW w \in Workers, Park(w)
      PROVE  Goal
  BY ZenonT(60), <1>19 DEF ParkInv, SearchInv, Settled, Park, Wait
<1>20. ASSUME NEW w \in Workers, WakeUp(w)
      PROVE  Goal
  BY ZenonT(60), <1>20 DEF ParkInv, SearchInv, Settled, WakeUp, Wait
<1>21. ASSUME NEW w \in Workers, Return(w)
      PROVE  Goal
  BY ZenonT(60), <1>21 DEF Settled, Return
<1>22. ASSUME NEW w \in Workers, SpuriousWakeup(w)
      PROVE  Goal
  BY <1>22 DEF Settled, SpuriousWakeup
<1>23. CASE UNCHANGED vars
  BY Zenon, <1>23 DEF Settled, vars
<1> QED
  BY Zenon, <1>1, <1>2, <1>3, <1>4, <1>5, <1>6, <1>7, <1>8, <1>9, <1>10, <1>11, <1>12,
     <1>13, <1>14,
     <1>15, <1>16, <1>17, <1>18, <1>19, <1>20, <1>21, <1>22, <1>23
  DEF Next, Enqueue, Shutdown, Work, PushOverflow, PushOutside

\* A call of notify_one that is owed stays owed until it is made.
LEMMA WakingStep ==
  ASSUME TypeOK, ParkInv, [Next]_vars, Waking
  PROVE  Waking' \/ \E c \in Workers \cup Outsiders : NotifyOne(c)
<1> DEFINE Goal == Waking' \/ \E c \in Workers \cup Outsiders : NotifyOne(c)
<1>t. /\ wakes \in [Workers \cup Outsiders -> Nat]
      /\ pc \in [Workers -> Places]
      /\ idle \in Nat
  BY DEF TypeOK
<1> USE <1>t DEF queueVars, parkVars, stopVars, stealVars, searchVars, At, Goto
<1>1. ASSUME NEW w \in Workers, NEW t \in Tasks, PushLocal(w, t)
      PROVE  Goal
  BY Zenon, <1>1 DEF Waking, PushLocal
<1>2. ASSUME NEW c \in Workers \cup Outsiders, NEW t \in Tasks, PushGlobal(c, t)
      PROVE  Goal
  <2>1. idle = Cardinality(Parked) /\ Wake(c, 1)
    BY ZenonT(60), <1>2 DEF ParkInv, PushGlobal
  <2>2. \A d \in Workers \cup Outsiders :
          wakes[d] > 0 => \E e \in Workers \cup Outsiders : wakes'[e] > 0
    BY <2>1, WakeEffect
  <2> QED
    BY Zenon, <2>2 DEF Waking
<1>3. ASSUME NEW c \in Workers \cup Outsiders, NEW b \in Batches, PushBatch(c, b)
      PROVE  Goal
  <2>1. idle = Cardinality(Parked) /\ Wake(c, Len(b))
    BY Zenon, <1>3 DEF ParkInv, PushBatch
  <2>2. \A d \in Workers \cup Outsiders :
          wakes[d] > 0 => \E e \in Workers \cup Outsiders : wakes'[e] > 0
    BY Zenon, <2>1, WakeEffect, BatchType
  <2> QED
    BY Zenon, <2>2 DEF Waking
<1>4. ASSUME StopRunning
      PROVE  Goal
  BY SMTT(30), <1>4 DEF Waking, StopRunning
<1>5. ASSUME Stop
      PROVE  Goal
  BY SMTT(30), <1>5 DEF Waking, Stop, NewEpoch
<1>6. ASSUME NotifyAll
      PROVE  Goal
  BY ZenonT(60), <1>6 DEF Waking, NotifyAll, Asleep
<1>7. ASSUME NEW c \in Workers \cup Outsiders, NotifyOne(c)
      PROVE  Goal
  BY Zenon, <1>7
<1>8. ASSUME NEW w \in Workers, Pushed(w)
      PROVE  Goal
  BY <1>8 DEF Waking, Pushed, SizeChecked, Onward
<1>9. ASSUME NEW w \in Workers, NotifyOneIdle(w)
      PROVE  Goal
  <2>1. idle = Cardinality(Parked) /\ Wake(w, 1)
    BY Zenon, <1>9 DEF ParkInv, NotifyOneIdle
  <2>2. \A d \in Workers \cup Outsiders :
          wakes[d] > 0 => \E e \in Workers \cup Outsiders : wakes'[e] > 0
    BY <2>1, w \in Workers \cup Outsiders, WakeEffect
  <2> QED
    BY Zenon, <2>2 DEF Waking
<1>10. ASSUME NEW w \in Workers, Loop(w)
      PROVE  Goal
  BY Zenon, <1>10 DEF Waking, Loop, BeginSearch
<1>11. ASSUME NEW w \in Workers, CheckGlobal(w)
      PROVE  Goal
  BY Zenon, <1>11 DEF Waking, CheckGlobal, TryPop, Got, Onward
<1>12. ASSUME NEW w \in Workers, Pop(w)
      PROVE  Goal
  BY Zenon, <1>12 DEF Waking, Pop, Got, Onward, TopChanges
<1>13. ASSUME NEW w \in Workers, Global(w)
      PROVE  Goal
  BY Zenon, <1>13 DEF Waking, Global, TryPop, Got, Onward
<1>14. ASSUME NEW w \in Workers, Choose(w)
      PROVE  Goal
  BY Zenon, <1>14 DEF Waking, Choose
<1>15. ASSUME NEW w \in Workers, Steal(w)
      PROVE  Goal
  BY Zenon, <1>15 DEF Waking, Steal, Got, TopChanges
<1>16. ASSUME NEW w \in Workers, Stolen(w)
      PROVE  Goal
  BY Zenon, <1>16 DEF Waking, Stolen, SizeChecked, Onward
<1>17. ASSUME NEW w \in Workers, PreparePark(w)
      PROVE  Goal
  BY Zenon, <1>17 DEF Waking, PreparePark, BeginSearch
<1>18. ASSUME NEW w \in Workers, CancelPark(w)
      PROVE  Goal
  BY Zenon, <1>18 DEF Waking, CancelPark, Unpark
<1>19. ASSUME NEW w \in Workers, Park(w)
      PROVE  Goal
  BY Zenon, <1>19 DEF Waking, Park, Wait, Unpark
<1>20. ASSUME NEW w \in Workers, WakeUp(w)
      PROVE  Goal
  BY Zenon, <1>20 DEF Waking, WakeUp, Wait, Unpark
<1>21. ASSUME NEW w \in Workers, Return(w)
      PROVE  Goal
  BY Zenon, <1>21 DEF Waking, Return
<1>22. ASSUME NEW w \in Workers, SpuriousWakeup(w)
      PROVE  Goal
  BY <1>22 DEF Waking, SpuriousWakeup
<1>23. CASE UNCHANGED vars
  BY Zenon, <1>23 DEF Waking, vars
<1> QED
  BY ZenonT(60), <1>1, <1>2, <1>3, <1>4, <1>5, <1>6, <1>7, <1>8, <1>9, <1>10, <1>11,
     <1>12, <1>13, <1>14,
     <1>15, <1>16, <1>17, <1>18, <1>19, <1>20, <1>21, <1>22, <1>23
  DEF Next, Enqueue, Shutdown, Work, PushOverflow, PushOutside

\* A section that wakes idle workers leaves nobody settled and nobody asleep
\* without a notify_one on its way.
LEMMA WakeSettles ==
  ASSUME TypeOK, ParkInv, NEW c \in Workers \cup Outsiders, NEW n \in Nat \ {0},
         Wake(c, n), UNCHANGED parking
  PROVE  /\ \A u \in Workers : ~Settled(u)'
         /\ Waking' \/ Asleep = {}
<1>1. idle = Cardinality(Parked)
  BY Zenon DEF ParkInv
<1>2. CASE Parked = {} /\ UNCHANGED <<fresh, wakes>>
  BY Zenon, <1>2 DEF Parked, ParkInv, Settled, Asleep
<1>3. CASE (\A w \in Workers : ~fresh'[w]) /\ wakes'[c] > 0
  BY Zenon, <1>3 DEF Settled, Waking
<1> QED
  BY Zenon, <1>1, <1>2, <1>3, WakeEffect

\* Only a push makes the global queue non-empty.
LEMMA GlobalGrows ==
  ASSUME TypeOK, [Next]_vars, global = <<>>, global' # <<>>
  PROVE  \E c \in Workers \cup Outsiders :
           (\E t \in Tasks : PushGlobal(c, t)) \/ (\E b \in Batches : PushBatch(c, b))
<1> DEFINE Goal == \E c \in Workers \cup Outsiders :
                     (\E t \in Tasks : PushGlobal(c, t)) \/ (\E b \in Batches : PushBatch(c, b))
<1> USE DEF queueVars
<1>1. ASSUME NEW w \in Workers, NEW t \in Tasks, PushLocal(w, t)
      PROVE  Goal
  BY Zenon, <1>1 DEF PushLocal
<1>2. ASSUME NEW c \in Workers \cup Outsiders, NEW t \in Tasks, PushGlobal(c, t)
      PROVE  Goal
  BY Zenon, <1>2
<1>3. ASSUME NEW c \in Workers \cup Outsiders, NEW b \in Batches, PushBatch(c, b)
      PROVE  Goal
  BY Zenon, <1>3
<1>4. ASSUME StopRunning
      PROVE  Goal
  BY Zenon, <1>4 DEF StopRunning
<1>5. ASSUME Stop
      PROVE  Goal
  BY Zenon, <1>5 DEF Stop, NewEpoch
<1>6. ASSUME NotifyAll
      PROVE  Goal
  BY Zenon, <1>6 DEF NotifyAll, Asleep
<1>7. ASSUME NEW c \in Workers \cup Outsiders, NotifyOne(c)
      PROVE  Goal
  BY <1>7 DEF NotifyOne, Asleep
<1>8. ASSUME NEW w \in Workers, Pushed(w)
      PROVE  Goal
  BY <1>8 DEF Pushed, SizeChecked, Onward
<1>9. ASSUME NEW w \in Workers, NotifyOneIdle(w)
      PROVE  Goal
  BY <1>9 DEF NotifyOneIdle, Onward
<1>10. ASSUME NEW w \in Workers, Loop(w)
      PROVE  Goal
  BY ZenonT(60), <1>10 DEF Loop, BeginSearch
<1>11. ASSUME NEW w \in Workers, CheckGlobal(w)
      PROVE  Goal
  BY Zenon, <1>11 DEF CheckGlobal, TryPop, Got, Onward
<1>12. ASSUME NEW w \in Workers, Pop(w)
      PROVE  Goal
  BY Zenon, <1>12 DEF Pop, Got, Onward, TopChanges
<1>13. ASSUME NEW w \in Workers, Global(w)
      PROVE  Goal
  BY Zenon, <1>13 DEF Global, TryPop, Got, Onward
<1>14. ASSUME NEW w \in Workers, Choose(w)
      PROVE  Goal
  BY Zenon, <1>14 DEF Choose
<1>15. ASSUME NEW w \in Workers, Steal(w)
      PROVE  Goal
  BY ZenonT(60), <1>15 DEF Steal, Got, TopChanges
<1>16. ASSUME NEW w \in Workers, Stolen(w)
      PROVE  Goal
  BY SMTT(30), <1>16 DEF Stolen, SizeChecked, Onward
<1>17. ASSUME NEW w \in Workers, PreparePark(w)
      PROVE  Goal
  BY Zenon, <1>17 DEF PreparePark, BeginSearch
<1>18. ASSUME NEW w \in Workers, CancelPark(w)
      PROVE  Goal
  BY Zenon, <1>18 DEF CancelPark, Unpark
<1>19. ASSUME NEW w \in Workers, Park(w)
      PROVE  Goal
  BY Zenon, <1>19 DEF Park, Wait, Unpark
<1>20. ASSUME NEW w \in Workers, WakeUp(w)
      PROVE  Goal
  BY Zenon, <1>20 DEF WakeUp, Wait, Unpark
<1>21. ASSUME NEW w \in Workers, Return(w)
      PROVE  Goal
  BY <1>21 DEF Return
<1>22. ASSUME NEW w \in Workers, SpuriousWakeup(w)
      PROVE  Goal
  BY Zenon, <1>22 DEF SpuriousWakeup
<1>23. CASE UNCHANGED vars
  BY Zenon, <1>23 DEF vars
<1> QED
  BY ZenonT(60), <1>1, <1>2, <1>3, <1>4, <1>5, <1>6, <1>7, <1>8, <1>9, <1>10, <1>11,
     <1>12, <1>13, <1>14,
     <1>15, <1>16, <1>17, <1>18, <1>19, <1>20, <1>21, <1>22, <1>23
  DEF Next, Enqueue, Shutdown, Work, PushOverflow, PushOutside

-----------------------------------------------------------------------------
(* The global queue *)

\* Every step keeps the workers from sleeping on the global queue.
LEMMA GlobalStep ==
  ASSUME TypeOK, ParkInv, SearchInv, GlobalInv, [Next]_vars
  PROVE  GlobalInv'
<1> SUFFICES ASSUME global' # <<>>
             PROVE  (\A u \in Workers : ~Settled(u)') /\ (Asleep' # Workers \/ Waking')
  BY Zenon DEF GlobalInv
<1>1. CASE global = <<>>
  <2>1. PICK c \in Workers \cup Outsiders :
          (\E t \in Tasks : PushGlobal(c, t)) \/ (\E b \in Batches : PushBatch(c, b))
    BY SMTT(30), <1>1, GlobalGrows
  <2>2. PICK n \in Nat \ {0} : Wake(c, n)
    <3>1. CASE \E t \in Tasks : PushGlobal(c, t)
      <4>1. Wake(c, 1)
        BY <3>1 DEF PushGlobal
      <4> QED
        BY <4>1
    <3>2. CASE \E b \in Batches : PushBatch(c, b)
      <4>1. PICK b \in Batches : Wake(c, Len(b))
        BY Zenon, <3>2 DEF PushBatch
      <4> QED
        BY Zenon, <4>1, BatchType
    <3> QED
      BY SMTT(30), <2>1, <3>1, <3>2
  <2>3. UNCHANGED <<parking, pc>>
    BY Zenon, <2>1 DEF PushGlobal, PushBatch
  <2>4. (\A u \in Workers : ~Settled(u)') /\ (Waking' \/ Asleep = {})
    BY SMTT(30), <2>2, <2>3, WakeSettles
  <2> QED
    BY ZenonT(60), <2>3, <2>4, WorkersAssumption DEF Asleep
<1>2. CASE global # <<>>
  <2>1. \A u \in Workers : ~Settled(u)
    BY Zenon, <1>2 DEF GlobalInv
  <2>2. \A u \in Workers : ~Settled(u)'
    BY Zenon, <2>1, SettledStep
  <2>3. \A u \in Workers : pc'[u] = "asleep" => pc[u] = "asleep"
    BY Zenon, <2>1, AsleepStep
  <2>4. CASE Asleep # Workers
    BY SMTT(30), <2>2, <2>3, <2>4 DEF Asleep
  <2>5. CASE Asleep = Workers
    <3>1. Waking
      BY Zenon, <1>2, <2>5 DEF GlobalInv
    <3>2. ASSUME NEW c \in Workers \cup Outsiders, NotifyOne(c)
          PROVE  Asleep' # Workers
      BY ZenonT(60), <2>5, <3>2, WorkersAssumption DEF NotifyOne, Asleep, Goto, TypeOK
    <3> QED
      BY SMTT(30), <2>2, <3>1, <3>2, WakingStep
  <2> QED
    BY SMTT(30), <2>4, <2>5
<1> QED
  BY Zenon, <1>1, <1>2

-----------------------------------------------------------------------------
(* The backlog of a local queue *)

\* A local queue grows only by a push of its owner, who then looks at its size.
LEMMA LengthStep ==
  ASSUME TypeOK, SearchInv, [Next]_vars, NEW x \in Workers, Len(local'[x]) > 1
  PROVE  Len(local[x]) > 1 \/ pc'[x] = "pushed"
<1> DEFINE Goal == Len(local[x]) > 1 \/ pc'[x] = "pushed"
<1>t. /\ pc \in [Workers -> Places]
      /\ local \in [Workers -> Seq(Tasks)]
      /\ victim \in [Workers -> Workers]
      /\ beaten \in [Workers -> BOOLEAN]
  BY Zenon DEF TypeOK
<1> USE <1>t DEF queueVars, parkVars, stopVars, stealVars, searchVars, At, Goto
<1>1. ASSUME NEW w \in Workers, NEW t \in Tasks, PushLocal(w, t)
      PROVE  Goal
  <2>1. x # w => local'[x] = local[x]
    BY Zenon, <1>1 DEF PushLocal
  <2>2. pc'[w] = "pushed"
    BY Zenon, <1>1 DEF PushLocal
  <2> QED
    BY Zenon, <2>1, <2>2
<1>2. ASSUME NEW c \in Workers \cup Outsiders, NEW t \in Tasks, PushGlobal(c, t)
      PROVE  Goal
  BY Zenon, <1>2 DEF PushGlobal
<1>3. ASSUME NEW c \in Workers \cup Outsiders, NEW b \in Batches, PushBatch(c, b)
      PROVE  Goal
  BY Zenon, <1>3 DEF PushBatch
<1>4. ASSUME StopRunning
      PROVE  Goal
  BY <1>4 DEF StopRunning
<1>5. ASSUME Stop
      PROVE  Goal
  BY Zenon, <1>5 DEF Stop, NewEpoch
<1>6. ASSUME NotifyAll
      PROVE  Goal
  BY Zenon, <1>6 DEF NotifyAll, Asleep
<1>7. ASSUME NEW c \in Workers \cup Outsiders, NotifyOne(c)
      PROVE  Goal
  BY Zenon, <1>7 DEF NotifyOne, Asleep
<1>8. ASSUME NEW w \in Workers, Pushed(w)
      PROVE  Goal
  BY Zenon, <1>8 DEF Pushed, SizeChecked, Onward
<1>9. ASSUME NEW w \in Workers, NotifyOneIdle(w)
      PROVE  Goal
  BY Zenon, <1>9 DEF NotifyOneIdle, Onward
<1>10. ASSUME NEW w \in Workers, Loop(w)
      PROVE  Goal
  BY Zenon, <1>10 DEF Loop, BeginSearch
<1>11. ASSUME NEW w \in Workers, CheckGlobal(w)
      PROVE  Goal
  BY ZenonT(60), <1>11 DEF CheckGlobal, TryPop, Got, Onward
<1>12. ASSUME NEW w \in Workers, Pop(w)
      PROVE  Goal
  <2>1. CASE x # w
    BY ZenonT(60), <1>12, <2>1 DEF Pop
  <2>2. CASE x = w
    <3>1. local[w] \in Seq(Tasks) /\ local[w] # <<>>
      BY Zenon, <1>12 DEF Pop
    <3>2. Len(local[w]) \in Nat /\ Len(local'[w]) = Len(local[w]) - 1
      BY ZenonT(60), <1>12, <3>1, PoppedLength DEF Pop
    <3> QED
      BY SMTT(30), <2>2, <3>2
  <2> QED
    BY Zenon, <2>1, <2>2
<1>13. ASSUME NEW w \in Workers, Global(w)
      PROVE  Goal
  BY Zenon, <1>13 DEF Global, TryPop, Got, Onward
<1>14. ASSUME NEW w \in Workers, Choose(w)
      PROVE  Goal
  BY Zenon, <1>14 DEF Choose
<1>15. ASSUME NEW w \in Workers, Steal(w)
      PROVE  Goal
  <2>1. local' = local \/ (~beaten[w] /\ local' = [local EXCEPT ![victim[w]] = Tail(@)])
    BY Zenon, <1>15 DEF Steal
  <2>2. CASE local'[x] = local[x]
    BY Zenon, <2>2
  <2>3. CASE ~beaten[w] /\ victim[w] = x /\ local'[x] = Tail(local[x])
    <3>1. local[x] \in Seq(Tasks) /\ local[x] # <<>>
      BY ZenonT(60), <1>15, <2>3 DEF Steal, SearchInv
    <3>2. Len(local[x]) \in Nat /\ Len(local'[x]) = Len(local[x]) - 1
      BY SMTT(30), <2>3, <3>1, TailLength
    <3> QED
      BY <3>2
  <2> QED
    BY Zenon, <2>1, <2>2, <2>3
<1>16. ASSUME NEW w \in Workers, Stolen(w)
      PROVE  Goal
  BY Zenon, <1>16 DEF Stolen, SizeChecked, Onward
<1>17. ASSUME NEW w \in Workers, PreparePark(w)
      PROVE  Goal
  BY Zenon, <1>17 DEF PreparePark, BeginSearch
<1>18. ASSUME NEW w \in Workers, CancelPark(w)
      PROVE  Goal
  BY Zenon, <1>18 DEF CancelPark, Unpark
<1>19. ASSUME NEW w \in Workers, Park(w)
      PROVE  Goal
  BY Zenon, <1>19 DEF Park, Wait, Unpark
<1>20. ASSUME NEW w \in Workers, WakeUp(w)
      PROVE  Goal
  BY ZenonT(60), <1>20 DEF WakeUp, Wait, Unpark
<1>21. ASSUME NEW w \in Workers, Return(w)
      PROVE  Goal
  BY Zenon, <1>21 DEF Return
<1>22. ASSUME NEW w \in Workers, SpuriousWakeup(w)
      PROVE  Goal
  BY Zenon, <1>22 DEF SpuriousWakeup
<1>23. CASE UNCHANGED vars
  BY Zenon, <1>23 DEF vars
<1> QED
  BY ZenonT(60), <1>1, <1>2, <1>3, <1>4, <1>5, <1>6, <1>7, <1>8, <1>9, <1>10, <1>11,
     <1>12, <1>13, <1>14,
     <1>15, <1>16, <1>17, <1>18, <1>19, <1>20, <1>21, <1>22, <1>23
  DEF Next, Enqueue, Shutdown, Work, PushOverflow, PushOutside

\* Somebody about to look at the size of a queue that stays long is still about
\* to look, or about to wake a worker, or wakes one.
LEMMA NoticingStep ==
  ASSUME TypeOK, [Next]_vars, NEW x \in Workers, Noticing(x), Len(local'[x]) > 1
  PROVE  Noticing(x)' \/ \E w \in Workers : NotifyOneIdle(w)
<1> DEFINE Looks(u) == \/ pc[u] = "notify"
                       \/ pc[u] = "pushed" /\ u = x
                       \/ pc[u] = "stolen" /\ victim[u] = x
<1>0. PICK u \in Workers : Looks(u)
  BY Zenon DEF Noticing
<1> SUFFICES Looks(u)' \/ \E w \in Workers : NotifyOneIdle(w)
  BY Zenon DEF Noticing
<1> DEFINE Goal == Looks(u)' \/ \E w \in Workers : NotifyOneIdle(w)
<1>t. /\ pc \in [Workers -> Places]
      /\ victim \in [Workers -> Workers]
  BY Zenon DEF TypeOK
<1> USE <1>t DEF queueVars, parkVars, stopVars, stealVars, searchVars, At, Goto
<1>1. ASSUME NEW w \in Workers, NEW t \in Tasks, PushLocal(w, t)
      PROVE  Goal
  BY Zenon, <1>1, <1>0 DEF PushLocal
<1>2. ASSUME NEW c \in Workers \cup Outsiders, NEW t \in Tasks, PushGlobal(c, t)
      PROVE  Goal
  BY ZenonT(60), <1>2, <1>0 DEF PushGlobal
<1>3. ASSUME NEW c \in Workers \cup Outsiders, NEW b \in Batches, PushBatch(c, b)
      PROVE  Goal
  BY Zenon, <1>3, <1>0 DEF PushBatch
<1>4. ASSUME StopRunning
      PROVE  Goal
  BY Zenon, <1>4, <1>0 DEF StopRunning
<1>5. ASSUME Stop
      PROVE  Goal
  BY Zenon, <1>5, <1>0 DEF Stop, NewEpoch
<1>6. ASSUME NotifyAll
      PROVE  Goal
  BY Zenon, <1>6, <1>0 DEF NotifyAll, Asleep
<1>7. ASSUME NEW c \in Workers \cup Outsiders, NotifyOne(c)
      PROVE  Goal
  BY ZenonT(60), <1>7, <1>0 DEF NotifyOne, Asleep
<1>8. ASSUME NEW w \in Workers, Pushed(w)
      PROVE  Goal
  BY Zenon, <1>8, <1>0 DEF Pushed, SizeChecked, Onward
<1>9. ASSUME NEW w \in Workers, NotifyOneIdle(w)
      PROVE  Goal
  BY Zenon, <1>9
<1>10. ASSUME NEW w \in Workers, Loop(w)
      PROVE  Goal
  BY Zenon, <1>10, <1>0 DEF Loop, BeginSearch
<1>11. ASSUME NEW w \in Workers, CheckGlobal(w)
      PROVE  Goal
  BY ZenonT(60), <1>11, <1>0 DEF CheckGlobal, TryPop, Got, Onward
<1>12. ASSUME NEW w \in Workers, Pop(w)
      PROVE  Goal
  BY Zenon, <1>12, <1>0 DEF Pop, Got, Onward, TopChanges
<1>13. ASSUME NEW w \in Workers, Global(w)
      PROVE  Goal
  BY Zenon, <1>13, <1>0 DEF Global, TryPop, Got, Onward
<1>14. ASSUME NEW w \in Workers, Choose(w)
      PROVE  Goal
  BY ZenonT(60), <1>14, <1>0 DEF Choose
<1>15. ASSUME NEW w \in Workers, Steal(w)
      PROVE  Goal
  BY Zenon, <1>15, <1>0 DEF Steal, Got, TopChanges
<1>16. ASSUME NEW w \in Workers, Stolen(w)
      PROVE  Goal
  BY ZenonT(60), <1>16, <1>0 DEF Stolen, SizeChecked, Onward
<1>17. ASSUME NEW w \in Workers, PreparePark(w)
      PROVE  Goal
  BY Zenon, <1>17, <1>0 DEF PreparePark, BeginSearch
<1>18. ASSUME NEW w \in Workers, CancelPark(w)
      PROVE  Goal
  BY ZenonT(60), <1>18, <1>0 DEF CancelPark, Unpark
<1>19. ASSUME NEW w \in Workers, Park(w)
      PROVE  Goal
  BY Zenon, <1>19, <1>0 DEF Park, Wait, Unpark
<1>20. ASSUME NEW w \in Workers, WakeUp(w)
      PROVE  Goal
  BY Zenon, <1>20, <1>0 DEF WakeUp, Wait, Unpark
<1>21. ASSUME NEW w \in Workers, Return(w)
      PROVE  Goal
  BY Zenon, <1>21, <1>0 DEF Return
<1>22. ASSUME NEW w \in Workers, SpuriousWakeup(w)
      PROVE  Goal
  <2>1. u # w /\ pc'[u] = pc[u] /\ victim' = victim
    BY ZenonT(60), <1>22, <1>0 DEF SpuriousWakeup
  <2> QED
    BY Zenon, <1>0, <2>1
<1>23. CASE UNCHANGED vars
  BY ZenonT(60), <1>0, <1>23 DEF vars
<1> QED
  BY ZenonT(60), <1>1, <1>2, <1>3, <1>4, <1>5, <1>6, <1>7, <1>8, <1>9, <1>10, <1>11,
     <1>12, <1>13, <1>14,
     <1>15, <1>16, <1>17, <1>18, <1>19, <1>20, <1>21, <1>22, <1>23
  DEF Next, Enqueue, Shutdown, Work, PushOverflow, PushOutside

\* A worker passes a long queue only when it loses a race to a thief, who then
\* looks at the size.
LEMMA PassedStep ==
  ASSUME TypeOK, ParkInv, SearchInv, [Next]_vars, NEW x \in Workers, NEW v \in Workers \ {x},
         Len(local'[x]) > 1, Passed(v, x)'
  PROVE  Passed(v, x) \/ Noticing(x)'
<1>0. Settled(v)
  <2>1. Settled(v)' /\ x \notin left'[v]
    BY Zenon DEF Passed
  <2> QED
    BY Zenon, <2>1, SettledStep
<1>00. local'[x] # <<>>
  <2>1. ~ (Len(<<>>) > 1)
    OBVIOUS
  <2>2. Len(local'[x]) > 1
    OBVIOUS
  <2> QED
    BY <2>1, <2>2, Zenon
<1> SUFFICES ASSUME Settled(v)', x \notin left'[v], pc'[v] = "steal" /\ victim'[v] = x => beaten'[v]
             PROVE  (x \notin left[v] /\ (pc[v] = "steal" /\ victim[v] = x => beaten[v])) \/ Noticing(x)'
  BY Zenon, <1>0 DEF Passed
<1> DEFINE Goal == (x \notin left[v] /\ (pc[v] = "steal" /\ victim[v] = x => beaten[v])) \/ Noticing(x)'
<1>t. /\ pc \in [Workers -> Places]
      /\ victim \in [Workers -> Workers]
      /\ left \in [Workers -> SUBSET Workers]
      /\ beaten \in [Workers -> BOOLEAN]
      /\ local \in [Workers -> Seq(Tasks)]
      /\ parking \in [Workers -> BOOLEAN]
  BY Zenon DEF TypeOK
<1> USE <1>t DEF queueVars, parkVars, stopVars, stealVars, searchVars, At, Goto
<1>1. ASSUME NEW w \in Workers, NEW t \in Tasks, PushLocal(w, t)
      PROVE  Goal
  BY ZenonT(60), <1>1, <1>0, <1>00 DEF Settled, PushLocal
<1>2. ASSUME NEW c \in Workers \cup Outsiders, NEW t \in Tasks, PushGlobal(c, t)
      PROVE  Goal
  BY ZenonT(60), <1>2, <1>0, <1>00 DEF Settled, PushGlobal
<1>3. ASSUME NEW c \in Workers \cup Outsiders, NEW b \in Batches, PushBatch(c, b)
      PROVE  Goal
  BY ZenonT(60), <1>3, <1>0, <1>00 DEF Settled, PushBatch
<1>4. ASSUME StopRunning
      PROVE  Goal
  BY Zenon, <1>4, <1>0, <1>00 DEF Settled, StopRunning
<1>5. ASSUME Stop
      PROVE  Goal
  BY Zenon, <1>5, <1>0, <1>00 DEF Settled, Stop, NewEpoch
<1>6. ASSUME NotifyAll
      PROVE  Goal
  BY Zenon, <1>6, <1>0, <1>00 DEF Settled, NotifyAll, Asleep
<1>7. ASSUME NEW c \in Workers \cup Outsiders, NotifyOne(c)
      PROVE  Goal
  BY Zenon, <1>7, <1>0, <1>00 DEF Settled, NotifyOne, Asleep
<1>8. ASSUME NEW w \in Workers, Pushed(w)
      PROVE  Goal
  BY ZenonT(60), <1>8, <1>0, <1>00 DEF Settled, Pushed, SizeChecked, Onward
<1>9. ASSUME NEW w \in Workers, NotifyOneIdle(w)
      PROVE  Goal
  BY Zenon, <1>9, <1>0, <1>00 DEF Settled, NotifyOneIdle, Onward
<1>10. ASSUME NEW w \in Workers, Loop(w)
      PROVE  Goal
  BY ZenonT(60), <1>10, <1>0, <1>00 DEF Settled, Loop, BeginSearch
<1>11. ASSUME NEW w \in Workers, CheckGlobal(w)
      PROVE  Goal
  BY ZenonT(60), <1>11, <1>0, <1>00 DEF Settled, CheckGlobal, TryPop, Got, Onward
<1>12. ASSUME NEW w \in Workers, Pop(w)
      PROVE  Goal
  <2>1. left' = left /\ victim' = victim
    BY Zenon, <1>12 DEF Pop
  <2>2. CASE w = v
    BY ZenonT(60), <1>12, <2>1, <2>2 DEF Pop
  <2>3. CASE w = x
    <3>1. local[w] \in Seq(Tasks) /\ local[w] # <<>> /\ pc'[v] = pc[v]
      BY Zenon, <1>12, <2>3 DEF Pop
    <3>2. Len(local[w]) \in Nat /\ Len(local'[w]) = Len(local[w]) - 1
      BY ZenonT(60), <1>12, <3>1, PoppedLength DEF Pop
    <3>3. Len(local[w]) # 1
      <4>1. \A n \in Nat : n - 1 > 1 => n # 1
        BY SMTT(30)
      <4>2. Len(local'[w]) > 1
        BY Zenon, <2>3
      <4> QED
        BY Zenon, <3>2, <4>1, <4>2
    <3>4. beaten' = beaten
      BY Zenon, <1>12, <3>3 DEF Pop
    <3> QED
      BY Zenon, <2>1, <3>1, <3>4
  <2>4. CASE w # v /\ w # x
    <3>1. beaten'[v] => beaten[v] \/ victim[v] = w
      BY Zenon, <1>12 DEF Pop, TopChanges
    <3>2. pc'[v] = pc[v]
      BY Zenon, <1>12, <2>4 DEF Pop
    <3> QED
      BY ZenonT(60), <2>1, <2>4, <3>1, <3>2
  <2> QED
    BY ZenonT(60), <2>2, <2>3, <2>4
<1>13. ASSUME NEW w \in Workers, Global(w)
      PROVE  Goal
  BY ZenonT(60), <1>13, <1>0, <1>00 DEF Settled, Global, TryPop, Got, Onward
<1>14. ASSUME NEW w \in Workers, Choose(w)
      PROVE  Goal
  <2>1. local' = local /\ beaten' = beaten
    BY Zenon, <1>14 DEF Choose
  <2>2. CASE w # v
    <3>1. pc'[v] = pc[v] /\ victim'[v] = victim[v] /\ left'[v] = left[v]
      BY ZenonT(60), <1>14, <2>2 DEF Choose
    <3> QED
      BY Zenon, <2>1, <3>1
  <2>3. CASE w = v
    <3>1. PICK y \in left[v] :
             /\ left' = [left EXCEPT ![v] = @ \ {y}]
             /\ IF local[y] = <<>> THEN UNCHANGED <<pc, victim>>
                                  ELSE victim' = [victim EXCEPT ![v] = y] /\ pc' = [pc EXCEPT ![v] = "steal"]
      BY Zenon, <1>14, <2>3 DEF Choose
    <3>2. pc[v] = "choose" /\ ~beaten[v]
      BY Zenon, <1>14, <2>3 DEF Choose, SearchInv
    <3>3. y # x
      <4>1. SUFFICES ASSUME y = x PROVE FALSE
        BY ZenonT(60)
      <4>2. victim'[v] = x /\ pc'[v] = "steal"
        BY ZenonT(60), <1>00, <2>1, <3>1, <4>1
      <4> QED
        BY ZenonT(60), <2>1, <3>2, <4>2
    <3> QED
      BY Zenon, <3>1, <3>2, <3>3
  <2> QED
    BY Zenon, <2>2, <2>3
<1>15. ASSUME NEW w \in Workers, Steal(w)
      PROVE  Goal
  <2>1. victim' = victim /\ pc[w] = "steal"
    BY Zenon, <1>15 DEF Steal
  <2>2. CASE beaten[w]
    <3>1. left' = left /\ (w # v => pc'[v] = pc[v] /\ beaten'[v] = beaten[v])
      BY Zenon, <1>15, <2>2 DEF Steal
    <3> QED
      BY Zenon, <2>1, <2>2, <3>1
  <2>3. CASE ~beaten[w] /\ w = v
    <3>1. pc'[v] = "stolen"
      BY Zenon, <1>15, <2>3 DEF Steal
    <3> QED
      BY Zenon, <3>1 DEF Settled
  <2>4. CASE ~beaten[w] /\ w # v
    <3>1. left'[v] = left[v] /\ pc'[v] = pc[v] /\ pc'[w] = "stolen"
      BY Zenon, <1>15, <2>4 DEF Steal
    <3>2. CASE victim[w] = x
      BY Zenon, <2>1, <3>1, <3>2 DEF Noticing
    <3>3. CASE victim[w] # x
      <4>1. beaten'[v] => beaten[v] \/ victim[v] = victim[w]
        BY ZenonT(60), <1>15, <2>4 DEF Steal, TopChanges
      <4> QED
        BY Zenon, <2>1, <3>1, <3>3, <4>1
    <3> QED
      BY Zenon, <3>2, <3>3
  <2> QED
    BY Zenon, <2>2, <2>3, <2>4
<1>16. ASSUME NEW w \in Workers, Stolen(w)
      PROVE  Goal
  BY Zenon, <1>16, <1>0, <1>00 DEF Settled, Stolen, SizeChecked, Onward
<1>17. ASSUME NEW w \in Workers, PreparePark(w)
      PROVE  Goal
  BY ZenonT(60), <1>17, <1>0, <1>00 DEF Settled, PreparePark, BeginSearch
<1>18. ASSUME NEW w \in Workers, CancelPark(w)
      PROVE  Goal
  BY Zenon, <1>18, <1>0, <1>00 DEF Settled, CancelPark, Unpark
<1>19. ASSUME NEW w \in Workers, Park(w)
      PROVE  Goal
  BY Zenon, <1>19, <1>0, <1>00 DEF Settled, Park, Wait, Unpark
<1>20. ASSUME NEW w \in Workers, WakeUp(w)
      PROVE  Goal
  BY Zenon, <1>20, <1>0, <1>00 DEF Settled, WakeUp, Wait, Unpark
<1>21. ASSUME NEW w \in Workers, Return(w)
      PROVE  Goal
  BY Zenon, <1>21, <1>0, <1>00 DEF Settled, Return
<1>22. ASSUME NEW w \in Workers, SpuriousWakeup(w)
      PROVE  Goal
  BY Zenon, <1>22, <1>0, <1>00 DEF Settled, SpuriousWakeup
<1>23. CASE UNCHANGED vars
  BY Zenon, <1>23 DEF Settled, vars
<1> QED
  BY ZenonT(60), <1>1, <1>2, <1>3, <1>4, <1>5, <1>6, <1>7, <1>8, <1>9, <1>10, <1>11,
     <1>12, <1>13, <1>14,
     <1>15, <1>16, <1>17, <1>18, <1>19, <1>20, <1>21, <1>22, <1>23
  DEF Next, Enqueue, Shutdown, Work, PushOverflow, PushOutside

\* Every step keeps a backlog noticed.
LEMMA BacklogStep ==
  ASSUME TypeOK, ParkInv, SearchInv, BacklogInv, [Next]_vars
  PROVE  BacklogInv'
<1> SUFFICES ASSUME NEW x \in Workers, Len(local'[x]) > 1, ~Noticing(x)'
             PROVE  /\ \A v \in Workers \ {x} : ~Passed(v, x)'
                    /\ Workers \ {x} \subseteq Asleep' /\ Workers # {x} => Waking'
  BY Zenon DEF BacklogInv
<1>1. CASE \E w \in Workers : NotifyOneIdle(w)
  <2>1. PICK w \in Workers : NotifyOneIdle(w)
    BY SMTT(30), <1>1
  <2>2. w \in Workers \cup Outsiders /\ 1 \in Nat \ {0} /\ Wake(w, 1) /\ UNCHANGED parking
    BY <2>1 DEF NotifyOneIdle
  <2>3. (\A u \in Workers : ~Settled(u)') /\ (Waking' \/ Asleep = {})
    BY ZenonT(60), <2>2, WakeSettles
  <2>4. Asleep' = Asleep
    BY ZenonT(60), <2>1 DEF NotifyOneIdle, At, Goto, Onward, Asleep, TypeOK
  <2> QED
    BY ZenonT(60), <2>3, <2>4 DEF Passed
<1>2. CASE ~\E w \in Workers : NotifyOneIdle(w)
  <2>1. Len(local[x]) > 1
    BY Zenon, LengthStep DEF Noticing
  <2>2. ~Noticing(x)
    BY Zenon, <1>2, NoticingStep
  <2>3. \A v \in Workers \ {x} : ~Passed(v, x)
    BY ZenonT(60), <2>1, <2>2 DEF BacklogInv
  <2>4. \A v \in Workers \ {x} : ~Passed(v, x)'
    BY ZenonT(60), <2>3, PassedStep
  <2>5. ASSUME Workers \ {x} \subseteq Asleep', Workers # {x}
        PROVE  Waking'
    <3>1. \A v \in Workers \ {x} : pc'[v] = "asleep"
      BY Zenon, <2>5 DEF Asleep
    <3>2. \A v \in Workers \ {x} : pc[v] = "asleep"
      BY Zenon, <2>3, <3>1, AsleepStep DEF Passed
    <3>3. Waking
      BY Zenon, <2>1, <2>2, <2>5, <3>2 DEF BacklogInv, Asleep
    <3>4. pc[x] # "asleep"
      <4>1. Len(<<>>) = 0
        OBVIOUS
      <4> QED
        BY SMTT(30), <2>1, <4>1 DEF SearchInv
    <3>5. ASSUME NEW c \in Workers \cup Outsiders, NotifyOne(c)
          PROVE  FALSE
      <4>1. Asleep # {}
        BY Zenon, <2>5, <3>2 DEF Asleep
      <4>2. PICK y \in Asleep : Goto(y, "woken")
        BY Zenon, <3>5, <4>1 DEF NotifyOne
      <4>3. y \in Workers \ {x} /\ pc'[y] = "woken"
        BY Zenon, <3>4, <4>2 DEF Asleep, Goto, TypeOK
      <4> QED
        BY Zenon, <3>1, <4>3
    <3> QED
      BY SMTT(30), <3>3, <3>5, WakingStep
  <2> QED
    BY Zenon, <2>4, <2>5
<1> QED
  BY Zenon, <1>1, <1>2

-----------------------------------------------------------------------------
(* The theorems about wakeups *)

\* The two invariants hold when the constructor returns.
LEMMA WakeInit == Init => GlobalInv /\ BacklogInv
<1> SUFFICES ASSUME Init PROVE GlobalInv /\ BacklogInv
  OBVIOUS
<1>1. GlobalInv
  BY Zenon DEF Init, GlobalInv
<1>2. BacklogInv
  <2>1. \A w \in Workers : Len(local[w]) = 0
    BY Zenon DEF Init
  <2> QED
    BY <2>1 DEF BacklogInv
<1> QED
  BY SMTT(30), <1>1, <1>2

\* And every step keeps them.
LEMMA WakeInvariance == Spec => [](GlobalInv /\ BacklogInv)
<1>1. IndInv /\ GlobalInv /\ BacklogInv /\ [Next]_vars => (GlobalInv /\ BacklogInv)'
  BY SMTT(30), GlobalStep, BacklogStep DEF IndInv
<1> QED
  BY <1>1, WakeInit, Invariance, PTL DEF Spec

\* No wakeup is lost: no worker goes to sleep on a task in the global queue, and
\* they never all sleep on one without a notify_one on its way (push,
\* push_batch, prepare_park, park).
THEOREM WakeupsKept == Spec => []NoSleepOnGlobal
<1>1. GlobalInv => NoSleepOnGlobal
  BY DEF GlobalInv, NoSleepOnGlobal
<1> QED
  BY <1>1, WakeInvariance, PTL

\* A backlog in a local queue is never passed by for good, not even after a lost
\* race that the thief does not retry (Enqueue, the steal round of try_get_task).
THEOREM BacklogsKept == Spec => []BacklogNoticed
<1>1. BacklogInv => BacklogNoticed
  BY DEF BacklogInv, BacklogNoticed
<1> QED
  BY <1>1, WakeInvariance, PTL

-----------------------------------------------------------------------------
(* Handles in the queues *)

Has(s, t) == \E i \in DOMAIN s : s[i] = t
Distinct(s) == \A i, j \in DOMAIN s : s[i] = s[j] => i = j

\* No queue holds a handle twice, and none is longer than its slots.
OnceInv ==
  /\ Distinct(global)
  /\ \A w \in Workers : Distinct(local[w]) /\ Len(local[w]) <= Slots

\* No two queues hold one handle.
ApartInv ==
  \A t \in Tasks :
    /\ Has(global, t) => \A w \in Workers : ~Has(local[w], t)
    /\ \A v, w \in Workers : Has(local[v], t) /\ Has(local[w], t) => v = w

\* The handles in the queues are those enqueued and not obtained since.
OwedInv ==
  \A t \in Tasks : t \in owed <=> Has(global, t) \/ \E w \in Workers : Has(local[w], t)

\* A handle that a worker runs is in no queue, and no other worker runs it.
HeldInv ==
  \A w \in Workers :
    /\ task[w] \notin owed
    /\ \A v \in Workers : task[v] = task[w] /\ task[w] # Null => v = w

QueuedInv == OnceInv /\ ApartInv /\ OwedInv /\ HeldInv

\* What a push adds to a queue.
LEMMA AppendHas ==
  ASSUME NEW S, NEW s \in Seq(S), NEW e \in S
  PROVE  /\ \A t : Has(Append(s, e), t) <=> Has(s, t) \/ t = e
         /\ Distinct(s) /\ ~Has(s, e) => Distinct(Append(s, e))
<1>1. /\ DOMAIN s = 1 .. Len(s) /\ DOMAIN Append(s, e) = 1 .. Len(s) + 1 /\ Len(s) \in Nat
      /\ \A i \in 1 .. Len(s) : Append(s, e)[i] = s[i]
      /\ Append(s, e)[Len(s) + 1] = e
  BY SMTT(30)
<1>2. /\ \A i \in 1 .. Len(s) + 1 : i \in 1 .. Len(s) \/ i = Len(s) + 1
      /\ \A i \in 1 .. Len(s) : i \in 1 .. Len(s) + 1
      /\ Len(s) + 1 \in 1 .. Len(s) + 1
  BY <1>1
<1> QED BY ZenonT(60), <1>1, <1>2 DEF Has, Distinct

\* What push_batch() adds to a queue.
LEMMA ConcatHas ==
  ASSUME NEW S, NEW s \in Seq(S), NEW b \in Seq(S)
  PROVE  /\ \A t : Has(s \o b, t) <=> Has(s, t) \/ Has(b, t)
         /\ Distinct(s) /\ Distinct(b) /\ (\A t : ~(Has(s, t) /\ Has(b, t))) => Distinct(s \o b)
<1> DEFINE m == Len(s)
           n == Len(b)
           c == s \o b
<1>0. \A i \in 1 .. m + n : c[i] = IF i <= m THEN s[i] ELSE b[i - m]
  BY Zenon, ConcatProperties
<1>1. /\ DOMAIN s = 1 .. m /\ DOMAIN b = 1 .. n /\ DOMAIN c = 1 .. m + n
      /\ m \in Nat /\ n \in Nat
  BY SMTT(30), ConcatProperties
<1> HIDE DEF m, n, c
<1>2. /\ \A i \in 1 .. m : i \in 1 .. m + n /\ i <= m
      /\ \A j \in 1 .. n : m + j \in 1 .. m + n /\ ~(m + j <= m) /\ (m + j) - m = j
      /\ \A i \in 1 .. m + n : i \in 1 .. m \/ (i - m \in 1 .. n /\ i = m + (i - m))
  BY <1>1
<1>3. /\ \A i \in 1 .. m : c[i] = s[i]
      /\ \A j \in 1 .. n : c[m + j] = b[j]
  BY ZenonT(60), <1>0, <1>2
<1>4. \A i \in 1 .. m + n : i \in 1 .. m \/ \E j \in 1 .. n : i = m + j
  BY Zenon, <1>2
<1>5. \A t : Has(c, t) <=> Has(s, t) \/ Has(b, t)
  <2>1. ASSUME NEW t, Has(c, t) PROVE Has(s, t) \/ Has(b, t)
    <3>1. PICK i \in 1 .. m + n : c[i] = t
      BY ZenonT(60), <1>1, <2>1 DEF Has
    <3> QED BY ZenonT(60), <1>1, <1>3, <1>4, <3>1 DEF Has
  <2>2. ASSUME NEW t, Has(s, t) PROVE Has(c, t)
    BY Zenon, <1>1, <1>2, <1>3, <2>2 DEF Has
  <2>3. ASSUME NEW t, Has(b, t) PROVE Has(c, t)
    <3>1. PICK j \in 1 .. n : b[j] = t
      BY Zenon, <1>1, <2>3 DEF Has
    <3>2. m + j \in DOMAIN c /\ c[m + j] = t
      BY Zenon, <1>1, <1>2, <1>3, <3>1
    <3> QED BY Zenon, <3>2 DEF Has
  <2> QED BY Zenon, <2>1, <2>2, <2>3
<1>6. ASSUME Distinct(s), Distinct(b), \A t : ~(Has(s, t) /\ Has(b, t)) PROVE Distinct(c)
  <2>1. \A i \in 1 .. m, j \in 1 .. n : s[i] # b[j]
    BY Zenon, <1>1, <1>6 DEF Has
  <2> SUFFICES ASSUME NEW i \in 1 .. m + n, NEW j \in 1 .. m + n, c[i] = c[j] PROVE i = j
    BY Zenon, <1>1 DEF Distinct
  <2>2. CASE i \in 1 .. m /\ j \in 1 .. m
    BY Zenon, <1>1, <1>3, <1>6, <2>2 DEF Distinct
  <2>3. ASSUME NEW k \in 1 .. n, NEW l \in 1 .. n, i = m + k, j = m + l PROVE i = j
    <3>1. b[k] = b[l]
      BY Zenon, <1>3, <2>3
    <3>2. k = l
      BY Zenon, <1>1, <1>6, <3>1 DEF Distinct
    <3> QED BY Zenon, <2>3, <3>2
  <2>4. ASSUME NEW k \in 1 .. m, NEW l \in 1 .. n PROVE c[k] # c[m + l]
    BY ZenonT(60), <1>3, <2>1
  <2> QED BY Zenon, <1>4, <2>2, <2>3, <2>4
<1> QED BY Zenon, <1>5, <1>6 DEF c

\* Taking the oldest handle of a queue.
LEMMA TailHas ==
  ASSUME NEW S, NEW s \in Seq(S), s # <<>>, Distinct(s)
  PROVE  /\ Has(s, Head(s)) /\ Head(s) \in S
         /\ \A t : Has(Tail(s), t) <=> Has(s, t) /\ t # Head(s)
         /\ Distinct(Tail(s)) /\ Len(Tail(s)) <= Len(s)
<1> DEFINE n == Len(s)
           r == Tail(s)
<1>1. /\ DOMAIN s = 1 .. n /\ n \in Nat \ {0} /\ Head(s) = s[1] /\ s[1] \in S
      /\ DOMAIN r = 1 .. n - 1 /\ Len(r) = n - 1
      /\ \A i \in 1 .. n - 1 : r[i] = s[i + 1]
  BY SMTT(30), EmptySeq, HeadTailProperties
<1> HIDE DEF n, r
<1>2. /\ 1 \in 1 .. n /\ n - 1 <= n
      /\ \A i \in 1 .. n - 1 : i + 1 \in 1 .. n /\ i + 1 # 1
      /\ \A i \in 1 .. n : i = 1 \/ (i - 1 \in 1 .. n - 1 /\ i = (i - 1) + 1)
      /\ \A i, j \in 1 .. n - 1 : i + 1 = j + 1 => i = j
  BY SMTT(30), <1>1
<1>3. \A i \in 1 .. n : i = 1 \/ \E j \in 1 .. n - 1 : i = j + 1
  BY Zenon, <1>2
<1>4. \A t : Has(r, t) <=> Has(s, t) /\ t # s[1]
  <2>1. ASSUME NEW t, Has(r, t) PROVE Has(s, t) /\ t # s[1]
    <3>1. PICK i \in 1 .. n - 1 : r[i] = t
      BY ZenonT(60), <1>1, <2>1 DEF Has
    <3>2. i + 1 \in DOMAIN s /\ 1 \in DOMAIN s /\ i + 1 # 1 /\ s[i + 1] = t
      BY Zenon, <1>1, <1>2, <3>1
    <3> QED BY Zenon, <3>2 DEF Has, Distinct
  <2>2. ASSUME NEW t, Has(s, t), t # s[1] PROVE Has(r, t)
    <3>1. PICK i \in 1 .. n : s[i] = t
      BY Zenon, <1>1, <2>2 DEF Has
    <3>2. PICK j \in 1 .. n - 1 : i = j + 1
      BY Zenon, <1>3, <2>2, <3>1
    <3> QED BY ZenonT(60), <1>1, <3>1, <3>2 DEF Has
  <2> QED BY ZenonT(60), <2>1, <2>2
<1>5. Distinct(r)
  <2> SUFFICES ASSUME NEW i \in 1 .. n - 1, NEW j \in 1 .. n - 1, r[i] = r[j] PROVE i = j
    BY Zenon, <1>1 DEF Distinct
  <2>1. s[i + 1] = s[j + 1] /\ i + 1 \in DOMAIN s /\ j + 1 \in DOMAIN s
    BY ZenonT(60), <1>1, <1>2
  <2>2. i + 1 = j + 1
    BY Zenon, <2>1 DEF Distinct
  <2> QED BY Zenon, <1>2, <2>2
<1>6. Has(s, Head(s))
  BY ZenonT(60), <1>1, <1>2 DEF Has
<1>7. Len(r) <= n
  BY Zenon, <1>1, <1>2
<1> QED BY ZenonT(60), <1>1, <1>4, <1>5, <1>6, <1>7 DEF n, r

\* Taking the youngest handle of a queue.
LEMMA FrontHas ==
  ASSUME NEW S, NEW s \in Seq(S), s # <<>>, Distinct(s)
  PROVE  LET last == s[Len(s)]
             rest == SubSeq(s, 1, Len(s) - 1)
         IN  /\ Has(s, last) /\ last \in S
             /\ \A t : Has(rest, t) <=> Has(s, t) /\ t # last
             /\ Distinct(rest) /\ Len(rest) <= Len(s)
<1> DEFINE n == Len(s)
           r == SubSeq(s, 1, n - 1)
<1>0. n \in Nat \ {0} /\ DOMAIN s = 1 .. n /\ (\A i \in 1 .. n : s[i] \in S)
  BY SMTT(30), EmptySeq, ElementOfSeq
<1>1. r \in Seq(S) /\ Len(r) = n - 1
  BY Zenon, PoppedLength
<1>2. DOMAIN r = 1 .. n - 1
  <2> HIDE DEF r
  <2> QED BY SMTT(30), <1>1
<1>3. \A i \in 1 .. n - 1 : r[i] = s[i]
  <2> HIDE DEF n
  <2>1. n - 1 \in Int /\ 1 \in Int /\ \A i \in 1 .. n - 1 : s[i] \in S
    BY SMTT(30), <1>0
  <2>2. \A i \in 1 .. (n - 1) - 1 + 1 : SubSeq(s, 1, n - 1)[i] = s[1 + i - 1]
    BY SMTT(30), <2>1, SubSeqProperties
  <2>3. \A i \in 1 .. n - 1 : i \in 1 .. (n - 1) - 1 + 1 /\ 1 + i - 1 = i
    BY SMTT(30), <1>0
  <2> QED BY Zenon, <2>2, <2>3
<1> HIDE DEF n, r
<1>4. /\ n \in 1 .. n /\ n - 1 <= n
      /\ \A i \in 1 .. n - 1 : i \in 1 .. n /\ i # n
      /\ \A i \in 1 .. n : i = n \/ i \in 1 .. n - 1
  BY SMTT(30), <1>0
<1>5. \A t : Has(r, t) <=> Has(s, t) /\ t # s[n]
  BY ZenonT(60), <1>0, <1>2, <1>3, <1>4 DEF Has, Distinct
<1>6. Distinct(r)
  BY ZenonT(60), <1>0, <1>2, <1>3, <1>4 DEF Distinct
<1>7. Has(s, s[n]) /\ s[n] \in S
  BY Zenon, <1>0, <1>4 DEF Has
<1>8. Len(r) <= n
  BY ZenonT(60), <1>1, <1>4
<1> QED BY Zenon, <1>5, <1>6, <1>7, <1>8 DEF n, r

\* A thread enqueues suspended coroutines: nobody runs them.
LEMMA HeldAfterPut ==
  ASSUME HeldInv, NEW S, \A t \in S : Suspended(t), owed' = owed \cup S, task' = task
  PROVE  HeldInv'
BY Zenon DEF HeldInv, Suspended

\* A push to the global queue.
LEMMA PutGlobal ==
  ASSUME TypeOK, QueuedInv, NEW S \in SUBSET Tasks, \A t \in S : Suspended(t),
         owed' = owed \cup S, UNCHANGED <<local, task>>, Distinct(global'),
         \A t \in Tasks : Has(global', t) <=> Has(global, t) \/ t \in S
  PROVE  QueuedInv'
<1>1. OnceInv'
  BY Zenon DEF QueuedInv, OnceInv
<1>2. \A t \in S : \A w \in Workers : ~Has(local[w], t)
  BY Zenon DEF QueuedInv, OwedInv, Suspended
<1>3. ApartInv'
  BY Zenon, <1>2 DEF QueuedInv, ApartInv
<1>4. OwedInv'
  BY Zenon DEF QueuedInv, OwedInv
<1>5. HeldInv'
  BY Zenon, HeldAfterPut DEF QueuedInv
<1> QED BY Zenon, <1>1, <1>3, <1>4, <1>5 DEF QueuedInv

\* A push to the worker's own queue.
LEMMA PutLocal ==
  ASSUME TypeOK, QueuedInv, NEW w \in Workers, NEW t \in Tasks, Suspended(t),
         Len(local[w]) < Slots, local' = [local EXCEPT ![w] = Append(@, t)],
         owed' = owed \cup {t}, UNCHANGED <<global, task>>
  PROVE  QueuedInv'
<1>1. /\ local'[w] = Append(local[w], t) /\ local[w] \in Seq(Tasks)
      /\ \A v \in Workers : v # w => local'[v] = local[v]
  BY Zenon DEF TypeOK
<1>2. /\ ~Has(global, t) /\ \A v \in Workers : ~Has(local[v], t)
  BY Zenon DEF QueuedInv, OwedInv, Suspended
<1>3. Distinct(local'[w]) /\ Len(local'[w]) <= Slots
  <2>1. Distinct(local'[w])
    <3>1. Distinct(local[w]) /\ ~Has(local[w], t)
      BY Zenon, <1>2 DEF QueuedInv, OnceInv
    <3>2. Distinct(Append(local[w], t))
      BY ZenonT(60), <1>1, <3>1, AppendHas
    <3> QED BY ZenonT(60), <1>1, <3>2
  <2>2. Len(local'[w]) <= Slots
    BY SMTT(30), <1>1, SizeAssumption
  <2> QED BY Zenon, <2>1, <2>2
<1>4. \A u : Has(local'[w], u) <=> Has(local[w], u) \/ u = t
  <2>1. \A u : Has(Append(local[w], t), u) <=> Has(local[w], u) \/ u = t
    BY Zenon, <1>1, AppendHas
  <2> QED BY Zenon, <1>1, <2>1
<1>5. OnceInv'
  BY Zenon, <1>1, <1>3 DEF QueuedInv, OnceInv
<1>6. ApartInv'
  BY Zenon, <1>1, <1>2, <1>4 DEF QueuedInv, ApartInv
<1>7. OwedInv'
  BY ZenonT(60), <1>1, <1>4 DEF QueuedInv, OwedInv
<1>8. HeldInv'
  <2> DEFINE S == {t}
  <2>1. HeldInv /\ task' = task /\ owed' = owed \cup S /\ \A u \in S : Suspended(u)
    BY Zenon DEF QueuedInv
  <2> HIDE DEF S
  <2> QED BY Zenon, <2>1, HeldAfterPut
<1> QED BY ZenonT(60), <1>5, <1>6, <1>7, <1>8 DEF QueuedInv

\* A worker gets an enqueued handle: nobody else runs it.
LEMMA HeldAfterGot ==
  ASSUME TypeOK, HeldInv, NEW w \in Workers, NEW t \in owed, Got(w, t)
  PROVE  HeldInv'
<1>1. task'[w] = t /\ owed' = owed \ {t} /\ \A v \in Workers : v # w => task'[v] = task[v]
  BY ZenonT(60) DEF Got, TypeOK
<1>2. \A v \in Workers : task[v] # t
  BY Zenon DEF HeldInv
<1> QED BY ZenonT(60), <1>1, <1>2 DEF HeldInv

\* try_pop().
LEMMA TakeGlobal ==
  ASSUME TypeOK, QueuedInv, NEW w \in Workers, global # <<>>,
         Got(w, Head(global)), global' = Tail(global), UNCHANGED local
  PROVE  QueuedInv'
<1> DEFINE t == Head(global)
<1>1. /\ Has(global, t) /\ t \in Tasks
      /\ \A u : Has(global', u) <=> Has(global, u) /\ u # t
      /\ Distinct(global')
  BY Zenon, TailHas DEF TypeOK, QueuedInv, OnceInv
<1>2. t \in owed /\ \A v \in Workers : ~Has(local[v], t)
  BY Zenon, <1>1 DEF QueuedInv, OwedInv, ApartInv
<1>3. owed' = owed \ {t} /\ Got(w, t)
  BY Zenon DEF Got
<1> HIDE DEF t
<1>4. OnceInv'
  BY Zenon, <1>1 DEF QueuedInv, OnceInv
<1>5. ApartInv'
  BY Zenon, <1>1 DEF QueuedInv, ApartInv
<1>6. OwedInv'
  BY Zenon, <1>1, <1>2, <1>3 DEF QueuedInv, OwedInv
<1>7. HeldInv'
  BY ZenonT(60), <1>2, <1>3, HeldAfterGot DEF QueuedInv
<1> QED BY Zenon, <1>4, <1>5, <1>6, <1>7 DEF QueuedInv

\* pop() or steal(): rest is what it leaves of v's queue.
LEMMA TakeLocal ==
  ASSUME TypeOK, QueuedInv, NEW w \in Workers, NEW v \in Workers, NEW t \in Tasks, NEW rest,
         Has(local[v], t), \A u : Has(rest, u) <=> Has(local[v], u) /\ u # t,
         Distinct(rest), Len(rest) <= Slots,
         Got(w, t), local' = [local EXCEPT ![v] = rest], UNCHANGED global
  PROVE  QueuedInv'
<1>1. local'[v] = rest /\ \A u \in Workers : u # v => local'[u] = local[u]
  BY ZenonT(60) DEF TypeOK
<1>2. /\ t \in owed /\ ~Has(global, t)
      /\ \A u \in Workers : u # v => ~Has(local[u], t)
  BY Zenon DEF QueuedInv, OwedInv, ApartInv
<1>3. owed' = owed \ {t}
  BY Zenon DEF Got
<1>4. OnceInv'
  BY Zenon, <1>1 DEF QueuedInv, OnceInv
<1>5. ApartInv'
  BY ZenonT(60), <1>1 DEF QueuedInv, ApartInv
<1>6. OwedInv'
  BY Zenon, <1>1, <1>2, <1>3 DEF QueuedInv, OwedInv
<1>7. HeldInv'
  BY Zenon, <1>2, HeldAfterGot DEF QueuedInv
<1> QED BY Zenon, <1>4, <1>5, <1>6, <1>7 DEF QueuedInv

\* Most steps touch no queue and no worker's handle.
LEMMA QueuedFrame ==
  ASSUME QueuedInv, UNCHANGED <<queueVars, task>>
  PROVE  QueuedInv'
BY Zenon DEF QueuedInv, OnceInv, ApartInv, OwedInv, HeldInv, queueVars

\* Every step keeps each handle in one place.
LEMMA QueuedStep ==
  ASSUME TypeOK, SearchInv, QueuedInv, [Next]_vars
  PROVE  QueuedInv'
<1>1. ASSUME NEW w \in Workers, NEW t \in Tasks, PushLocal(w, t)
      PROVE  QueuedInv'
  BY Zenon, <1>1, PutLocal DEF PushLocal
<1>2. ASSUME NEW c, NEW t \in Tasks, Suspended(t), PushGlobal(c, t)
      PROVE  QueuedInv'
  <2>1. /\ global' = Append(global, t) /\ owed' = owed \cup {t} /\ UNCHANGED <<local, task>>
        /\ {t} \in SUBSET Tasks /\ \A u \in {t} : Suspended(u)
        /\ global \in Seq(Tasks) /\ Distinct(global)
    BY ZenonT(60), <1>2 DEF PushGlobal, TypeOK, QueuedInv, OnceInv
  <2>2. ~Has(global, t)
    BY Zenon, <1>2 DEF Suspended, QueuedInv, OwedInv
  <2>3. \A u \in Tasks : Has(global', u) <=> Has(global, u) \/ u \in {t}
    BY Zenon, <2>1, AppendHas
  <2>4. Distinct(global')
    BY Zenon, <2>1, <2>2, AppendHas
  <2> QED BY ZenonT(60), <2>1, <2>3, <2>4, PutGlobal
<1>3. ASSUME NEW c, NEW b \in Batches, PushBatch(c, b)
      PROVE  QueuedInv'
  <2> DEFINE S == {b[i] : i \in DOMAIN b}
  <2>1. /\ global' = global \o b /\ owed' = owed \cup S /\ UNCHANGED <<local, task>>
        /\ \A u \in S : Suspended(u)
        /\ global \in Seq(Tasks) /\ Distinct(global)
    BY Zenon, <1>3 DEF PushBatch, TypeOK, QueuedInv, OnceInv
  <2>2. b \in Seq(Tasks) /\ S \in SUBSET Tasks
    BY Zenon, BatchType
  <2>3. Distinct(b)
    BY Zenon DEF Batches, Distinct
  <2>4. \A u : Has(b, u) <=> u \in S
    BY Zenon DEF Has
  <2> HIDE DEF S
  <2>5. \A u : ~(Has(global, u) /\ Has(b, u))
    BY Zenon, <2>1, <2>2, <2>4 DEF Suspended, QueuedInv, OwedInv
  <2>6. \A u \in Tasks : Has(global', u) <=> Has(global, u) \/ u \in S
    BY Zenon, <2>1, <2>2, <2>4, ConcatHas
  <2>7. Distinct(global')
    BY ZenonT(60), <2>1, <2>2, <2>3, <2>5, ConcatHas
  <2> QED BY ZenonT(60), <2>1, <2>2, <2>6, <2>7, PutGlobal
<1>4. ASSUME NEW w \in Workers, NEW p, TryPop(w, p), UNCHANGED local
      PROVE  QueuedInv'
  <2>1. CASE global = <<>>
    BY Zenon, <1>4, <2>1, QueuedFrame DEF TryPop, queueVars
  <2>2. CASE global # <<>>
    BY ZenonT(60), <1>4, <2>2, TakeGlobal DEF TryPop
  <2> QED BY ZenonT(60), <2>1, <2>2
<1>5. ASSUME NEW w \in Workers, Pop(w)
      PROVE  QueuedInv'
  <2> DEFINE s == local[w]
             rest == SubSeq(s, 1, Len(s) - 1)
  <2>1. /\ s # <<>> /\ Got(w, s[Len(s)]) /\ UNCHANGED global
        /\ local' = [local EXCEPT ![w] = rest]
    BY Zenon, <1>5 DEF Pop
  <2>2. s \in Seq(Tasks) /\ Distinct(s) /\ Len(s) <= Slots
    BY Zenon DEF TypeOK, QueuedInv, OnceInv
  <2>3. /\ Has(s, s[Len(s)]) /\ s[Len(s)] \in Tasks
        /\ \A u : Has(rest, u) <=> Has(s, u) /\ u # s[Len(s)]
        /\ Distinct(rest) /\ Len(rest) <= Len(s) /\ Len(rest) = Len(s) - 1
    BY Zenon, <2>1, <2>2, FrontHas, PoppedLength
  <2>4. Len(rest) <= Slots
    <3>1. Len(s) \in Nat /\ Len(rest) = Len(s) - 1
      BY Zenon, <2>1, <2>2, PoppedLength
    <3>2. \A m, k \in Nat : m <= k => m - 1 <= k
      OBVIOUS
    <3> QED BY Zenon, <2>2, <3>1, <3>2, SizeAssumption
  <2> HIDE DEF s, rest
  <2> QED BY ZenonT(60), <2>1, <2>3, <2>4, TakeLocal DEF s
<1>6. ASSUME NEW w \in Workers, Steal(w)
      PROVE  QueuedInv'
  <2>1. CASE beaten[w]
    BY ZenonT(60), <1>6, <2>1, QueuedFrame DEF Steal, queueVars
  <2>2. CASE ~beaten[w]
    <3> DEFINE v == victim[w]
               s == local[v]
    <3>1. /\ Got(w, Head(s)) /\ UNCHANGED global
          /\ local' = [local EXCEPT ![v] = Tail(s)]
      BY ZenonT(60), <1>6, <2>2 DEF Steal
    <3>2. v \in Workers /\ s # <<>>
      BY Zenon, <1>6, <2>2 DEF Steal, At, SearchInv, TypeOK
    <3>3. s \in Seq(Tasks) /\ Distinct(s) /\ Len(s) <= Slots
      BY Zenon, <3>2 DEF TypeOK, QueuedInv, OnceInv
    <3> HIDE DEF v
    <3>4. /\ Has(s, Head(s)) /\ Head(s) \in Tasks
          /\ \A u : Has(Tail(s), u) <=> Has(s, u) /\ u # Head(s)
          /\ Distinct(Tail(s))
      BY Zenon, <3>2, <3>3, TailHas
    <3>5. Len(Tail(s)) <= Slots
      <4>1. Len(s) \in Nat /\ Len(Tail(s)) = Len(s) - 1
        BY Zenon, <3>2, <3>3, TailLength, LenProperties
      <4>2. \A m, k \in Nat : m <= k => m - 1 <= k
        OBVIOUS
      <4> QED BY ZenonT(60), <3>3, <4>1, <4>2, SizeAssumption
    <3> HIDE DEF s
    <3> QED BY ZenonT(60), <3>1, <3>2, <3>4, <3>5, TakeLocal DEF s
  <2> QED BY ZenonT(60), <2>1, <2>2
<1>7. ASSUME NEW w \in Workers, Return(w)
      PROVE  QueuedInv'
  <2>1. UNCHANGED queueVars /\ task' = [task EXCEPT ![w] = Null]
    BY ZenonT(60), <1>7 DEF Return
  <2>2. task'[w] = Null /\ \A v \in Workers : v # w => task'[v] = task[v]
    BY ZenonT(60), <2>1 DEF TypeOK
  <2>3. Null \notin owed
    BY ZenonT(60), TasksAssumption DEF TypeOK
  <2>4. HeldInv'
    <3>1. owed' = owed /\ \A v \in Workers : v = w \/ task'[v] = task[v]
      BY ZenonT(60), <2>1, <2>2 DEF queueVars
    <3>2. \A v \in Workers : task'[v] \notin owed'
      BY Zenon, <2>2, <2>3, <3>1 DEF QueuedInv, HeldInv
    <3>3. ASSUME NEW u \in Workers, NEW v \in Workers, task'[v] = task'[u], task'[u] # Null
          PROVE  v = u
      BY Zenon, <2>2, <3>1, <3>3 DEF QueuedInv, HeldInv
    <3> QED BY ZenonT(60), <3>2, <3>3 DEF HeldInv
  <2> QED BY ZenonT(60), <2>1, <2>4 DEF QueuedInv, OnceInv, ApartInv, OwedInv, queueVars
<1>8. CASE UNCHANGED <<queueVars, task>>
  BY ZenonT(60), <1>8, QueuedFrame
<1>9. Enqueue => QueuedInv'
  BY Zenon, <1>1, <1>2, <1>3 DEF Enqueue, PushOverflow, PushOutside
<1>10. Shutdown \/ (\E c \in Workers \cup Outsiders : NotifyOne(c)) \/ UNCHANGED vars => QueuedInv'
  BY Zenon, <1>8 DEF Shutdown, StopRunning, Stop, NotifyAll, NotifyOne, vars, queueVars
<1>11. ASSUME NEW w \in Workers, Work(w) PROVE QueuedInv'
  <2>1. CheckGlobal(w) \/ Global(w) => QueuedInv'
    BY Zenon, <1>4 DEF CheckGlobal, Global
  <2>2. CASE \/ Pushed(w) \/ NotifyOneIdle(w) \/ Loop(w) \/ Choose(w) \/ Stolen(w)
             \/ PreparePark(w) \/ CancelPark(w) \/ Park(w) \/ WakeUp(w)
    BY Zenon, <1>8, <2>2
      DEF Pushed, NotifyOneIdle, Loop, Choose, Stolen, PreparePark, CancelPark,
                       Park, WakeUp, Wait
  <2> QED BY ZenonT(60), <1>5, <1>6, <1>11, <2>1, <2>2 DEF Work
<1>12. ASSUME NEW w \in Workers, SpuriousWakeup(w) PROVE QueuedInv'
  BY Zenon, <1>8, <1>12 DEF SpuriousWakeup
<1> QED BY ZenonT(60), <1>7, <1>9, <1>10, <1>11, <1>12 DEF Next

\* Through pushes, overflows, batches, pops, steals and lost races alike, a
\* handle that was enqueued is in one place of one queue until one worker gets
\* it, and no two workers run one coroutine.
THEOREM HandlesKept == Spec => []EnqueuedOnce
<1>1. Init => QueuedInv
  <2> SUFFICES ASSUME Init PROVE QueuedInv
    BY Zenon
  <2>1. /\ global = <<>> /\ owed = {} /\ \A w \in Workers : local[w] = <<>> /\ task[w] = Null
    BY ZenonT(60) DEF Init
  <2>2. \A t : ~Has(<<>>, t)
    BY DEF Has
  <2>3. Distinct(<<>>) /\ Len(<<>>) <= Slots
    BY SMTT(30), SizeAssumption DEF Distinct
  <2> QED BY ZenonT(60), <2>1, <2>2, <2>3 DEF QueuedInv, OnceInv, ApartInv, OwedInv, HeldInv
<1>2. IndInv /\ QueuedInv /\ [Next]_vars => QueuedInv'
  BY ZenonT(60), QueuedStep DEF IndInv
<1>3. TypeOK /\ QueuedInv => EnqueuedOnce
  <2> SUFFICES ASSUME TypeOK, QueuedInv, NEW t \in Tasks
               PROVE  LET queued == Cardinality(GlobalSpots(t)) + Cardinality(LocalSpots(t))
                      IN  /\ queued = IF t \in owed THEN 1 ELSE 0
                          /\ queued + Cardinality(Holders(t)) <= 1
    BY Zenon DEF EnqueuedOnce
  <2>1. /\ Cardinality({}) = 0
        /\ \A x : Cardinality({x}) = 1
    BY ZenonT(60), FS_EmptySet, FS_Singleton
  <2>2. Cardinality(GlobalSpots(t)) = IF Has(global, t) THEN 1 ELSE 0
    <3>1. CASE Has(global, t)
      <4>1. PICK i \in DOMAIN global : global[i] = t
        BY ZenonT(60), <3>1 DEF Has
      <4>2. GlobalSpots(t) = {i}
        BY Zenon, <4>1 DEF GlobalSpots, QueuedInv, OnceInv, Distinct
      <4> QED BY ZenonT(60), <2>1, <3>1, <4>2
    <3>2. CASE ~Has(global, t)
      <4>1. GlobalSpots(t) = {}
        BY ZenonT(60), <3>2 DEF GlobalSpots, Has
      <4> QED BY ZenonT(60), <2>1, <3>2, <4>1
    <3> QED BY ZenonT(60), <3>1, <3>2
  <2>3. Cardinality(LocalSpots(t)) = IF \E w \in Workers : Has(local[w], t) THEN 1 ELSE 0
    <3>0. ASSUME NEW p \in Workers \X (1 .. Slots)
          PROVE  p[2] <= Len(local[p[1]]) <=> p[2] \in DOMAIN local[p[1]]
      <4>1. p[1] \in Workers /\ p[2] \in 1 .. Slots
        BY SMTT(30)
      <4>2. local[p[1]] \in Seq(Tasks)
        BY ZenonT(60), <4>1 DEF TypeOK
      <4> QED BY SMTT(30), <4>1, <4>2, SizeAssumption
    <3>1. ASSUME NEW w \in Workers, Has(local[w], t) PROVE Cardinality(LocalSpots(t)) = 1
      <4>1. PICK i \in DOMAIN local[w] : local[w][i] = t
        BY ZenonT(60), <3>1 DEF Has
      <4>2. i \in 1 .. Slots
        <5>1. local[w] \in Seq(Tasks) /\ Len(local[w]) <= Slots
          BY Zenon DEF TypeOK, QueuedInv, OnceInv
        <5> QED BY SMTT(30), <4>1, <5>1, SizeAssumption
      <4>3. <<w, i>> \in LocalSpots(t)
        <5>1. <<w, i>> \in Workers \X (1 .. Slots) /\ <<w, i>>[1] = w /\ <<w, i>>[2] = i
          BY ZenonT(60), <4>2
        <5> QED BY Zenon, <3>0, <4>1, <5>1 DEF LocalSpots
      <4>4. ASSUME NEW p \in LocalSpots(t) PROVE p = <<w, i>>
        <5>1. /\ p \in Workers \X (1 .. Slots) /\ p[1] \in Workers
              /\ p[2] \in DOMAIN local[p[1]] /\ local[p[1]][p[2]] = t
          BY ZenonT(60), <3>0 DEF LocalSpots
        <5>2. Has(local[p[1]], t)
          BY ZenonT(60), <5>1 DEF Has
        <5>3. p[1] = w
          BY Zenon, <3>1, <5>1, <5>2 DEF QueuedInv, ApartInv
        <5>4. p[2] = i
          BY ZenonT(60), <4>1, <5>1, <5>3 DEF QueuedInv, OnceInv, Distinct
        <5> QED BY SMTT(30), <5>1, <5>3, <5>4
      <4>5. LocalSpots(t) = {<<w, i>>}
        BY Zenon, <4>3, <4>4
      <4> QED BY Zenon, <2>1, <4>5
    <3>2. ASSUME \A w \in Workers : ~Has(local[w], t) PROVE Cardinality(LocalSpots(t)) = 0
      <4>1. ASSUME NEW p \in LocalSpots(t) PROVE FALSE
        <5>1. /\ p[1] \in Workers
              /\ p[2] \in DOMAIN local[p[1]] /\ local[p[1]][p[2]] = t
          BY Zenon, <3>0 DEF LocalSpots
        <5> QED BY ZenonT(60), <3>2, <5>1 DEF Has
      <4>2. LocalSpots(t) = {}
        BY Zenon, <4>1
      <4> QED BY ZenonT(60), <2>1, <4>2
    <3> QED BY Zenon, <3>1, <3>2
  <2>4. /\ Cardinality(Holders(t)) \in {0, 1}
        /\ t \in owed => Cardinality(Holders(t)) = 0
    <3>1. ASSUME NEW w \in Workers, task[w] = t PROVE t \notin owed /\ Cardinality(Holders(t)) = 1
      <4>1. t \notin owed /\ t # Null
        BY ZenonT(60), <3>1, TasksAssumption DEF QueuedInv, HeldInv
      <4>2. Holders(t) = {w}
        BY Zenon, <3>1, <4>1 DEF Holders, QueuedInv, HeldInv
      <4> QED BY Zenon, <2>1, <4>1, <4>2
    <3>2. ASSUME \A w \in Workers : task[w] # t PROVE Cardinality(Holders(t)) = 0
      <4>1. Holders(t) = {}
        BY ZenonT(60), <3>2 DEF Holders
      <4> QED BY Zenon, <2>1, <4>1
    <3> QED BY Zenon, <3>1, <3>2
  <2>5. /\ t \in owed <=> Has(global, t) \/ \E w \in Workers : Has(local[w], t)
        /\ ~(Has(global, t) /\ \E w \in Workers : Has(local[w], t))
    BY Zenon DEF QueuedInv, OwedInv, ApartInv
  <2> DEFINE g == Cardinality(GlobalSpots(t))
             l == Cardinality(LocalSpots(t))
             h == Cardinality(Holders(t))
  <2>6. \/ t \in owed /\ h = 0 /\ ((g = 1 /\ l = 0) \/ (g = 0 /\ l = 1))
        \/ t \notin owed /\ g = 0 /\ l = 0 /\ h \in {0, 1}
    BY Zenon, <2>2, <2>3, <2>4, <2>5
  <2> HIDE DEF g, l, h
  <2>7. /\ g + l = IF t \in owed THEN 1 ELSE 0
        /\ (g + l) + h <= 1
    BY <2>6
  <2> QED BY ZenonT(60), <2>7 DEF g, l, h
<1> QED BY <1>1, <1>2, <1>3, Invariance, PTL DEF Spec, IndInv

==============================================================================
