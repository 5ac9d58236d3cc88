---------------------------- MODULE MailBoxProofs ----------------------------
(***************************************************************************)
(* Proofs about MailBox for every number of senders and workers, every set *)
(* of messages and every capacity.                                         *)
(*                                                                         *)
(* The argument: the right to run the consumer is one token.  It is in the *)
(* flag (clear), with the sender whose exchange found it clear, in the     *)
(* scheduler's queues, or with the worker that runs the coroutine; a       *)
(* coroutine that has returned takes the token with it.                    *)
(***************************************************************************)
EXTENDS MailBox, TLAPS

-----------------------------------------------------------------------------
(* The inductive invariant *)

\* The token is in one place only.
Token ==
  /\ OneRunner
  /\ \A s, t \in Senders : spc[s] = "won" /\ spc[t] = "won" => s = t
  /\ ready <= 1
  /\ ready = 1 => \A w \in Workers : ~Running(w)
  /\ ready = 1 => \A s \in Senders : spc[s] # "won"
  /\ \A w \in Workers, s \in Senders : Running(w) => spc[s] # "won"

\* A clear flag is the token.
FlagClear ==
  ~scheduled =>
    /\ ready = 0
    /\ \A s \in Senders : spc[s] # "won"
    /\ \A w \in Workers : ~Running(w)

\* A destroyed coroutine keeps the flag set for ever.
FlagOfDestroyed == frame = "destroyed" => scheduled

\* The worker that handles a message has received one.
Handling == \A w \in Workers : wpc[w] = "release" => delivered # <<>>

IndInv ==
  /\ TypeOK
  /\ Token
  /\ FlagClear
  /\ FlagOfDestroyed
  /\ HandleAlive
  /\ Handling
  /\ NoLostWakeup

-----------------------------------------------------------------------------
(* Initially *)

\* ArmConsumer() and the first Enqueue(): the token is in the scheduler.
LEMMA InitIndInv == Init => IndInv
  BY CapacityAssumption, NullAssumption
  DEF Init, ChanInit, IndInv, TypeOK, Token, FlagClear, FlagOfDestroyed, HandleAlive,
      Handling, NoLostWakeup, OneRunner, Running, Body, AfterUnschedule, SenderSteps,
      CanDequeue, Place

\* A step of a call of Send().
SendStep(s) == (\E m \in Messages : SendClaim(s, m) \/ SendDrop(s, m)) \/ Send(s)

-----------------------------------------------------------------------------
(* Types *)

\* Send() keeps the types.
LEMMA SendTypeOK ==
  ASSUME TypeOK, NEW s \in Senders, SendStep(s)
  PROVE  TypeOK'
<1> USE DEF TypeOK, SenderSteps
<1>1. ASSUME NEW m \in Messages, SendClaim(s, m) PROVE TypeOK'
  <2>1. chan' \in Seq(Place)
    BY <1>1 DEF SendClaim, Claim, Place
  <2> QED BY <1>1, <2>1 DEF SendClaim, Claim
<1>2. ASSUME NEW m \in Messages, SendDrop(s, m) PROVE TypeOK'
  BY <1>2, MaxDiscardedAssumption DEF SendDrop, chanVars
<1>3. CASE SendPublish(s)
  <2>1. PICK i \in DOMAIN chan : Publish(i)
    BY <1>3 DEF SendPublish
  <2>2. chan' = [chan EXCEPT ![i] = [chan[i] EXCEPT !.ready = TRUE]]
    BY <2>1 DEF Publish
  <2>3. chan[i] \in Place
    BY <2>1
  <2>4. [chan[i] EXCEPT !.ready = TRUE] \in Place
    BY Zenon, <2>3 DEF Place
  <2>5. chan' \in Seq(Place)
    BY <2>2, <2>4
  <2> QED BY <1>3, <2>1, <2>5 DEF SendPublish, Publish
<1>4. CASE SendExchange(s)
  BY <1>4 DEF SendExchange, chanVars
<1>5. CASE SendWake(s)
  BY <1>5 DEF SendWake, chanVars
<1> QED BY <1>1, <1>2, <1>3, <1>4, <1>5 DEF SendStep, Send

\* The consumer's steps keep the types.
LEMMA ConsumerTypeOK ==
  ASSUME TypeOK, Handling, NEW w \in Workers, Resume(w) \/ RunConsumer(w)
  PROVE  TypeOK'
<1> USE DEF TypeOK, Body, AfterUnschedule
<1>1. CASE Resume(w)
  BY <1>1 DEF Resume, chanVars
<1>2. CASE MarkRunning(w)
  BY <1>2 DEF MarkRunning, chanVars
<1>3. CASE TryReceive(w)
  <2>1. chan # <<>> /\ chan[1] \in Place
    BY <1>3 DEF TryReceive, Receive, CanDequeue
  <2>2. chan[1].msg \in Messages /\ Tail(chan) \in Seq(Place)
    BY <2>1 DEF Place
  <2>3. chan' \in Seq(Place) /\ delivered' \in Seq(Messages)
    BY <1>3, <2>2 DEF TryReceive, Receive
  <2> QED BY <1>3, <2>3 DEF TryReceive
<1>4. CASE HandleMessage(w)
  BY Zenon, <1>4 DEF HandleMessage, chanVars
<1>5. CASE CallWait(w)
  BY <1>5 DEF CallWait, chanVars
<1>6. CASE AwaitReady(w)
  BY <1>6 DEF AwaitReady, chanVars
<1>7. CASE Unschedule(w)
  BY Zenon, <1>7 DEF Unschedule, chanVars
<1>8. CASE RecheckIndex(w)
  <2>1. PICK lag \in IF Releasing THEN {0, 1} ELSE {0} :
          read_idx' = [read_idx EXCEPT ![w] = Len(delivered) - lag]
    BY Zenon, <1>8 DEF RecheckIndex
  <2>2. Releasing => Len(delivered) >= 1
    BY DEF Releasing, Handling
  <2>3. Len(delivered) - lag \in Nat
    BY <2>1, <2>2
  <2> QED BY <1>8, <2>1, <2>3 DEF RecheckIndex, chanVars
<1>9. CASE RecheckSlot(w)
  BY <1>9 DEF RecheckSlot, chanVars
<1>10. CASE Reclaim(w)
  BY <1>10 DEF Reclaim, chanVars
<1> QED BY ZenonT(60), <1>1, <1>2, <1>3, <1>4, <1>5, <1>6, <1>7, <1>8, <1>9, <1>10
          DEF RunConsumer

-----------------------------------------------------------------------------
(* The token *)

Tokens == Token /\ FlagClear /\ FlagOfDestroyed /\ HandleAlive

\* The token does not depend on the queue: a step that leaves flag, frame,
\* scheduler, workers and winners alone keeps it.
LEMMA TokensStutter ==
  ASSUME TypeOK, Tokens, UNCHANGED <<scheduled, frame, ready, wpc>>,
         \A s \in Senders : spc'[s] = "won" => spc[s] = "won"
  PROVE  Tokens'
  BY DEF TypeOK, Tokens, Token, FlagClear, FlagOfDestroyed, HandleAlive, OneRunner, Running

\* scheduled_.exchange(true) in Send(): only a clear flag gives the token.
LEMMA SendExchangeTokens ==
  ASSUME TypeOK, Tokens, NEW s \in Senders, SendExchange(s)
  PROVE  Tokens'
<1> USE DEF Tokens, SendExchange
<1>1. CASE scheduled
  <2>1. scheduled' = scheduled
    BY <1>1
  <2> QED BY <1>1, <2>1, TokensStutter DEF TypeOK, SenderSteps
<1>2. CASE ~scheduled
  BY <1>2 DEF TypeOK, SenderSteps, Token, FlagClear, FlagOfDestroyed, HandleAlive,
              OneRunner, Running
<1> QED BY <1>1, <1>2

\* The winner hands the token to the scheduler.
LEMMA SendWakeTokens ==
  ASSUME TypeOK, Tokens, NEW s \in Senders, SendWake(s)
  PROVE  Tokens'
<1>1. ready = 0 /\ ready' = 1 /\ scheduled /\ frame # "destroyed"
  BY DEF TypeOK, Tokens, Token, FlagClear, HandleAlive, SendWake
<1> QED BY <1>1 DEF SendWake, TypeOK, SenderSteps, Tokens, Token, FlagClear,
                    FlagOfDestroyed, HandleAlive, OneRunner, Running

\* The worker that takes the handle from the scheduler gets the token.
LEMMA ResumeTokens ==
  ASSUME TypeOK, Tokens, NEW w \in Workers, Resume(w)
  PROVE  Tokens'
<1>1. ready = 1 /\ ready' = 0 /\ scheduled /\ frame # "destroyed"
  BY DEF TypeOK, Tokens, Token, FlagClear, HandleAlive, Resume
<1> QED BY <1>1 DEF Resume, TypeOK, Tokens, Token, FlagClear, FlagOfDestroyed,
                    HandleAlive, OneRunner, Running, Body

\* The steps of the coroutine up to await_suspend keep the token with the
\* worker; the coroutine that returns destroys it.
LEMMA BodyTokens ==
  ASSUME TypeOK, Tokens, NEW w \in Workers,
         \/ MarkRunning(w) \/ TryReceive(w) \/ HandleMessage(w)
         \/ CallWait(w) \/ AwaitReady(w)
  PROVE  Tokens'
<1> USE DEF Tokens, TypeOK
<1>1. Running(w) /\ ready = 0 /\ scheduled /\ frame # "destroyed"
  BY DEF Token, FlagClear, HandleAlive, MarkRunning, TryReceive, HandleMessage, CallWait,
         AwaitReady, Running, Body
<1>2. /\ scheduled' /\ ready' = 0 /\ spc' = spc
      /\ \A v \in Workers : v # w => wpc'[v] = wpc[v]
  BY Zenon, <1>1 DEF MarkRunning, TryReceive, HandleMessage, CallWait, AwaitReady
<1>3. frame' = "destroyed" => wpc'[w] = "idle"
  BY Zenon, <1>1 DEF MarkRunning, TryReceive, HandleMessage, CallWait, AwaitReady
<1> QED BY SMTT(30), <1>1, <1>2, <1>3
          DEF Token, FlagClear, FlagOfDestroyed, HandleAlive, OneRunner,
                                Running, Body

\* await_suspend puts the token into the flag.
LEMMA UnscheduleTokens ==
  ASSUME TypeOK, Tokens, NEW w \in Workers, Unschedule(w)
  PROVE  Tokens'
<1> USE DEF Tokens, TypeOK, Unschedule
<1>1. Running(w) /\ ready = 0 /\ frame # "destroyed"
  BY DEF Token, HandleAlive, Running, Body
<1>2. /\ ready' = 0 /\ spc' = spc /\ ~Running(w)'
      /\ \A v \in Workers : v # w => wpc'[v] = wpc[v]
  BY <1>1 DEF Running, Body
<1> QED BY <1>1, <1>2 DEF Token, FlagClear, FlagOfDestroyed, HandleAlive, OneRunner, Running

\* A worker that looks at the queue again has no token.
LEMMA RecheckTokens ==
  ASSUME TypeOK, Tokens, NEW w \in Workers, RecheckIndex(w) \/ RecheckSlot(w)
  PROVE  Tokens'
<1>1. /\ UNCHANGED <<scheduled, frame, ready, spc>>
      /\ \A v \in Workers : Running(v)' = Running(v)
  BY DEF TypeOK, RecheckIndex, RecheckSlot, Running, Body, AfterUnschedule
<1> QED BY <1>1 DEF Tokens, Token, FlagClear, FlagOfDestroyed, HandleAlive, OneRunner

\* The exchange in await_suspend: the worker takes the token back from the
\* flag, or somebody else has it.
LEMMA ReclaimTokens ==
  ASSUME TypeOK, Tokens, NEW w \in Workers, Reclaim(w)
  PROVE  Tokens'
<1> USE DEF Tokens, TypeOK, Reclaim
<1>1. CASE scheduled
  <2>1. /\ scheduled' /\ UNCHANGED <<frame, ready, spc>>
        /\ \A v \in Workers : Running(v)' = Running(v)
    BY <1>1 DEF Running, Body
  <2> QED BY <1>1, <2>1 DEF Token, FlagClear, FlagOfDestroyed, HandleAlive, OneRunner
<1>2. CASE ~scheduled
  BY SMTT(30), <1>2
    DEF Token, FlagClear, FlagOfDestroyed, HandleAlive, OneRunner, Running, Body
<1> QED BY <1>1, <1>2

-----------------------------------------------------------------------------
(* Wakeups *)

\* A step of Send() loses no wakeup: publishing leaves the exchange to do,
\* and the exchange sets the flag.
LEMMA SendWakeups ==
  ASSUME TypeOK, NoLostWakeup, Handling, NEW s \in Senders, SendStep(s)
  PROVE  NoLostWakeup' /\ Handling'
<1> USE DEF TypeOK, SenderSteps, NoLostWakeup, Handling
<1>1. ASSUME NEW m \in Messages, SendClaim(s, m) PROVE NoLostWakeup' /\ Handling'
  <2>1. CanDequeue' => CanDequeue
    <3>1. CASE chan = <<>>
      <4>1. chan'[1] = [msg |-> m, ready |-> FALSE]
        BY <1>1, <3>1 DEF SendClaim, Claim
      <4> QED BY SMTT(30), <4>1 DEF CanDequeue
    <3>2. CASE chan # <<>>
      <4>1. chan'[1] = chan[1]
        BY <1>1, <3>2 DEF SendClaim, Claim
      <4> QED BY <3>2, <4>1 DEF CanDequeue
    <3> QED BY <3>1, <3>2
  <2>2. \A t \in Senders : spc[t] = "published" => spc'[t] = "published"
    BY <1>1 DEF SendClaim
  <2>3. UNCHANGED <<scheduled, frame, wpc, delivered>>
    BY <1>1 DEF SendClaim, Claim
  <2> QED BY <2>1, <2>2, <2>3
<1>2. ASSUME NEW m \in Messages, SendDrop(s, m) PROVE NoLostWakeup' /\ Handling'
  BY <1>2 DEF SendDrop, chanVars, CanDequeue
<1>3. CASE SendPublish(s)
  BY <1>3 DEF SendPublish, Publish
<1>4. CASE SendExchange(s)
  BY <1>4 DEF SendExchange, chanVars
<1>5. CASE SendWake(s)
  <2>1. \A t \in Senders : spc[t] = "published" => spc'[t] = "published"
    BY <1>5 DEF SendWake
  <2> QED BY <1>5, <2>1 DEF SendWake, chanVars, CanDequeue
<1> QED BY <1>1, <1>2, <1>3, <1>4, <1>5 DEF SendStep, Send

\* Neither does a step of the consumer: while it runs the flag is set, and it
\* leaves await_suspend only if the queue is empty or the flag is set.
LEMMA ConsumerWakeups ==
  ASSUME TypeOK, Tokens, NoLostWakeup, Handling, NEW w \in Workers,
         Resume(w) \/ RunConsumer(w)
  PROVE  NoLostWakeup' /\ Handling'
<1> USE DEF TypeOK, NoLostWakeup, Handling
<1>0. Running(w) \/ ready > 0 => scheduled
  BY DEF Tokens, FlagClear
<1>1. CASE Resume(w)
  BY <1>0, <1>1 DEF Resume, chanVars
<1>2. CASE MarkRunning(w)
  BY <1>2 DEF MarkRunning, chanVars
<1>3. CASE TryReceive(w)
  <2>1. scheduled /\ scheduled'
    BY <1>0, <1>3 DEF TryReceive, Running, Body
  <2>2. delivered' # <<>>
    BY <1>3 DEF TryReceive, Receive
  <2> QED BY <2>1, <2>2
<1>4. CASE HandleMessage(w) \/ CallWait(w) \/ AwaitReady(w)
  <2>1. scheduled /\ scheduled' /\ delivered' = delivered
    BY <1>0, <1>4 DEF HandleMessage, CallWait, AwaitReady, chanVars, Running, Body
  <2>2. \A v \in Workers : wpc'[v] = "release" => wpc[v] = "release"
    BY Zenon, <1>4 DEF HandleMessage, CallWait, AwaitReady
  <2> QED BY <2>1, <2>2
<1>5. CASE Unschedule(w)
  BY <1>5 DEF Unschedule, chanVars, AfterUnschedule
<1>6. CASE RecheckIndex(w)
  BY <1>6 DEF RecheckIndex, chanVars, AfterUnschedule
<1>7. CASE RecheckSlot(w)
  <2>1. UNCHANGED <<chan, delivered, scheduled, frame, spc>> /\ CanDequeue' = CanDequeue
    BY <1>7 DEF RecheckSlot, chanVars, CanDequeue
  <2>2. CanDequeue => wpc'[w] = "reclaim"
    BY <1>7 DEF RecheckSlot
  <2>3. Handling'
    BY <1>7, <2>1 DEF RecheckSlot
  <2> QED BY <2>1, <2>2, <2>3 DEF AfterUnschedule
<1>8. CASE Reclaim(w)
  BY <1>8 DEF Reclaim, chanVars
<1> QED BY Zenon, <1>1, <1>2, <1>3, <1>4, <1>5, <1>6, <1>7, <1>8 DEF RunConsumer

-----------------------------------------------------------------------------
(* Every step, and the theorems *)

\* Every step of a sender or of a worker preserves the invariant.
LEMMA NextIndInv ==
  ASSUME IndInv, [Next]_vars
  PROVE  IndInv'
<1>0. TypeOK /\ Tokens /\ Handling /\ NoLostWakeup
  BY DEF IndInv, Tokens
<1>1. ASSUME NEW s \in Senders, SendStep(s)
      PROVE  IndInv'
  <2>1. TypeOK'
    BY <1>0, <1>1, SendTypeOK
  <2>2. NoLostWakeup' /\ Handling'
    BY <1>0, <1>1, SendWakeups
  <2>3. Tokens'
    <3>1. CASE (\E m \in Messages : SendClaim(s, m) \/ SendDrop(s, m)) \/ SendPublish(s)
      <4>1. \A t \in Senders : spc'[t] = "won" => spc[t] = "won"
        BY <1>0, <3>1 DEF SendClaim, SendDrop, SendPublish, TypeOK
      <4>2. UNCHANGED <<scheduled, frame, ready, wpc>>
        BY <3>1 DEF SendClaim, SendDrop, SendPublish
      <4> QED BY Zenon, <1>0, <4>1, <4>2, TokensStutter
    <3>2. CASE SendExchange(s)
      BY <1>0, <3>2, SendExchangeTokens
    <3>3. CASE SendWake(s)
      BY <1>0, <3>3, SendWakeTokens
    <3> QED BY <1>1, <3>1, <3>2, <3>3 DEF SendStep, Send
  <2> QED BY <2>1, <2>2, <2>3 DEF IndInv, Tokens
<1>2. ASSUME NEW w \in Workers, Resume(w) \/ RunConsumer(w)
      PROVE  IndInv'
  <2>1. TypeOK'
    BY <1>0, <1>2, ConsumerTypeOK
  <2>2. NoLostWakeup' /\ Handling'
    BY <1>0, <1>2, ConsumerWakeups
  <2>3. Tokens'
    <3>1. CASE Resume(w)
      BY <1>0, <3>1, ResumeTokens
    <3>2. CASE MarkRunning(w) \/ TryReceive(w) \/ HandleMessage(w) \/ CallWait(w) \/ AwaitReady(w)
      BY <1>0, <3>2, BodyTokens
    <3>3. CASE Unschedule(w)
      BY <1>0, <3>3, UnscheduleTokens
    <3>4. CASE RecheckIndex(w) \/ RecheckSlot(w)
      BY <1>0, <3>4, RecheckTokens
    <3>5. CASE Reclaim(w)
      BY <1>0, <3>5, ReclaimTokens
    <3> QED BY <1>2, <3>1, <3>2, <3>3, <3>4, <3>5 DEF RunConsumer
  <2> QED BY <2>1, <2>2, <2>3 DEF IndInv, Tokens
<1>3. CASE UNCHANGED vars
  BY Zenon, <1>3
    DEF vars, IndInv, TypeOK, Token, FlagClear, FlagOfDestroyed, HandleAlive, Handling,
              NoLostWakeup, OneRunner, Running, CanDequeue
<1> QED BY <1>1, <1>2, <1>3 DEF Next, SendStep

\* The strengthened invariant holds in every reachable state.
THEOREM Invariance == Spec => []IndInv
<1>1. Init => IndInv
  BY InitIndInv
<1>2. IndInv /\ [Next]_vars => IndInv'
  BY NextIndInv
<1> QED BY <1>1, <1>2, PTL DEF Spec

\* The variables of MailBox keep their types.
THEOREM TypeCorrect == Spec => []TypeOK
<1>1. IndInv => TypeOK
  BY DEF IndInv
<1> QED BY <1>1, Invariance, PTL

\* However many senders and workers there are, one worker at a time executes
\* the consumer coroutine.
THEOREM SingleConsumer == Spec => []OneRunner
<1>1. IndInv => OneRunner
  BY DEF IndInv, Token
<1> QED BY <1>1, Invariance, PTL

\* The flag scheduled_ keeps the handle from being enqueued twice.
THEOREM EnqueuedOnce == Spec => []ScheduledOnce
<1>1. IndInv => ScheduledOnce
  BY DEF IndInv, Token, ScheduledOnce
<1> QED BY <1>1, Invariance, PTL

\* Between clearing the flag and suspending, no published message goes
\* unnoticed.
THEOREM WakeupsKept == Spec => []NoLostWakeup
<1>1. IndInv => NoLostWakeup
  BY DEF IndInv
<1> QED BY <1>1, Invariance, PTL

\* No sender and no worker uses the handle of a destroyed coroutine.
THEOREM HandlesAlive == Spec => []HandleAlive
<1>1. IndInv => HandleAlive
  BY DEF IndInv
<1> QED BY <1>1, Invariance, PTL

=============================================================================
