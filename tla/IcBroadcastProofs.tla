------------------------- MODULE IcBroadcastProofs -------------------------
(***************************************************************************)
(* The safety properties of ic_broadcast for every set of threads and      *)
(* every number of resets: type correctness, mutual exclusion, that no     *)
(* thread sleeps beside a raised flag, and that a wait passes only if the  *)
(* flag was up while it lasted.                                            *)
(***************************************************************************)
EXTENDS IcBroadcast, TLAPS

\* TypeOK: the flag is a flag and every thread is somewhere in its call.
THEOREM TypeCorrect == Spec => []TypeOK
<1>1. Init => TypeOK
  BY BroadcastAssumption DEF Init, TypeOK, Pc
<1>2. TypeOK /\ [Next]_vars => TypeOK'
  <2> SUFFICES ASSUME TypeOK, [Next]_vars PROVE TypeOK'
    OBVIOUS
  <2> USE BroadcastAssumption DEF TypeOK, Pc, WaitPc, SignalPc, ResetPc, Goto, Lock, Unlock
  <2>1. CASE BroadcastInit("ready") \/ BroadcastInit("none") \/ BroadcastDestroy
    BY <2>1 DEF BroadcastInit, BroadcastDestroy
  <2>2. ASSUME NEW t \in Thread,
               CallWait(t) \/ CallSignal(t) \/ WaitFails(t) \/ SpuriousWake(t)
        PROVE  TypeOK'
    BY <2>2 DEF CallWait, CallSignal, WaitFails, SpuriousWake
  <2>3. ASSUME NEW t \in Thread, CallReset(t) PROVE TypeOK'
    BY <2>3 DEF CallReset
  <2>4. ASSUME NEW t \in Thread, Acquire(t) PROVE TypeOK'
    BY <2>4 DEF Acquire, WaitLock, WaitRelock, SignalLock, ResetLock
  <2>5. ASSUME NEW t \in Thread, Advance(t) PROVE TypeOK'
    <3>1. CASE WaitBlock(t) \/ WaitPass(t) \/ WaitUnlock(t)
      BY <3>1 DEF WaitBlock, WaitPass, WaitUnlock
    <3>2. CASE SignalSet(t) \/ ResetClear(t)
      BY <3>2 DEF SignalSet, ResetClear, SetSignaled
    <3>3. CASE SignalNotify(t)
      BY <3>3 DEF SignalNotify
    <3>4. CASE SignalUnlock(t) \/ ResetUnlock(t)
      BY <3>4 DEF SignalUnlock, ResetUnlock
    <3> QED BY <2>5, <3>1, <3>2, <3>3, <3>4 DEF Advance
  <2>6. CASE UNCHANGED vars
    BY <2>6 DEF vars
  <2> QED BY <2>1, <2>2, <2>3, <2>4, <2>5, <2>6 DEF Next
<1> QED BY <1>1, <1>2, PTL DEF Spec

\* The program counters between taking and releasing the mutex.
HoldingPc == {"waitCheck", "passUnlock", "failUnlock", "signalSet", "signalNotify",
              "signalUnlock", "resetClear", "resetUnlock"}

\* Only the thread the mutex names is inside a critical section, and the condition
\* variable holds the threads that sleep.
Exclusion == /\ \A t \in Thread : pc[t] \in HoldingPc <=> mutex = t
             /\ blocked = Threads({"waitAsleep"})

\* At most one thread is inside the critical sections of wait, signal_all and reset.
THEOREM MutualExclusion == Spec => []Exclusion
<1>1. Init => Exclusion
  BY BroadcastAssumption DEF Init, Exclusion, HoldingPc, Threads
<1>2. TypeOK /\ Exclusion /\ [Next]_vars => Exclusion'
  <2> SUFFICES ASSUME TypeOK, Exclusion, [Next]_vars PROVE Exclusion'
    OBVIOUS
  <2> USE BroadcastAssumption DEF TypeOK, Exclusion, HoldingPc, Threads, Goto, Lock, Unlock
  <2>1. CASE BroadcastInit("ready") \/ BroadcastInit("none") \/ BroadcastDestroy
    BY <2>1 DEF BroadcastInit, BroadcastDestroy
  <2>2. ASSUME NEW t \in Thread,
               CallWait(t) \/ CallSignal(t) \/ CallReset(t) \/ WaitFails(t) \/ SpuriousWake(t)
        PROVE  Exclusion'
    BY <2>2 DEF CallWait, CallSignal, CallReset, WaitFails, SpuriousWake
  <2>3. ASSUME NEW t \in Thread, Acquire(t) PROVE Exclusion'
    BY <2>3 DEF Acquire, WaitLock, WaitRelock, SignalLock, ResetLock
  <2>4. ASSUME NEW t \in Thread, Advance(t) PROVE Exclusion'
    <3>1. CASE WaitBlock(t) \/ WaitUnlock(t) \/ SignalUnlock(t) \/ ResetUnlock(t)
      BY <3>1 DEF WaitBlock, WaitUnlock, SignalUnlock, ResetUnlock
    <3>2. CASE WaitPass(t) \/ SignalSet(t) \/ ResetClear(t)
      BY <3>2 DEF WaitPass, SignalSet, ResetClear
    <3>3. CASE SignalNotify(t)
      BY <3>3 DEF SignalNotify
    <3> QED BY <2>4, <3>1, <3>2, <3>3 DEF Advance
  <2>5. CASE UNCHANGED vars
    BY <2>5 DEF vars
  <2> QED BY <2>1, <2>2, <2>3, <2>4, <2>5 DEF Next
<1> QED BY <1>1, <1>2, TypeCorrect, PTL DEF Spec

-----------------------------------------------------------------------------
\* While the flag is up nobody sleeps, but for the moment between raising the flag
\* and waking the sleepers: a waiter looks at the flag and goes to sleep in one step
\* of the critical section that signal_all shares.
THEOREM NobodySleepsBesideTheFlag == Spec => []NoSleeperWhileSignaled
<1>1. Init => NoSleeperWhileSignaled
  BY DEF Init, NoSleeperWhileSignaled
<1>2. TypeOK /\ NoSleeperWhileSignaled /\ [Next]_vars => NoSleeperWhileSignaled'
  <2> SUFFICES ASSUME TypeOK, NoSleeperWhileSignaled, [Next]_vars PROVE NoSleeperWhileSignaled'
    OBVIOUS
  <2> USE DEF TypeOK, NoSleeperWhileSignaled, Threads, Goto
  <2>1. CASE BroadcastInit("ready") \/ BroadcastInit("none") \/ BroadcastDestroy
    BY <2>1 DEF BroadcastInit, BroadcastDestroy
  <2>2. ASSUME NEW t \in Thread,
               CallWait(t) \/ CallSignal(t) \/ CallReset(t) \/ WaitFails(t) \/ SpuriousWake(t)
        PROVE  NoSleeperWhileSignaled'
    BY <2>2 DEF CallWait, CallSignal, CallReset, WaitFails, SpuriousWake
  <2>3. ASSUME NEW t \in Thread, Acquire(t) PROVE NoSleeperWhileSignaled'
    BY <2>3 DEF Acquire, WaitLock, WaitRelock, SignalLock, ResetLock
  <2>4. ASSUME NEW t \in Thread, Advance(t) PROVE NoSleeperWhileSignaled'
    <3>1. CASE WaitBlock(t) \/ ResetClear(t)
      BY <3>1 DEF WaitBlock, ResetClear, SetSignaled
    <3>2. CASE WaitPass(t) \/ WaitUnlock(t) \/ SignalUnlock(t) \/ ResetUnlock(t)
      BY <3>2 DEF WaitPass, WaitUnlock, SignalUnlock, ResetUnlock
    <3>3. CASE SignalSet(t)
      BY <3>3 DEF SignalSet, SetSignaled
    <3>4. CASE SignalNotify(t)
      BY <3>4 DEF SignalNotify
    <3> QED BY <2>4, <3>1, <3>2, <3>3, <3>4 DEF Advance
  <2>5. CASE UNCHANGED vars
    BY <2>5 DEF vars
  <2> QED BY <2>1, <2>2, <2>3, <2>4, <2>5 DEF Next
<1> QED BY <1>1, <1>2, TypeCorrect, PTL DEF Spec

\* The strengthening that makes PassNeedsSignal inductive: a flag that is up has been
\* seen by every wait in progress.
FlagIsSeen == signaled = 1 => \A t \in Thread : pc[t] \in WaitPc => sawSignal[t]

\* A wait that returns OK saw the flag up, whatever signals and resets surround it.
THEOREM PassesAreJustified == Spec => []PassNeedsSignal
<1>1. Init => FlagIsSeen /\ PassNeedsSignal
  BY DEF Init, FlagIsSeen, PassNeedsSignal
<1>2. TypeOK /\ Exclusion /\ FlagIsSeen /\ PassNeedsSignal /\ [Next]_vars
        => FlagIsSeen' /\ PassNeedsSignal'
  <2> SUFFICES ASSUME TypeOK, Exclusion, FlagIsSeen, PassNeedsSignal, [Next]_vars
               PROVE  FlagIsSeen' /\ PassNeedsSignal'
    OBVIOUS
  <2> USE DEF TypeOK, FlagIsSeen, PassNeedsSignal, WaitPc, Goto
  <2>1. CASE BroadcastInit("ready") \/ BroadcastInit("none") \/ BroadcastDestroy
    BY <2>1 DEF BroadcastInit, BroadcastDestroy
  <2>2. ASSUME NEW t \in Thread,
               CallWait(t) \/ CallSignal(t) \/ CallReset(t) \/ WaitFails(t) \/ SpuriousWake(t)
        PROVE  FlagIsSeen' /\ PassNeedsSignal'
    BY <2>2 DEF CallWait, CallSignal, CallReset, WaitFails, SpuriousWake
  <2>3. ASSUME NEW t \in Thread, Acquire(t) PROVE FlagIsSeen' /\ PassNeedsSignal'
    BY <2>3 DEF Acquire, WaitLock, WaitRelock, SignalLock, ResetLock
  <2>4. ASSUME NEW t \in Thread, Advance(t) PROVE FlagIsSeen' /\ PassNeedsSignal'
    <3>1. CASE WaitBlock(t) \/ WaitPass(t) \/ WaitUnlock(t)
      BY <3>1 DEF WaitBlock, WaitPass, WaitUnlock
    <3>2. CASE SignalSet(t) \/ ResetClear(t)
      BY <3>2 DEF SignalSet, ResetClear, SetSignaled
    <3>3. CASE SignalNotify(t)
      BY <3>3 DEF SignalNotify, Exclusion, Threads
    <3>4. CASE SignalUnlock(t) \/ ResetUnlock(t)
      BY <3>4 DEF SignalUnlock, ResetUnlock
    <3> QED BY <2>4, <3>1, <3>2, <3>3, <3>4 DEF Advance
  <2>5. CASE UNCHANGED vars
    BY <2>5 DEF vars
  <2> QED BY <2>1, <2>2, <2>3, <2>4, <2>5 DEF Next
<1> QED BY <1>1, <1>2, TypeCorrect, MutualExclusion, PTL DEF Spec

-----------------------------------------------------------------------------
\* What a step that moves one thread's program counter does to its call.
LEMMA CallMoves ==
  ASSUME TypeOK, NEW t \in Thread, NEW to \in Pc, pc' = [pc EXCEPT ![t] = to]
  PROVE  /\ to \in {"waitLock", "waitCheck", "waitAsleep", "waitRelock"}
               => CallOf' = [CallOf EXCEPT ![t] = "waiting"]
         /\ to = "passUnlock" => CallOf' = [CallOf EXCEPT ![t] = "passed"]
         /\ to = "failUnlock" => CallOf' = [CallOf EXCEPT ![t] = "failed"]
         /\ to \in {"signalLock", "signalSet"} => CallOf' = [CallOf EXCEPT ![t] = "setting"]
         /\ to \in {"resetLock", "resetClear"} => CallOf' = [CallOf EXCEPT ![t] = "clearing"]
         /\ to \in {"signalNotify", "signalUnlock", "resetUnlock"}
               => CallOf' = [CallOf EXCEPT ![t] = "done"]
         /\ to = "idle" => CallOf' = [CallOf EXCEPT ![t] = "none"]
BY DEF CallOf, TypeOK, Pc, WaitPc, SignalPc, ResetPc

\* No thread is inside a broadcast that is not initialised: destroy needs every thread out.
InUse == life = "none" => \A t \in Thread : pc[t] = "idle"

LEMMA NoCallOutlivesBroadcast == Spec => []InUse
<1>1. Init => InUse
  BY DEF Init, InUse
<1>2. TypeOK /\ Exclusion /\ InUse /\ [Next]_vars => InUse'
  <2> SUFFICES ASSUME TypeOK, Exclusion, InUse, [Next]_vars PROVE InUse'
    OBVIOUS
  <2> USE DEF InUse, Goto
  <2>1. CASE BroadcastInit("ready") \/ BroadcastInit("none") \/ BroadcastDestroy
    BY <2>1 DEF BroadcastInit, BroadcastDestroy, Threads
  <2>2. ASSUME NEW t \in Thread, CallWait(t) \/ CallSignal(t) \/ CallReset(t) PROVE InUse'
    BY <2>2 DEF CallWait, CallSignal, CallReset
  <2>3. ASSUME NEW t \in Thread, WaitFails(t) \/ SpuriousWake(t) \/ Acquire(t) \/ Advance(t)
        PROVE  InUse'
    <3>1. pc[t] # "idle" /\ life' = life
      BY <2>3 DEF WaitFails, SpuriousWake, Acquire, WaitLock, WaitRelock, SignalLock, ResetLock,
                  Advance, WaitBlock, WaitPass, WaitUnlock, SignalSet, SignalNotify, SignalUnlock,
                  ResetClear, ResetUnlock
    <3> QED BY <3>1
  <2>4. CASE UNCHANGED vars
    BY <2>4 DEF vars
  <2> QED BY <2>1, <2>2, <2>3, <2>4 DEF Next
<1> QED BY <1>1, <1>2, TypeCorrect, MutualExclusion, PTL DEF Spec

\* ic_broadcast implements the event: seen from its callers every call takes effect in one
\* step, and a wait succeeds in a step at which the event is set.
THEOREM BroadcastIsEvent == Spec => ImplementsEvent
<1> USE DEF Promise!Move, Goto
<1>1. Init => Promise!Init
  BY DEF Init, Promise!Init, CallOf
<1>2. TypeOK /\ Exclusion /\ InUse /\ [Next]_vars => [Promise!Next]_(Promise!eventVars)
  <2> SUFFICES ASSUME TypeOK, Exclusion, InUse, [Next]_vars
               PROVE  Promise!Next \/ UNCHANGED <<life, signaled, CallOf>>
    BY DEF Promise!eventVars
  <2>1. CASE BroadcastInit("ready") \/ BroadcastInit("none")
    <3>1. CallOf' = CallOf
      BY <2>1 DEF BroadcastInit, CallOf
    <3> QED BY <2>1, <3>1 DEF BroadcastInit, Promise!Next, Promise!Create
  <2>2. CASE BroadcastDestroy
    <3>1. CallOf' = CallOf /\ \A t \in Thread : CallOf[t] = "none"
      BY <2>2 DEF BroadcastDestroy, CallOf, Threads
    <3> QED BY <2>2, <3>1 DEF BroadcastDestroy, Promise!Next, Promise!Discard
  <2>3. ASSUME NEW t \in Thread,
               \/ WaitLock(t) \/ WaitBlock(t) \/ SpuriousWake(t) \/ WaitRelock(t)
               \/ SignalLock(t) \/ SignalNotify(t) \/ ResetLock(t)
        PROVE  UNCHANGED <<life, signaled, CallOf>>
    <3>1. CASE SignalNotify(t)
      <4>1. pc[t] = "signalNotify" /\ \A w \in blocked : pc[w] = "waitAsleep"
        BY <3>1 DEF SignalNotify, Exclusion, Threads
      <4> QED BY <3>1, <4>1 DEF SignalNotify, CallOf, TypeOK
    <3>2. CASE ~SignalNotify(t)
      BY <2>3, <3>2 DEF WaitLock, WaitBlock, SpuriousWake, WaitRelock, SignalLock, ResetLock,
                        CallOf, TypeOK
    <3> QED BY <3>1, <3>2
  <2>4. ASSUME NEW t \in Thread, CallWait(t) \/ CallSignal(t) \/ CallReset(t)
        PROVE  Promise!Begin(t)
    BY <2>4, CallMoves DEF CallWait, CallSignal, CallReset, Promise!Begin, CallOf, Pc, WaitPc,
                           SignalPc, ResetPc
  <2>5. ASSUME NEW t \in Thread, life = "ready", WaitPass(t) PROVE Promise!Pass(t)
    BY <2>5, CallMoves DEF WaitPass, Promise!Pass, CallOf, Pc, WaitPc
  <2>6. ASSUME NEW t \in Thread, life = "ready", WaitFails(t) PROVE Promise!Fail(t)
    BY <2>6, CallMoves DEF WaitFails, Promise!Fail, CallOf, Pc, WaitPc
  <2>7. ASSUME NEW t \in Thread, life = "ready", SignalSet(t) PROVE Promise!Set(t)
    BY <2>7, CallMoves DEF SignalSet, SetSignaled, Promise!Set, CallOf, Pc, SignalPc
  <2>8. ASSUME NEW t \in Thread, life = "ready", ResetClear(t) PROVE Promise!Clear(t)
    BY <2>8, CallMoves DEF ResetClear, SetSignaled, Promise!Clear, CallOf, Pc, ResetPc
  <2>9. ASSUME NEW t \in Thread, life = "ready", WaitUnlock(t) \/ SignalUnlock(t) \/ ResetUnlock(t)
        PROVE  Promise!Return(t)
    BY <2>9, CallMoves DEF WaitUnlock, SignalUnlock, ResetUnlock, Promise!Return, CallOf, Pc
  <2>10. ASSUME NEW t \in Thread, life # "ready"
         PROVE  ~ (\/ WaitPass(t) \/ WaitFails(t) \/ SignalSet(t) \/ ResetClear(t)
                   \/ WaitUnlock(t) \/ SignalUnlock(t) \/ ResetUnlock(t))
    BY <2>10 DEF InUse, TypeOK, WaitPass, WaitFails, SignalSet, ResetClear, WaitUnlock,
                 SignalUnlock, ResetUnlock
  <2>11. CASE UNCHANGED vars
    BY <2>11 DEF vars, CallOf
  <2>12. ASSUME NEW t \in Thread,
                \/ CallWait(t) \/ CallSignal(t) \/ CallReset(t) \/ WaitFails(t) \/ SpuriousWake(t)
                \/ Acquire(t) \/ Advance(t)
         PROVE  Promise!Next \/ UNCHANGED <<life, signaled, CallOf>>
    BY <2>3, <2>4, <2>5, <2>6, <2>7, <2>8, <2>9, <2>10, <2>12 DEF Acquire, Advance, Promise!Next
  <2> QED BY <2>1, <2>2, <2>11, <2>12 DEF Next
<1> QED BY <1>1, <1>2, TypeCorrect, MutualExclusion, NoCallOutlivesBroadcast, PTL
        DEF Spec, ImplementsEvent, Promise!Spec
=============================================================================
