---------------------------- MODULE IcGateProofs ----------------------------
(***************************************************************************)
(* The safety properties of ic_gate for every set of threads, every width  *)
(* of the counter and every number of signals: type correctness, mutual    *)
(* exclusion, the account of the permits, the absence of lost wakeups, and *)
(* that the gate implements the counting semaphore of CountingGate.        *)
(***************************************************************************)
EXTENDS IcGate, FiniteSetTheorems, TLAPS

\* TypeOK: the counter stays within its width and every program counter is known.
THEOREM TypeCorrect == Spec => []TypeOK
<1>1. Init => TypeOK
  BY ModulusAssumption DEF Init, TypeOK, Pc
<1>2. TypeOK /\ [Next]_vars => TypeOK'
  <2> SUFFICES ASSUME TypeOK, [Next]_vars PROVE TypeOK'
    OBVIOUS
  <2> USE DEF TypeOK, Pc, WaitPc, SignalPc, Goto, Lock, Unlock, history
  <2>1. CASE GateInit \/ GateInitFails \/ GateDestroy
    BY <2>1, ModulusAssumption DEF GateInit, GateInitFails, GateDestroy
  <2>2. CASE \E t \in Thread : CallWait(t) \/ CallSignal(t) \/ WaitFails(t) \/ SpuriousWake(t)
    BY <2>2 DEF CallWait, CallSignal, WaitFails, SpuriousWake
  <2>3. CASE \E t \in Thread : Acquire(t)
    BY <2>3 DEF Acquire, WaitLock, WaitRelock, SignalLock
  <2>4. ASSUME NEW t \in Thread, Advance(t) PROVE TypeOK'
    <3>1. CASE WaitBlock(t)
      BY <3>1 DEF WaitBlock
    <3>2. CASE WaitPass(t)
      BY <3>2, ModulusAssumption DEF WaitPass
    <3>3. CASE WaitUnlock(t)
      BY <3>3 DEF WaitUnlock
    <3>4. CASE SignalAdd(t)
      BY <3>4, ModulusAssumption DEF SignalAdd
    <3>5. CASE SignalNotify(t)
      BY <3>5 DEF SignalNotify
    <3>6. CASE SignalUnlock(t)
      BY <3>6 DEF SignalUnlock
    <3> QED BY <2>4, <3>1, <3>2, <3>3, <3>4, <3>5, <3>6 DEF Advance
  <2>5. CASE UNCHANGED vars
    BY <2>5 DEF vars
  <2> QED BY <2>1, <2>2, <2>3, <2>4, <2>5 DEF Next
<1> QED BY <1>1, <1>2, PTL DEF Spec

\* At most one thread is inside the critical sections of wait and signal, it is
\* the one the mutex names, and the condition variable holds the sleepers.
THEOREM MutualExclusion == Spec => []Exclusion
<1>1. Init => Exclusion
  BY FreeAssumption DEF Init, Exclusion, HoldingPc, Threads
<1>2. TypeOK /\ Exclusion /\ [Next]_vars => Exclusion'
  <2> SUFFICES ASSUME TypeOK, Exclusion, [Next]_vars PROVE Exclusion'
    OBVIOUS
  <2> USE FreeAssumption DEF TypeOK, Exclusion, HoldingPc, Threads, Goto, Lock, Unlock
  <2>1. CASE GateInit \/ GateInitFails \/ GateDestroy
    BY <2>1 DEF GateInit, GateInitFails, GateDestroy
  <2>2. ASSUME NEW t \in Thread, CallWait(t) \/ CallSignal(t) \/ WaitFails(t) \/ SpuriousWake(t)
        PROVE  Exclusion'
    BY <2>2 DEF CallWait, CallSignal, WaitFails, SpuriousWake
  <2>3. ASSUME NEW t \in Thread, Acquire(t) PROVE Exclusion'
    BY <2>3 DEF Acquire, WaitLock, WaitRelock, SignalLock
  <2>4. ASSUME NEW t \in Thread, Advance(t) PROVE Exclusion'
    <3>1. CASE WaitBlock(t) \/ WaitUnlock(t) \/ SignalUnlock(t)
      BY <3>1 DEF WaitBlock, WaitUnlock, SignalUnlock
    <3>2. CASE WaitPass(t) \/ SignalAdd(t)
      BY <3>2 DEF WaitPass, SignalAdd
    <3>3. CASE SignalNotify(t)
      BY <3>3 DEF SignalNotify
    <3> QED BY <2>4, <3>1, <3>2, <3>3 DEF Advance
  <2>5. CASE UNCHANGED vars
    BY <2>5 DEF vars
  <2> QED BY <2>1, <2>2, <2>3, <2>4, <2>5 DEF Next
<1> QED BY <1>1, <1>2, TypeCorrect, PTL DEF Spec

-----------------------------------------------------------------------------
\* Adding one to a counter of this width: plain, or back to zero.
LEMMA WrapAround ==
  ASSUME NEW p \in 0..(PermitModulus - 1)
  PROVE  (p + 1) % PermitModulus = IF p + 1 = PermitModulus THEN 0 ELSE p + 1
<1>1. CASE p + 1 = PermitModulus
  BY <1>1, ModulusAssumption
<1>2. CASE p + 1 < PermitModulus
  BY <1>2, ModulusAssumption
<1> QED BY <1>1, <1>2, ModulusAssumption

\* Every signal is a pass, a stored permit, or part of a wraparound.
THEOREM EveryPermitAccounted == Spec => []PermitAccounting
<1>1. Init => PermitAccounting
  BY ModulusAssumption DEF Init, PermitAccounting
<1>2. TypeOK /\ PermitAccounting /\ [Next]_vars => PermitAccounting'
  <2> SUFFICES ASSUME TypeOK, PermitAccounting, [Next]_vars PROVE PermitAccounting'
    OBVIOUS
  <2>1. CASE UNCHANGED <<permits, signals, passes>>
    BY <2>1 DEF PermitAccounting
  <2>2. CASE GateInit \/ GateInitFails
    BY <2>2, ModulusAssumption DEF GateInit, GateInitFails, PermitAccounting
  <2>3. ASSUME NEW t \in Thread, WaitPass(t) PROVE PermitAccounting'
    <3>1. PICK wraps \in 0..signals : signals = passes + permits + wraps * PermitModulus
      BY DEF PermitAccounting
    <3>2. wraps * PermitModulus \in Nat
      BY <3>1, ModulusAssumption DEF TypeOK
    <3>3. signals' = passes' + permits' + wraps * PermitModulus
      BY <2>3, <3>1, <3>2 DEF WaitPass, TypeOK
    <3> QED BY <2>3, <3>1, <3>3 DEF WaitPass, PermitAccounting
  <2>4. ASSUME NEW t \in Thread, SignalAdd(t) PROVE PermitAccounting'
    <3>1. PICK wraps \in 0..signals : signals = passes + permits + wraps * PermitModulus
      BY DEF PermitAccounting
    <3>2. CASE permits + 1 = PermitModulus
      <4>1. permits' = 0 /\ signals' = signals + 1 /\ passes' = passes
        BY <2>4, <3>2, WrapAround DEF SignalAdd, TypeOK
      <4>2. (wraps + 1) * PermitModulus = wraps * PermitModulus + PermitModulus
        BY <3>1, ModulusAssumption DEF TypeOK
      <4>3. wraps + 1 \in 0..signals'
        BY <3>1, <4>1 DEF TypeOK
      <4>4. wraps * PermitModulus \in Nat
        BY <3>1, ModulusAssumption DEF TypeOK
      <4>5. signals' = passes' + permits' + (wraps + 1) * PermitModulus
        BY <3>1, <3>2, <4>1, <4>2, <4>4, ModulusAssumption DEF TypeOK
      <4> QED BY <4>3, <4>5 DEF PermitAccounting
    <3>3. CASE permits + 1 # PermitModulus
      <4>1. permits' = permits + 1 /\ signals' = signals + 1 /\ passes' = passes
        BY <2>4, <3>3, WrapAround DEF SignalAdd, TypeOK
      <4>2. wraps \in 0..signals'
        BY <3>1, <4>1 DEF TypeOK
      <4>3. wraps * PermitModulus \in Nat
        BY <3>1, ModulusAssumption DEF TypeOK
      <4>4. signals' = passes' + permits' + wraps * PermitModulus
        BY <3>1, <4>1, <4>3 DEF TypeOK
      <4> QED BY <4>2, <4>4 DEF PermitAccounting
    <3> QED BY <3>2, <3>3
  <2>5. \/ UNCHANGED <<permits, signals, passes>>
        \/ GateInit \/ GateInitFails
        \/ \E t \in Thread : WaitPass(t) \/ SignalAdd(t)
    BY DEF Next, vars, history, GateDestroy, CallWait, CallSignal, WaitFails, SpuriousWake,
           Acquire, WaitLock, WaitRelock, SignalLock,
           Advance, WaitBlock, WaitUnlock, SignalNotify, SignalUnlock
  <2> QED BY <2>1, <2>2, <2>3, <2>4, <2>5
<1> QED BY <1>1, <1>2, TypeCorrect, PTL DEF Spec
-----------------------------------------------------------------------------
\* The sets that NoLostWakeup counts are finite, and one thread more or less in
\* them is one more or less in their cardinality.
LEMMA CountedThreads ==
  ASSUME NEW S \in SUBSET Thread
  PROVE  /\ Cardinality(S) \in Nat
         /\ \A T \in SUBSET S : Cardinality(T) \in Nat /\ Cardinality(T) <= Cardinality(S)
         /\ \A t \in Thread \ S : Cardinality(S \cup {t}) = Cardinality(S) + 1
         /\ \A t \in S : Cardinality(S \ {t}) = Cardinality(S) - 1
<1>1. IsFiniteSet(S)
  BY ThreadAssumption, FS_Subset
<1>2. \A T \in SUBSET S : IsFiniteSet(T) /\ Cardinality(T) <= Cardinality(S)
  BY <1>1, FS_Subset
<1> QED BY <1>1, <1>2, FS_CardinalityType, FS_AddElement, FS_RemoveElement

\* A step that takes no permit, adds none, and removes nobody from the seekers and
\* the notifiers keeps NoLostWakeup, provided somebody was asleep before it.
LEMMA KeepsNoLostWakeup ==
  ASSUME NoLostWakeup, TypeOK,
         permits' = permits,
         blocked' # {} => blocked # {},
         Seekers \subseteq Seekers', Notifiers \subseteq Notifiers',
         Seekers' \subseteq Thread, Notifiers' \subseteq Thread
  PROVE  NoLostWakeup'
<1>1. /\ Cardinality(Seekers) \in Nat /\ Cardinality(Seekers') \in Nat
      /\ Cardinality(Seekers) <= Cardinality(Seekers')
  BY CountedThreads
<1>2. /\ Cardinality(Notifiers) \in Nat /\ Cardinality(Notifiers') \in Nat
      /\ Cardinality(Notifiers) <= Cardinality(Notifiers')
  BY CountedThreads
<1> QED BY <1>1, <1>2 DEF NoLostWakeup, TypeOK

\* While a thread sleeps, every stored permit has a thread of its own that is about
\* to take it or a signal about to wake one: no wakeup is lost, under any scheduling
\* and any spurious wakeups.
THEOREM WakeupsNeverLost == Spec => []NoLostWakeup
<1>1. Init => NoLostWakeup
  BY DEF Init, NoLostWakeup
<1>2. TypeOK /\ TypeOK' /\ Exclusion /\ NoLostWakeup /\ [Next]_vars => NoLostWakeup'
  <2> SUFFICES ASSUME TypeOK, TypeOK', Exclusion, NoLostWakeup, [Next]_vars
               PROVE  NoLostWakeup'
    OBVIOUS
  <2>0. /\ Seekers \in SUBSET Thread /\ Seekers' \in SUBSET Thread
        /\ Notifiers \in SUBSET Thread /\ Notifiers' \in SUBSET Thread
    BY DEF Seekers, Notifiers, Threads
  <2>1. CASE GateInit \/ GateInitFails
    <3>1. permits' = 0
      BY <2>1 DEF GateInit, GateInitFails
    <3>2. Cardinality(Seekers') \in Nat /\ Cardinality(Notifiers') \in Nat
      BY <2>0, CountedThreads
    <3> QED BY <3>1, <3>2 DEF NoLostWakeup
  <2>2. ASSUME NEW t \in Thread,
               \/ CallWait(t) \/ CallSignal(t) \/ SpuriousWake(t) \/ Acquire(t)
               \/ WaitUnlock(t) \/ SignalUnlock(t)
        PROVE  NoLostWakeup'
    <3>1. permits' = permits /\ (blocked' # {} => blocked # {})
      BY <2>2 DEF CallWait, CallSignal, SpuriousWake, Acquire, WaitLock, WaitRelock,
                  SignalLock, WaitUnlock, SignalUnlock
    <3>2. Seekers \subseteq Seekers' /\ Notifiers \subseteq Notifiers'
      BY <2>2 DEF CallWait, CallSignal, SpuriousWake, Acquire, WaitLock, WaitRelock,
                  SignalLock, WaitUnlock, SignalUnlock, Goto, Seekers, Notifiers, Threads, TypeOK
    <3> QED BY <2>0, <3>1, <3>2, KeepsNoLostWakeup
  <2>3. ASSUME NEW t \in Thread, WaitBlock(t) \/ WaitFails(t) PROVE NoLostWakeup'
    <3>1. permits' = 0
      BY <2>3 DEF WaitBlock, WaitFails
    <3>2. Cardinality(Seekers') \in Nat /\ Cardinality(Notifiers') \in Nat
      BY <2>0, CountedThreads
    <3> QED BY <3>1, <3>2 DEF NoLostWakeup
  <2>4. ASSUME NEW t \in Thread, WaitPass(t) PROVE NoLostWakeup'
    <3>1. t \in Seekers /\ Seekers' = Seekers \ {t} /\ Notifiers' = Notifiers
      BY <2>4 DEF WaitPass, Goto, Seekers, Notifiers, Threads, TypeOK
    <3>2. Cardinality(Seekers') = Cardinality(Seekers) - 1
      BY <2>0, <3>1, CountedThreads
    <3>3. Cardinality(Seekers) \in Nat /\ Cardinality(Notifiers) \in Nat
      BY <2>0, CountedThreads
    <3>4. permits' = permits - 1 /\ blocked' = blocked
      BY <2>4 DEF WaitPass
    <3> QED BY <3>1, <3>2, <3>3, <3>4 DEF NoLostWakeup, TypeOK
  <2>5. ASSUME NEW t \in Thread, SignalAdd(t) PROVE NoLostWakeup'
    <3>1. /\ t \in Thread \ Notifiers /\ Notifiers' = Notifiers \cup {t}
          /\ Seekers' = Seekers
      BY <2>5 DEF SignalAdd, Goto, Seekers, Notifiers, Threads, TypeOK
    <3>2. Cardinality(Notifiers') = Cardinality(Notifiers) + 1
      BY <2>0, <3>1, CountedThreads
    <3>3. Cardinality(Seekers) \in Nat /\ Cardinality(Notifiers) \in Nat
      BY <2>0, CountedThreads
    <3>4. permits' <= permits + 1 /\ blocked' = blocked
      BY <2>5, WrapAround DEF SignalAdd, TypeOK
    <3> QED BY <3>1, <3>2, <3>3, <3>4 DEF NoLostWakeup, TypeOK
  <2>6. ASSUME NEW t \in Thread, SignalNotify(t) PROVE NoLostWakeup'
    <3>1. permits' = permits
      BY <2>6 DEF SignalNotify
    <3>2. CASE blocked = {}
      BY <2>6, <3>2 DEF SignalNotify, NoLostWakeup
    <3>3. CASE blocked # {}
      <4>1. PICK w \in blocked : pc' = [pc EXCEPT ![t] = "signalUnlock", ![w] = "waitRelock"]
        BY <2>6, <3>3 DEF SignalNotify
      <4>2. w \in Thread /\ pc[w] = "waitAsleep" /\ pc[t] = "signalNotify"
        BY <2>6, <4>1 DEF Exclusion, Threads, SignalNotify
      <4>3. /\ t \in Notifiers /\ Notifiers' = Notifiers \ {t}
            /\ w \in Thread \ Seekers /\ Seekers' = Seekers \cup {w}
        BY <4>1, <4>2 DEF Seekers, Notifiers, Threads, TypeOK
      <4>4. /\ Cardinality(Notifiers') = Cardinality(Notifiers) - 1
            /\ Cardinality(Seekers') = Cardinality(Seekers) + 1
        BY <2>0, <4>3, CountedThreads
      <4>5. Cardinality(Seekers) \in Nat /\ Cardinality(Notifiers) \in Nat
        BY <2>0, CountedThreads
      <4> QED BY <3>1, <3>3, <4>4, <4>5 DEF NoLostWakeup, TypeOK
    <3> QED BY <3>2, <3>3
  <2>7. CASE GateDestroy \/ UNCHANGED vars
    <3>1. /\ permits' = permits /\ blocked' = blocked
          /\ Seekers' = Seekers /\ Notifiers' = Notifiers
      BY <2>7 DEF GateDestroy, vars, Seekers, Notifiers, Threads
    <3> QED BY <2>0, <3>1, KeepsNoLostWakeup
  <2> QED BY <2>1, <2>2, <2>3, <2>4, <2>5, <2>6, <2>7 DEF Next, Advance
<1> QED BY <1>1, <1>2, TypeCorrect, MutualExclusion, PTL DEF Spec

-----------------------------------------------------------------------------
\* What a step that moves one thread's program counter does to its call.
LEMMA CallMoves ==
  ASSUME TypeOK, NEW t \in Thread, NEW to \in Pc, pc' = [pc EXCEPT ![t] = to]
  PROVE  /\ to \in {"waitLock", "waitCheck", "waitAsleep", "waitRelock"}
               => CallOf' = [CallOf EXCEPT ![t] = "waiting"]
         /\ to = "passUnlock" => CallOf' = [CallOf EXCEPT ![t] = "passed"]
         /\ to = "failUnlock" => CallOf' = [CallOf EXCEPT ![t] = "failed"]
         /\ to \in {"signalLock", "signalAdd"} => CallOf' = [CallOf EXCEPT ![t] = "signalling"]
         /\ to \in {"signalNotify", "signalUnlock"} => CallOf' = [CallOf EXCEPT ![t] = "posted"]
         /\ to = "idle" => CallOf' = [CallOf EXCEPT ![t] = "none"]
BY DEF CallOf, TypeOK, Pc, WaitPc, SignalPc

\* No thread is inside a gate that is not initialised: destroy needs every thread out.
InUse == life = "none" => \A t \in Thread : pc[t] = "idle"

LEMMA NoCallOutlivesGate == Spec => []InUse
<1>1. Init => InUse
  BY DEF Init, InUse
<1>2. TypeOK /\ Exclusion /\ InUse /\ [Next]_vars => InUse'
  <2> SUFFICES ASSUME TypeOK, Exclusion, InUse, [Next]_vars PROVE InUse'
    OBVIOUS
  <2> USE DEF InUse, Goto
  <2>1. CASE GateInit \/ GateInitFails \/ GateDestroy
    BY <2>1 DEF GateInit, GateInitFails, GateDestroy, Threads
  <2>2. ASSUME NEW t \in Thread, CallWait(t) \/ CallSignal(t) PROVE InUse'
    BY <2>2 DEF CallWait, CallSignal
  <2>3. ASSUME NEW t \in Thread, WaitFails(t) \/ SpuriousWake(t) \/ Acquire(t) \/ Advance(t)
        PROVE  InUse'
    <3>1. pc[t] # "idle" /\ life' = life
      BY <2>3 DEF WaitFails, SpuriousWake, Acquire, WaitLock, WaitRelock, SignalLock, Advance,
                  WaitBlock, WaitPass, WaitUnlock, SignalAdd, SignalNotify, SignalUnlock
    <3> QED BY <3>1
  <2>4. CASE UNCHANGED vars
    BY <2>4 DEF vars
  <2> QED BY <2>1, <2>2, <2>3, <2>4 DEF Next
<1> QED BY <1>1, <1>2, TypeCorrect, MutualExclusion, PTL DEF Spec

\* ic_gate implements the counting semaphore: seen from its callers each call takes
\* effect in one step, whatever the mutex and the condition variable do.
THEOREM GateIsSemaphore == Spec => ImplementsCountingGate
<1> USE DEF Abstract!Move, Goto
<1>1. Init => Abstract!Init
  BY DEF Init, Abstract!Init, CallOf
<1>2. TypeOK /\ Exclusion /\ InUse /\ [Next]_vars => [Abstract!Next]_(Abstract!gateVars)
  <2> SUFFICES ASSUME TypeOK, Exclusion, InUse, [Next]_vars
               PROVE  Abstract!Next \/ UNCHANGED <<life, permits, CallOf>>
    BY DEF Abstract!gateVars
  <2>1. CASE GateInit \/ GateInitFails
    <3>1. CallOf' = CallOf
      BY <2>1 DEF GateInit, GateInitFails, CallOf
    <3> QED BY <2>1, <3>1 DEF GateInit, GateInitFails,
                Abstract!Next, Abstract!Create, Abstract!CreateFails
  <2>2. CASE GateDestroy
    <3>1. CallOf' = CallOf /\ \A t \in Thread : CallOf[t] = "none"
      BY <2>2 DEF GateDestroy, CallOf, Threads
    <3> QED BY <2>2, <3>1 DEF GateDestroy, Abstract!Next, Abstract!Discard
  <2>3. ASSUME NEW t \in Thread,
               \/ WaitLock(t) \/ WaitBlock(t) \/ SpuriousWake(t) \/ WaitRelock(t)
               \/ SignalLock(t) \/ SignalNotify(t)
        PROVE  UNCHANGED <<life, permits, CallOf>>
    <3>1. CASE SignalNotify(t)
      <4>1. pc[t] = "signalNotify" /\ \A w \in blocked : pc[w] = "waitAsleep"
        BY <3>1 DEF SignalNotify, Exclusion, Threads
      <4> QED BY <3>1, <4>1 DEF SignalNotify, CallOf, TypeOK
    <3>2. CASE ~SignalNotify(t)
      BY <2>3, <3>2 DEF WaitLock, WaitBlock, SpuriousWake, WaitRelock, SignalLock, CallOf, TypeOK
    <3> QED BY <3>1, <3>2
  <2>4. ASSUME NEW t \in Thread, CallWait(t) PROVE Abstract!BeginWait(t)
    BY <2>4, CallMoves DEF CallWait, Abstract!BeginWait, CallOf, Pc, WaitPc
  <2>5. ASSUME NEW t \in Thread, CallSignal(t) PROVE Abstract!BeginSignal(t)
    BY <2>5, CallMoves DEF CallSignal, Abstract!BeginSignal, CallOf, Pc, SignalPc
  <2>6. ASSUME NEW t \in Thread, life = "ready", WaitPass(t) PROVE Abstract!Pass(t)
    BY <2>6, CallMoves DEF WaitPass, Abstract!Pass, CallOf, Pc, WaitPc
  <2>7. ASSUME NEW t \in Thread, life = "ready", WaitFails(t) PROVE Abstract!Fail(t)
    BY <2>7, CallMoves DEF WaitFails, Abstract!Fail, CallOf, Pc, WaitPc
  <2>8. ASSUME NEW t \in Thread, life = "ready", SignalAdd(t) PROVE Abstract!Post(t)
    BY <2>8, CallMoves DEF SignalAdd, Abstract!Post, CallOf, Pc, SignalPc
  <2>9. ASSUME NEW t \in Thread, life = "ready", WaitUnlock(t) \/ SignalUnlock(t)
        PROVE  Abstract!Return(t)
    BY <2>9, CallMoves DEF WaitUnlock, SignalUnlock, Abstract!Return, CallOf, Pc
  <2>10. ASSUME NEW t \in Thread, ~ (life = "ready")
         PROVE  ~ (WaitPass(t) \/ WaitFails(t) \/ SignalAdd(t) \/ WaitUnlock(t) \/ SignalUnlock(t))
    BY <2>10 DEF InUse, TypeOK, WaitPass, WaitFails, SignalAdd, WaitUnlock, SignalUnlock
  <2>11. CASE UNCHANGED vars
    BY <2>11 DEF vars, CallOf
  <2>12. ASSUME NEW t \in Thread,
                \/ CallWait(t) \/ CallSignal(t) \/ WaitFails(t) \/ SpuriousWake(t)
                \/ Acquire(t) \/ Advance(t)
         PROVE  Abstract!Next \/ UNCHANGED <<life, permits, CallOf>>
    BY <2>3, <2>4, <2>5, <2>6, <2>7, <2>8, <2>9, <2>10, <2>12 DEF Acquire, Advance, Abstract!Next
  <2> QED BY <2>1, <2>2, <2>11, <2>12 DEF Next
<1> QED BY <1>1, <1>2, TypeCorrect, MutualExclusion, NoCallOutlivesGate, PTL
        DEF Spec, ImplementsCountingGate, Abstract!Spec
=============================================================================
