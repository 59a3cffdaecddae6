------------------------------- MODULE IcGate -------------------------------
(***************************************************************************)
(* ic_gate (IronCLib/ironclib/ic_concurrency_signal.h): a uint32_t permit  *)
(* counter guarded by an ic_mutex, with an ic_condition_variable on which  *)
(* threads wait while the counter is zero.  Each thread is the program     *)
(* counter of the call it is in.  The condition variable is the set of     *)
(* threads blocked in it: it may wake any of them, and it may wake one     *)
(* that nobody notified.                                                   *)
(***************************************************************************)
EXTENDS Integers, FiniteSets

CONSTANTS Thread,         \* the threads that share the gate
          Free,           \* the owner of a mutex nobody holds
          PermitModulus,  \* 2^32 in the code: the permits are a uint32_t
          MaxSignals      \* bound of the model: signals in one life of the gate

ASSUME FreeAssumption    == Free \notin Thread
ASSUME ThreadAssumption  == IsFiniteSet(Thread)
ASSUME ModulusAssumption == PermitModulus \in Nat /\ PermitModulus > 1
ASSUME SignalsAssumption == MaxSignals \in Nat

VARIABLES life,      \* the gate is initialised and not destroyed
          mutex,     \* the thread that holds the gate's mutex, or Free
          blocked,   \* the threads asleep in the condition variable
          permits,   \* UNSAFE_PRIVATE_ACCESS_PERMITS
          pc,        \* where each thread is in its call
          signals,   \* history: signals that added their permit
          passes     \* history: waits that took a permit

vars == <<life, mutex, blocked, permits, pc, signals, passes>>
history == <<signals, passes>>

\* The program counters of a thread in ic_gate_wait and in ic_gate_signal_one.
WaitPc   == {"waitLock", "waitCheck", "waitAsleep", "waitRelock", "passUnlock", "failUnlock"}
SignalPc == {"signalLock", "signalAdd", "signalNotify", "signalUnlock"}
Pc       == {"idle"} \cup WaitPc \cup SignalPc

\* The program counters at which a thread holds the mutex.
HoldingPc == {"waitCheck", "passUnlock", "failUnlock",
              "signalAdd", "signalNotify", "signalUnlock"}

Threads(ls) == {t \in Thread : pc[t] \in ls}

TypeOK == /\ life \in {"none", "ready"}
          /\ mutex \in Thread \cup {Free}
          /\ blocked \in SUBSET Thread
          /\ permits \in 0..(PermitModulus - 1)
          /\ pc \in [Thread -> Pc]
          /\ signals \in Nat
          /\ passes \in Nat

Init == /\ life = "none"
        /\ mutex = Free
        /\ blocked = {}
        /\ permits = 0
        /\ pc = [t \in Thread |-> "idle"]
        /\ signals = 0
        /\ passes = 0

Goto(t, from, to) == pc[t] = from /\ pc' = [pc EXCEPT ![t] = to]

\* ic_mutex_lock and ic_mutex_unlock, as a step of thread t.
Lock(t)   == mutex = Free /\ mutex' = t
Unlock(t) == mutex' = Free

-----------------------------------------------------------------------------
(* Life of the gate.                                                       *)

\* Mutant: the permits of an earlier life survive.
GateInitKeepsPermits == /\ life = "none"
                        /\ life' = "ready"
                        /\ UNCHANGED <<mutex, blocked, permits, pc, history>>

\* ic_gate_init succeeds: the permits are zero whatever an earlier life left.
GateInit == /\ life = "none"
            /\ life' = "ready"
            /\ permits' = 0
            /\ signals' = 0
            /\ passes' = 0
            /\ UNCHANGED <<mutex, blocked, pc>>

\* ic_gate_init fails in the mutex or in the condition variable (whose failure
\* destroys the mutex again): the permits are written first, the gate is unusable.
GateInitFails == /\ life = "none"
                 /\ permits' = 0
                 /\ signals' = 0
                 /\ passes' = 0
                 /\ UNCHANGED <<life, mutex, blocked, pc>>

\* ic_gate_destroy.  Its caller must be the last user: destroying a mutex or a
\* condition variable in use is undefined in every backend.
GateDestroy == /\ life = "ready"
               /\ Threads({"idle"}) = Thread
               /\ life' = "none"
               /\ UNCHANGED <<mutex, blocked, permits, pc, history>>

-----------------------------------------------------------------------------
(* ic_gate_wait                                                            *)

CallWait(t) == /\ life = "ready"
               /\ Goto(t, "idle", "waitLock")
               /\ UNCHANGED <<life, mutex, blocked, permits, history>>

WaitLock(t) == /\ Goto(t, "waitLock", "waitCheck")
               /\ Lock(t)
               /\ UNCHANGED <<life, blocked, permits, history>>

\* The loop condition finds no permit: ic_condition_variable_wait releases the
\* mutex and joins the wait set in one step.
WaitBlock(t) == /\ permits = 0
                /\ Goto(t, "waitCheck", "waitAsleep")
                /\ blocked' = blocked \cup {t}
                /\ Unlock(t)
                /\ UNCHANGED <<life, permits, history>>

\* ic_condition_variable_wait reports an error, which it does before it sleeps.
WaitFails(t) == /\ permits = 0
                /\ Goto(t, "waitCheck", "failUnlock")
                /\ UNCHANGED <<life, mutex, blocked, permits, history>>

\* A thread may leave the condition variable though nobody notified it.
SpuriousWake(t) == /\ t \in blocked
                   /\ blocked' = blocked \ {t}
                   /\ Goto(t, "waitAsleep", "waitRelock")
                   /\ UNCHANGED <<life, mutex, permits, history>>

\* Mutant: "if" in the place of "while", a woken thread does not look again.
WaitRelockTakesPermit(t) == /\ Goto(t, "waitRelock", "passUnlock")
                            /\ Lock(t)
                            /\ permits' = (permits - 1) % PermitModulus
                            /\ passes' = passes + 1
                            /\ UNCHANGED <<life, blocked, signals>>

\* Once awake, the condition variable takes the mutex again before the loop
\* condition is evaluated again.
WaitRelock(t) == /\ Goto(t, "waitRelock", "waitCheck")
                 /\ Lock(t)
                 /\ UNCHANGED <<life, blocked, permits, history>>

\* The loop condition finds a permit, and the wait takes it.
WaitPass(t) == /\ permits > 0
               /\ Goto(t, "waitCheck", "passUnlock")
               /\ permits' = permits - 1
               /\ passes' = passes + 1
               /\ UNCHANGED <<life, mutex, blocked, signals>>

WaitUnlock(t) == /\ \E from \in {"passUnlock", "failUnlock"} : Goto(t, from, "idle")
                 /\ Unlock(t)
                 /\ UNCHANGED <<life, blocked, permits, history>>

-----------------------------------------------------------------------------
(* ic_gate_signal_one                                                      *)

CallSignal(t) == /\ life = "ready"
                 /\ signals + Cardinality(Threads({"signalLock", "signalAdd"})) < MaxSignals
                 /\ Goto(t, "idle", "signalLock")
                 /\ UNCHANGED <<life, mutex, blocked, permits, history>>

SignalLock(t) == /\ Goto(t, "signalLock", "signalAdd")
                 /\ Lock(t)
                 /\ UNCHANGED <<life, blocked, permits, history>>

\* permits++ on a uint32_t.
SignalAdd(t) == /\ Goto(t, "signalAdd", "signalNotify")
                /\ permits' = (permits + 1) % PermitModulus
                /\ signals' = signals + 1
                /\ UNCHANGED <<life, mutex, blocked, passes>>

\* Mutant: notify only when the counter leaves zero.
SignalNotifyFirst(t) ==
    /\ pc[t] = "signalNotify"
    /\ \/ /\ blocked = {} \/ permits # 1
          /\ pc' = [pc EXCEPT ![t] = "signalUnlock"]
          /\ UNCHANGED blocked
       \/ /\ permits = 1
          /\ \E w \in blocked :
                /\ blocked' = blocked \ {w}
                /\ pc' = [pc EXCEPT ![t] = "signalUnlock", ![w] = "waitRelock"]
    /\ UNCHANGED <<life, mutex, permits, history>>

\* ic_condition_variable_notify_one wakes one of the blocked threads, if any.
SignalNotify(t) ==
    /\ pc[t] = "signalNotify"
    /\ \/ /\ blocked = {}
          /\ pc' = [pc EXCEPT ![t] = "signalUnlock"]
          /\ UNCHANGED blocked
       \/ \E w \in blocked :
             /\ blocked' = blocked \ {w}
             /\ pc' = [pc EXCEPT ![t] = "signalUnlock", ![w] = "waitRelock"]
    /\ UNCHANGED <<life, mutex, permits, history>>

SignalUnlock(t) == /\ Goto(t, "signalUnlock", "idle")
                   /\ Unlock(t)
                   /\ UNCHANGED <<life, blocked, permits, history>>

-----------------------------------------------------------------------------
\* Steps that wait for the mutex, and steps of the thread that holds it.
Acquire(t) == WaitLock(t) \/ WaitRelock(t) \/ SignalLock(t)
Advance(t) == \/ WaitBlock(t) \/ WaitPass(t) \/ WaitUnlock(t)
              \/ SignalAdd(t) \/ SignalNotify(t) \/ SignalUnlock(t)

Next == \/ GateInit
        \/ GateInitFails
        \/ GateDestroy
        \/ \E t \in Thread : \/ CallWait(t) \/ CallSignal(t)
                             \/ WaitFails(t) \/ SpuriousWake(t)
                             \/ Acquire(t) \/ Advance(t)

\* A thread that holds the mutex keeps running, and a free mutex that somebody
\* waits for is taken by somebody.  Which thread gets it is left open: no backend
\* promises a fair mutex.
Fairness == /\ \A t \in Thread : WF_vars(Advance(t))
            /\ WF_vars(\E t \in Thread : Acquire(t))

Spec     == Init /\ [][Next]_vars
FairSpec == Spec /\ Fairness

-----------------------------------------------------------------------------
(* Properties                                                              *)

\* The mutex is held by exactly the thread whose program counter is inside the
\* critical section, and the condition variable holds exactly the sleepers.
Exclusion == /\ \A t \in Thread : pc[t] \in HoldingPc <=> mutex = t
             /\ blocked = Threads({"waitAsleep"})

\* Each permit is consumed by exactly one waiter (ic_gate_wait rechecks the
\* counter after every wakeup): every signal of the gate's life is a wait that
\* passed, a permit still stored, or lost with a whole wraparound of the counter.
PermitAccounting == \E wraps \in 0..signals :
                       signals = passes + permits + wraps * PermitModulus

\* Threads that will look at the counter before they sleep, and signals that have
\* stored their permit and have not notified yet.
Seekers   == Threads({"waitLock", "waitCheck", "waitRelock"})
Notifiers == Threads({"signalNotify"})

\* No wakeup is lost: while a thread sleeps, each stored permit has a thread of
\* its own that is about to take it, or a signal about to wake one.
NoLostWakeup == blocked # {} => permits <= Cardinality(Seekers) + Cardinality(Notifiers)

\* A permit does not lie unused for ever beside a waiting thread.
PermitsGetUsed == (permits > 0 /\ Threads({"waitAsleep", "waitRelock", "waitLock"}) # {})
                     ~> (permits = 0 \/ Threads({"waitAsleep", "waitRelock", "waitLock"}) = {})

\* The gate implements the counting semaphore its documentation promises: the
\* mutex, the wakeups and the loop are invisible to its callers.
CallOf == [t \in Thread |->
    CASE pc[t] = "idle" -> "none"
      [] pc[t] \in {"waitLock", "waitCheck", "waitAsleep", "waitRelock"} -> "waiting"
      [] pc[t] = "passUnlock" -> "passed"
      [] pc[t] = "failUnlock" -> "failed"
      [] pc[t] \in {"signalLock", "signalAdd"} -> "signalling"
      [] OTHER -> "posted"]

Abstract == INSTANCE CountingGate WITH call <- CallOf

ImplementsCountingGate == Abstract!Spec
=============================================================================
