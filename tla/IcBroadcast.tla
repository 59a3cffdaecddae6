---------------------------- MODULE IcBroadcast ----------------------------
(***************************************************************************)
(* ic_broadcast (IronCLib/ironclib/ic_concurrency_signal.h): a flag that   *)
(* is guarded by an ic_mutex, with an ic_condition_variable on which       *)
(* threads wait while the flag is down.  signal_all raises it and wakes    *)
(* every sleeper, reset takes it down.                                     *)
(***************************************************************************)
EXTENDS Integers, FiniteSets

CONSTANTS Thread,    \* the threads that share the broadcast
          Free,      \* the owner of a mutex nobody holds
          MaxResets  \* bound of the model: calls of ic_broadcast_reset

ASSUME BroadcastAssumption == Free \notin Thread /\ IsFiniteSet(Thread) /\ MaxResets \in Nat

VARIABLES life,      \* "none", or "ready" between init and destroy
          mutex,     \* the thread that holds the mutex, or Free
          blocked,   \* the threads asleep in the condition variable
          signaled,  \* UNSAFE_PRIVATE_ACCESS_SIGNALED
          pc,        \* where each thread is in its call
          resets,    \* calls of reset so far
          sawSignal  \* history: the flag was up at some time in this wait

vars == <<life, mutex, blocked, signaled, pc, resets, sawSignal>>

WaitPc   == {"waitLock", "waitCheck", "waitAsleep", "waitRelock", "passUnlock", "failUnlock"}
SignalPc == {"signalLock", "signalSet", "signalNotify", "signalUnlock"}
ResetPc  == {"resetLock", "resetClear", "resetUnlock"}
Pc       == {"idle"} \cup WaitPc \cup SignalPc \cup ResetPc

Threads(ls) == {t \in Thread : pc[t] \in ls}

TypeOK == /\ life \in {"none", "ready"}
          /\ mutex \in Thread \cup {Free}
          /\ blocked \in SUBSET Thread
          /\ signaled \in {0, 1}
          /\ pc \in [Thread -> Pc]
          /\ resets \in 0..MaxResets
          /\ sawSignal \in [Thread -> BOOLEAN]

Init == /\ life = "none"
        /\ mutex = Free
        /\ blocked = {}
        /\ signaled = 0
        /\ pc = [t \in Thread |-> "idle"]
        /\ resets = 0
        /\ sawSignal = [t \in Thread |-> FALSE]

Goto(t, from, to) == pc[t] = from /\ pc' = [pc EXCEPT ![t] = to]
Lock(t)   == mutex = Free /\ mutex' = t
Unlock(t) == mutex' = Free

\* The flag changes to s: every wait in progress has now seen it up, if it is up.
SetSignaled(s) == /\ signaled' = s
                  /\ sawSignal' = [t \in Thread |-> sawSignal[t] \/ (s = 1 /\ pc[t] \in WaitPc)]

\* ic_broadcast_init: it succeeds, or fails in the mutex or the condition variable.
BroadcastInit(to) == /\ life = "none"
                     /\ life' = to
                     /\ signaled' = 0
                     /\ UNCHANGED <<mutex, blocked, pc, resets, sawSignal>>

\* ic_broadcast_destroy, by the last user.
BroadcastDestroy == /\ life = "ready"
                    /\ Threads({"idle"}) = Thread
                    /\ life' = "none"
                    /\ UNCHANGED <<mutex, blocked, signaled, pc, resets, sawSignal>>

-----------------------------------------------------------------------------
(* ic_broadcast_wait                                                       *)

CallWait(t) == /\ life = "ready"
               /\ Goto(t, "idle", "waitLock")
               /\ sawSignal' = [sawSignal EXCEPT ![t] = (signaled = 1)]
               /\ UNCHANGED <<life, mutex, blocked, signaled, resets>>

WaitLock(t) == /\ Goto(t, "waitLock", "waitCheck")
               /\ Lock(t)
               /\ UNCHANGED <<life, blocked, signaled, resets, sawSignal>>

\* The condition variable releases the mutex and joins its wait set in one step.
WaitBlock(t) == /\ signaled = 0
                /\ Goto(t, "waitCheck", "waitAsleep")
                /\ blocked' = blocked \cup {t}
                /\ Unlock(t)
                /\ UNCHANGED <<life, signaled, resets, sawSignal>>

WaitFails(t) == /\ signaled = 0
                /\ Goto(t, "waitCheck", "failUnlock")
                /\ UNCHANGED <<life, mutex, blocked, signaled, resets, sawSignal>>

SpuriousWake(t) == /\ t \in blocked
                   /\ blocked' = blocked \ {t}
                   /\ Goto(t, "waitAsleep", "waitRelock")
                   /\ UNCHANGED <<life, mutex, signaled, resets, sawSignal>>

\* Mutant: "if" in the place of "while", a woken thread does not look again.
WaitRelockPasses(t) == /\ Goto(t, "waitRelock", "passUnlock")
                       /\ Lock(t)
                       /\ UNCHANGED <<life, blocked, signaled, resets, sawSignal>>

\* A woken thread takes the mutex and evaluates the loop condition again.
WaitRelock(t) == /\ Goto(t, "waitRelock", "waitCheck")
                 /\ Lock(t)
                 /\ UNCHANGED <<life, blocked, signaled, resets, sawSignal>>

WaitPass(t) == /\ signaled = 1
               /\ Goto(t, "waitCheck", "passUnlock")
               /\ UNCHANGED <<life, mutex, blocked, signaled, resets, sawSignal>>

WaitUnlock(t) == /\ \E from \in {"passUnlock", "failUnlock"} : Goto(t, from, "idle")
                 /\ Unlock(t)
                 /\ UNCHANGED <<life, blocked, signaled, resets, sawSignal>>

-----------------------------------------------------------------------------
(* ic_broadcast_signal_all                                                 *)

CallSignal(t) == /\ life = "ready"
                 /\ Goto(t, "idle", "signalLock")
                 /\ UNCHANGED <<life, mutex, blocked, signaled, resets, sawSignal>>

SignalLock(t) == /\ Goto(t, "signalLock", "signalSet")
                 /\ Lock(t)
                 /\ UNCHANGED <<life, blocked, signaled, resets, sawSignal>>

SignalSet(t) == /\ Goto(t, "signalSet", "signalNotify")
                /\ SetSignaled(1)
                /\ UNCHANGED <<life, mutex, blocked, resets>>

\* Mutant: notify_one in the place of notify_all.
SignalNotifyOne(t) ==
    /\ pc[t] = "signalNotify"
    /\ \/ /\ blocked = {}
          /\ pc' = [pc EXCEPT ![t] = "signalUnlock"]
          /\ UNCHANGED blocked
       \/ \E w \in blocked :
             /\ blocked' = blocked \ {w}
             /\ pc' = [pc EXCEPT ![t] = "signalUnlock", ![w] = "waitRelock"]
    /\ UNCHANGED <<life, mutex, signaled, resets, sawSignal>>

\* ic_condition_variable_notify_all wakes every blocked thread.
SignalNotify(t) ==
    /\ pc[t] = "signalNotify"
    /\ blocked' = {}
    /\ pc' = [u \in Thread |-> IF u = t THEN "signalUnlock"
                               ELSE IF u \in blocked THEN "waitRelock" ELSE pc[u]]
    /\ UNCHANGED <<life, mutex, signaled, resets, sawSignal>>

SignalUnlock(t) == /\ Goto(t, "signalUnlock", "idle")
                   /\ Unlock(t)
                   /\ UNCHANGED <<life, blocked, signaled, resets, sawSignal>>

-----------------------------------------------------------------------------
(* ic_broadcast_reset                                                      *)

CallReset(t) == /\ life = "ready"
                /\ resets < MaxResets
                /\ resets' = resets + 1
                /\ Goto(t, "idle", "resetLock")
                /\ UNCHANGED <<life, mutex, blocked, signaled, sawSignal>>

ResetLock(t) == /\ Goto(t, "resetLock", "resetClear")
                /\ Lock(t)
                /\ UNCHANGED <<life, blocked, signaled, resets, sawSignal>>

ResetClear(t) == /\ Goto(t, "resetClear", "resetUnlock")
                 /\ SetSignaled(0)
                 /\ UNCHANGED <<life, mutex, blocked, resets>>

ResetUnlock(t) == /\ Goto(t, "resetUnlock", "idle")
                  /\ Unlock(t)
                  /\ UNCHANGED <<life, blocked, signaled, resets, sawSignal>>

-----------------------------------------------------------------------------
Acquire(t) == WaitLock(t) \/ WaitRelock(t) \/ SignalLock(t) \/ ResetLock(t)
Advance(t) == \/ WaitBlock(t) \/ WaitPass(t) \/ WaitUnlock(t)
              \/ SignalSet(t) \/ SignalNotify(t) \/ SignalUnlock(t)
              \/ ResetClear(t) \/ ResetUnlock(t)

Next == \/ BroadcastInit("ready") \/ BroadcastInit("none") \/ BroadcastDestroy
        \/ \E t \in Thread : \/ CallWait(t) \/ CallSignal(t) \/ CallReset(t)
                             \/ WaitFails(t) \/ SpuriousWake(t)
                             \/ Acquire(t) \/ Advance(t)

\* The thread inside the critical section runs on, and a free mutex that somebody waits for is
\* taken by somebody; by whom is left open, as no backend promises a fair mutex.
Fairness == /\ \A t \in Thread : WF_vars(Advance(t))
            /\ WF_vars(\E t \in Thread : Acquire(t))

Spec     == Init /\ [][Next]_vars
FairSpec == Spec /\ Fairness

-----------------------------------------------------------------------------
(* Properties                                                              *)

\* While the flag is up nobody sleeps, but for the moment between raising the flag
\* and waking the sleepers: no waiter slips in between its check and its sleep.
NoSleeperWhileSignaled ==
    signaled = 1 /\ blocked # {} => Threads({"signalNotify"}) # {}

\* A wait returns OK only if the flag was up at some time during the wait: neither a
\* spurious wakeup nor a signal that was reset before the wait began lets it pass.
PassNeedsSignal == \A t \in Thread : pc[t] = "passUnlock" => sawSignal[t]

\* "Once signaled, remains signaled indefinitely until reset()": a wait cannot last for ever
\* beside a broadcast that stays signaled, if the other threads do not call it for ever and
\* take the mutex before the waiter each time.
OthersCallForEver(t) ==
    []<><<\E u \in Thread \ {t} : CallWait(u) \/ CallSignal(u) \/ CallReset(u)>>_vars

StickySignalReleases ==
    \A t \in Thread :
        \/ OthersCallForEver(t)
        \/ (pc[t] \in WaitPc /\ signaled = 1) ~> (pc[t] \notin WaitPc \/ signaled = 0)

\* The broadcast implements the event that its documentation promises: the mutex, the wakeups,
\* the loop and the failures of the condition variable are invisible to its callers.
CallOf == [t \in Thread |->
    CASE pc[t] = "idle" -> "none"
      [] pc[t] \in {"waitLock", "waitCheck", "waitAsleep", "waitRelock"} -> "waiting"
      [] pc[t] = "passUnlock" -> "passed"
      [] pc[t] = "failUnlock" -> "failed"
      [] pc[t] \in {"signalLock", "signalSet"} -> "setting"
      [] pc[t] \in {"resetLock", "resetClear"} -> "clearing"
      [] OTHER -> "done"]

Promise == INSTANCE StickyEvent WITH event <- signaled, call <- CallOf

ImplementsEvent == Promise!Spec
=============================================================================
