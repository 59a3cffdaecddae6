----------------------------- MODULE TaskProofs -----------------------------
(***************************************************************************)
(* The safety properties of ic_task for every set of callers, every number *)
(* of tasks that use the structure and every number of failures: type      *)
(* correctness, that no thread is joined twice when its callers take a     *)
(* mutex, and that the result read after a join is the task's.  And those  *)
(* of task_completion_wait for every length of the spin, every backoff,    *)
(* every width of the counter and every argument: type correctness, and    *)
(* that a timeout is reported on time.                                     *)
(***************************************************************************)
EXTENDS IcTask, TaskCompletionWait, TLAPS

\* The account of the failures is well typed after one more of them.
LEMMA FailuresAreCounted ==
  ASSUME TypeOK, NEW b \in BOOLEAN, Fail(b)
  PROVE  failures' \in [count : 0..MaxFailures, join : BOOLEAN]
<1>1. failures.count + 1 \in 0..MaxFailures
  BY TaskAssumption DEF TypeOK, Fail
<1> QED BY <1>1 DEF Fail

\* The flags are flags, and values and program counters are known ones.
THEOREM TaskTypeCorrect == Spec => []TypeOK
<1>1. Init => TypeOK
  BY TaskAssumption DEF Init, TypeOK, ThreadPc, CallerPc, Codes, NoResult
<1>2. TypeOK /\ [Next]_vars => TypeOK'
  <2> SUFFICES ASSUME TypeOK, [Next]_vars PROVE TypeOK'
    OBVIOUS
  <2> USE TaskAssumption DEF TypeOK, ThreadPc, CallerPc, Codes, Goto, Fail, task
  <2>1. CASE MutexInit \/ MutexDestroy
    <3>1. failures' \in [count : 0..MaxFailures, join : BOOLEAN]
      BY <2>1, FailuresAreCounted DEF MutexInit, MutexDestroy
    <3> QED BY <2>1, <3>1 DEF MutexInit, MutexDestroy
  <2>2. CASE TaskInit
    <3>1. failures' \in [count : 0..MaxFailures, join : BOOLEAN]
      BY <2>2, FailuresAreCounted DEF TaskInit
    <3>2. tasks' \in 0..MaxTasks /\ result' \in 0..MaxTasks /\ osJoins' \in Nat
      BY <2>2 DEF TaskInit, InitFields
    <3>3. got' \in [Caller -> [task : 0..MaxTasks, value : 0..MaxTasks, joined : BOOLEAN]]
      BY <2>2 DEF TaskInit
    <3> QED BY <2>2, <3>1, <3>2, <3>3 DEF TaskInit, InitFields
  <2>3. CASE ThreadStep
    BY <2>3 DEF ThreadStep, TrampolineStarts, TrampolineStores, TrampolineExits
  <2>4. ASSUME NEW c \in Caller, CallLock(c) \/ MutexLock(c) \/ MutexTryLock(c) \/ MutexUnlock(c)
        PROVE  TypeOK'
    BY <2>4 DEF CallLock, MutexLock, MutexTryLock, MutexUnlock
  <2>5. ASSUME NEW c \in Caller, JoinLoads(c) \/ JoinStores(c) PROVE TypeOK'
    BY <2>5 DEF JoinLoads, JoinStores
  <2>6. ASSUME NEW c \in Caller, JoinReturns(c) PROVE TypeOK'
    <3>1. failures' \in [count : 0..MaxFailures, join : BOOLEAN]
      BY <2>6, FailuresAreCounted DEF JoinReturns
    <3>2. returned' \in [Caller -> Codes]
      BY <2>6 DEF JoinReturns
    <3> QED BY <2>6, <3>1, <3>2 DEF JoinReturns
  <2>7. ASSUME NEW c \in Caller, GetResultLoads(c) \/ GetResultReads(c) PROVE TypeOK'
    <3>1. CASE GetResultLoads(c)
      BY <3>1 DEF GetResultLoads
    <3>2. CASE GetResultReads(c)
      <4> DEFINE joined == returned[c] \in {"OK", "ALREADY_JOINED"} /\ ~failures.join
                 read   == [task |-> tasks, value |-> result, joined |-> joined]
      <4>1. joined \in BOOLEAN
        OBVIOUS
      <4>2. read \in [task : 0..MaxTasks, value : 0..MaxTasks, joined : BOOLEAN]
        BY <4>1
      <4>3. got' = [got EXCEPT ![c] = read]
        BY <3>2 DEF GetResultReads
      <4> HIDE DEF read
      <4>4. got' \in [Caller -> [task : 0..MaxTasks, value : 0..MaxTasks, joined : BOOLEAN]]
        BY <4>2, <4>3
      <4> QED BY <3>2, <4>4 DEF GetResultReads
    <3> QED BY <2>7, <3>1, <3>2
  <2>8. CASE UNCHANGED vars
    BY <2>8 DEF vars
  <2> QED BY <2>1, <2>2, <2>3, <2>4, <2>5, <2>6, <2>7, <2>8 DEF Next, CallerStep
<1> QED BY <1>1, <1>2, PTL DEF Spec

-----------------------------------------------------------------------------
\* Where a caller holds the mutex, and where it is inside ic_task_join.
HoldingPc == {"held", "mark", "osJoin", "unlock"}

\* A caller that holds the mutex is the one the mutex names.
Exclusion == \A c \in Caller : pc[c] \in HoldingPc <=> mutex = c

\* A flag that is down means that nobody asked for the join yet, and a caller between
\* its load and its store of the flag still finds it down.
FlagGuardsJoin == /\ isJoined = 0 => osJoins = 0
                  /\ \A c \in Caller : pc[c] = "mark" => isJoined = 0

JoinInv == Exclusion /\ FlagGuardsJoin /\ JoinedAtMostOnce

LEMMA JoinsExclude == Spec => []JoinInv
<1>1. Init => JoinInv
  BY TaskAssumption DEF Init, JoinInv, Exclusion, HoldingPc, FlagGuardsJoin, JoinedAtMostOnce
<1>2. TypeOK /\ JoinInv /\ [Next]_vars => JoinInv'
  <2> SUFFICES ASSUME TypeOK, JoinInv, [Next]_vars PROVE JoinInv'
    OBVIOUS
  <2> USE TaskAssumption DEF TypeOK, JoinInv, Exclusion, HoldingPc, FlagGuardsJoin,
          JoinedAtMostOnce, Goto, task
  <2>1. CASE MutexInit \/ MutexDestroy
    BY <2>1 DEF MutexInit, MutexDestroy, AllIdle
  <2>2. CASE TaskInit
    BY <2>2 DEF TaskInit, InitFields, AllIdle
  <2>3. CASE ThreadStep
    BY <2>3 DEF ThreadStep, TrampolineStarts, TrampolineStores, TrampolineExits
  <2>4. ASSUME NEW c \in Caller, CallLock(c) \/ MutexLock(c) \/ MutexTryLock(c) \/ MutexUnlock(c)
        PROVE  JoinInv'
    BY <2>4 DEF CallLock, MutexLock, MutexTryLock, MutexUnlock
  <2>5. ASSUME NEW c \in Caller, JoinLoads(c) PROVE JoinInv'
    BY <2>5 DEF JoinLoads
  <2>6. ASSUME NEW c \in Caller, JoinStores(c) PROVE JoinInv'
    BY <2>6 DEF JoinStores
  <2>7. ASSUME NEW c \in Caller, JoinReturns(c) PROVE JoinInv'
    BY <2>7 DEF JoinReturns
  <2>8. ASSUME NEW c \in Caller, GetResultLoads(c) \/ GetResultReads(c) PROVE JoinInv'
    BY <2>8 DEF GetResultLoads, GetResultReads
  <2>9. CASE UNCHANGED vars
    BY <2>9 DEF vars
  <2> QED BY <2>1, <2>2, <2>3, <2>4, <2>5, <2>6, <2>7, <2>8, <2>9 DEF Next, CallerStep
<1> QED BY <1>1, <1>2, TaskTypeCorrect, PTL DEF Spec

\* The operating system is asked at most once to join a thread, though ic_task_join
\* tests its flag and sets it in two steps.
THEOREM ThreadsJoinOnce == Spec => []JoinedAtMostOnce
BY JoinsExclude, PTL DEF JoinInv

-----------------------------------------------------------------------------
\* The thread is over, or the join of this task failed.
Over == thread = "exited" \/ failures.join

\* A join that nobody is executing any more has ended: with the flag up and no caller
\* between the store of the flag and its unlock, the thread is over.
JoinsEnd == /\ isJoined = 1 => Over \/ \E c \in Caller : pc[c] = "osJoin"
            /\ \A c \in Caller : returned[c] \in {"OK", "ALREADY_JOINED"} => Over

\* What the thread stored is still there, and what the callers got came from it.
ResultStays == /\ thread \in {"stored", "exited"} => result = tasks
               /\ \A c \in Caller : got[c].joined => got[c].value = got[c].task

LEMMA JoinsMeanOver == Spec => [](JoinsEnd /\ ResultStays)
<1>1. Init => JoinsEnd /\ ResultStays
  BY DEF Init, JoinsEnd, ResultStays, Over, NoResult
<1>2. TypeOK /\ JoinInv /\ JoinsEnd /\ ResultStays /\ [Next]_vars => JoinsEnd' /\ ResultStays'
  <2> SUFFICES ASSUME TypeOK, JoinInv, JoinsEnd, ResultStays, [Next]_vars
               PROVE  JoinsEnd' /\ ResultStays'
    OBVIOUS
  <2> USE DEF TypeOK, JoinsEnd, ResultStays, Over, Goto, task
  <2>1. CASE MutexInit \/ MutexDestroy
    BY <2>1 DEF MutexInit, MutexDestroy, Fail
  <2>2. CASE TaskInit
    <3>1. /\ isJoined' = 0 /\ thread' \in {"created", "none"}
          /\ \A c \in Caller : returned'[c] = "none"
          /\ got' = got
      BY <2>2 DEF TaskInit, InitFields
    <3> QED BY <3>1
  <2>3. CASE ThreadStep
    BY <2>3 DEF ThreadStep, TrampolineStarts, TrampolineStores, TrampolineExits
  <2>4. ASSUME NEW c \in Caller, CallLock(c) \/ MutexLock(c) \/ MutexTryLock(c) \/ MutexUnlock(c)
        PROVE  JoinsEnd' /\ ResultStays'
    BY <2>4 DEF CallLock, MutexLock, MutexTryLock, MutexUnlock
  <2>5. ASSUME NEW c \in Caller, JoinLoads(c) PROVE JoinsEnd' /\ ResultStays'
    BY <2>5 DEF JoinLoads, JoinInv, Exclusion, HoldingPc
  <2>6. ASSUME NEW c \in Caller, JoinStores(c) PROVE JoinsEnd' /\ ResultStays'
    BY <2>6 DEF JoinStores
  <2>7. ASSUME NEW c \in Caller, JoinReturns(c) PROVE JoinsEnd' /\ ResultStays'
    BY <2>7 DEF JoinReturns, Fail
  <2>8. ASSUME NEW c \in Caller, GetResultLoads(c) PROVE JoinsEnd' /\ ResultStays'
    BY <2>8 DEF GetResultLoads
  <2>9. ASSUME NEW c \in Caller, GetResultReads(c) PROVE JoinsEnd' /\ ResultStays'
    BY <2>9 DEF GetResultReads
  <2>10. CASE UNCHANGED vars
    BY <2>10 DEF vars
  <2> QED BY <2>1, <2>2, <2>3, <2>4, <2>5, <2>6, <2>7, <2>8, <2>9, <2>10 DEF Next, CallerStep
<1> QED BY <1>1, <1>2, TaskTypeCorrect, JoinsExclude, PTL DEF Spec

\* A join that returned OK or ALREADY_JOINED means that the thread is over, and the
\* result read after it is the one of this task's function.
THEOREM ResultsFollowJoins == Spec => []ResultAfterJoin
<1>1. JoinsEnd /\ ResultStays => ResultAfterJoin
  BY DEF JoinsEnd, ResultStays, Over, ResultAfterJoin
<1> QED BY <1>1, JoinsMeanOver, PTL
-----------------------------------------------------------------------------
(* task_completion_wait                                                    *)

\* Counting the sleeps modulo BackoffEvery stays within it.
LEMMA SleepsAreCounted ==
  ASSUME NEW i \in 0..(BackoffEvery - 1)
  PROVE  (i + 1) % BackoffEvery \in 0..(BackoffEvery - 1)
<1>1. CASE i + 1 = BackoffEvery
  BY <1>1, WaitAssumption
<1>2. CASE i + 1 < BackoffEvery
  BY <1>2, WaitAssumption
<1> QED BY <1>1, <1>2, WaitAssumption

\* The saturating sum of the sleeps fits into an int64_t; below the limit it is the sum.
LEMMA SumSaturates ==
  ASSUME elapsed \in 0..Int64Max, sleepMs \in Nat
  PROVE  /\ Added \in 0..Int64Max
         /\ Added = elapsed + sleepMs \/ (Added = Int64Max /\ elapsed + sleepMs > Int64Max)
<1>1. CASE elapsed > Int64Max - sleepMs
  BY <1>1, WaitAssumption DEF Added
<1>2. CASE ~(elapsed > Int64Max - sleepMs)
  BY <1>2, WaitAssumption DEF Added
<1> QED BY <1>1, <1>2

\* Past the check of the arguments they are not negative, and the spin has loads left.
InCall == /\ waiter # "idle" => retry >= 0 /\ timeout >= 0
          /\ waiter = "spin" => spins < SpinCount

\* WaitTypeOK, with what holds while a call is in progress.
LEMMA WaitTypeInvariant == WaitSpec => [](WaitTypeOK /\ InCall)
<1>1. WaitInit => WaitTypeOK /\ InCall
  BY WaitAssumption DEF WaitInit, WaitTypeOK, InCall, args
<1>2. WaitTypeOK /\ InCall /\ [WaitNext]_waitVars => WaitTypeOK' /\ InCall'
  <2> SUFFICES ASSUME WaitTypeOK, InCall, [WaitNext]_waitVars
               PROVE  WaitTypeOK' /\ InCall'
    OBVIOUS
  <2> USE WaitAssumption DEF WaitTypeOK, InCall, args, Return
  <2>1. CASE Complete
    BY <2>1 DEF Complete
  <2>2. CASE Spin
    <3>1. retry \in Nat /\ retry' = retry /\ timeout' = timeout
      BY <2>2 DEF Spin
    <3>2. spins' \in 0..SpinCount
      BY <2>2 DEF Spin
    <3>3. it' \in 0..(BackoffEvery - 1) /\ sleepMs' \in Nat /\ elapsed' \in 0..Int64Max
      BY <2>2, <3>1 DEF Spin
    <3> QED BY <2>2, <3>1, <3>2, <3>3 DEF Spin
  <2>3. CASE Check
    BY <2>3 DEF Check
  <2>4. CASE Sleep
    <3>1. Added \in 0..Int64Max
      BY SumSaturates
    <3>2. elapsed' \in 0..Int64Max /\ slept' \in Nat
      BY <2>4, <3>1 DEF Sleep
    <3>3. Backoff \in Nat
      BY DEF Backoff
    <3>4. it' \in 0..(BackoffEvery - 1) /\ sleepMs' \in Nat
      BY <2>4, <3>3, SleepsAreCounted DEF Sleep
    <3> QED BY <2>4, <3>2, <3>4 DEF Sleep
  <2>5. ASSUME NEW r \in Retries, NEW t \in Timeouts, CallWait(r, t)
        PROVE  WaitTypeOK' /\ InCall'
    BY <2>5 DEF CallWait
  <2>6. CASE UNCHANGED waitVars
    BY <2>6 DEF waitVars
  <2> QED BY <2>1, <2>2, <2>3, <2>4, <2>5, <2>6 DEF WaitNext, WaiterStep
<1> QED BY <1>1, <1>2, PTL DEF WaitSpec

\* WaitTypeOK: the counters stay in their ranges and the periods are never negative.
THEOREM WaitTypeCorrect == WaitSpec => []WaitTypeOK
BY WaitTypeInvariant, PTL

-----------------------------------------------------------------------------
\* While a wait with a timeout goes on, elapsed is what was really slept: the sum is
\* never saturated before the timeout, which is an int64_t itself.
ElapsedIsSlept ==
    /\ waiter = "spin" => slept = 0
    /\ waiter \in {"loop", "sleep"} /\ timeout # Forever => elapsed = slept /\ elapsed < timeout

\* What TimeoutIsExact says of a wait that reported a timeout.
OnTime == outcome = "Timeout" /\ waiter = "idle" =>
            timeout # Forever /\ slept >= timeout /\ slept - sleepMs < timeout

\* A timeout is reported neither early nor more than one sleep late.
THEOREM TimeoutsAreExact == WaitSpec => []TimeoutIsExact
<1>1. WaitInit => ElapsedIsSlept /\ OnTime
  BY DEF WaitInit, ElapsedIsSlept, OnTime
<1>2. WaitTypeOK /\ InCall /\ ElapsedIsSlept /\ OnTime /\ [WaitNext]_waitVars
        => ElapsedIsSlept' /\ OnTime'
  <2> SUFFICES ASSUME WaitTypeOK, InCall, ElapsedIsSlept, OnTime, [WaitNext]_waitVars
               PROVE  ElapsedIsSlept' /\ OnTime'
    OBVIOUS
  <2> USE WaitAssumption DEF WaitTypeOK, ElapsedIsSlept, OnTime, args, Return
  <2>1. CASE Complete
    BY <2>1 DEF Complete
  <2>2. CASE Spin
    BY <2>2 DEF Spin, InCall, Forever
  <2>3. CASE Check
    BY <2>3 DEF Check
  <2>4. CASE Sleep
    <3>1. CASE timeout = Forever
      BY <2>4, <3>1 DEF Sleep
    <3>2. CASE timeout # Forever /\ TimeIsUp
      <4>1. waiter' = "idle" /\ slept' = slept + sleepMs /\ sleepMs' = sleepMs
        BY <2>4, <3>2 DEF Sleep
      <4>2. slept < timeout /\ elapsed = slept /\ timeout <= Int64Max
        BY <2>4, <3>2 DEF Sleep
      <4>3. slept + sleepMs >= timeout
        BY <3>2, <4>2, SumSaturates DEF TimeIsUp
      <4> QED BY <2>4, <3>2, <4>1, <4>2, <4>3 DEF Sleep
    <3>3. CASE timeout # Forever /\ ~TimeIsUp
      <4>1. waiter' = "loop" /\ slept' = slept + sleepMs /\ elapsed' = Added
        BY <2>4, <3>3 DEF Sleep
      <4>2. elapsed = slept /\ timeout <= Int64Max
        BY <2>4, <3>3 DEF Sleep
      <4>3. Added < timeout /\ Added = elapsed + sleepMs
        BY <3>3, <4>2, SumSaturates DEF TimeIsUp
      <4> QED BY <2>4, <4>1, <4>2, <4>3 DEF Sleep
    <3> QED BY <3>1, <3>2, <3>3
  <2>5. ASSUME NEW r \in Retries, NEW t \in Timeouts, CallWait(r, t)
        PROVE  ElapsedIsSlept' /\ OnTime'
    BY <2>5 DEF CallWait
  <2>6. CASE UNCHANGED waitVars
    BY <2>6 DEF waitVars
  <2> QED BY <2>1, <2>2, <2>3, <2>4, <2>5, <2>6 DEF WaitNext, WaiterStep
<1>3. WaitTypeOK /\ OnTime => TimeoutIsExact
  BY DEF WaitTypeOK, OnTime, TimeoutIsExact
<1> QED BY <1>1, <1>2, <1>3, WaitTypeInvariant, PTL DEF WaitSpec
=============================================================================
