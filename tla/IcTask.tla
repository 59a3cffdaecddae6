------------------------------- MODULE IcTask -------------------------------
(***************************************************************************)
(* ic_task and ic_mutex (IronCLib/ironclib/ic_concurrency.h): a thread     *)
(* that runs one function, the trampoline in which it starts, and callers  *)
(* that start it, join it and ask for its result.  The documentation       *)
(* forbids to join a task twice, so callers that cannot know who joins     *)
(* take a mutex around the join, by lock or by trylock.  The k-th task     *)
(* runs a function that returns k.                                         *)
(***************************************************************************)
EXTENDS Integers, FiniteSets

CONSTANTS Caller,       \* the threads that use the task
          Free,         \* the owner of a mutex nobody holds
          MaxTasks,     \* bound of the model: calls of ic_task_init
          MaxFailures   \* bound of the model: failures of the operating system

ASSUME TaskAssumption == /\ Free \notin Caller /\ IsFiniteSet(Caller)
                         /\ "none" \notin Caller \cup {Free}
                         /\ MaxTasks \in Nat /\ MaxFailures \in Nat

VARIABLES mutex,       \* "none" before init, else the caller that holds it, or Free
          isRunning,   \* UNSAFE_PRIVATE_ACCESS_IS_RUNNING
          isJoined,    \* UNSAFE_PRIVATE_ACCESS_IS_JOINED
          result,      \* UNSAFE_PRIVATE_ACCESS_RESULT
          thread,      \* where the task's thread is, or "none"
          pc,          \* where each caller is
          returned,    \* what the last ic_task_join of each caller returned, for this task
          got,         \* what its last ic_task_get_result stored: task, value, was it joined
          tasks,       \* calls of ic_task_init so far
          osJoins,     \* history: joins of this thread the operating system was asked for
          failures     \* failures so far; and whether a join of this task was one of them

vars == <<mutex, isRunning, isJoined, result, thread, pc, returned, got, tasks, osJoins, failures>>
task == <<isRunning, isJoined, result>>

ThreadPc == {"none", "created", "running", "stored", "exited"}
CallerPc == {"idle", "lock", "held", "mark", "osJoin", "unlock", "read"}
Codes    == {"none", "OK", "FAILURE", "ALREADY_JOINED"}
NoResult == [task |-> 0, value |-> 0, joined |-> FALSE]

\* The flags are flags, values come from a task, the mutex has one owner.
TypeOK == /\ mutex \in Caller \cup {Free, "none"}
          /\ isRunning \in {0, 1} /\ isJoined \in {0, 1} /\ result \in 0..MaxTasks
          /\ thread \in ThreadPc /\ pc \in [Caller -> CallerPc]
          /\ returned \in [Caller -> Codes]
          /\ got \in [Caller -> [task : 0..MaxTasks, value : 0..MaxTasks, joined : BOOLEAN]]
          /\ tasks \in 0..MaxTasks /\ osJoins \in Nat
          /\ failures \in [count : 0..MaxFailures, join : BOOLEAN]

Init == /\ mutex = "none"
        /\ isRunning = 0 /\ isJoined = 0 /\ result = 0
        /\ thread = "none"
        /\ pc = [c \in Caller |-> "idle"]
        /\ returned = [c \in Caller |-> "none"]
        /\ got = [c \in Caller |-> NoResult]
        /\ tasks = 0 /\ osJoins = 0
        /\ failures = [count |-> 0, join |-> FALSE]

Goto(c, from, to) == pc[c] = from /\ pc' = [pc EXCEPT ![c] = to]
AllIdle           == \A c \in Caller : pc[c] = "idle"
Fail(inJoin)      == /\ failures.count < MaxFailures
                     /\ failures' = [count |-> failures.count + 1, join |-> inJoin]

-----------------------------------------------------------------------------
(* ic_mutex                                                                *)

MutexInit == /\ mutex = "none"
             /\ \/ mutex' = Free /\ UNCHANGED failures
                \/ Fail(failures.join) /\ UNCHANGED mutex
             /\ UNCHANGED <<task, thread, pc, returned, got, tasks, osJoins>>

MutexDestroy == /\ mutex = Free
                /\ AllIdle
                /\ mutex' = "none"
                /\ UNCHANGED <<task, thread, pc, returned, got, tasks, osJoins, failures>>

CallLock(c) == /\ mutex # "none"
               /\ Goto(c, "idle", "lock")
               /\ UNCHANGED <<mutex, task, thread, returned, got, tasks, osJoins, failures>>

\* Mutant: the mutex lets a second caller in.
LockAnyway(c) == /\ Goto(c, "lock", "held")
                 /\ mutex' = c
                 /\ UNCHANGED <<task, thread, returned, got, tasks, osJoins, failures>>

MutexLock(c) == /\ mutex = Free
                /\ Goto(c, "lock", "held")
                /\ mutex' = c
                /\ UNCHANGED <<task, thread, returned, got, tasks, osJoins, failures>>

\* IC_CONCURRENCY_ALREADY_LOCKED or IC_CONCURRENCY_NULLREF leaves the caller where it was.
MutexTryLock(c) == /\ mutex = Free
                   /\ Goto(c, "idle", "held")
                   /\ mutex' = c
                   /\ UNCHANGED <<task, thread, returned, got, tasks, osJoins, failures>>

MutexUnlock(c) == /\ pc[c] \in {"held", "unlock"}
                  /\ pc' = [pc EXCEPT ![c] = "idle"]
                  /\ mutex' = Free
                  /\ UNCHANGED <<task, thread, returned, got, tasks, osJoins, failures>>

-----------------------------------------------------------------------------
(* ic_task_init and the thread                                             *)

InitFields == /\ result' = 0 /\ isRunning' = 0 /\ isJoined' = 0

\* The structure is used again after its thread was joined; all callers know the new task.
TaskInit == /\ tasks < MaxTasks
            /\ thread = "none" \/ (osJoins > 0 /\ thread = "exited")
            /\ AllIdle
            /\ InitFields
            /\ tasks' = tasks + 1
            /\ osJoins' = 0
            /\ \/ thread' = "created" /\ failures' = [failures EXCEPT !.join = FALSE]
               \/ thread' = "none" /\ Fail(FALSE)
            /\ returned' = [c \in Caller |-> "none"]
            /\ UNCHANGED <<mutex, pc, got>>

\* ic_task_trampoline: it raises the flag, calls the function, stores its result, lowers the flag.
TrampolineStarts == /\ thread = "created"
                    /\ thread' = "running"
                    /\ isRunning' = 1
                    /\ UNCHANGED <<mutex, isJoined, result, pc, returned, got, tasks, osJoins, failures>>

TrampolineStores == /\ thread = "running"
                    /\ thread' = "stored"
                    /\ result' = tasks
                    /\ UNCHANGED <<mutex, isRunning, isJoined, pc, returned, got, tasks, osJoins, failures>>

TrampolineExits == /\ thread = "stored"
                   /\ thread' = "exited"
                   /\ isRunning' = 0
                   /\ UNCHANGED <<mutex, isJoined, result, pc, returned, got, tasks, osJoins, failures>>

-----------------------------------------------------------------------------
(* ic_task_join, ic_task_is_running and ic_task_get_result                 *)

\* The flag is loaded, and stored in a step of its own.
JoinLoads(c) == /\ thread # "none"
                /\ Goto(c, "held", IF isJoined = 1 THEN "unlock" ELSE "mark")
                /\ returned' = IF isJoined = 1 THEN [returned EXCEPT ![c] = "ALREADY_JOINED"] ELSE returned
                /\ UNCHANGED <<mutex, task, thread, got, tasks, osJoins, failures>>

\* Mutant: the joiner polls the flag until the thread has started, which may be over by then.
JoinStoresOnceStarted(c) ==
    /\ pc[c] = "mark"
    /\ IF isRunning = 0
       THEN UNCHANGED <<pc, isJoined, osJoins>>
       ELSE pc' = [pc EXCEPT ![c] = "osJoin"] /\ isJoined' = 1 /\ osJoins' = osJoins + 1
    /\ UNCHANGED <<mutex, isRunning, result, thread, returned, got, tasks, failures>>

JoinStores(c) == /\ Goto(c, "mark", "osJoin")
                 /\ isJoined' = 1
                 /\ osJoins' = osJoins + 1
                 /\ UNCHANGED <<mutex, isRunning, result, thread, returned, got, tasks, failures>>

\* Mutant: a bounded wait, the thread may still run its function.
JoinReturnsEarly(c) == /\ Goto(c, "osJoin", "unlock")
                       /\ returned' = [returned EXCEPT ![c] = "OK"]
                       /\ UNCHANGED <<mutex, task, thread, got, tasks, osJoins, failures>>

\* thrd_join, pthread_join or WaitForSingleObject: until the thread is over, or with an error.
JoinReturns(c) == /\ Goto(c, "osJoin", "unlock")
                  /\ \/ /\ thread = "exited"
                        /\ returned' = [returned EXCEPT ![c] = "OK"]
                        /\ UNCHANGED failures
                     \/ /\ Fail(TRUE)
                        /\ returned' = [returned EXCEPT ![c] = "FAILURE"]
                  /\ UNCHANGED <<mutex, task, thread, got, tasks, osJoins>>

\* ic_task_get_result: FAILURE while the flag is up.
GetResultLoads(c) == /\ thread # "none"
                     /\ isRunning = 0
                     /\ Goto(c, "idle", "read")
                     /\ UNCHANGED <<mutex, task, thread, returned, got, tasks, osJoins, failures>>

\* The result is read without a lock: before the join it may be the initial one.
GetResultReads(c) ==
    /\ Goto(c, "read", "idle")
    /\ got' = [got EXCEPT ![c] = [task |-> tasks, value |-> result,
                                  joined |-> returned[c] \in {"OK", "ALREADY_JOINED"} /\ ~failures.join]]
    /\ UNCHANGED <<mutex, task, thread, returned, tasks, osJoins, failures>>

ThreadStep == TrampolineStarts \/ TrampolineStores \/ TrampolineExits
Joining(c) == JoinLoads(c) \/ JoinStores(c) \/ JoinReturns(c) \/ MutexUnlock(c)
CallerStep(c) == \/ CallLock(c) \/ MutexLock(c) \/ MutexTryLock(c) \/ MutexUnlock(c)
                 \/ JoinLoads(c) \/ JoinStores(c) \/ JoinReturns(c)
                 \/ GetResultLoads(c) \/ GetResultReads(c)

Next == MutexInit \/ MutexDestroy \/ TaskInit \/ ThreadStep \/ \E c \in Caller : CallerStep(c)

\* The operating system runs every thread that can run, and the function returns; a free mutex is
\* taken by one of the callers that wait for it, but no backend promises by which.
Fairness == /\ WF_vars(ThreadStep) /\ \A c \in Caller : WF_vars(Joining(c))
            /\ WF_vars(\E c \in Caller : MutexLock(c))
Spec     == Init /\ [][Next]_vars /\ Fairness

-----------------------------------------------------------------------------
(* Properties                                                              *)

\* ic_task_join tests its flag and sets it in two steps: with the mutex around it the
\* operating system is asked at most once to join a thread, whoever comes first.
JoinedAtMostOnce == osJoins <= 1

\* A join that returned OK or ALREADY_JOINED means that the thread is over, unless the
\* operating system failed to join it, which leaves the task marked as joined.  A caller that
\* saw the task joined gets the result of this task's function, never the initial 0 of
\* ic_task_init and never the result of a task that used the structure before.
ResultAfterJoin ==
    \A c \in Caller :
        /\ returned[c] \in {"OK", "ALREADY_JOINED"} => thread = "exited" \/ failures.join
        /\ got[c].joined => got[c].value = got[c].task

\* Every caller that wants to join comes out of ic_task_join again, also when several do, and
\* whether the thread has begun by then or is over; unless the others come back for ever and take
\* the mutex before it each time.
OthersLockForEver(c) ==
    []<><<\E d \in Caller \ {c} : CallLock(d) \/ MutexTryLock(d)>>_vars

JoinersReturn == \A c \in Caller : OthersLockForEver(c) \/ (pc[c] = "lock" ~> pc[c] = "idle")
=============================================================================
