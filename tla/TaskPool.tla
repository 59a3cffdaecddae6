------------------------------ MODULE TaskPool ------------------------------
(***************************************************************************)
(* TaskPool (IronCLib/docs/premade/parallel_work.h): worker threads that   *)
(* take jobs from a bounded ring buffer, threads that submit jobs, and     *)
(* threads that close and destroy the pool.  The work gate is its permit   *)
(* counter: IcGate shows that a gate is a counting semaphore.  A step is   *)
(* one access to a shared atomic, one gate operation, or one section under *)
(* the pool's mutex; a worker's section has two, because the state it      *)
(* loads under the mutex is written by closers that do not take it.        *)
(***************************************************************************)
EXTENDS Integers, Sequences, FiniteSets, SequencesExt

CONSTANTS WorkerCount,   \* worker_count
          MaxPending,    \* TASKPOOL_MAX_PENDING_TASKS
          Job,           \* the jobs, each with the call that submits it
          NoJob,         \* what an unused slot holds, or a worker without a job
          Closer,        \* the threads that call task_pool_close
          Owner,         \* the closer that creates and destroys the pool
          MaxCloses,     \* bound of the model: calls of close and destroy
          Timeouts,      \* whether a close may have a timeout (TRUE) or none (FALSE)
          RacingSubmits  \* whether submits may overlap a close

ASSUME PoolAssumption ==
    /\ WorkerCount \in Nat \ {0}
    /\ MaxPending \in Nat \ {0}
    /\ NoJob \notin Job
    /\ Owner \in Closer
    /\ MaxCloses \in Nat
    /\ Timeouts \subseteq BOOLEAN
    /\ RacingSubmits \in BOOLEAN

Worker == 1..WorkerCount
Slot   == 0..(MaxPending - 1)

VARIABLES life,       \* of the pool: "absent", "ready", or "gone"
          state,      \* PRIVATE_state
          active,     \* PRIVATE_active_jobs
          slots,      \* PRIVATE_jobs
          head, tail, count,
          mutex,      \* the worker that holds PRIVATE_mutex, or 0
          permits,    \* of PRIVATE_work_gate
          worker,     \* each worker: pc, the state it loaded, its job
          submit,     \* where the call that submits each job is
          completed,  \* PRIVATE_completed of each job's TaskCompletion
          close,      \* each closer's call of init, close or destroy
          closes,     \* calls of close and destroy so far
          joins,      \* of each worker, whether it was joined and what that returned
          accepted,   \* history: the jobs enqueued, in order
          taken,      \* history: how many of them were dequeued
          finished    \* history: the jobs whose function returned

ring    == <<slots, head, tail, count>>
history == <<accepted, taken, finished>>
vars    == <<life, state, active, ring, mutex, permits, worker, submit, completed,
             close, closes, joins, history>>

State     == {"running", "drain", "abort"}
WorkerPc  == {"none", "gate", "lock", "inspect", "run", "complete", "leave",
              "check", "signal", "exit"}
SubmitPc  == {"new", "enqueue", "signal", "accepted", "full", "closed"}
ClosePc   == {"idle", "create", "undoWake", "undoJoin", "failed", "store", "wake",
              "queued", "active", "sleep", "final", "join", "destroyed"}
Result    == {"none", "NoError", "Timeout", "InvalidState", "Irrecoverable"}
CloseCall == [pc : ClosePc, mode : {"drain", "abort"}, timed : BOOLEAN, destroys : BOOLEAN,
              left : 0..WorkerCount, result : Result, owed : SUBSET Job]

Submitting == \E j \in Job : submit[j] \in {"enqueue", "signal"}

TypeOK == /\ life \in {"absent", "ready", "gone"}
          /\ state \in State
          /\ active \in 0..WorkerCount
          /\ slots \in [Slot -> Job \cup {NoJob}]
          /\ head \in Slot /\ tail \in Slot /\ count \in 0..MaxPending
          /\ mutex \in Worker \cup {0}
          /\ permits \in Nat
          /\ worker \in [Worker -> [pc : WorkerPc, seen : State, job : Job \cup {NoJob}]]
          /\ submit \in [Job -> SubmitPc]
          /\ completed \in [Job -> {0, 1}]
          /\ close \in [Closer -> CloseCall]
          /\ closes \in 0..MaxCloses
          /\ joins \in [Worker -> {"none", "OK", "FAILURE"}]
          /\ accepted \in Seq(Job)
          /\ taken \in 0..Len(accepted)
          /\ finished \in SUBSET Job

\* A TaskCompletion may be fresh or still set by a job it served before.
Init == /\ life = "absent"
        /\ state = "running"
        /\ active = 0
        /\ slots = [i \in Slot |-> NoJob]
        /\ head = 0 /\ tail = 0 /\ count = 0
        /\ mutex = 0
        /\ permits = 0
        /\ worker = [w \in Worker |-> [pc |-> "none", seen |-> "running", job |-> NoJob]]
        /\ submit = [j \in Job |-> "new"]
        /\ completed \in [Job -> {0, 1}]
        /\ close = [c \in Closer |->
                      [pc |-> IF c = Owner THEN "create" ELSE "idle", mode |-> "drain",
                       timed |-> FALSE, destroys |-> FALSE, left |-> WorkerCount,
                       result |-> "none", owed |-> {}]]
        /\ closes = 0
        /\ joins = [w \in Worker |-> "none"]
        /\ accepted = <<>> /\ taken = 0 /\ finished = {}

-----------------------------------------------------------------------------
(* task_pool_init: the owner starts one worker after the other.            *)

Created == {w \in Worker : worker[w].pc # "none"}
Joined  == {w \in Worker : joins[w] # "none"}
Lost    == {w \in Worker : joins[w] = "FAILURE"}

CreateWorker ==
    /\ close[Owner].pc = "create"
    /\ worker' = [worker EXCEPT ![Cardinality(Created) + 1].pc = "gate"]
    /\ IF Cardinality(Created) + 1 = WorkerCount
       THEN life' = "ready" /\ close' = [close EXCEPT ![Owner].pc = "idle"]
       ELSE UNCHANGED <<life, close>>
    /\ UNCHANGED <<state, active, ring, mutex, permits, submit, completed, closes, joins, history>>

\* task_init fails for the next worker: the pool is told to abort.
CreateFails ==
    /\ close[Owner].pc = "create"
    /\ state' = "abort"
    /\ close' = [close EXCEPT ![Owner].pc = "undoWake"]
    /\ UNCHANGED <<life, active, ring, mutex, permits, worker, submit, completed, closes, joins, history>>

\* One gate signal for each worker the pool should have had ...
UndoWake ==
    /\ close[Owner].pc = "undoWake"
    /\ permits' = permits + 1
    /\ close' = [close EXCEPT ![Owner].left = @ - 1,
                              ![Owner].pc = IF close[Owner].left = 1 THEN "undoJoin" ELSE @]
    /\ UNCHANGED <<life, state, active, ring, mutex, worker, submit, completed, closes, joins, history>>

\* ... then every worker that was started is joined, whatever the joins return, and gate and
\* mutex are destroyed.
UndoDestroy ==
    /\ close[Owner].pc = "undoJoin"
    /\ Joined = Created
    /\ life' = "gone"
    /\ close' = [close EXCEPT ![Owner].pc = "failed"]
    /\ UNCHANGED <<state, active, ring, mutex, permits, worker, submit, completed, closes, joins,
                   history>>

-----------------------------------------------------------------------------
(* PRIVATE_task_pool_worker_main                                           *)

\* gate_wait returns with a permit.
WorkerGate(w) ==
    /\ worker[w].pc = "gate"
    /\ permits > 0
    /\ permits' = permits - 1
    /\ worker' = [worker EXCEPT ![w].pc = "lock"]
    /\ UNCHANGED <<life, state, active, ring, mutex, submit, completed, close, closes, joins, history>>

\* Mutant: the worker goes by the state that it loaded before.
WorkerLocksStale(w) ==
    /\ worker[w].pc = "lock"
    /\ mutex = 0
    /\ mutex' = w
    /\ worker' = [worker EXCEPT ![w].pc = "inspect"]
    /\ UNCHANGED <<life, state, active, ring, permits, submit, completed, close, closes, joins, history>>

\* The worker takes the mutex and loads the state.
WorkerLock(w) ==
    /\ worker[w].pc = "lock"
    /\ mutex = 0
    /\ mutex' = w
    /\ worker' = [worker EXCEPT ![w].pc = "inspect", ![w].seen = state]
    /\ UNCHANGED <<life, state, active, ring, permits, submit, completed, close, closes, joins, history>>

\* Mutant: a draining worker leaves whatever the queue holds.
WorkerLeavesQueue(w) ==
    /\ worker[w].pc = "inspect"
    /\ worker[w].seen # "running"
    /\ mutex' = 0
    /\ worker' = [worker EXCEPT ![w].pc = "exit"]
    /\ UNCHANGED <<life, state, active, ring, permits, submit, completed, close, closes, joins, history>>

\* Abort ignores the queue; drain leaves once the queue is empty; while the pool runs, a
\* worker that finds no job goes back to the gate (NoIdleWakeup says that none does).
WorkerLeaves(w) ==
    /\ worker[w].pc = "inspect"
    /\ worker[w].seen = "abort" \/ count = 0
    /\ mutex' = 0
    /\ worker' = [worker EXCEPT ![w].pc = IF worker[w].seen = "running" THEN "gate" ELSE "exit"]
    /\ UNCHANGED <<life, state, active, ring, permits, submit, completed, close, closes, joins, history>>

\* Mutant: the worker does not count itself active.
WorkerTakesUncounted(w) ==
    /\ worker[w].pc = "inspect"
    /\ worker[w].seen # "abort" /\ count > 0
    /\ mutex' = 0
    /\ worker' = [worker EXCEPT ![w].pc = "run", ![w].job = slots[head]]
    /\ head' = (head + 1) % MaxPending
    /\ count' = count - 1
    /\ taken' = taken + 1
    /\ UNCHANGED <<life, state, active, slots, tail, permits, submit, completed, close, closes, joins,
                   accepted, finished>>

\* The worker dequeues a job, counts itself active and releases the mutex.
WorkerTakes(w) ==
    /\ worker[w].pc = "inspect"
    /\ worker[w].seen # "abort"
    /\ count > 0
    /\ mutex' = 0
    /\ worker' = [worker EXCEPT ![w].pc = "run", ![w].job = slots[head]]
    /\ head' = (head + 1) % MaxPending
    /\ count' = count - 1
    /\ active' = active + 1
    /\ taken' = taken + 1
    /\ UNCHANGED <<life, state, slots, tail, permits, submit, completed, close, closes, joins,
                   accepted, finished>>

\* The job's function returns.
WorkerRuns(w) ==
    /\ worker[w].pc = "run"
    /\ finished' = finished \cup {worker[w].job}
    /\ worker' = [worker EXCEPT ![w].pc = "complete"]
    /\ UNCHANGED <<life, state, active, ring, mutex, permits, submit, completed, close, closes, joins,
                   accepted, taken>>

WorkerCompletes(w) ==
    /\ worker[w].pc = "complete"
    /\ completed' = [completed EXCEPT ![worker[w].job] = 1]
    /\ worker' = [worker EXCEPT ![w].pc = "leave"]
    /\ UNCHANGED <<life, state, active, ring, mutex, permits, submit, close, closes, joins, history>>

\* Mutant: the worker still counts as active when it is done with the job.
WorkerStaysActive(w) ==
    /\ worker[w].pc = "leave"
    /\ worker' = [worker EXCEPT ![w].pc = "check", ![w].job = NoJob]
    /\ UNCHANGED <<life, state, active, ring, mutex, permits, submit, completed, close, closes, joins,
                   history>>

WorkerNotActive(w) ==
    /\ worker[w].pc = "leave"
    /\ active' = active - 1
    /\ worker' = [worker EXCEPT ![w].pc = "check", ![w].job = NoJob]
    /\ UNCHANGED <<life, state, ring, mutex, permits, submit, completed, close, closes, joins, history>>

\* Mutant: a worker that finished a job of a draining pool wakes nobody.
WorkerWakesNobody(w) ==
    /\ worker[w].pc = "check"
    /\ worker' = [worker EXCEPT ![w].pc = "gate"]
    /\ UNCHANGED <<life, state, active, ring, mutex, permits, submit, completed, close, closes, joins,
                   history>>

\* While the pool drains, a worker that finished a job wakes another one.
WorkerChecks(w) ==
    /\ worker[w].pc = "check"
    /\ worker' = [worker EXCEPT ![w].pc = IF state = "drain" THEN "signal" ELSE "gate"]
    /\ UNCHANGED <<life, state, active, ring, mutex, permits, submit, completed, close, closes, joins,
                   history>>

WorkerSignals(w) ==
    /\ worker[w].pc = "signal"
    /\ permits' = permits + 1
    /\ worker' = [worker EXCEPT ![w].pc = "gate"]
    /\ UNCHANGED <<life, state, active, ring, mutex, submit, completed, close, closes, joins, history>>

-----------------------------------------------------------------------------
(* task_pool_submit                                                        *)

\* The pool must be ready and must not be in destruction, which its owner sees to.
MaySubmit == /\ life = "ready"
             /\ ~close[Owner].destroys
             /\ RacingSubmits \/ \A c \in Closer : close[c].pc = "idle"

\* Mutant: the completion is not reset.
SubmitKeepsCompletion(j) ==
    /\ MaySubmit
    /\ submit[j] \in {"new", "full"}
    /\ submit' = [submit EXCEPT ![j] = IF state = "running" THEN "enqueue" ELSE "closed"]
    /\ UNCHANGED <<life, state, active, ring, mutex, permits, worker, completed, close, closes, joins,
                   history>>

\* A call begins, or begins again after the queue was full: it loads the state without
\* the mutex, and resets the completion, which nobody else looks at yet.
SubmitBegin(j) ==
    /\ MaySubmit
    /\ submit[j] \in {"new", "full"}
    /\ IF state = "running"
       THEN /\ submit' = [submit EXCEPT ![j] = "enqueue"]
            /\ completed' = [completed EXCEPT ![j] = 0]
       ELSE /\ submit' = [submit EXCEPT ![j] = "closed"]
            /\ UNCHANGED completed
    /\ UNCHANGED <<life, state, active, ring, mutex, permits, worker, close, closes, joins, history>>

\* Mutant: the call signals the gate although it enqueued nothing.
SubmitFullSignals(j) ==
    /\ submit[j] = "enqueue"
    /\ mutex = 0
    /\ count >= MaxPending
    /\ permits' = permits + 1
    /\ submit' = [submit EXCEPT ![j] = "full"]
    /\ UNCHANGED <<life, state, active, ring, mutex, worker, completed, close, closes, joins, history>>

SubmitFull(j) ==
    /\ submit[j] = "enqueue"
    /\ mutex = 0
    /\ count >= MaxPending
    /\ submit' = [submit EXCEPT ![j] = "full"]
    /\ UNCHANGED <<life, state, active, ring, mutex, permits, worker, completed, close, closes, joins,
                   history>>

\* Mutant: one job too many, ">" in the place of ">=".
SubmitOverfills(j) ==
    /\ submit[j] = "enqueue"
    /\ mutex = 0
    /\ count <= MaxPending
    /\ slots' = [slots EXCEPT ![tail] = j]
    /\ tail' = (tail + 1) % MaxPending
    /\ count' = count + 1
    /\ accepted' = Append(accepted, j)
    /\ submit' = [submit EXCEPT ![j] = "signal"]
    /\ UNCHANGED <<life, state, active, head, mutex, permits, worker, completed, close, closes, joins,
                   taken, finished>>

SubmitEnqueue(j) ==
    /\ submit[j] = "enqueue"
    /\ mutex = 0
    /\ count < MaxPending
    /\ slots' = [slots EXCEPT ![tail] = j]
    /\ tail' = (tail + 1) % MaxPending
    /\ count' = count + 1
    /\ accepted' = Append(accepted, j)
    /\ submit' = [submit EXCEPT ![j] = "signal"]
    /\ UNCHANGED <<life, state, active, head, mutex, permits, worker, completed, close, closes, joins,
                   taken, finished>>

SubmitSignal(j) ==
    /\ submit[j] = "signal"
    /\ permits' = permits + 1
    /\ submit' = [submit EXCEPT ![j] = "accepted"]
    /\ UNCHANGED <<life, state, active, ring, mutex, worker, completed, close, closes, joins, history>>

-----------------------------------------------------------------------------
(* task_pool_close and task_pool_destroy                                   *)

\* A close that returns, with its result.
Returns(c, r) == [close[c] EXCEPT !.pc = "idle", !.result = r, !.destroys = FALSE]

MayClose(c) == /\ life = "ready"
               /\ ~close[Owner].destroys
               /\ close[c].pc = "idle"
               /\ closes < MaxCloses
               /\ RacingSubmits \/ ~Submitting

\* close(Drain) is refused once the pool aborts, which it looks up before it stores.
CloseDrain(c) ==
    /\ MayClose(c)
    /\ closes' = closes + 1
    /\ \E timed \in Timeouts :
          close' = [close EXCEPT ![c] =
                      [@ EXCEPT !.pc = IF state = "abort" THEN "idle" ELSE "store",
                                !.result = IF state = "abort" THEN "InvalidState" ELSE "none",
                                !.mode = "drain", !.timed = timed]]
    /\ UNCHANGED <<life, state, active, ring, mutex, permits, worker, submit, completed, joins, history>>

CloseAbort(c) ==
    /\ MayClose(c)
    /\ closes' = closes + 1
    /\ \E timed \in Timeouts :
          close' = [close EXCEPT ![c] = [@ EXCEPT !.pc = "store", !.result = "none",
                                                  !.mode = "abort", !.timed = timed]]
    /\ UNCHANGED <<life, state, active, ring, mutex, permits, worker, submit, completed, joins, history>>

\* task_pool_destroy begins with close(Abort, 30 s).  The owner calls it when no
\* other call on the pool is in progress.
CallDestroy ==
    /\ life = "ready"
    /\ \A c \in Closer : close[c].pc = "idle"
    /\ ~Submitting
    /\ closes < MaxCloses
    /\ closes' = closes + 1
    /\ close' = [close EXCEPT ![Owner].pc = "store", ![Owner].mode = "abort",
                              ![Owner].timed = TRUE, ![Owner].destroys = TRUE,
                              ![Owner].result = "none"]
    /\ UNCHANGED <<life, state, active, ring, mutex, permits, worker, submit, completed, joins, history>>

\* The state is stored whatever it has become since; owed is what the queue and the
\* workers have been given by then.
CloseStore(c) ==
    /\ close[c].pc = "store"
    /\ state' = close[c].mode
    /\ close' = [close EXCEPT ![c].pc = "wake", ![c].left = WorkerCount,
                              ![c].owed = ToSet(accepted)]
    /\ UNCHANGED <<life, active, ring, mutex, permits, worker, submit, completed, closes, joins, history>>

\* Mutant: the loop that wakes the workers stops one short.
CloseWakesAllButOne(c) ==
    /\ close[c].pc = "wake"
    /\ permits' = IF close[c].left = 1 THEN permits ELSE permits + 1
    /\ close' = [close EXCEPT ![c].left = @ - 1,
                              ![c].pc = IF close[c].left > 1 THEN @
                                        ELSE IF close[c].mode = "drain" THEN "queued" ELSE "active"]
    /\ UNCHANGED <<life, state, active, ring, mutex, worker, submit, completed, closes, joins, history>>

CloseWake(c) ==
    /\ close[c].pc = "wake"
    /\ permits' = permits + 1
    /\ close' = [close EXCEPT ![c].left = @ - 1,
                              ![c].pc = IF close[c].left > 1 THEN @
                                        ELSE IF close[c].mode = "drain" THEN "queued" ELSE "active"]
    /\ UNCHANGED <<life, state, active, ring, mutex, worker, submit, completed, closes, joins, history>>

\* Drain reads the queue under the mutex ...
CloseReadQueue(c) ==
    /\ close[c].pc = "queued"
    /\ mutex = 0
    /\ close' = [close EXCEPT ![c].pc = IF count = 0 THEN "active" ELSE "sleep"]
    /\ UNCHANGED <<life, state, active, ring, mutex, permits, worker, submit, completed, closes, joins,
                   history>>

\* ... and both modes read the number of active jobs after it.
CloseReadActive(c) ==
    /\ close[c].pc = "active"
    /\ close' = [close EXCEPT ![c].pc = IF active = 0 THEN "final" ELSE "sleep",
                              ![c].left = WorkerCount]
    /\ UNCHANGED <<life, state, active, ring, mutex, permits, worker, submit, completed, closes, joins,
                   history>>

\* After a sleep the close tries again, or it has a timeout and the time is up.
CloseSleeps(c) ==
    /\ close[c].pc = "sleep"
    /\ close' = [close EXCEPT ![c].pc = IF close[c].mode = "drain" THEN "queued" ELSE "active"]
    /\ UNCHANGED <<life, state, active, ring, mutex, permits, worker, submit, completed, closes, joins,
                   history>>

CloseTimesOut(c) ==
    /\ close[c].pc = "sleep"
    /\ close[c].timed
    /\ close' = [close EXCEPT ![c] = Returns(c, "Timeout")]
    /\ UNCHANGED <<life, state, active, ring, mutex, permits, worker, submit, completed, closes, joins,
                   history>>

\* The final wakeups; then close returns, or destroy goes on to join the workers.
CloseFinal(c) ==
    /\ close[c].pc = "final"
    /\ permits' = permits + 1
    /\ close' = [close EXCEPT ![c] = IF close[c].left > 1 THEN [close[c] EXCEPT !.left = @ - 1]
                                     ELSE IF close[c].destroys THEN [close[c] EXCEPT !.pc = "join"]
                                     ELSE Returns(c, "NoError")]
    /\ UNCHANGED <<life, state, active, ring, mutex, worker, submit, completed, closes, joins, history>>

\* The workers are joined in order, each once: a join waits until the worker is over, or it fails.
JoinReturns(w, result) ==
    /\ close[Owner].pc \in {"join", "undoJoin"}
    /\ w \in Created
    /\ w = Cardinality(Joined) + 1
    /\ joins' = [joins EXCEPT ![w] = result]
    /\ UNCHANGED <<life, state, active, ring, mutex, permits, worker, submit, completed, close,
                   closes, history>>

JoinWorker(w) == worker[w].pc = "exit" /\ JoinReturns(w, "OK")
JoinFails(w)  == JoinReturns(w, "FAILURE")

\* Each join overwrites err, so that the last one decides whether gate and mutex go.  If it
\* failed they stay, and a further destroy fails in the same place: all workers are joined already.
DestroyFails ==
    /\ close[Owner].pc = "join"
    /\ Joined = Worker
    /\ joins[WorkerCount] = "FAILURE"
    /\ close' = [close EXCEPT ![Owner] = Returns(Owner, "Irrecoverable")]
    /\ UNCHANGED <<life, state, active, ring, mutex, permits, worker, submit, completed, closes,
                   joins, history>>

\* Mutant: a failed join of the last worker is forgotten like one of the others.
DestroyForgets ==
    /\ close[Owner].pc = "join"
    /\ Joined = Worker
    /\ life' = "gone"
    /\ close' = [close EXCEPT ![Owner].pc = "destroyed", ![Owner].result = "NoError"]
    /\ UNCHANGED <<state, active, ring, mutex, permits, worker, submit, completed, closes, joins,
                   history>>

\* Beside a worker that could not be joined, destroying the gate or the mutex may fail.
DestroyPool ==
    /\ close[Owner].pc = "join"
    /\ Joined = Worker
    /\ joins[WorkerCount] = "OK"
    /\ life' = "gone"
    /\ \E result \in {"NoError", "Irrecoverable"} :
          /\ result = "NoError" \/ \E w \in Worker : worker[w].pc # "exit"
          /\ close' = [close EXCEPT ![Owner].pc = "destroyed", ![Owner].result = result]
    /\ UNCHANGED <<state, active, ring, mutex, permits, worker, submit, completed, closes, joins,
                   history>>

-----------------------------------------------------------------------------
WorkerStep(w) == \/ WorkerGate(w) \/ WorkerLock(w) \/ WorkerLeaves(w) \/ WorkerTakes(w)
                 \/ WorkerRuns(w) \/ WorkerCompletes(w) \/ WorkerNotActive(w)
                 \/ WorkerChecks(w) \/ WorkerSignals(w)

SubmitStep(j) == SubmitFull(j) \/ SubmitEnqueue(j) \/ SubmitSignal(j)

CloseStep(c) == \/ CloseStore(c) \/ CloseWake(c) \/ CloseReadQueue(c)
                \/ CloseReadActive(c) \/ CloseSleeps(c) \/ CloseFinal(c)

OwnerStep == \/ UndoWake \/ UndoDestroy \/ DestroyFails \/ DestroyPool
             \/ \E w \in Worker : JoinWorker(w)

Next == \/ CreateWorker \/ CreateFails \/ OwnerStep \/ CallDestroy
        \/ \E w \in Worker : WorkerStep(w) \/ JoinFails(w)
        \/ \E j \in Job : SubmitBegin(j) \/ SubmitStep(j)
        \/ \E c \in Closer : CloseDrain(c) \/ CloseAbort(c) \/ CloseStep(c) \/ CloseTimesOut(c)

\* A thread that can run for ever does; for one that waits at the mutex or the gate this
\* says no more than that it gets a mutex that stays free or a permit that stays there.
\* No new call, no failure and no timeout is assumed.
Fairness == /\ \A w \in Worker : WF_vars(WorkerStep(w))
            /\ \A j \in Job : WF_vars(SubmitStep(j))
            /\ \A c \in Closer : WF_vars(CloseStep(c))
            /\ WF_vars(CreateWorker) /\ WF_vars(OwnerStep)

Spec     == Init /\ [][Next]_vars
FairSpec == Spec /\ Fairness

-----------------------------------------------------------------------------
(* Properties                                                              *)

\* The ring buffer is a bounded first-in first-out queue: between head and tail are
\* exactly the accepted jobs that no worker took, in the order of their acceptance,
\* and no job is taken or overwritten in silence.
QueueIsFifo ==
    /\ count = Len(accepted) - taken
    /\ tail = (head + count) % MaxPending
    /\ \A k \in 1..count : slots[(head + k - 1) % MaxPending] = accepted[taken + k]
    /\ \A w \in Worker : worker[w].job # NoJob => worker[w].job \in ToSet(SubSeq(accepted, 1, taken))

\* While the pool runs every permit stands for a job in the queue: no worker that passed
\* the gate finds it empty, however submits and workers interleave.
NoIdleWakeup ==
    \A w \in Worker : worker[w].pc = "inspect" /\ worker[w].seen = "running" => count > 0

\* Once a close, a destroy or a failed init has sent its wakeups, every worker that waits at
\* the gate has a permit waiting for it: though workers of a draining pool use permits to take
\* jobs and come back to the gate, nobody is left behind there, whoever leaves first.
NobodyIsStranded ==
    state # "running" /\ (\A c \in Closer : close[c].pc \notin {"wake", "undoWake"})
        => Cardinality({w \in Worker : worker[w].pc = "gate"}) <= permits

\* TaskPoolClose_Drain, "Finish queued and active tasks": when close(Drain) returns
\* NoError, every job that was accepted before it stored the state has run.
DrainFinishesOwed ==
    \A c \in Closer : close[c].mode = "drain" /\ close[c].result = "NoError"
                         => close[c].owed \subseteq finished

\* A submitted job's completion reads 1 only after the job ran, and it stays 1 from
\* the moment the worker that ran it moves on: neither a stale value of a reused
\* TaskCompletion nor a late reset can be seen.
CompletionIsExact ==
    \A j \in ToSet(accepted) :
        completed[j] = 1 <=> j \in finished /\ \A w \in Worker :
                                 ~(worker[w].job = j /\ worker[w].pc = "complete")

\* When the pool's gate and mutex are destroyed, by task_pool_destroy or by the failure path of
\* task_pool_init, no worker is left that uses them, but for those whose join failed; and a
\* destroy is not successful if the last worker is one of these.
NoWorkerOutlivesPool ==
    /\ life = "gone" => /\ mutex \in Lost \cup {0}
                        /\ \A w \in Worker \ Lost : worker[w].pc \in {"none", "exit"}
    /\ close[Owner].pc = "destroyed" => worker[WorkerCount].pc = "exit"

\* Of the pool one sees its queue, the jobs that execute, those that returned, the completions,
\* and whether a worker that loaded another state is still to look at an aborted pool's queue.
Waiting   == SubSeq(accepted, taken + 1, Len(accepted))
Executing == {worker[w].job : w \in {v \in Worker : worker[v].pc = "run"}}
Phase     == IF life = "gone" /\ Lost = {} THEN "gone" ELSE state
MayBegin  == Phase = "abort" /\ \E w \in Worker : worker[w].pc = "inspect"
                                                  /\ worker[w].seen # "abort"

Promise == INSTANCE JobQueue WITH phase <- Phase, late <- MayBegin, queue <- Waiting,
                                  running <- Executing

\* The pool is a bounded first-in first-out queue of jobs, each executed once by at most
\* WorkerCount workers at a time, in the order of acceptance; after an abort at most one
\* more job begins; and a pool that is gone executes nothing, if its workers could be joined.
ImplementsJobQueue == Promise!Spec

\* Once every worker has left a draining pool, its queue is empty: every job whose
\* submission was accepted has run.
DrainLeavesNoJob ==
    state = "drain" /\ (\A w \in Worker : worker[w].pc = "exit") => count = 0

\* A worker that is told to close leaves: no close, with or without a timeout, may
\* strand a worker at the gate.
WorkersLeave ==
    \A w \in Worker :
        (worker[w].pc # "none" /\ \E c \in Closer : close[c].pc \in {"queued", "active"})
            ~> worker[w].pc = "exit"

\* Where one thread closes the pool and does not submit meanwhile, every close of either mode
\* returns, with a timeout or without, whatever closes before it did; and what has to join the
\* workers, a destroy and an init that failed, ends too.
InClose(c) == close[c].pc \in {"store", "wake", "queued", "active", "sleep", "final"}

ClosesReturn ==
    /\ \A c \in Closer : InClose(c) ~> ~InClose(c)
    /\ close[Owner].pc \in {"undoWake", "undoJoin", "join"}
          ~> (life = "gone" \/ close[Owner].result = "Irrecoverable")
=============================================================================
