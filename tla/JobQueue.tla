------------------------------ MODULE JobQueue ------------------------------
(***************************************************************************)
(* What a TaskPool promises of the jobs (parallel_work.h, the comments of  *)
(* the TaskPool API): a bounded first-in first-out queue, from which at    *)
(* most WorkerCount jobs are executed at a time, each once, and a          *)
(* completion for each job, which reads 1 once it was executed.  An abort  *)
(* stops the executions, but for one job that a worker is about to take.   *)
(* Nothing is left running when the pool is gone, and nothing happens      *)
(* there.  The mutex, the ring, the gate, its permits and the workers are  *)
(* not part of the promise.  TaskPool implements this specification.       *)
(***************************************************************************)
EXTENDS Integers, Sequences, FiniteSets

CONSTANTS WorkerCount,  \* worker_count
          MaxPending,   \* TASKPOOL_MAX_PENDING_TASKS
          Job           \* the jobs, each with its TaskCompletion

VARIABLES phase,      \* "running", "drain", "abort", or "gone"
          late,       \* whether an aborting pool may still begin one job
          queue,      \* the jobs accepted and not begun
          running,    \* the jobs whose function executes
          finished,   \* the jobs whose function returned
          completed   \* what each job's completion reads

queueVars == <<phase, late, queue, running, finished, completed>>

Accepted == {queue[k] : k \in 1..Len(queue)} \cup running \cup finished

TypeOK == /\ phase \in {"running", "drain", "abort", "gone"}
          /\ late \in BOOLEAN
          /\ queue \in Seq(Job)
          /\ running \in SUBSET Job
          /\ finished \in SUBSET Job
          /\ completed \in [Job -> {0, 1}]

Init == /\ phase = "running"
        /\ late = FALSE
        /\ queue = <<>>
        /\ running = {}
        /\ finished = {}
        /\ completed \in [Job -> {0, 1}]

\* A submit of a job resets its completion ...
Reset(j) == /\ phase = "running"
            /\ j \notin Accepted
            /\ completed' = [completed EXCEPT ![j] = 0]
            /\ UNCHANGED <<phase, late, queue, running, finished>>

\* ... and puts it in the queue, even if the pool was told to close in between.
Accept(j) == /\ phase # "gone"
             /\ j \notin Accepted
             /\ completed[j] = 0
             /\ Len(queue) < MaxPending
             /\ queue' = Append(queue, j)
             /\ UNCHANGED <<phase, late, running, finished, completed>>

\* The oldest job begins.
Begin == /\ phase # "gone"
         /\ phase = "abort" => late
         /\ queue # <<>>
         /\ Cardinality(running) < WorkerCount
         /\ running' = running \cup {Head(queue)}
         /\ queue' = Tail(queue)
         /\ late' = FALSE
         /\ UNCHANGED <<phase, finished, completed>>

\* The worker that might have begun a job finds none.
BeginsNone == /\ late
              /\ late' = FALSE
              /\ UNCHANGED <<phase, queue, running, finished, completed>>

Finish(j) == /\ j \in running
             /\ running' = running \ {j}
             /\ finished' = finished \cup {j}
             /\ UNCHANGED <<phase, late, queue, completed>>

Complete(j) == /\ j \in finished
               /\ completed[j] = 0
               /\ completed' = [completed EXCEPT ![j] = 1]
               /\ UNCHANGED <<phase, late, queue, running, finished>>

\* The pool is told to drain or to abort, or one overrides the other.
Close(mode) == /\ phase # "gone"
               /\ phase' = mode
               /\ late' \in BOOLEAN
               /\ late' => mode = "abort" /\ (phase = "abort" => late)
               /\ UNCHANGED <<queue, running, finished, completed>>

Dispose == /\ phase # "gone"
           /\ running = {}
           /\ phase' = "gone"
           /\ late' = FALSE
           /\ UNCHANGED <<queue, running, finished, completed>>

Next == \/ \E j \in Job : Reset(j) \/ Accept(j) \/ Finish(j) \/ Complete(j)
        \/ \E mode \in {"drain", "abort"} : Close(mode)
        \/ Begin \/ BeginsNone \/ Dispose

Spec == Init /\ [][Next]_queueVars
=============================================================================
