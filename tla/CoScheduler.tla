---------------------------- MODULE CoScheduler ----------------------------
(***************************************************************************)
(* ic_co_scheduler (IronCLib/ironclib/ic_co_job.h): a cooperative          *)
(* scheduler that runs one step of one job per tick.  A cycle begins with  *)
(* a refill, which grants each unfinished job min(weight, remaining)       *)
(* credits; a tick picks, among the jobs of the cycle with credits left,   *)
(* the one with the best score, the first of them on a tie, and spends one *)
(* of its credits once the step has returned.  A step may itself add jobs  *)
(* and, if MaxDepth allows, call tick: a tick is two actions, the          *)
(* selection with the call of the step, and the return of the step.        *)
(***************************************************************************)
EXTENDS Integers, Sequences, FiniteSets

CONSTANTS MaxJobs,     \* IC_CO_MAX_JOBS
          MaxSteps,    \* IC_CO_MAX_STEPS
          Priorities,  \* the priorities that callers pass
          IntMax,      \* INT_MAX
          MaxDepth     \* ticks that may be in progress at once: 1 if no step calls tick

ASSUME SchedulerAssumption ==
    /\ MaxJobs \in Nat
    /\ MaxSteps \in Nat \ {0}
    /\ Priorities \subseteq Nat
    /\ IntMax \in Nat
    /\ MaxDepth \in Nat \ {0}

\* The places of UNSAFE_PRIVATE_ACCESS_jobs, numbered from 1.
Index == 1..MaxJobs

VARIABLES count,                    \* job_count
          steps, priority, weight,  \* what each job was added with
          state, credits,           \* of each job: the step it is on, the credits left
          runnable,                 \* the jobs of the current cycle
          total,                    \* total_credits
          isDone,                   \* is_done
          stack,                    \* the jobs whose steps are executing, the last one on top
          ran                       \* history: the steps each job executed, in order

jobs == <<count, steps, priority, weight>>
vars == <<jobs, state, credits, runnable, total, isDone, stack, ran>>

Jobs         == 1..count
Remaining(i) == steps[i] - state[i]
Least(a, b)  == IF a < b THEN a ELSE b

\* The sum of the credits c of the jobs in S, counted credit by credit.
SumOf(c, S)  == Cardinality({ik \in S \X (1..MaxSteps) : ik[2] <= c[ik[1]]})

TypeOK == /\ count \in 0..MaxJobs
          /\ steps \in [Index -> 0..MaxSteps]
          /\ priority \in [Index -> Nat]
          /\ weight \in [Index -> 0..MaxSteps]
          /\ state \in [Index -> Nat]
          /\ credits \in [Index -> Int]
          /\ runnable \in SUBSET Jobs
          /\ total \in Int
          /\ isDone \in {0, 1}
          /\ stack \in Seq(Jobs)
          /\ ran \in [Index -> Seq(Nat)]

\* ic_make_co_scheduler: an empty scheduler is done.
Init == /\ count = 0
        /\ steps = [i \in Index |-> 0]
        /\ priority = [i \in Index |-> 0]
        /\ weight = [i \in Index |-> 0]
        /\ state = [i \in Index |-> 0]
        /\ credits = [i \in Index |-> 0]
        /\ runnable = {}
        /\ total = 0
        /\ isDone = 1
        /\ stack = <<>>
        /\ ran = [i \in Index |-> <<>>]

-----------------------------------------------------------------------------
\* Mutant: the scheduler stays done.
AddJobStaysDone(n, p, w) ==
    /\ count < MaxJobs
    /\ count' = count + 1
    /\ steps' = [steps EXCEPT ![count + 1] = n]
    /\ priority' = [priority EXCEPT ![count + 1] = p]
    /\ weight' = [weight EXCEPT ![count + 1] = w]
    /\ state' = [state EXCEPT ![count + 1] = 0]
    /\ credits' = [credits EXCEPT ![count + 1] = 0]
    /\ UNCHANGED <<runnable, total, isDone, stack, ran>>

\* ic_co_scheduler_add_job of a job with n steps.  A job without steps, a negative
\* priority, a weight outside 1..MaxSteps and a full scheduler are refused unchanged.
\* The job gets no credits before the next refill.
AddJob(n, p, w) ==
    /\ count < MaxJobs
    /\ count' = count + 1
    /\ steps' = [steps EXCEPT ![count + 1] = n]
    /\ priority' = [priority EXCEPT ![count + 1] = p]
    /\ weight' = [weight EXCEPT ![count + 1] = w]
    /\ state' = [state EXCEPT ![count + 1] = 0]
    /\ credits' = [credits EXCEPT ![count + 1] = 0]
    /\ isDone' = 0
    /\ UNCHANGED <<runnable, total, stack, ran>>

-----------------------------------------------------------------------------
(* ic_co_scheduler_tick.  The operators with a C are the values after the   *)
(* refill, if there is one.                                                 *)

Refills == total <= 0

Grant(i) == Least(weight[i], Remaining(i))

CRunnable == IF Refills THEN {i \in Jobs : Remaining(i) > 0} ELSE runnable
CCredits  == IF Refills THEN [i \in Index |-> IF i \in CRunnable THEN Grant(i) ELSE credits[i]]
             ELSE credits
CTotal    == IF Refills THEN SumOf(CCredits, CRunnable) ELSE total

Candidates == {i \in CRunnable : CCredits[i] > 0}

Score(i) == priority[i] * CCredits[i] - state[i]

\* A product beyond INT_MAX is undefined behaviour: any candidate may come out best.
Overflows == \E i \in Candidates : priority[i] * CCredits[i] > IntMax

\* Mutant: a later job wins a tie, ">=" in the place of ">", and the score counts up.
BestCountsUp(i) == \A k \in Candidates :
    \/ Score(k) + 2 * state[k] < Score(i) + 2 * state[i]
    \/ (Score(k) + 2 * state[k] = Score(i) + 2 * state[i] /\ k <= i)

\* Job i has the highest score; the first candidate wins a tie.
Best(i) == \A k \in Candidates :
    Score(k) < Score(i) \/ (Score(k) = Score(i) /\ i <= k)

MayTick == Len(stack) < MaxDepth

\* Mutant: a tick without a candidate does not report that all is done.
TickIdleForgets ==
    /\ MayTick
    /\ Candidates = {}
    /\ credits' = CCredits /\ runnable' = CRunnable /\ total' = CTotal
    /\ UNCHANGED <<jobs, isDone, state, stack, ran>>

\* No candidate: every job has finished.
TickIdle ==
    /\ MayTick
    /\ Candidates = {}
    /\ credits' = CCredits /\ runnable' = CRunnable /\ total' = CTotal
    /\ isDone' = 1
    /\ UNCHANGED <<jobs, state, stack, ran>>

\* The best candidate is selected and its step is called.
TickCalls(i) ==
    /\ MayTick
    /\ i \in Candidates
    /\ Overflows \/ Best(i)
    /\ credits' = CCredits /\ runnable' = CRunnable /\ total' = CTotal
    /\ stack' = Append(stack, i)
    /\ ran' = [ran EXCEPT ![i] = Append(@, state[i])]
    /\ UNCHANGED <<jobs, state, isDone>>

\* Mutant: the step does not cost the cycle a credit.
StepReturnsUnpaid ==
    /\ stack # <<>>
    /\ LET j == stack[Len(stack)]
       IN  /\ state' = [state EXCEPT ![j] = @ + 1]
           /\ credits' = [credits EXCEPT ![j] = @ - 1]
    /\ stack' = SubSeq(stack, 1, Len(stack) - 1)
    /\ UNCHANGED <<jobs, runnable, total, isDone, ran>>

\* Mutant: a job that has used up its credits does not move on.
StepReturnsInPlace ==
    /\ stack # <<>>
    /\ LET j == stack[Len(stack)]
       IN  /\ state' = [state EXCEPT ![j] = IF credits[j] > 1 THEN @ + 1 ELSE @]
           /\ credits' = [credits EXCEPT ![j] = @ - 1]
    /\ stack' = SubSeq(stack, 1, Len(stack) - 1)
    /\ total' = total - 1
    /\ UNCHANGED <<jobs, runnable, isDone, ran>>

\* The step returns to the tick that called it.
StepReturns ==
    /\ stack # <<>>
    /\ LET j == stack[Len(stack)]
       IN  /\ state' = [state EXCEPT ![j] = @ + 1]
           /\ credits' = [credits EXCEPT ![j] = @ - 1]
    /\ stack' = SubSeq(stack, 1, Len(stack) - 1)
    /\ total' = total - 1
    /\ UNCHANGED <<jobs, runnable, isDone, ran>>

Tick == TickIdle \/ \E i \in Jobs : TickCalls(i)

Next == \/ \E n \in 1..MaxSteps, p \in Priorities, w \in 1..MaxSteps : AddJob(n, p, w)
        \/ Tick
        \/ StepReturns

\* The program calls tick as long as the scheduler is not done, as the example in
\* header_library.md does, and every step returns.
Fairness == WF_vars(Tick /\ isDone = 0) /\ WF_vars(StepReturns)

Spec     == Init /\ [][Next]_vars
FairSpec == Spec /\ Fairness

-----------------------------------------------------------------------------
(* Properties                                                              *)

\* "Each step executes exactly once, in a fixed order".
StepsOnceInOrder == \A i \in Jobs : \A k \in 1..Len(ran[i]) : ran[i][k] = k - 1

\* total_credits is the sum of the credits of the cycle's jobs: a cycle neither ends
\* while a job has credits left, nor goes on with nobody to run; and no job holds more
\* credits than it has steps left, so that the step a tick calls is one of the job's.
CreditsAddUp ==
    /\ total = SumOf(credits, runnable)
    /\ \A i \in Jobs : credits[i] \in 0..Remaining(i)

\* A scheduler that says it is done has run every job to its end; a job added since,
\* by whomever, has reset the flag.
DoneMeansFinished == isDone = 1 => \A i \in Jobs : Remaining(i) <= 0

\* Two jobs alike that entered the cycle at the same step interleave: neither gets two
\* steps ahead of the other, as long as no score overflows.
EqualJobsInterleave ==
    (\A i \in Jobs : priority[i] * weight[i] <= IntMax) =>
    \A i, k \in runnable :
        /\ priority[i] = priority[k] /\ weight[i] = weight[k] /\ steps[i] = steps[k]
        /\ state[i] + credits[i] = state[k] + credits[k]
        => state[i] - state[k] \in -1..1

\* Ticking until is_done terminates: every job runs to its end.
RunsToCompletion == <>[](isDone = 1)
=============================================================================
