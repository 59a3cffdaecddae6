------------------------ MODULE TaskCompletionWait ------------------------
(***************************************************************************)
(* task_completion_wait (IronCLib/docs/premade/parallel_work.h): a thread  *)
(* polls the flag of a TaskCompletion, first without sleeping, then with   *)
(* sleeps that grow up to a cap, until the flag is set or the sum of its   *)
(* sleeps reaches the timeout.  The worker that runs the job sets the flag *)
(* at any moment.  A wait that timed out may be repeated.                  *)
(***************************************************************************)
EXTENDS Integers

CONSTANTS SpinCount,     \* loads before the first sleep, 128
          BackoffEvery,  \* sleeps between two doublings, 10
          SleepCap,      \* no doubling from here on, 64
          Int64Max,      \* INT64_MAX
          Retries,       \* the values of retry_period_ms callers pass
          Timeouts       \* the values of timeout_ms callers pass

Forever == 0  \* TASK_COMPLETION_WAIT_FOREVER

ASSUME WaitAssumption ==
    /\ {SpinCount, BackoffEvery, SleepCap} \subseteq Nat \ {0}
    /\ Int64Max \in Nat
    /\ Retries \subseteq Int /\ Timeouts \subseteq Int
    /\ \A t \in Timeouts : t <= Int64Max

VARIABLES completed,  \* PRIVATE_completed
          waiter,     \* "idle", "spin", "loop", "sleep"
          retry, timeout,
          spins,      \* loads of the spin so far
          it,         \* the counter of sleeps, modulo BackoffEvery
          elapsed,    \* elapsed_ms
          sleepMs,    \* current_sleep_ms
          outcome,    \* of the last wait
          slept       \* history: what the current wait really slept

args == <<retry, timeout>>
waitVars == <<completed, waiter, args, spins, it, elapsed, sleepMs, outcome, slept>>

WaitTypeOK == /\ completed \in {0, 1}
              /\ waiter \in {"idle", "spin", "loop", "sleep"}
              /\ retry \in Retries /\ timeout \in Timeouts
              /\ spins \in 0..SpinCount
              /\ it \in 0..(BackoffEvery - 1)
              /\ elapsed \in 0..Int64Max
              /\ sleepMs \in Nat
              /\ outcome \in {"none", "NoError", "Timeout", "Argument"}
              /\ slept \in Nat

WaitInit == /\ completed = 0
            /\ waiter = "idle"
            /\ retry \in Retries /\ timeout \in Timeouts
            /\ spins = 0 /\ it = 0 /\ elapsed = 0 /\ sleepMs = 0
            /\ outcome = "none"
            /\ slept = 0

\* The worker has run the job.
Complete == completed = 0 /\ completed' = 1
            /\ UNCHANGED <<waiter, args, spins, it, elapsed, sleepMs, outcome, slept>>

Return(r) == waiter' = "idle" /\ outcome' = r

\* The arguments are checked before anything is read.
CallWait(r, t) ==
    /\ waiter = "idle"
    /\ outcome \in {"none", "Timeout"}
    /\ retry' = r /\ timeout' = t
    /\ spins' = 0 /\ slept' = 0
    /\ IF r < 0 \/ t < 0 THEN Return("Argument") ELSE waiter' = "spin" /\ outcome' = "none"
    /\ UNCHANGED <<completed, it, elapsed, sleepMs>>

\* Mutant: the spin has no bound.
SpinForever ==
    /\ waiter = "spin"
    /\ IF completed = 1 THEN Return("NoError") /\ UNCHANGED spins
       ELSE spins' = (spins + 1) % SpinCount /\ UNCHANGED <<waiter, outcome>>
    /\ UNCHANGED <<completed, args, it, elapsed, sleepMs, slept>>

\* One load of the spin; after the last one the loop with its sleeps begins.
Spin ==
    /\ waiter = "spin"
    /\ IF completed = 1
       THEN Return("NoError") /\ UNCHANGED <<spins, it, elapsed, sleepMs>>
       ELSE /\ spins' = spins + 1
            /\ UNCHANGED outcome
            /\ IF spins + 1 = SpinCount
               THEN waiter' = "loop" /\ it' = 0 /\ elapsed' = 0 /\ sleepMs' = retry
               ELSE waiter' = "spin" /\ UNCHANGED <<it, elapsed, sleepMs>>
    /\ UNCHANGED <<completed, args, slept>>

\* The loop condition loads the flag.
Check ==
    /\ waiter = "loop"
    /\ IF completed = 1 THEN Return("NoError") ELSE waiter' = "sleep" /\ UNCHANGED outcome
    /\ UNCHANGED <<completed, args, spins, it, elapsed, sleepMs, slept>>

\* The saturating sum of the sleeps.
Added == IF elapsed > Int64Max - sleepMs THEN Int64Max ELSE elapsed + sleepMs

\* Every BackoffEvery-th sleep doubles a period below the cap.
Backoff == IF sleepMs >= SleepCap THEN sleepMs
           ELSE IF sleepMs * 2 > SleepCap THEN SleepCap ELSE sleepMs * 2

\* Mutant: the loop ends when the next sleep would reach the timeout.
TimeIsUpEarly == Added + sleepMs >= timeout

TimeIsUp == Added >= timeout

\* One sleep (none for a period of zero), the account of the time, and the backoff.
Sleep ==
    /\ waiter = "sleep"
    /\ slept' = IF timeout = Forever THEN slept ELSE slept + sleepMs
    /\ elapsed' = IF timeout = Forever THEN elapsed ELSE Added
    /\ IF timeout # Forever /\ TimeIsUp
       THEN Return("Timeout") /\ UNCHANGED <<it, sleepMs>>
       ELSE /\ waiter' = "loop"
            /\ it' = (it + 1) % BackoffEvery
            /\ sleepMs' = IF it + 1 = BackoffEvery THEN Backoff ELSE sleepMs
            /\ UNCHANGED outcome
    /\ UNCHANGED <<completed, args, spins>>

WaiterStep == Spin \/ Check \/ Sleep

WaitNext == Complete \/ WaiterStep \/ \E r \in Retries, t \in Timeouts : CallWait(r, t)

\* The waiting thread runs; nothing says that the job ever completes.
WaitSpec == WaitInit /\ [][WaitNext]_waitVars /\ WF_waitVars(WaiterStep)

-----------------------------------------------------------------------------
(* Properties                                                              *)

\* A wait with a timeout and a retry period returns though the job never completes.
\* (With a period of zero it may not: the sum of the sleeps stays zero.)
TimeoutEndsWait == (waiter # "idle" /\ timeout > 0 /\ retry > 0) ~> waiter = "idle"

\* A timeout is reported neither early nor more than one sleep late, and a wait for ever
\* never times out.  The sum of the sleeps that decides it stays within an int64_t.
TimeoutIsExact ==
    /\ elapsed \in 0..Int64Max
    /\ outcome = "Timeout" /\ waiter = "idle" =>
          /\ timeout # Forever
          /\ slept >= timeout
          /\ slept - sleepMs < timeout
=============================================================================
